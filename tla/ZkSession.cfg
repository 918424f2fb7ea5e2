SPECIFICATION Spec
CONSTANTS
    Base = 2
    T = 2
    q = 5
    Kinds = {"Dlog", "DH", "And"}
    Modes = {"Sigma", "ZK", "ZKPOK", "FiatShamir"}
    Usages = {"documented", "free"}
    MaxProofs = 2
    MaxCalls = 4
    Ids = {5, 6}
    Colon = 1
    Plus = 0
    MayBreak = TRUE
INVARIANTS OneAnswer 
PROPERTIES EveryProofEnds
CHECK_DEADLOCK FALSE
