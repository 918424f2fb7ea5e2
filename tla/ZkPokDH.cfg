SPECIFICATION Spec
CONSTANTS
    Base = 4
    T = 2
    q = 17
    Kinds = {"DH"}
    Modes = {"ZKPOK"}
    Usages = {"documented"}
    MaxProofs = 1
    MaxCalls = 1
    Ids = {5}
    Colon = 3
    Plus = 2
    MayBreak = FALSE
INVARIANT DecommittedIsAnswered
CHECK_DEADLOCK FALSE
