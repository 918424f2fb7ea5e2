SPECIFICATION OTLive
CONSTANTS
    G <- MCG
    q <- MCOrder
    g <- MCGenerator
    Mul <- MCMul
    Inv <- MCInv
    Exp <- MCExp
    Protocols = {"SemiHonest", "PrivacyOnly", "OneSided", "FullSim", "FullSimROM", "UC"}
    Kinds = {"element", "bytesZp", "bytesEC"}
    Elements <- MCElements
    Texts <- MCTexts
    Kdf <- MCKdf
    Colon = 2
    Xor <- MCXor
    References <- MCReferences
    None = None
CHECK_DEADLOCK FALSE
INVARIANTS
    ReceivesChosen
    NothingElseLearned
    ChoiceHidden

    
