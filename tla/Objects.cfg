SPECIFICATION ObjectSpec
CONSTANTS
    G <- MCG
    q <- MCOrder
    g <- MCGenerator
    Mul <- MCMul
    Inv <- MCInv
    Exp <- ExpZp
    Schemes = {"ElGamal", "ElGamalBytes", "CramerShoup"}
    Texts <- MCTexts
    TextLen = 2
    Randoms <- MCRandoms
    ElGamalSecrets <- MCSecrets
    CSGenerators <- MCGenerators
    CSSecrets <- MCTuples
    Kdf <- MCKdf
    Hash <- MCHash
    Null = Null
    MaxKeys = 2
    MaxCiphers = 2
    Keys = {k1, k2}
    Block = 4
    cachedSize = 2
    Lengths = {1, 3, 9}
    Widths = {2, 4}
    MaxIndex = 3
    Files <- MCFiles
    Types = {1, 2, 5}
    MaxArranged = 2
    Throws = Throws
    Aborts = Aborts
CHECK_DEADLOCK FALSE
INVARIANTS
    HeldIsEncryption
    DecryptsOwn
    NoByteTwice
    InsideCache
    SameKeySameStream
    Arranged
    
    CommitmentHides
