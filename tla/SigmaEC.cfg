SPECIFICATION MCSpec
CONSTANTS
    G <- MCG
    q <- MCOrder
    g <- MCGenerator
    Mul <- MCMul
    Inv <- MCInv
    Exp <- ExpEC
    Protos <- AllProtos
    SoundnessParams = {1, 2, 4}
    Secrets = {0, 1, 3}
    HashValues <- AllHashValues
    Base = 2
    TBytes = 2
    Compounds = {"And", "OrTwo", "OrMultiple"}
    Lens = {2, 3}
    PartKinds = {"Dlog", "DH"}
    Proven <- MCProven
    Claimed <- MCClaimed
    PartCoins <- MCPartCoins
    XorByte <- MCXor
    FieldAdd <- GF4Add
    FieldMul <- GF4Mul
    MaxProofs = 2
CHECK_DEADLOCK FALSE
INVARIANTS
    TranscriptAccepted
    SpecialSoundness
    CompoundAccepted
    KPartsAnswerTwice
