SPECIFICATION GarbledSpec
CONSTANTS
    Width = 12
    ByteBits = 2
    Aes <- MixAes
    FixedKey <- MCFixedKey
    Setups <- MCSetups
    OtherFiles <- MCOtherFiles
    Objects = {garbler, evaluator}
    Heap <- MCHeap
    NoValue = NoValue
    Classes = {"Standard", "FreeXor", "RowReduction", "HalfGates", "NoFixedKey", "NoIntrinsics", "FourToTwo"}
    FirstTables = {1, 4, 8, 13}
    LastTables = {6, 2}
    NonXor = {FALSE, TRUE}
SYMMETRY Symmetry
INVARIANTS FilesAgree EvaluatesCircuit InsideTables VerifyAccepts
CHECK_DEADLOCK FALSE
CONSTANT MaxCalls = 5
