SPECIFICATION Spec
CONSTANTS
    Base = 4
    Registers = {1, 256}
    Labels <- MCLabels
    Lower <- MCLower
    Payloads <- MCPayloads
    LoadTypes = {2}
    Times <- MCTimes
    RegisterCounts = {0, 1, 32, 33}
    JumpArguments = {8, 9, 11}
    RawChunks <- MCRaw
    VarValues <- MCVarValues
    MAX_REGISTER_COUNT = 32
    MaxCalls = 5
CONSTRAINT JumpScript
INVARIANTS
    TypeOK
    PatchTable
    PatchFrame
    JumpsLandInside
    DecodesToProgram
PROPERTIES
    FirstErrorReported
CHECK_DEADLOCK FALSE
