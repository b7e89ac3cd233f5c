SPECIFICATION CallSpec
CONSTANTS
    Base = 4
    Registers = {}
    Labels = {}
    Lower <- MCLower
    Payloads = {}
    LoadTypes = {}
    Times = {}
    RegisterCounts = {}
    JumpArguments = {}
    RawChunks = {}
    VarValues = {}
    MAX_REGISTER_COUNT = 5
    MaxCalls = 3
    Values <- MCValues
    Arguments <- MCArguments
    MaxArgs = 2
    Methods <- MCMethods
    Contracts <- MCContracts
INVARIANTS
    ExecutesRequestedCalls
    RegistersInFile
    BadArgumentsRefused
CHECK_DEADLOCK FALSE
