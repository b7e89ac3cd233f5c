SPECIFICATION Spec
CONSTANTS
    Bits = 17
    MaxShift = 20
    Configs <- MCConfigs
    Requests <- UnstatedSymbol
    Usages <- MCUsages
INVARIANT DefaultsSafe
CHECK_DEADLOCK FALSE
