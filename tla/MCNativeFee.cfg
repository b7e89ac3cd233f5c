SPECIFICATION Spec
CONSTANTS
    Bits = 17
    MaxShift = 20
    Configs <- MCConfigs
    Requests <- MCRequests
    Usages <- MCUsages
INVARIANTS
    OfferCoversBill
    OfferAdmissible
CHECK_DEADLOCK FALSE
