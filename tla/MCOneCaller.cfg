SPECIFICATION FairSpec
CONSTANTS
    Threads = {t1}
    max_response_bytes = 3
    MaxChunk = 2
    MaxCalls = 3
INVARIANTS
    TypeOK
    OwnAnswer
PROPERTIES
    ServiceSpec
CHECK_DEADLOCK FALSE
