SPECIFICATION FairSpec
CONSTANTS
    Threads = {t1, t2}
    max_response_bytes = 3
    MaxChunk = 2
    MaxCalls = 1
INVARIANTS
    AcceptedIdMatches
    ResponsesClosed
PROPERTIES
    CallsReturn
CHECK_DEADLOCK FALSE
