SPECIFICATION RequestsSpec
CHECK_DEADLOCK FALSE
CONSTANTS
    q1 = q1
    q2 = q2
    q3 = q3
    q4 = q4
    Requests <- MCRequests
    MaxConcurrency = 2
    MinDelay = 1
    MaxRetries = 1
    MaxWaiting = 1
    Cap = 2
    MaxChunks = 4
INVARIANTS
    SlotsSound
    RequestSound
PROPERTIES
    RequestsSettle
