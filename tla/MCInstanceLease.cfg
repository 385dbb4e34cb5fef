CONSTANTS
    Process = {p1, p2, p3}
    Nobody = Nobody
    Reply = {1}
    Ttl = 2
    BusyTimeout = 1
    BusyRetryBudget = 2
    BatchLimit = 1
    MaxTime = 2
SPECIFICATION FairSpec
CHECK_DEADLOCK FALSE
INVARIANTS
    FencedWriterIsLatest
    BelievedLeaseIsOwned
    
PROPERTIES
    LostLeaseLeavesService
