CONSTANTS
    Capacity = 2
    WriteTimeout = 1
    ShutdownTimeout = 1
    MaxRequests = 4
    MaxTime = 4

SPECIFICATION FairSpec
INVARIANT RecordsAccounted
PROPERTY OwnerReleased
CHECK_DEADLOCK FALSE
