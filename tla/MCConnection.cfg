CONSTANTS
    Conns = {c1, c2}
    EventCapacity = 1
    OutputCapacity = 2
    Chunks = 2
    MaxReads = 2

SPECIFICATION FairSpec
INVARIANT StatsExact
PROPERTIES
    OwnerReturns
    ConnectionsEnd
CHECK_DEADLOCK FALSE
