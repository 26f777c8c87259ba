CONSTANTS
    Rows = {r1, r2}
    Sessions = {s1}
    Background = background
    NoBaseline = noBaseline
    MaxTx = 3
    EntryLimit = 2

SPECIFICATION FairSpec
INVARIANTS
    BaselineIsStored
    WorldIsSaved
    RejectedLeavesNoTrace
    PublishedOnlyCommitted
    FlowsBelongToSessions
    CleanExitIsSaved
PROPERTIES
    PublishedInOrder
    DetachedByOwnHandler
    ImplementsDurableWorld
    ShutdownCompletes
