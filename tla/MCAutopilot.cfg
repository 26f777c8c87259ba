CONSTANTS
    NoSnapshot = NoSnapshot
    MaxQueued = 2
    MaxFeedback = 3
    MaxOrders = 3
    MaxRevision = 5
    MaxAttachments = 2

SPECIFICATION Spec
INVARIANTS
    Validated
    OutcomesReported
PROPERTY GuardedSubmission
CHECK_DEADLOCK FALSE
