CONSTANTS
    Objects = {a, b}
    Limit = 2
    LineLimit = 2
    MaxBytes = 4
    Delays <- MCDelays
    ActiveChunk = 1
    IdleChunk = 1
    MaxSequence = 3
    MaxTime = 1

SPECIFICATION Spec
INVARIANTS
    TypeOK
    QueueConsistent
    FairRotation
PROPERTY InOrderPerExecutor
SYMMETRY Symmetry
