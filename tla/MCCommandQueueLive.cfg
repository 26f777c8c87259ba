CONSTANTS
    Objects = {a, b}
    Limit = 2
    LineLimit = 2
    MaxBytes = 4
    Delays <- MCDelays
    ActiveChunk = 1
    IdleChunk = 1
    MaxSequence = 2
    MaxTime = 1

SPECIFICATION FairSpec
PROPERTY
    ReadyListsFinish
