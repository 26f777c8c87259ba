CONSTANTS
    Timers = {t1, t2}
    Maximum = 3
    Interval = 3
    StartSeconds <- MCStartSeconds
    StartOffsets <- MCStartOffsets
    NoBaseline = NoBaseline
    MaxSeconds = 32

SPECIFICATION Spec
INVARIANTS
    TypeOK
    LoadAccepts
    RestoresStoredSecond
    IdleLossBounded
PROPERTY QuietBeatsDoNotWrite
