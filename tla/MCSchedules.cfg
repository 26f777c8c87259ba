CONSTANTS
    g = g
    s = s
    Nobody = Nobody
    Objects = {a, b}
    Globals = {g}
    Attached = {s}
    Cron <- MCCron
    MinuteSeconds = 3
    JitterSeconds = 2
    MaxTime = 8
    MaxRuntimes = 3

SPECIFICATION Spec
INVARIANTS
    JobsAreCurrent
PROPERTY OncePerMinute
SYMMETRY Symmetry
