CONSTANTS
    Rows = {r1, r2}
    Sessions = {s1}
    Background = background
    NoBaseline = noBaseline
    MaxTx = 2
    EntryLimit = 1

SPECIFICATION Spec
INVARIANT DiagnosticsSurvivePersistence
