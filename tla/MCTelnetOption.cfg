CONSTANT MaxRequests = 4

SPECIFICATION TelnetFairSpec
INVARIANTS
    QuietMeansAgreed
    EnabledOnlyIfWanted
PROPERTY NegotiationEnds
CHECK_DEADLOCK FALSE
