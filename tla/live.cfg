SPECIFICATION FairSpec
CONSTANTS
    Rec = {0, 1, 2, 3, 4}
    RootRec = 0
    Name = {"a", "b"}
    NoNode = NoNode
    MaxNodes = 9
    ClimbGuard = 5
    Cluster = 4
    Regimes <- MCRegimes
INVARIANTS TreeSound TotalsExact Mirror PrunedTogether
PROPERTIES CatchesUp
CHECK_DEADLOCK FALSE
