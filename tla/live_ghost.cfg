SPECIFICATION Spec
CONSTANTS
    Rec = {0, 1, 2, 3, 4}
    RootRec = 0
    Name = {"a", "b"}
    NoNode = NoNode
    MaxNodes = 9
    ClimbGuard = 5
    Cluster = 4
    Regimes <- GhostRegimes
INVARIANTS NoGhosts
CHECK_DEADLOCK FALSE
