SPECIFICATION Spec
CONSTANTS
    Rec = {0, 1, 2, 3}
    RootRec = 0
    Name = {"a"}
    NoNode = NoNode
    MaxNodes = 6
    ClimbGuard = 3
    Cluster = 4
    Seqs = {1, 2}
    Sizes = {0, 2}
    Fresh <- MCFresh
    MaxChanges = 3
INVARIANTS TypeOK TableSound
PROPERTIES IdsStable TotalsKept
CHECK_DEADLOCK FALSE
