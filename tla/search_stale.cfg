SPECIFICATION Spec
CONSTANTS
    Rec = {0, 1, 2, 3, 4}
    RootRec = 0
    Name = {"root", "a", "b", "ab", "Ab"}
    NoNode = NoNode
    MaxNodes = 5
    ClimbGuard = 4
    Cluster = 4
    Spell <- MCSpell
    Window = 3
    MaskTerms = 1
    Mfts <- FewMfts
    Excluded <- PathAbAb
    Changes <- MCChanges
    MaxGen = 1
    Queries <- FewQueries
    MinOrdered = 2
    Drive = 99
INVARIANTS AnswersCurrent
CHECK_DEADLOCK FALSE
