SPECIFICATION ExplorerSpec
CONSTANTS
    Root <- MCRoot
    Dirs <- MCDirs
    Files <- MCFiles
    Ranked <- MCRanked
    Plans <- MCPlans
    Byte = {"a", "A", "b", "sp", "cr", "lf", "bom", "nul", "bad", "ctl", "utf16", "utf32"}
    Letters = {"a"}
    Visible = 2
    MaxTries = 3
    MaxBytes = 9
    MaxLines = 4
    MaxLine = 4
INVARIANTS BufferTrue SelectionTrue
PROPERTIES FindKeepsPlace SaveKeepsFiles
CHECK_DEADLOCK FALSE
