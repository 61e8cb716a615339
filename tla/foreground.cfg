SPECIFICATION Spec
CONSTANTS
    Faces = {"wizard", "console"}
    DriveLists <- MCDriveLists
    DraftDigits = {0, 6}
    Dirs = {"plain", "profile"}
    MaxTries = 2
    Plans <- MCPlans
    Machines <- MCMachines
    PathValues <- MCPaths
    MaxRuns = 1
    MaxChanges = 1
INVARIANTS AsksWell ProgramKept PromisesKept
PROPERTIES WordsAsMeant DrawnAsMeant PaneRight PipelinesRun PromptKeeps SetupEnds
CHECK_DEADLOCK FALSE
