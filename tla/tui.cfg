SPECIFICATION UiSpec
CONSTANTS
    UiPlans <- MCUiPlans
    Ahead = 1
INVARIANT RowsOfThisQuery
PROPERTIES ActsAsAsked ScanEnds
CHECK_DEADLOCK FALSE
