SPECIFICATION Spec
CONSTANTS
    c = c
    Vol = {c}
    MaxRescans = 1
    Weathers <- RescanWeathers
INVARIANTS NothingLost
CHECK_DEADLOCK FALSE
