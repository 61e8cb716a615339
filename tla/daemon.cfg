SPECIFICATION FairSpec
CONSTANTS
    c = c
    d = d
    Vol = {c, d}
    MaxRescans = 1
    Weathers <- MCWeathers
INVARIANTS NothingLost Restartable
PROPERTIES Follows ClaimNotResumed ServedInTheEnd
CHECK_DEADLOCK FALSE
