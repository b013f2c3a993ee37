\* The clock is set twice, the program restarts once.
CONSTANTS
    FileNumbers = 3
    Validity = 3
    Retry = 1
    Overlap = FALSE
    MaxClockBack = 1
    MaxClockSets = 2
    MaxRestarts = 1
SPECIFICATION FairSpec
PROPERTY ExpiredRemoved
CHECK_DEADLOCK FALSE
