\* The expiry timer fires while a session starts.
CONSTANTS
    FileNumbers = 2
    Validity = 2
    Retry = 1
    Overlap = TRUE
    MaxClockBack = 0
    MaxClockSets = 0
    MaxRestarts = 0
SPECIFICATION Spec
INVARIANT NoTimerDeadlock
CHECK_DEADLOCK FALSE
