\* Rotation, expiry, both timers, restarts and changes of the clock.
CONSTANTS
    FileNumbers = 4
    Validity = 5
    Retry = 2
    Overlap = TRUE
    MaxClockBack = 1
    MaxClockSets = 2
    MaxRestarts = 2
SPECIFICATION Spec
INVARIANTS TypeOK FilesTracked SessionFileKept OneFilePerNumber UpdateWithinSession ExpiryCovered
CHECK_DEADLOCK FALSE
