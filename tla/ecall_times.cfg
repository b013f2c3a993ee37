\* The times of an eCall, with two new calls, a restart and a clock that is set.
CONSTANTS
    Configs <- TwoConfigs
    RedialDelay = 1
    MinCallTime = 1
    U32 = 100
    MaxTime = 5
    MaxCrashes = 1
    MaxClockSets = 1
    MaxTriggers = 2
SPECIFICATION Spec
INVARIANTS TypeOK NotRearmed TimeExact TimerAgrees DialsSpaced
CHECK_DEADLOCK FALSE
