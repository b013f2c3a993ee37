\* Races: late modem reports, stale timeouts, restarts.
CONSTANTS
    DialAttemptsEU = 2
    ManualCanCancel = TRUE
    AutoAnswers = TRUE
    Prompt = FALSE
    EndReported = FALSE
    MaxStimuli = 2
    MaxQueue = 2
SPECIFICATION Spec
INVARIANTS TypeOK TimerFitsState CallFitsState Supervised SavedFitsState
PROPERTIES ImplementsStages
\* The machine waits for the driver when it is OFF.
CHECK_DEADLOCK FALSE
