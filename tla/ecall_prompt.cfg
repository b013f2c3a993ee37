\* Redials, when redial_delay_time is long enough for the queue.
CONSTANTS
    DialAttemptsEU = 3
    ManualCanCancel = FALSE
    AutoAnswers = TRUE
    Prompt = TRUE
    EndReported = FALSE
    MaxStimuli = 2
    MaxQueue = 2
SPECIFICATION Spec
INVARIANTS AttemptsBounded
CHECK_DEADLOCK FALSE
