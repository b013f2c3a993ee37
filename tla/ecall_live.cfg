\* Every eCall ends.
CONSTANTS
    DialAttemptsEU = 2
    ManualCanCancel = TRUE
    AutoAnswers = TRUE
    Prompt = FALSE
    EndReported = TRUE
    MaxStimuli = 2
    MaxQueue = 1
SPECIFICATION FairSpec
PROPERTIES ECallEnds InterruptedResumes
CHECK_DEADLOCK FALSE
