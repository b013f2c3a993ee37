SPECIFICATION FairSpec
CONSTANTS
    OFF = OFF
    ON = ON
    ERROR = ERROR
    NoState = NoState
    Value <- TwoValues
    InitValue = OFF
    SNModulus = 3
    InitSN = 2
    SyncsAtStart = FALSE
    SyncsOnRequest = FALSE
    RequestsArrive = TRUE
    MaxUpdates = 3
    MaxRestarts = 0
    MaxQueue = 2
PROPERTY ChangeReachesMcu
CHECK_DEADLOCK FALSE
