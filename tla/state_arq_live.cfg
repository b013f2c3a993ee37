SPECIFICATION FairSpec
CONSTANTS
    OFF = OFF
    ON = ON
    ERROR = ERROR
    NoState = NoState
    Value <- TwoValues
    InitValue = OFF
    SNModulus = 3
    InitSN = 0
    SyncsAtStart = TRUE
    SyncsOnRequest = TRUE
    RequestsArrive = TRUE
    MaxUpdates = 2
    MaxRestarts = 1
    MaxQueue = 2
PROPERTY StateConverges
CHECK_DEADLOCK FALSE
