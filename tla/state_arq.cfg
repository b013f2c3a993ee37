SPECIFICATION Spec
CONSTANTS
    OFF = OFF
    ON = ON
    ERROR = ERROR
    NoState = NoState
    Value <- TwoValues
    InitValue = OFF
    SNModulus = 3
    InitSN = 0
    SyncsAtStart = TRUE
    SyncsOnRequest = TRUE
    RequestsArrive = FALSE
    MaxUpdates = 3
    MaxRestarts = 1
    MaxQueue = 3
INVARIANTS TypeOK PipelineInv AckedIsDelivered
PROPERTY ImplementsSync
CHECK_DEADLOCK FALSE
