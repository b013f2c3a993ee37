\* A session after another, with the periodic update at any point.
CONSTANTS
    CallStates <- TwoCallStates
    MsdStates <- TwoMsdStates
    NetworkStates <- TwoStates
    Cells <- OneCell
    MaxSessions = 2
    MaxRecords = 3
SPECIFICATION Spec
INVARIANTS TypeOK SessionPure FileComplete NetworkTold CallTold MsdTold
CHECK_DEADLOCK FALSE
