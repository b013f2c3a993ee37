\* Commands wait for the link to the eCall process, which comes and goes.
CONSTANTS
    Traffics <- ThreeTraffics
    MaxCommands = 3
    MaxReports = 3
SPECIFICATION FairSpec
INVARIANTS TypeOK NothingStranded EachOnce OrderKept RoutineAgrees
PROPERTIES CommandsSettle AnnouncedTriggers
CHECK_DEADLOCK FALSE
