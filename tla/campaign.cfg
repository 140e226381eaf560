CONSTANTS
    l1 = l1
    l2 = l2
    Launchers = {l1, l2}
    MaxConfig = 2
    NoOne = NoOne
    Stale = Stale
    StopUnrecorded = FALSE
    PromptPidFile = {2}
SPECIFICATION MCFairSpec
CHECK_DEADLOCK FALSE
INVARIANTS
    OneServer
    CompleteReportable
    CompleteLeavesNone
PROPERTIES
    RotatesOwnLogs
    StopEnds
