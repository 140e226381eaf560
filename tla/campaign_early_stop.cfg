CONSTANTS
    Launchers = {l1, l2}
    MaxConfig = 2
    NoOne = NoOne
    Stale = Stale
    StopUnrecorded = TRUE
    PromptPidFile = {1, 2}
SPECIFICATION Spec
CHECK_DEADLOCK FALSE
INVARIANTS
    CompleteReportable
