CONSTANTS
    MaxCommands = 6
    MaxFailures = 4
    LateFailure = TRUE
    Nothing = Nothing
SPECIFICATION DeploySpec
INVARIANTS NothingOrphaned CleanedIsClean
PROPERTIES OnlyOwnRemoved
CHECK_DEADLOCK FALSE
