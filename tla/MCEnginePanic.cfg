\* A raw open event whose flags argument is an integer reaches codeInjection.
CONSTANTS
    Files <- MCFiles
    Sigs <- MCSigs
    MCSigs = {"codeInjection", "LdPreload"}
    FailingInit = {}
    QueueCap = 1
    SinkCap = 1
    EmptyOriginIsWildcard = TRUE
    MaxLines = 1
    PoolEvents <- PanicPool
    Outcome <- MCOutcome
SPECIFICATION Spec
PROPERTY EngineTerminates
CHECK_DEADLOCK FALSE
