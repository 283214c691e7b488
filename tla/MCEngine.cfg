CONSTANTS
    Files <- MCFiles
    Sigs <- MCSigs
    MCSigs = {"LdPreload", "HiddenFileCreated", "DefaultLoaderModification",
              "CgroupNotifyOnReleaseModification", "DockerAbuse", "codeInjection"}
    FailingInit <- MCFailingInit
    QueueCap = 1
    SinkCap = 1
    EmptyOriginIsWildcard = TRUE
    MaxLines = 2
    PoolEvents <- ScenarioPool
    Outcome <- MCOutcome
SPECIFICATION Spec
INVARIANT ScenarioFindings
INVARIANT TypeOK
PROPERTY ImplementsDetectionSpec
PROPERTY EngineTerminates
CHECK_DEADLOCK FALSE
