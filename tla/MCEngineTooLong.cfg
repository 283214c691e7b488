\* Input files that may hold a line over bufio.Scanner's token limit.
CONSTANTS
    Files <- MCFiles
    Sigs <- MCSigs
    MCSigs = {"LdPreload"}
    FailingInit = {}
    QueueCap = 1
    SinkCap = 1
    EmptyOriginIsWildcard = TRUE
    MaxLines = 2
    PoolEvents <- TooLongPool
    Outcome <- MCOutcome
SPECIFICATION Spec
INVARIANT InputFullyConsumed
CHECK_DEADLOCK FALSE
