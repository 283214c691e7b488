\* Scenario D and the e2e workloads under the selector index of spec.md
\* 4.3 read literally: an unset Origin matches only events whose origin is
\* the empty string.
CONSTANTS
    Files <- MCFiles
    Sigs <- MCSigs
    MCSigs = {"codeInjection", "e2eFtraceHook", "e2eIPv4"}
    FailingInit = {}
    QueueCap = 1
    SinkCap = 1
    EmptyOriginIsWildcard = FALSE
    MaxLines = 1
    PoolEvents <- OriginPool
    Outcome <- MCOutcome
SPECIFICATION Spec
INVARIANT SelectedEventsDetected
CHECK_DEADLOCK FALSE
