\* The code's depth of 20.
CONSTANTS
    Stacks <- MCStacks
    CallersDepth = 20
    MaxUser = 3
SPECIFICATION CISpec
INVARIANT CallerReported
\* getCallerInfo returns (or panics): the final state has no successor.
CHECK_DEADLOCK FALSE
