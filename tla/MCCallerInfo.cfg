\* CallersDepth stands for the code's 20: at 4 the cap is reached by
\* stacks the model can enumerate.
CONSTANTS
    Stacks <- MCStacks
    CallersDepth = 4
    MaxUser = 3
SPECIFICATION CISpec
INVARIANT ReportedCallerIsFirstFrame
\* getCallerInfo returns (or panics): the final state has no successor.
CHECK_DEADLOCK FALSE
