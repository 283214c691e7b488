CONSTANTS
    StartStopTimeout = 10
    OutputTimeout = 5
    ExpectedEvts = 2
SPECIFICATION WaitSpec
PROPERTY WaitReturns
INVARIANT WaitTimely
CHECK_DEADLOCK FALSE
