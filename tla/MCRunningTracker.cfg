\* The default 5 s timeout is 25 polls of 200 ms; 6 polls let the process
\* become ready before, at and after the last poll, or die in between.
CONSTANTS
    TimeoutPolls = 6
SPECIFICATION RTSpec
INVARIANT RTTypeOK
PROPERTY TestEnds
\* The test ends: done or failed are final.
CHECK_DEADLOCK FALSE
