\* Two policies, three changes, two transient errors and two foreign
\* writes: enough for a change to land while its key is processed, for
\* an error on each call and for a conflict after a successful Get.
CONSTANTS
    Policies = {p1, p2}
    MaxChanges = 3
    MaxApiErrors = 2
    MaxWrites = 2
SPECIFICATION RecSpec
INVARIANT RecTypeOK
PROPERTY EveryChangeRolledOut
\* Once every bounded environment step is spent and the queue is empty
\* the operator waits for the next change.
CHECK_DEADLOCK FALSE
