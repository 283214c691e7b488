CONSTANTS
 st1 = st1
 st2 = st2
 st3 = st3
 st4 = st4
 StatsSet <- MCStatsSet
 ForeignNames = {}
SPECIFICATION MetSpec
INVARIANT NilIffAllExported
INVARIANT RegistrationAtomic
CHECK_DEADLOCK FALSE
