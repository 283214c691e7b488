--------------------------- MODULE MCMetricsExport ---------------------------
(* Four Stats of one process, four engines each with its own counters. *)
EXTENDS MetricsExport

CONSTANTS st1, st2, st3, st4

MCStatsSet == {st1, st2, st3, st4}
====
