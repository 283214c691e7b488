---------------------------- MODULE MetricsExport ----------------------------
(***************************************************************************)
(* Stats.RegisterPrometheus (pkg/signatures/metrics/stats.go): three     *)
(* collectors, events_total, detections_total and signatures_total, are  *)
(* registered one after the other with prometheus.Register on the default *)
(* registry; the first error is returned at once.  Register fails when a *)
(* collector with the same fully-qualified name is already registered     *)
(* (AlreadyRegisteredError, or a duplicate descriptor).  Several Stats   *)
(* of one process (one per engine) register concurrently; collectors of  *)
(* other code that hold one of the names are the environment.             *)
(***************************************************************************)
EXTENDS Naturals, Sequences

CONSTANTS
    StatsSet,       \* the Stats values that call RegisterPrometheus
    ForeignNames    \* names other code has registered before

\* Fault variant of Metrics: the detections collector copies the events
\* collector's name.
MetricsCopyPaste == <<"events_total", "events_total", "signatures_total">>

\* The collectors, in the order the code registers them.
Metrics == <<"events_total", "detections_total", "signatures_total">>

Names == {Metrics[j] : j \in 1..Len(Metrics)}

VARIABLES
    registry,   \* each name: "free", held by "other" collectors, or by a Stats
    next,       \* next[s]: the index of s's next prometheus.Register call
    err         \* err[s]: "none" while running, then "nil" or "error"

metVars == <<registry, next, err>>

MetInit ==
    /\ registry = [n \in Names |-> IF n \in ForeignNames THEN "other" ELSE "free"]
    /\ next = [s \in StatsSet |-> 1]
    /\ err = [s \in StatsSet |-> "none"]

\* Fault variant of RegisterNext: the error of a Register is not checked.
RegisterNextIgnoresError(s) ==
    LET n == Metrics[next[s]]
    IN  /\ err[s] = "none" /\ next[s] <= Len(Metrics)
        /\ registry' = IF registry[n] = "free" THEN [registry EXCEPT ![n] = s] ELSE registry
        /\ next' = [next EXCEPT ![s] = @ + 1]
        /\ UNCHANGED err

\* err = prometheus.Register(...); if err != nil { return err }
RegisterNext(s) ==
    LET n == Metrics[next[s]]
    IN  /\ err[s] = "none" /\ next[s] <= Len(Metrics)
        /\ IF registry[n] = "free"
           THEN registry' = [registry EXCEPT ![n] = s] /\ next' = [next EXCEPT ![s] = @ + 1]
                /\ UNCHANGED err
           ELSE err' = [err EXCEPT ![s] = "error"] /\ UNCHANGED <<registry, next>>

\* return nil
Registered(s) ==
    /\ err[s] = "none" /\ next[s] > Len(Metrics)
    /\ err' = [err EXCEPT ![s] = "nil"]
    /\ UNCHANGED <<registry, next>>

MetNext == \E s \in StatsSet : RegisterNext(s) \/ Registered(s)

MetSpec == MetInit /\ [][MetNext]_metVars
-----------------------------------------------------------------------------
\* The names Stats s exports.
Exported(s) == {n \in Names : registry[n] = s}

(* RegisterPrometheus reports success exactly when every counter of its  *)
(* Stats is exported, whatever the other Stats do meanwhile: nil is       *)
(* returned only if all three names are registered to this Stats, and an *)
(* error only if one of them is not.                                      *)
NilIffAllExported ==
    \A s \in StatsSet : err[s] # "none" => (err[s] = "nil" <=> Exported(s) = Names)

(* A failed registration leaves nothing of its Stats registered, so the  *)
(* endpoint never mixes the counters of two engines.  The code registers *)
(* with no lock and returns on the first error: this holds only because  *)
(* every Stats registers the names in the same order.                     *)
RegistrationAtomic ==
    \A s \in StatsSet : err[s] = "error" => Exported(s) = {}
====
