---------------------------- MODULE DetectionSpec ----------------------------
(***************************************************************************)
(* What the signature engine promises (spec.md 4.2, 4.3, 5, 8), with no   *)
(* queues, no workers and no sink capacity: events are ingested in        *)
(* arrival order; each registered signature is called with exactly the    *)
(* ingested events its selectors match, one at a time, in arrival order; *)
(* while a call runs the signature may hand its findings to the engine;   *)
(* after the stream ends every registered signature gets the terminal     *)
(* signal once it has handled every matching event, and is closed after  *)
(* all have been signalled.  A signature whose Init failed is never       *)
(* called.                                                                *)
(***************************************************************************)
EXTENDS Naturals, Sequences

CONSTANTS
    Sigs,            \* the signature registry
    Events,          \* the events the producer can emit
    FailingInit,     \* the registry entries whose Init may return an error
    Selected(_, _),  \* Selected(s, e): a selector of s matches event e
    Findings(_, _)   \* Findings(s, e): how many findings OnEvent(e) of s emits

VARIABLES
    sigState,    \* lifecycle of each registry entry
    dispatched,  \* the events ingested, in arrival order
    handled,     \* handled[s]: indices of the events s's OnEvent returned for
    busy,        \* busy[s]: index of the event s is handling, 0 when none
    found,       \* the findings accepted: pairs <<s, i>>
    ended,       \* the input stream is closed and fully ingested
    stopped

vars == <<sigState, dispatched, handled, busy, found, ended, stopped>>

Loaded == {s \in Sigs : sigState[s] # "new" /\ sigState[s] # "failed"}

Registered == \A s \in Sigs : sigState[s] # "new"

\* The index of the next event s must handle: the first matching one after
\* the last it handled, or 0 if there is none yet.
NextFor(s) ==
    LET last == IF handled[s] = <<>> THEN 0 ELSE handled[s][Len(handled[s])]
        M    == {i \in (last + 1)..Len(dispatched) : Selected(s, dispatched[i])}
    IN  IF M = {} THEN 0 ELSE CHOOSE i \in M : \A j \in M : i <= j

Drained(s) == busy[s] = 0 /\ NextFor(s) = 0

Init ==
    /\ sigState = [s \in Sigs |-> "new"]
    /\ dispatched = <<>>
    /\ handled = [s \in Sigs |-> <<>>]
    /\ busy = [s \in Sigs |-> 0]
    /\ found = {}
    /\ ended = FALSE
    /\ stopped = FALSE

Register(s) ==
    /\ sigState[s] = "new"
    /\ \/ sigState' = [sigState EXCEPT ![s] = "ready"]
       \/ s \in FailingInit /\ sigState' = [sigState EXCEPT ![s] = "failed"]
    /\ UNCHANGED <<dispatched, handled, busy, found, ended, stopped>>

Ingest(e) ==
    /\ Registered /\ ~ended
    /\ dispatched' = Append(dispatched, e)
    /\ UNCHANGED <<sigState, handled, busy, found, ended, stopped>>

EndInput ==
    /\ Registered /\ ~ended
    /\ ended' = TRUE
    /\ UNCHANGED <<sigState, dispatched, handled, busy, found, stopped>>

BeginEvent(s) ==
    /\ sigState[s] = "ready" /\ busy[s] = 0 /\ NextFor(s) # 0
    /\ busy' = [busy EXCEPT ![s] = NextFor(s)]
    /\ UNCHANGED <<sigState, dispatched, handled, found, ended, stopped>>

Accept(s) ==
    /\ busy[s] # 0
    /\ Findings(s, dispatched[busy[s]]) > 0
    /\ found' = found \cup {<<s, busy[s]>>}
    /\ UNCHANGED <<sigState, dispatched, handled, busy, ended, stopped>>

\* OnEvent returns only once its findings have been accepted.
EndEvent(s) ==
    /\ busy[s] # 0
    /\ (Findings(s, dispatched[busy[s]]) > 0) = (<<s, busy[s]>> \in found)
    /\ handled' = [handled EXCEPT ![s] = Append(@, busy[s])]
    /\ busy' = [busy EXCEPT ![s] = 0]
    /\ UNCHANGED <<sigState, dispatched, found, ended, stopped>>

Signal(s) ==
    /\ ended /\ sigState[s] = "ready" /\ Drained(s)
    /\ sigState' = [sigState EXCEPT ![s] = "signalled"]
    /\ UNCHANGED <<dispatched, handled, busy, found, ended, stopped>>

Close(s) ==
    /\ sigState[s] = "signalled"
    /\ \A t \in Sigs : sigState[t] # "ready"
    /\ sigState' = [sigState EXCEPT ![s] = "closed"]
    /\ UNCHANGED <<dispatched, handled, busy, found, ended, stopped>>

Stop ==
    /\ ended /\ ~stopped
    /\ \A s \in Sigs : sigState[s] \in {"failed", "closed"}
    /\ stopped' = TRUE
    /\ UNCHANGED <<sigState, dispatched, handled, busy, found, ended>>

Next ==
    \/ \E s \in Sigs : Register(s) \/ BeginEvent(s) \/ Accept(s) \/ EndEvent(s)
                       \/ Signal(s) \/ Close(s)
    \/ \E e \in Events : Ingest(e)
    \/ EndInput
    \/ Stop

Spec == Init /\ [][Next]_vars
=============================================================================
