------------------------------- MODULE Engine -------------------------------
(***************************************************************************)
(* The signature engine of tracker-rules (spec.md 4.3, 5, 7), fed by the  *)
(* JSON input goroutine of JsonInput and running the signatures of        *)
(* Signatures.  The engine's code is not in this repository: its actions *)
(* follow spec.md.  One dispatch loop receives events from the input      *)
(* channel, counts them and sends each to the channel of every loaded     *)
(* signature one of whose selectors matches it; one worker per signature  *)
(* calls OnEvent for the events of its channel in order; the finding      *)
(* callback puts a finding on the bounded output channel (blocking when   *)
(* it is full) and counts it; an external reporter drains that channel.   *)
(* When the input channel is closed each signature gets OnSignal once its *)
(* worker is idle and its channel empty, then all are closed.             *)
(***************************************************************************)
EXTENDS Naturals, Sequences, FiniteSets, JsonInput, Signatures

CONSTANTS
    Sigs,                  \* the registry (signature type names)
    FailingInit,           \* registry entries whose Init has an error path
    QueueCap,              \* capacity of a signature's event channel
    SinkCap,               \* capacity of the finding channel
    EmptyOriginIsWildcard  \* the index reads an unset selector Origin as "*"

ASSUME QueueCap \in Nat \ {0} /\ SinkCap \in Nat \ {0}

VARIABLES
    phase,       \* "loading", "running", "draining", "stopped", "crashed"
    sigState,    \* [Sigs -> {"new", "ready", "failed", "signalled", "closed"}]
    dispatched,  \* the events received, in arrival order
    pending,     \* loaded signatures the current event still has to be sent to
    queue,       \* queue[s]: indices of the events in s's channel
    worker,      \* worker[s]: [idx, left] event being handled, callbacks to go
    handled,     \* handled[s]: indices of the events whose OnEvent returned
    sink,        \* the finding channel: findings <<s, i>>
    reported,    \* findings the reporter has taken
    stats        \* metrics.Stats: [Events, Signatures, Detections]

engineVars == <<phase, sigState, dispatched, pending, queue, worker, handled,
                sink, reported, stats>>
vars == <<inputVars, engineVars>>

Idle == [idx |-> 0, left |-> 0]

\* The selector index: an unset Origin is either literal or the wildcard.
NormOrigin(o) == IF o = NoOrigin /\ EmptyOriginIsWildcard THEN "*" ELSE o

SelectorMatches(sel, e) ==
    /\ sel.source = e.source /\ sel.name = e.name
    /\ NormOrigin(sel.origin) \in {"*", e.origin}

Selected(s, e) == \E sel \in GetSelectedEvents(s) : SelectorMatches(sel, e)

\* The outcome of s.OnEvent(e) (Signatures).
Outcome(s, e) == OnEvent(s, e)

Findings(s, e) == Outcome(s, e).findings

Loaded == {s \in Sigs : sigState[s] \in {"ready", "signalled", "closed"}}

Init ==
    /\ InputInit
    /\ phase = "loading"
    /\ sigState = [s \in Sigs |-> "new"]
    /\ dispatched = <<>>
    /\ pending = {}
    /\ queue = [s \in Sigs |-> <<>>]
    /\ worker = [s \in Sigs |-> Idle]
    /\ handled = [s \in Sigs |-> <<>>]
    /\ sink = <<>>
    /\ reported = <<>>
    /\ stats = [Events |-> 0, Signatures |-> 0, Detections |-> 0]

\* Init then GetSelectedEvents; a failure excludes the entry and loading goes on.
Register(s) ==
    /\ phase = "loading" /\ sigState[s] = "new"
    /\ \/ /\ sigState' = [sigState EXCEPT ![s] = "ready"]
          /\ stats' = [stats EXCEPT !.Signatures = @ + 1]
       \/ /\ s \in FailingInit
          /\ sigState' = [sigState EXCEPT ![s] = "failed"]
          /\ UNCHANGED stats
    /\ UNCHANGED <<inputVars, phase, dispatched, pending, queue, worker, handled, sink, reported>>

\* Start: the workers are started and the dispatch loop begins.
Start ==
    /\ phase = "loading" /\ \A s \in Sigs : sigState[s] # "new"
    /\ phase' = "running"
    /\ UNCHANGED <<inputVars, sigState, dispatched, pending, queue, worker, handled,
                   sink, reported, stats>>

\* The loop takes the next event (rendezvous with the input goroutine),
\* counts it and looks up the signatures to send it to.
Receive ==
    /\ phase = "running" /\ pending = {}
    /\ Send(Pending)
    /\ dispatched' = Append(dispatched, Pending)
    /\ stats' = [stats EXCEPT !.Events = @ + 1]
    /\ pending' = {s \in Sigs : sigState[s] = "ready" /\ Selected(s, Pending)}
    /\ UNCHANGED <<phase, sigState, queue, worker, handled, sink, reported>>

\* Send the current event on s's channel; blocks while the channel is full.
Deliver(s) ==
    /\ s \in pending /\ Len(queue[s]) < QueueCap
    /\ queue' = [queue EXCEPT ![s] = Append(@, Len(dispatched))]
    /\ pending' = pending \ {s}
    /\ UNCHANGED <<inputVars, phase, sigState, dispatched, worker, handled, sink,
                   reported, stats>>

\* s's worker takes the next event and calls OnEvent; a panic ends the process.
Handle(s) ==
    LET i == Head(queue[s])
        r == Outcome(s, dispatched[i])
    IN  /\ sigState[s] = "ready" /\ worker[s] = Idle /\ queue[s] # <<>>
        /\ queue' = [queue EXCEPT ![s] = Tail(@)]
        /\ worker' = [worker EXCEPT ![s] = [idx |-> i, left |-> r.findings]]
        /\ phase' = IF r.panic THEN "crashed" ELSE phase
        /\ UNCHANGED <<inputVars, sigState, dispatched, pending, handled, sink,
                       reported, stats>>

\* Fault variant of Callback: a non-blocking append that ignores the capacity.
CallbackIgnoresCapacity(s) ==
    /\ worker[s].left > 0
    /\ sink' = Append(sink, <<s, worker[s].idx>>)
    /\ stats' = [stats EXCEPT !.Detections = @ + 1]
    /\ worker' = [worker EXCEPT ![s].left = @ - 1]
    /\ UNCHANGED <<inputVars, phase, sigState, dispatched, pending, queue, handled, reported>>

\* The finding callback: the finding is put on the output channel and counted.
Callback(s) ==
    /\ worker[s].left > 0 /\ Len(sink) < SinkCap
    /\ sink' = Append(sink, <<s, worker[s].idx>>)
    /\ stats' = [stats EXCEPT !.Detections = @ + 1]
    /\ worker' = [worker EXCEPT ![s].left = @ - 1]
    /\ UNCHANGED <<inputVars, phase, sigState, dispatched, pending, queue, handled, reported>>

\* OnEvent returns (an error is logged); the worker goes back to its channel.
Finish(s) ==
    /\ worker[s].idx # 0 /\ worker[s].left = 0
    /\ handled' = [handled EXCEPT ![s] = Append(@, worker[s].idx)]
    /\ worker' = [worker EXCEPT ![s] = Idle]
    /\ UNCHANGED <<inputVars, phase, sigState, dispatched, pending, queue, sink,
                   reported, stats>>

\* The input channel is closed: the loop leaves the event path.
EndOfStream ==
    /\ phase = "running" /\ pending = {} /\ inputClosed
    /\ phase' = "draining"
    /\ UNCHANGED <<inputVars, sigState, dispatched, pending, queue, worker, handled,
                   sink, reported, stats>>

\* Fault variant of Signal: the signal is sent without waiting for s's worker.
SignalBeforeDrained(s) ==
    /\ phase = "draining" /\ sigState[s] = "ready"
    /\ sigState' = [sigState EXCEPT ![s] = "signalled"]
    /\ UNCHANGED <<inputVars, phase, dispatched, pending, queue, worker, handled,
                   sink, reported, stats>>

\* OnSignal(end of stream), once s has finished every event sent to it.
Signal(s) ==
    /\ phase = "draining" /\ sigState[s] = "ready"
    /\ queue[s] = <<>> /\ worker[s] = Idle
    /\ sigState' = [sigState EXCEPT ![s] = "signalled"]
    /\ UNCHANGED <<inputVars, phase, dispatched, pending, queue, worker, handled,
                   sink, reported, stats>>

\* Close(), after every loaded signature has been signalled.
Close(s) ==
    /\ phase = "draining" /\ sigState[s] = "signalled"
    /\ \A t \in Sigs : sigState[t] # "ready"
    /\ sigState' = [sigState EXCEPT ![s] = "closed"]
    /\ UNCHANGED <<inputVars, phase, dispatched, pending, queue, worker, handled,
                   sink, reported, stats>>

Stop ==
    /\ phase = "draining"
    /\ \A s \in Sigs : sigState[s] \in {"failed", "closed"}
    /\ phase' = "stopped"
    /\ UNCHANGED <<inputVars, sigState, dispatched, pending, queue, worker, handled,
                   sink, reported, stats>>

\* The external reporter takes a finding off the output channel.
Report ==
    /\ sink # <<>>
    /\ reported' = Append(reported, Head(sink))
    /\ sink' = Tail(sink)
    /\ UNCHANGED <<inputVars, phase, sigState, dispatched, pending, queue, worker,
                   handled, stats>>

Alive == phase # "crashed"

Next ==
    /\ Alive
    /\ \/ InputNext /\ UNCHANGED engineVars
       \/ Receive
       \/ \E s \in Sigs : Register(s) \/ Deliver(s) \/ Handle(s) \/ Callback(s)
                          \/ Finish(s) \/ Signal(s) \/ Close(s)
       \/ Start \/ EndOfStream \/ Stop \/ Report

\* Every goroutine (input, loop, workers, reporter) runs while it can.  No
\* step undoes progress (each one moves the input, an index, a counter or a
\* lifecycle state forward), so weak fairness of the whole next-state
\* relation already forbids every goroutine from stalling while enabled.
Fairness == WF_vars(Next)

Spec == Init /\ [][Next]_vars /\ Fairness
-----------------------------------------------------------------------------
\* The events that the input files of the model contain.
FileEvents == UNION {{f[k].ev : k \in {j \in 1..Len(f) : EventLine(f[j])}} : f \in Files}

Found == {sink[k] : k \in 1..Len(sink)} \cup {reported[k] : k \in 1..Len(reported)}

TypeOK ==
    /\ phase \in {"loading", "running", "draining", "stopped", "crashed"}
    /\ sigState \in [Sigs -> {"new", "ready", "failed", "signalled", "closed"}]
    /\ pending \subseteq Sigs
    /\ \A s \in Sigs : Len(queue[s]) <= QueueCap /\ worker[s].left \in Nat
    /\ Len(sink) <= SinkCap
    /\ stats \in [{"Events", "Signatures", "Detections"} -> Nat]

(* The engine implements DetectionSpec: per-signature delivery in arrival *)
(* order of exactly the matching events, no call to a signature whose     *)
(* Init failed, findings accepted before OnEvent returns, OnSignal only   *)
(* after a signature's last event returned, Close only after every        *)
(* signature got the signal.                                              *)
Abstract == INSTANCE DetectionSpec
    WITH Events <- FileEvents,
         busy <- [s \in Sigs |-> worker[s].idx],
         found <- Found,
         ended <- phase \in {"draining", "stopped"},
         stopped <- phase = "stopped"

ImplementsDetectionSpec == Abstract!Spec

(* Orderly stop (spec.md 4.3, 7): once the input goroutine has closed its *)
(* channel the engine signals and closes every signature and stops, and   *)
(* the reporter gets every finding; no signature's failure prevents it.   *)
EngineTerminates == <>(phase = "stopped" /\ sink = <<>>)

(* A rule gets every event it selects: when the engine stops, each        *)
(* finding a loaded signature's OnEvent raises on a dispatched event it   *)
(* selects has been delivered.  Scenario D of spec.md 8 (ptrace           *)
(* PTRACE_POKETEXT to the code-injection rule) and the e2e suites'        *)
(* workloads (the ftrace_hook and IPv4 rules) rely on it.                 *)
SelectedEventsDetected ==
    phase = "stopped" =>
        \A i \in 1..Len(dispatched), s \in Sigs :
            /\ Findings(s, dispatched[i]) > 0
            /\ \E sel \in GetSelectedEvents(s) : sel.name = dispatched[i].name
            => <<s, i>> \in Found

(* A clean stop means the whole input was read (spec.md 7: a producer    *)
(* failure is fatal, not an end of stream): when the engine stops, every *)
(* event line of the input file has been dispatched.                    *)
InputFullyConsumed ==
    phase = "stopped" =>
        Len(dispatched) = Cardinality({k \in 1..Len(lines) : EventLine(lines[k])})
=============================================================================
