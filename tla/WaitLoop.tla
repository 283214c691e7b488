------------------------------ MODULE WaitLoop ------------------------------
(***************************************************************************)
(* The wait loops of the integration tests (tests/integration/tracker.go): *)
(* waitForTrackerStart, waitForTrackerStop and waitForTrackerOutputEvents *)
(* each start a status ticker of one second and a timeout ticker, then    *)
(* select on both: a status tick checks a condition (trc.Running(),       *)
(* !trc.Running(), or at least expectedEvts events in the buffer) and     *)
(* returns nil when it holds; the timeout tick returns an error (for the  *)
(* events, only when failOnTimeout).  When both ticks are ready, select   *)
(* picks either.                                                          *)
(*                                                                         *)
(* Time is counted in seconds.  A Go ticker's channel holds one tick; the *)
(* loop does no blocking work between ticks, so every tick is taken       *)
(* before the next second.  The tracker (running, stopping, or adding     *)
(* events to the buffer) is the environment: it makes progress at any     *)
(* moment.  A started tracker stops running when its Run goroutine         *)
(* (startTracker) returns an error; no other progress is undone.           *)
(***************************************************************************)
EXTENDS Naturals

CONSTANTS
    StartStopTimeout,   \* the timeout of waitForTrackerStart/Stop (10 s)
    OutputTimeout,      \* the timeout of waitForTrackerOutputEvents (5 s)
    ExpectedEvts        \* expectedEvts of waitForTrackerOutputEvents

ASSUME StartStopTimeout \in Nat \ {0} /\ OutputTimeout \in Nat \ {0} /\ ExpectedEvts \in Nat \ {0}

Calls == {"start", "stop", "output"}

\* What the caller waits for, stated apart from the code's checks: the
\* tracker runs (1), has stopped (1), or buffered ExpectedEvts events.
Goal(c, l) == IF c = "output" THEN l >= ExpectedEvts ELSE l >= 1

\* The environment's progress never goes beyond what any condition needs.
MaxLevel == ExpectedEvts

\* "never": the condition has not held yet.
Never == StartStopTimeout + OutputTimeout + 1

VARIABLES
    call,           \* which wait function runs
    failOnTimeout,  \* its failOnTimeout argument (TRUE for start and stop)
    now,            \* seconds since the tickers were created
    level,          \* the tracker's progress: running, stopped, or events buffered
    since,          \* history: the second since which the Goal has held, or Never
    runReturned,    \* the Run goroutine of startTracker returned with an error
    statusTick,     \* statusCheckTicker.C holds a tick
    timeoutTick,    \* timeoutTicker.C holds a tick
    result          \* "none" while waiting, then "nil" or "timeout"

waitVars == <<call, failOnTimeout, now, level, since, runReturned, statusTick, timeoutTick, result>>

\* trc.Running() in waitForTrackerStart.
TrackerStarted(l) == l >= 1

\* !trc.Running() in waitForTrackerStop: progress 1 is a stopped tracker.
TrackerStopped(l) == l >= 1

\* Fault variant of EnoughEvents: the count must exceed expectedEvts.
EnoughEventsStrict(l) == l > ExpectedEvts

\* len >= expectedEvts in waitForTrackerOutputEvents.
EnoughEvents(l) == l >= ExpectedEvts

\* The condition a status tick of this call checks.
Satisfied(c, l) ==
    CASE c = "start" -> TrackerStarted(l)
      [] c = "stop"  -> TrackerStopped(l)
      [] c = "output" -> EnoughEvents(l)

TimeoutOf(c) == IF c = "output" THEN OutputTimeout ELSE StartStopTimeout

\* The call begins (after time.Sleep(waitFor) for the events): the tickers
\* are created; the tracker may have made any progress already.
WaitInit ==
    /\ call \in Calls
    /\ failOnTimeout \in IF call = "output" THEN BOOLEAN ELSE {TRUE}
    /\ now = 0
    /\ level \in 0..MaxLevel
    /\ since = IF Goal(call, level) THEN 0 ELSE Never
    /\ runReturned = FALSE
    /\ statusTick = FALSE /\ timeoutTick = FALSE
    /\ result = "none"

\* One second passes: the status ticker ticks, and the timeout ticker when
\* its period is over.  The loop has taken the previous ticks.
Advance ==
    /\ result = "none" /\ ~statusTick /\ ~timeoutTick
    /\ now < TimeoutOf(call)
    /\ now' = now + 1
    /\ statusTick' = TRUE
    /\ timeoutTick' = (now + 1 = TimeoutOf(call))
    /\ UNCHANGED <<call, failOnTimeout, level, since, runReturned, result>>

\* The tracker makes progress (actual.addEvent, Run starting or ending).
Progress ==
    /\ result = "none" /\ level < MaxLevel /\ ~runReturned
    /\ level' = level + 1
    /\ since' = IF since = Never /\ Goal(call, level + 1) THEN now ELSE since
    /\ UNCHANGED <<call, failOnTimeout, now, runReturned, statusTick, timeoutTick, result>>

\* go func() { err := trc.Run(ctx); if err != nil { errChan <- ... } }():
\* Run fails after the tracker started, so trc.Running() is false again.
RunFails ==
    /\ result = "none" /\ call = "start" /\ level = 1 /\ ~runReturned
    /\ level' = 0 /\ runReturned' = TRUE /\ since' = Never
    /\ UNCHANGED <<call, failOnTimeout, now, statusTick, timeoutTick, result>>

\* case <-statusCheckTicker.C: check the condition, return nil if it holds.
StatusCheck ==
    /\ result = "none" /\ statusTick
    /\ statusTick' = FALSE
    /\ result' = IF Satisfied(call, level) THEN "nil" ELSE "none"
    /\ UNCHANGED <<call, failOnTimeout, now, level, since, runReturned, timeoutTick>>

\* Fault variant of TimeoutFires: without failOnTimeout the case falls
\* through to the loop instead of returning nil.
TimeoutFiresNoReturn ==
    /\ result = "none" /\ timeoutTick
    /\ timeoutTick' = FALSE
    /\ result' = IF failOnTimeout THEN "timeout" ELSE "none"
    /\ UNCHANGED <<call, failOnTimeout, now, level, since, runReturned, statusTick>>

\* case <-timeoutTicker.C: an error, or nil when !failOnTimeout.
TimeoutFires ==
    /\ result = "none" /\ timeoutTick
    /\ timeoutTick' = FALSE
    /\ result' = IF failOnTimeout THEN "timeout" ELSE "nil"
    /\ UNCHANGED <<call, failOnTimeout, now, level, since, runReturned, statusTick>>

WaitNext == Advance \/ Progress \/ RunFails \/ StatusCheck \/ TimeoutFires

\* Time passes and the select takes a ready tick; the tracker's progress
\* is not assumed.
WaitSpec ==
    /\ WaitInit /\ [][WaitNext]_waitVars
    /\ WF_waitVars(Advance) /\ WF_waitVars(StatusCheck) /\ WF_waitVars(TimeoutFires)
-----------------------------------------------------------------------------
(* A wait does not time out when the condition held in time: if it has   *)
(* held without a break since two seconds before the timeout (so that a   *)
(* status tick before the timeout tick sees it), the call returns nil.    *)
(* A condition that first holds in the last second races the timeout in  *)
(* the select, and a tracker that ran only between two status ticks is   *)
(* never seen running.                                                    *)
WaitTimely ==
    result = "timeout" => since + 2 > TimeoutOf(call)

(* Every wait returns: the select never blocks once the timeout ticker    *)
(* has fired, whatever the tracker does.                                  *)
WaitReturns == <>(result # "none")
====
