--------------------------- MODULE RunningTracker ---------------------------
(***************************************************************************)
(* The test harness of tests/testutils/tracker.go as the perf test        *)
(* TestMetricsandPprofExist uses it: Start checks for a running tracker,  *)
(* starts the process in the background (ExecCmdBgWithSudoAndCtx) and     *)
(* polls its health endpoint every readinessPollTime until it answers or  *)
(* the timeout passes; each outcome is sent on the unbuffered channel     *)
(* isReady by a goroutine of its own (imReady), which blocks until the    *)
(* test reads it.  The test fails unless the status is TrackerStarted,    *)
(* and otherwise runs its checks and calls Stop, which cancels the        *)
(* process's context and drains cmdStatus until it is closed.  An error  *)
(* returned by Start, or a failed check, ends the test (require.NoError)  *)
(* before it reads the status or calls Stop.                              *)
(*                                                                         *)
(* Time is counted in polls.  The process, the health endpoint and the    *)
(* background command's status channel are the environment: the process  *)
(* may become ready, may die, and exits once its context is cancelled;   *)
(* cmdStatus may carry an error (the exit status) and is closed after it  *)
(* exited.                                                                 *)
(***************************************************************************)
EXTENDS Naturals

CONSTANTS
    TimeoutPolls   \* timeout / readinessPollTime

VARIABLES
    startPC,    \* "check", "exec", "poll", "returned"
    polls,      \* readiness polls so far
    pid,        \* 0 until the process is started
    proc,       \* the process: "none", "starting", "ready", "exited"
    cancelled,  \* r.cancel() was called
    cmdClosed,  \* cmdStatus has been closed
    cmdErr,     \* cmdStatus delivered an error before it was closed
    sending,    \* the status an imReady goroutine is blocked sending, or "none"
    startErr,   \* Start returns a non-nil error
    testPC      \* "start", "run", "stop", "done", "failed"

rtVars == <<startPC, polls, pid, proc, cancelled, cmdClosed, cmdErr, sending, startErr, testPC>>

\* NewRunningTracker: nothing started yet.
RTInit ==
    /\ startPC = "check" /\ polls = 0 /\ pid = 0 /\ proc = "none"
    /\ cancelled = FALSE /\ cmdClosed = FALSE /\ cmdErr = FALSE /\ sending = "none"
    /\ startErr = FALSE /\ testPC = "start"

\* imReady(s) and goto exit / break: Start returns.
ImReady(s) == sending' = s /\ startPC' = "returned"

\* isTrackerAlreadyRunning(): pgrep finds a tracker, or not.
CheckRunning ==
    /\ startPC = "check"
    /\ \/ ImReady("AlreadyRunning")
       \/ startPC' = "exec" /\ UNCHANGED sending
    /\ UNCHANGED <<polls, pid, proc, cancelled, cmdClosed, cmdErr, startErr, testPC>>

\* ExecCmdBgWithSudoAndCtx: an error (returned by Start), or the process
\* is started.
Exec ==
    /\ startPC = "exec"
    /\ \/ ImReady("Failed") /\ startErr' = TRUE /\ UNCHANGED <<pid, proc>>
       \/ pid' = 1 /\ proc' = "starting" /\ startPC' = "poll"
          /\ UNCHANGED <<sending, startErr>>
    /\ UNCHANGED <<polls, cancelled, cmdClosed, cmdErr, testPC>>

\* Fault variant of Poll: the timeout compares one poll late.
PollLate ==
    /\ startPC = "poll"
    /\ \/ proc = "ready" /\ ImReady("Started") /\ UNCHANGED polls
       \/ /\ polls + 1 > TimeoutPolls + 1
          /\ ImReady("Timedout") /\ polls' = polls + 1
       \/ /\ polls + 1 <= TimeoutPolls + 1
          /\ polls' = polls + 1 /\ UNCHANGED <<startPC, sending>>
    /\ UNCHANGED <<pid, proc, cancelled, cmdClosed, cmdErr, startErr, testPC>>

\* Fault variant of Poll: the timeout branch breaks without imReady.
PollTimeoutSilent ==
    /\ startPC = "poll"
    /\ \/ proc = "ready" /\ ImReady("Started") /\ UNCHANGED polls
       \/ /\ polls + 1 > TimeoutPolls
          /\ startPC' = "returned" /\ polls' = polls + 1 /\ UNCHANGED sending
       \/ /\ polls + 1 <= TimeoutPolls
          /\ polls' = polls + 1 /\ UNCHANGED <<startPC, sending>>
    /\ UNCHANGED <<pid, proc, cancelled, cmdClosed, cmdErr, startErr, testPC>>

\* One iteration of the readiness loop: sleep, IsReady(), then the timeout.
\* IsReady is true only when the endpoint answers 200; a request may fail.
Poll ==
    /\ startPC = "poll"
    /\ \/ proc = "ready" /\ ImReady("Started") /\ UNCHANGED polls
       \/ /\ polls + 1 > TimeoutPolls
          /\ ImReady("Timedout") /\ polls' = polls + 1
       \/ /\ polls + 1 <= TimeoutPolls
          /\ polls' = polls + 1 /\ UNCHANGED <<startPC, sending>>
    /\ UNCHANGED <<pid, proc, cancelled, cmdClosed, cmdErr, startErr, testPC>>

\* The test calls Start (which runs as the steps above); require.NoError on
\* its error fails the test before the status is read.
StartFailed ==
    /\ testPC = "start" /\ startPC = "returned" /\ startErr
    /\ testPC' = "failed"
    /\ UNCHANGED <<startPC, polls, pid, proc, cancelled, cmdClosed, cmdErr, sending, startErr>>

\* r := <-ready; a status other than TrackerStarted fails the test.
Receive ==
    /\ testPC = "start" /\ startPC = "returned" /\ ~startErr /\ sending # "none"
    /\ sending' = "none"
    /\ testPC' = IF sending = "Started" THEN "run" ELSE "failed"
    /\ UNCHANGED <<startPC, polls, pid, proc, cancelled, cmdClosed, cmdErr, startErr>>

\* checkIfMetricsExist and checkIfPprofExist; require.NoError on either
\* error fails the test, else running.Stop() follows.
RunChecks ==
    /\ testPC = "run"
    /\ testPC' \in {"stop", "failed"}
    /\ UNCHANGED <<startPC, polls, pid, proc, cancelled, cmdClosed, cmdErr, sending, startErr>>

\* Stop: cancel the context, then drain cmdStatus (StopDrain).  Its early
\* return for pid == 0 is only reachable when Start started nothing, and
\* this test has failed before calling Stop in every such case.
StopCancel ==
    /\ testPC = "stop" /\ pid # 0 /\ ~cancelled
    /\ cancelled' = TRUE
    /\ UNCHANGED <<startPC, polls, pid, proc, cmdClosed, cmdErr, sending, startErr, testPC>>

\* Stop returns the errors read from cmdStatus; require.Empty on them fails
\* the test.
StopDrain ==
    /\ testPC = "stop" /\ cancelled /\ cmdClosed
    /\ testPC' = IF cmdErr THEN "failed" ELSE "done"
    /\ UNCHANGED <<startPC, polls, pid, proc, cancelled, cmdClosed, cmdErr, sending, startErr>>

\* The environment: the process gets ready, dies, or is killed by the
\* cancelled context; the background command closes cmdStatus after exit,
\* having sent the exit error or not.
ProcReady ==
    /\ proc = "starting" /\ proc' = "ready"
    /\ UNCHANGED <<startPC, polls, pid, cancelled, cmdClosed, cmdErr, sending, startErr, testPC>>

ProcExit ==
    /\ proc \in {"starting", "ready"}
    /\ proc' = "exited"
    /\ UNCHANGED <<startPC, polls, pid, cancelled, cmdClosed, cmdErr, sending, startErr, testPC>>

CmdDone ==
    /\ proc = "exited" /\ ~cmdClosed
    /\ cmdClosed' = TRUE /\ cmdErr' \in BOOLEAN
    /\ UNCHANGED <<startPC, polls, pid, proc, cancelled, sending, startErr, testPC>>

RTNext ==
    \/ CheckRunning \/ Exec \/ Poll \/ StartFailed \/ Receive \/ RunChecks
    \/ StopCancel \/ StopDrain
    \/ ProcReady \/ ProcExit \/ CmdDone

\* Every goroutine runs when it can, and a cancelled process is killed:
\* the killing is weakly fair; a process that was not cancelled may run
\* forever, so ProcExit is not fair on its own.
RTSpec ==
    /\ RTInit /\ [][RTNext]_rtVars
    /\ WF_rtVars(CheckRunning \/ Exec \/ Poll \/ StartFailed \/ Receive \/ RunChecks
                \/ StopCancel \/ StopDrain)
    /\ WF_rtVars(cancelled /\ ProcExit)
    /\ WF_rtVars(CmdDone)
-----------------------------------------------------------------------------
(* Type invariant of the harness state. *)
RTTypeOK ==
    /\ startPC \in {"check", "exec", "poll", "returned"}
    /\ polls \in 0..(TimeoutPolls + 1)
    /\ proc \in {"none", "starting", "ready", "exited"}
    /\ sending \in {"none", "AlreadyRunning", "Failed", "Started", "Timedout"}

(* Start always hands the test a status: whichever way Start returns, the *)
(* imReady goroutine's send is received and the test ends, passing or     *)
(* failing, instead of blocking on <-ready.                              *)
TestEnds == <>(testPC \in {"done", "failed"})
====
