# TLA+ models of tracker-rules

These modules model the detection pipeline of `tracker-rules`:

- the JSON input goroutine (`src/cmd/tracker-rules/input.go`);
- the signature engine that routes events to detection rules (`spec.md` §4–§8; its code is not in this repository);
- the rules themselves (`src/signatures/golang/*.go` and the benchmark `codeInjection`, `src/pkg/signatures/benchmark/signature/golang/code_injection.go`);
- the engine's counters (`src/pkg/signatures/metrics/stats.go`);
- the parsing of the input options (`input.go` 63–143);
- the logger's caller lookup (`src/pkg/logger/callerinfo.go`);
- the Kubernetes operator's reconciler (`src/pkg/k8s/controller`);
- the test harness that starts and stops a tracker (`src/tests/testutils/tracker.go`);
- the wait loops of the integration tests (`src/tests/integration/tracker.go`);
- the registration of the counters with Prometheus (`Stats.RegisterPrometheus`).

Each run is checked in this directory with `tlc -workers 2 -config <cfg> <module>`, where `<module>` is the run's MC module.

## 1. The system

| Part | Source | State | Operations | Interacts with |
|---|---|---|---|---|
| JSON input source | input.go 41–61 | scanner position, the goroutine's program point, the channel `res` | Scan, Unmarshal (a bad line is logged and skipped), `res <- e` (unbuffered), Close file, `close(res)` | the engine's dispatch loop, by rendezvous |
| Signature engine | spec.md 4.3, 5, 7 | registry lifecycle per signature, one channel per signature, the worker's current event, the finding channel | register (Init, then GetSelectedEvents), receive and count an event, look it up in the selector index, send to each matching signature, worker calls OnEvent, finding callback, end of stream, OnSignal, Close, stop | input source, signatures, reporter, counters |
| Signatures | signatures/golang, code_injection.go, the e2e rules of tests/e2e-*-signatures | a constant configuration set by Init (a regex, file names) | GetSelectedEvents, OnEvent (0 or 1 finding, an error, or a panic) | the engine's callback |
| Counters | stats.go 10–14 | Events, Signatures, Detections | increments; RegisterPrometheus | written by engine and workers |
| Input option parsing | input.go 63–143 | `trackerInputOptions` | parse `key:value` options | sets up the input source |
| Kubernetes controller | pkg/k8s/controller | cluster objects | Reconcile: Get, annotate, Update | API server |
| Logger caller info | pkg/logger/callerinfo.go | none | stack walk | — |
| Test harness | tests/testutils, tests/integration | process pid, readiness channel | Start with readiness poll and timeout, Stop, wait loops | a tracker process |
| CLI, eBPF probes, DNS hook, main | pkg/cmd, pkg/ebpf, cmd/tracker | configuration only | flag plumbing | — |

### What makes it hard

- **Concurrency.** The input goroutine, the dispatch loop, one worker per signature and the external reporter all run concurrently. They are coupled by three kinds of bounded channel: the input channel (unbuffered), the per-signature channels and the finding channel. Backpressure from a slow reporter reaches all the way back to the input goroutine.
- **Ordering.** Each signature must see the events it selects in arrival order. OnSignal must come only after its last event has returned, and Close only after every signature has been signalled.
- **Failure isolation.** A signature whose Init fails is excluded, and the others go on. An error from OnEvent is confined to that call. A panic is not confined: it ends the process.
- **Input errors.** Invalid JSON lines are skipped. A line over the scanner's token limit ends the scan loop.
- **Origin matching.** Selectors match an event by source, name and origin. The `codeInjection` selectors leave Origin unset.

### Correctness properties

1. Per-signature delivery of exactly the matching events, in arrival order.
2. No call to an excluded signature.
3. Findings are accepted while their OnEvent runs.
4. OnSignal comes after draining; Close comes after every signature is signalled.
5. The counters are exact. In the model each counter is incremented in the same step as the event, registration or finding it counts, and `counter.Counter` is atomic, so no run checks this separately.
6. The finding channel never overflows.
7. The engine always comes to an orderly stop with every finding reported.
8. Scenario D (spec.md 8): ptrace POKETEXT is detected.
9. A clean stop means the whole input was read.

## 2. Modules

| Module | Models | Notes |
|---|---|---|
| `GoStrings` | Go library functions the rules call: `strings.HasPrefix/HasSuffix/Contains/ToLower`, `path.Base` | over TLC strings (Len, SubSeq, \o) |
| `Signatures` | every rule's selectors, OnEvent outcome and metadata ID (`GetMetadata`), the e2e ftrace_hook and IPv4 rules included, `GetTrackerArgumentByName`, typed argument getters, `IsFileWrite`, `IsElf`, Unix socket helpers | pure operators; the regexes of DefaultLoaderModification and codeInjection are written as the string conditions they accept |
| `JsonInput` | `setupTrackerJSONInputSource` | one action per step of the goroutine; `Send(e)` is the producer half of the rendezvous |
| `DetectionSpec` | the abstract engine contract of spec.md 4.2–4.3, 5, 8 | no queues, no workers, no capacity |
| `Engine` | the engine (spec.md), composed with `JsonInput` and `Signatures` | refines `DetectionSpec` |
| `MCEngine` | events, files and signature sets for TLC | also caches `OnEvent` of each signature on each event of the files (`Outcome <- MCOutcome`), so the string operators run once |
| `InputOptions` / `MCInputOptions` | `parseTrackerInputOptions`, `parseTrackerInputFile`, `parseTrackerInputFormat`, `setupTrackerInputSource` (input.go 33–39, 63–143) | the loop is a state machine; a declarative `ReferenceOutcomes` states what the result should be |
| `CallerInfo` / `MCCallerInfo` | `getCallerInfo` (pkg/logger/callerinfo.go) | the depth cap, the `pcs[:n-1]` cut, the frame loop, and name/package/file trimming, over stacks of frames |
| `PolicyReconciler` / `MCPolicyReconciler` | `PolicyReconciler.Reconcile` and `SetupWithManager` (pkg/k8s/controller) | controller-runtime's workqueue (dedup, dirty keys, error requeue) and other writers of the DaemonSet are the environment |
| `RunningTracker` / `MCRunningTracker` | `RunningTracker.Start/Stop` (tests/testutils/tracker.go) as `TestMetricsandPprofExist` drives them, with its `require.NoError` and `require.Empty` exits | the process, its health endpoint, the metrics/pprof checks and the background command's `cmdStatus` (which may carry the exit error) are the environment |
| `WaitLoop` / `MCWaitLoop` | `waitForTrackerStart`, `waitForTrackerStop`, `waitForTrackerOutputEvents` (tests/integration/tracker.go) | one select loop over a 1 s status ticker and a timeout ticker, time in whole seconds; `call` picks the function, `level` is the tracker's progress (running, stopped, events added by `eventBuffer.addEvent`); `RunFails` is startTracker's Run goroutine returning an error after the tracker started, so `Running()` is false again |
| `MetricsExport` / `MCMetricsExport` | `Stats.RegisterPrometheus` (pkg/signatures/metrics/stats.go) | `registry` maps each of the three metric names to its holder in the default registry; each Stats registers them in the code's order and returns at the first error |

### How Engine's variables and actions correspond to the code

| Variable | What it holds |
|---|---|
| `phase` | loading, running, draining, stopped, or crashed (after a panic) |
| `sigState` | the lifecycle of each registry entry: new, ready, failed, signalled, closed |
| `dispatched` | the events the loop has received |
| `pending` | the signatures the current event still has to be sent to |
| `queue[s]` | signature s's channel, of capacity `QueueCap` |
| `worker[s]` | the event s is handling and its findings still to be called back |
| `handled[s]` | the events whose OnEvent has returned |
| `sink` / `reported` | the finding channel, of capacity `SinkCap`, and what the reporter has taken |
| `stats` | `metrics.Stats` |

| Action | What it models |
|---|---|
| `Register` | Init, then GetSelectedEvents. An entry of `FailingInit` fails Init and is excluded. The signatures here cannot fail Init (DefaultLoaderModification compiles a constant pattern), so `MCEngine` over-approximates with one failing entry to exercise the exclusion path of spec.md 5 |
| `Receive` | the receiver side of `res <- e` |
| `Deliver` | the send on a signature's channel |
| `Handle` | the worker calling OnEvent, with the result taken from `Signatures` |
| `Callback` | one finding through the callback |
| `Finish` | OnEvent returning |
| `EndOfStream` / `Signal` / `Close` / `Stop` | end-of-stream handling |
| `Report` | the external reporter taking a finding |

The constant `EmptyOriginIsWildcard` says how the selector index reads an unset selector Origin. The spec leaves this open (see the findings).

### Refinement mapping to `DetectionSpec`

| DetectionSpec | Engine |
|---|---|
| `busy[s]` | `worker[s].idx` |
| `found` | the findings in `sink` ∪ `reported` |
| `ended` | phase ∈ {draining, stopped} |
| `stopped` | phase = stopped |
| `Events` | the events of the model's input files |

The other variables map to themselves.

## 3. Runs

| Run | cfg | Expect | Properties | Shows |
|---|---|---|---|---|
| engine | MCEngine.cfg | pass | ScenarioFindings, TypeOK, ImplementsDetectionSpec, EngineTerminates | with all six signatures, every scenario event of spec.md 8 (A–D and their negative cases) yields exactly the findings the spec gives, with the right IDs; correct routing, ordering, lifecycle and orderly stop over every input file of ≤ 2 lines |
| empty_origin | MCEngineOrigin.cfg | violation | SelectedEventsDetected | with spec.md 4.3's matching rule read literally, codeInjection and the two e2e rules never see the events they select (spec gap) |
| too_long_line | MCEngineTooLong.cfg | violation | InputFullyConsumed | a line over the token limit silently truncates the input (input.go:45) |
| int_flags_panic | MCEnginePanic.cfg | violation | EngineTerminates | a non-string `flags` argument panics codeInjection (code_injection.go:72) |
| input_options | MCInputOptions.cfg | pass | ParseMatchesReference | on every option slice of ≤ 3 options from a pool covering every branch (and the cases of input_test.go), the parser returns what the reference says: the first failing option decides, the last file wins, and the reader starts only with a json format |
| format_without_file | MCInputOptionsNoFile.cfg | violation | InputSourceNamed | `format:json` alone parses successfully and starts the reader on a nil file |
| caller_info | MCCallerInfo.cfg | pass | ReportedCallerIsFirstFrame | a reported caller is always the innermost frame, also at the depth cap (4 here, for the code's 20) |
| caller_info_goroutine | MCCallerInfoGoroutine.cfg | violation | CallerReported | a logger call made directly in a goroutine's function gets no package, file or line |
| policy_reconciler | MCPolicyReconciler.cfg | pass | RecTypeOK, EveryChangeRolledOut | with two API errors, two foreign writes causing update conflicts, and three policy changes (some arriving while the key is processed), every change is eventually followed by a DaemonSet update from a Reconcile that began after it; a key is never queued while it is processed |
| running_tracker | MCRunningTracker.cfg | pass | RTTypeOK, TestEnds | whatever the process does, the test always ends: every Start path hands the test a status, and Stop returns once the cancelled process has exited |
| wait_loops | MCWaitLoop.cfg | pass | WaitTimely, WaitReturns | with the code's timeouts (10 s, 5 s), a condition that holds without a break from two seconds before the timeout is always seen; only one met in the last second races the timeout tick, and a tracker whose Run fails after starting may be missed; every call returns, also with `failOnTimeout` false |
| metrics_export | MCMetricsExport.cfg | pass | NilIffAllExported, RegistrationAtomic | four Stats registering concurrently: each gets nil exactly when all three names are its own, and one that fails has registered nothing. No caller in src registers two Stats; the run asks what would happen if one did. With `ForeignNames = {}` it does not reach the partial failure of a foreign collector on a later name |

### Bounds of the `engine` run

- **Registry.** The registry holds all six signatures, and DefaultLoaderModification may fail Init.
- **Events.** The six scenario events of spec.md 8: A (write-open of `/etc/ld.so.preload`), B (the same open read-only), C (an ELF written under a hidden directory, and under a visible one), and D (ptrace POKETEXT, and PEEKTEXT). The open events are also selected by CgroupNotify, DockerAbuse and DefaultLoader, which give no finding for them.
- **Files.** Every file of 0–2 lines over those events, an invalid-JSON line and an over-long line: 73 files, about 327k distinct states, under 2 minutes.
- **Channels.** Each signature channel and the finding channel have capacity 1. This is the smallest capacity at which every blocking case happens:
  - the dispatch loop blocks on a full signature channel;
  - a worker blocks in the callback on a full finding channel;
  - the input goroutine blocks while the loop is still delivering the previous event.

  Two lines that both give findings (A and C) make two workers compete for the one-slot finding channel.

### Bounds of the other runs

- **Options.** The option pool has 12 options: help, malformed, empty key or value, an unknown key, an invalid format, a mixed-case json format, stdin, a readable file, a missing file, and an existing file that cannot be opened. All slices up to length 3 are enumerated, so every order of two failing options and every repeated key occurs.
- **Call stacks.** A stack is 0–3 program frames over two functions, followed by the main goroutine's or another goroutine's runtime tail. One more stack starts at an assembly frame, and one stack is empty. The depth cap of 4 cuts stacks of 5 frames.
- **Reconciler.** The reconciler run needs only small bounds: a change must be able to land during a Reconcile, and each call must be able to fail.
- **Test harness.** The harness run uses a timeout of 6 polls. The process can become ready at any poll, or never, or die.
- **Wait loops.** The code's own timeouts (10 s and 5 s) and two expected events: the condition can come true in every second, including the last one before the timeout and never, and a started tracker can stop running in any second.
- **Metrics.** Four Stats: enough for every interleaving of two that started the race with others in between. No foreign collector holds a name (`ForeignNames = {}`); no code in this repository registers one.

### Fairness

`WF_vars(Next)`. Every goroutine runs whenever it can. The reporter is assumed to keep draining (spec.md 6: the reporter must not block the engine indefinitely). No step undoes progress: every action advances the input, an index, a counter or a lifecycle state, and the state space is finite. So weak fairness of the whole relation implies that no enabled goroutine stalls forever.

`PolicyReconciler` uses `WF(RecNext)`. Changes, API errors and foreign writes are bounded, so fairness means that a requeued key is eventually retried: the workqueue's backoff timer fires. `RunningTracker` is weakly fair for the harness goroutines and for `CmdDone`. The process exits only once it has been cancelled: an uncancelled tracker may run forever.

`WaitLoop` is weakly fair for the passing of time and for each select case, and not for the tracker's progress or its Run failing, which the wait must survive either way. The loop does no blocking work between ticks, so each tick is taken before the next second: time advances only when no tick is pending.

`CHECK_DEADLOCK FALSE` is set because the engine does stop; the other modules stop when their function returns or their test ends. `EngineTerminates` distinguishes a stop from a stall.

## 4. Findings

1. **Spec gap (`empty_origin`).** codeInjection's selectors leave Origin empty, and so do those of the e2e ftrace_hook and IPv4 rules. The spec's matching rule gives no meaning to an empty Origin, so read literally, scenario D fails and the e2e workloads raise no finding. The `engine` run assumes the index reads empty as `"*"`.
2. **Spec/code divergence (`too_long_line`).** `scanner.Err()` is never checked. A line over 64 KiB ends the stream like EOF, and the rest of the file is silently ignored.
3. **Code bug (`int_flags_panic`).** `flags.Value.(string)` is an unchecked assertion. A non-string value panics the worker and the process.
4. **Code bug (`format_without_file`).** `parseTrackerInputOptions` accepts options that name no file. The reader then scans a nil `*os.File` and sees an empty stream. The only trace is the logged `Close` error.
5. **Code bug (`caller_info_goroutine`).** `getCallerInfo` breaks on `more == false` before it uses that frame, yet the frame is valid. Together with `pcs[:n-1]` this drops two frames. A caller directly above `runtime.goexit` gets no package, file or line. `logger.Errorw` in input.go's goroutine is such a caller.

## 5. Not modelled, and why

- **Environment left out.** These are environment, not actions of the code: the process and health endpoint in `RunningTracker`; `ExecCmdBgWithSudoAndCtx`, which is not in `src`; and controller-runtime's workqueue.
- **Hazards left without a property.**
  - A failed perf test (a timeout, a failed Start or a failed check) leaves the tracker process running. The test's own comment accepts leaks of an aborted test.
  - A foreign collector holding `detections_total` would make `RegisterPrometheus` leave `events_total` registered. No code here registers one.
  - Stop must return only after the process exited and `cmdStatus` closed. It leaves the range over `cmdStatus` only when the channel closes, so this is the guard of `StopDrain` itself; an invariant on it would restate that guard.
  - A file opened by an earlier `file:` option is never closed when a later option fails or names another file.
  - startTracker's Run goroutine sends its error on the unbuffered `errChan`. The logging goroutine may already have returned on `ctx.Done()`, so a Run that fails as the context is cancelled blocks forever. Whether `tracker.Run` (pkg/ebpf, not in this repository) returns an error after cancellation is unknown.
- **startTracker's setup and the event buffer's other methods.** `KernelConfig`, `BpfObject`, `tracker.New` and `Init` are calls into code outside this repository. `clear` and `getCopy` are used only by tests that are not in it.
- **The e2e rules in a passing run.** They are checked end to end only in `empty_origin`. Adding their events to the `engine` run more than doubles its state space.
- **CLI configuration** (`GetTrackerRunner` in urfave.go, cobra/helper.go, main, version). This is a straight sequence of calls into packages outside this repository (flags, printer, environment, initialize, server). Each call either fails, and the error is returned, or stores its result in the config. There is no concurrency, no retry and no state that outlives the call. spec.md §1 names CLI/config assembly an external collaborator. A model would restate the sequence of early returns.
- **eBPF probe wrappers and the DNS cache hook.** These are thin wrappers over kernel and library calls.
