------------------------------ MODULE JsonInput ------------------------------
(***************************************************************************)
(* The tracker-rules input source (cmd/tracker-rules/input.go,            *)
(* setupTrackerJSONInputSource): a goroutine scans the input file line by *)
(* line with a bufio.Scanner, decodes each line as a trace.Event, logs    *)
(* and skips a line that is not valid JSON, sends each decoded event on   *)
(* the unbuffered channel `res`, and when Scan returns false closes the   *)
(* file and closes `res`.                                                  *)
(*                                                                         *)
(* A line is [kind |-> "event", ev |-> e], [kind |-> "invalid"] (not      *)
(* valid JSON) or [kind |-> "toolong"] (longer than the scanner's token   *)
(* limit, on which Scan returns false and sets ErrTooLong, which the code *)
(* never reads).  The send is a rendezvous with the receiver: Send(e) is  *)
(* the producer's half and is conjoined with the receiver's action.       *)
(***************************************************************************)
EXTENDS Naturals, Sequences

CONSTANTS
    Files    \* the input files the model considers, each a sequence of lines

VARIABLES
    lines,        \* the content of the input file
    scanned,      \* how many lines the scanner has returned
    inputPC,      \* "scan", "send" (blocked in res <- e), "close", "done"
    inputClosed   \* close(res) has happened

inputVars == <<lines, scanned, inputPC, inputClosed>>

EventLine(l) == l.kind = "event"

\* The line scanner.Scan() would return next, or end of file.
NextLine == IF scanned < Len(lines) THEN lines[scanned + 1] ELSE [kind |-> "eof"]

InputInit ==
    /\ lines \in Files
    /\ scanned = 0
    /\ inputPC = "scan"
    /\ inputClosed = FALSE

\* scanner.Scan() returns false: end of file, or a line over the token limit.
ScanStops ==
    /\ inputPC = "scan"
    /\ NextLine.kind \in {"eof", "toolong"}
    /\ inputPC' = "close"
    /\ UNCHANGED <<lines, scanned, inputClosed>>

\* json.Unmarshal fails: the line is logged and skipped.
ScanInvalid ==
    /\ inputPC = "scan"
    /\ NextLine.kind = "invalid"
    /\ scanned' = scanned + 1
    /\ UNCHANGED <<lines, inputPC, inputClosed>>

\* The line decodes: the goroutine moves on to res <- e.ToProtocol().
ScanEvent ==
    /\ inputPC = "scan"
    /\ EventLine(NextLine)
    /\ scanned' = scanned + 1
    /\ inputPC' = "send"
    /\ UNCHANGED <<lines, inputClosed>>

\* The event the goroutine is blocked sending.
Pending == lines[scanned].ev

\* The producer's half of the rendezvous res <- e.
Send(e) ==
    /\ inputPC = "send"
    /\ e = Pending
    /\ inputPC' = "scan"
    /\ UNCHANGED <<lines, scanned, inputClosed>>

\* Fault variant of CloseInput: the goroutine returns without close(res).
CloseInputKeepsChannel ==
    /\ inputPC = "close"
    /\ inputPC' = "done"
    /\ UNCHANGED <<lines, scanned, inputClosed>>

\* opts.inputFile.Close() (an error is only logged), then close(res).
CloseInput ==
    /\ inputPC = "close"
    /\ inputPC' = "done"
    /\ inputClosed' = TRUE
    /\ UNCHANGED <<lines, scanned>>

InputNext == ScanStops \/ ScanInvalid \/ ScanEvent \/ CloseInput
=============================================================================
