----------------------------- MODULE CallerInfo -----------------------------
(***************************************************************************)
(* getCallerInfo of pkg/logger/callerinfo.go, step by step: it captures  *)
(* at most CallersDepth program counters above the skipped frames, drops *)
(* the last one, and walks the frames with runtime.CallersFrames: each    *)
(* frame's function name is shortened (after the last '/', then after the *)
(* first '.'), and the first frame gives the package, the file relative   *)
(* to "tracker/" and the line.                                            *)
(*                                                                         *)
(* A stack is the sequence of frames runtime.Callers(skip+2, ...) sees,   *)
(* innermost first, each a record [fn, file, line]; it always ends in the *)
(* runtime's frames (runtime.main, runtime.goexit).  frames.Next returns  *)
(* the k-th frame with more = TRUE while another frame follows it.        *)
(***************************************************************************)
EXTENDS Naturals, Sequences, GoStrings

CONSTANTS
    Stacks,        \* the call stacks the model considers
    CallersDepth   \* len(pcs): the code's maximum depth of 20

VARIABLES
    stack,   \* the goroutine's stack above the skipped frames
    pcs,     \* pcs[:n-1]
    k,       \* frames the iterator has returned
    info,    \* the callerInfo being built: [pkg, file, line, functions]
    first,   \* firstCaller
    pc       \* "callers", "loop", "done", "panic"

ciVars == <<stack, pcs, k, info, first, pc>>

NoInfo == [pkg |-> "", file |-> "", line |-> 0, functions |-> <<>>]

MinOf(a, b) == IF a < b THEN a ELSE b

\* The 1-based position of the last (first) occurrence of t in s, 0 if none:
\* strings.LastIndexByte (IndexByte, Index) plus one.
LastPos(s, t) == LET I == IndicesOf(s, t) IN IF I = {} THEN 0 ELSE CHOOSE x \in I : \A y \in I : y <= x
FirstPos(s, t) == LET I == IndicesOf(s, t) IN IF I = {} THEN 0 ELSE CHOOSE x \in I : \A y \in I : x <= y

\* fn[fnStart:] with fnStart after the last '/'.
AfterSlash(fn) == From(fn, LastPos(fn, "/") + 1)

\* fn[fnStart:] with fnStart after the first '.' of the shortened name (0 if none).
ShortName(fn) == LET f == AfterSlash(fn) IN From(f, FirstPos(f, ".") + 1)

\* file[trackerIndex+len("tracker/"):] when the file path contains "tracker/".
RelFile(file) ==
    LET q == FirstPos(file, "tracker/") IN IF q = 0 THEN file ELSE From(file, q + 8)

CIInit ==
    /\ stack \in Stacks
    /\ pcs = <<>>
    /\ k = 0
    /\ info = NoInfo
    /\ first = TRUE
    /\ pc = "callers"

\* n := runtime.Callers(skip+2, pcs); pcs = pcs[:n-1] (out of range when n = 0).
Callers ==
    LET n == MinOf(Len(stack), CallersDepth)
    IN  /\ pc = "callers"
        /\ IF n = 0 THEN pc' = "panic" /\ UNCHANGED pcs
           ELSE pcs' = SubSeq(stack, 1, n - 1) /\ pc' = "loop"
        /\ UNCHANGED <<stack, k, info, first>>

\* frame, more := frames.Next(); if !more { break }
LastFrame ==
    /\ pc = "loop" /\ ~(k + 1 < Len(pcs))
    /\ pc' = "done"
    /\ UNCHANGED <<stack, pcs, k, info, first>>

\* Fault variant of Frame: firstCaller is never reset.
FrameKeepsFirst ==
    LET fr  == pcs[k + 1]
        f   == AfterSlash(fr.fn)
        end == FirstPos(f, ".")
    IN  /\ pc = "loop" /\ k + 1 < Len(pcs)
        /\ k' = k + 1
        /\ \/ first /\ end = 0 /\ pc' = "panic" /\ UNCHANGED <<info, first>>
           \/ first /\ end > 0
              /\ info' = [pkg |-> SubSeq(f, 1, end - 1), file |-> RelFile(fr.file), line |-> fr.line,
                          functions |-> Append(info.functions, ShortName(fr.fn))]
              /\ UNCHANGED <<first, pc>>
        /\ UNCHANGED <<stack, pcs>>

\* The rest of the loop body for a frame that has a successor.
Frame ==
    LET fr  == pcs[k + 1]
        f   == AfterSlash(fr.fn)
        end == FirstPos(f, ".")
    IN  /\ pc = "loop" /\ k + 1 < Len(pcs)
        /\ k' = k + 1
        /\ \/ ~first /\ info' = [info EXCEPT !.functions = Append(@, ShortName(fr.fn))]
              /\ UNCHANGED <<first, pc>>
           \/ first /\ end = 0 /\ pc' = "panic"   \* fn[:pkgEnd] with pkgEnd == -1
              /\ UNCHANGED <<info, first>>
           \/ first /\ end > 0 /\ first' = FALSE
              /\ info' = [pkg |-> SubSeq(f, 1, end - 1), file |-> RelFile(fr.file), line |-> fr.line,
                          functions |-> Append(info.functions, ShortName(fr.fn))]
              /\ UNCHANGED pc
        /\ UNCHANGED <<stack, pcs>>

CINext == Callers \/ LastFrame \/ Frame

CISpec == CIInit /\ [][CINext]_ciVars
-----------------------------------------------------------------------------
\* The frames of the stack that belong to the program, not to the runtime.
CallerFrames == {j \in 1..Len(stack) : ~HasPrefix(stack[j].fn, "runtime.")}

(* When getCallerInfo reports a caller, it is the innermost frame above   *)
(* the skipped ones: its package, its file relative to the repository and *)
(* its line, never those of a frame further out.                          *)
ReportedCallerIsFirstFrame ==
    info.file # "" =>
        /\ info.file = RelFile(stack[1].file) /\ info.line = stack[1].line
        /\ info.pkg = SubSeq(AfterSlash(stack[1].fn), 1, FirstPos(AfterSlash(stack[1].fn), ".") - 1)

(* The doc comment of getCallerInfo: it "returns package, file and line"  *)
(* of the calling function.  When the stack holds a frame of the program, *)
(* the returned file is not empty.                                        *)
CallerReported == pc = "done" /\ 1 \in CallerFrames => info.file # ""
====
