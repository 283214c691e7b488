---------------------------- MODULE MCCallerInfo ----------------------------
(***************************************************************************)
(* Stacks of up to MaxUser frames of the program over two functions,     *)
(* ending as the main goroutine's stack (runtime.main, runtime.goexit) or *)
(* as another goroutine's (runtime.goexit), and the empty stack of a skip *)
(* past the stack's depth.  One stack starts at an assembly frame, which *)
(* a skip can land on in a callback from C.                              *)
(***************************************************************************)
EXTENDS CallerInfo

CONSTANT MaxUser

Fr(fn, file, line) == [fn |-> fn, file |-> file, line |-> line]

\* The JSON input goroutine of cmd/tracker-rules and a function it calls.
InputFunc == Fr("main.setup.func1", "/go/tracker/cmd/input.go", 50)
HelperFunc == Fr("k/tracker/pkg/x.(*T).Run", "/go/tracker/pkg/x/x.go", 9)
\* An assembly frame of a cgo callback, without a package qualifier.
AsmFunc == Fr("crosscall2", "/usr/go/asm_amd64.s", 30)
RtMain == Fr("runtime.main", "/usr/go/proc.go", 250)
RtGoexit == Fr("runtime.goexit", "/usr/go/asm.s", 1650)

MCStacks ==
    {<<>>} \cup
    {u \o t : u \in UNION {[1..m -> {InputFunc, HelperFunc}] : m \in 0..MaxUser},
              t \in {<<RtMain, RtGoexit>>, <<RtGoexit>>}}
    \cup {<<AsmFunc, HelperFunc, RtGoexit>>}
====
