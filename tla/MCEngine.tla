------------------------------ MODULE MCEngine ------------------------------
(***************************************************************************)
(* Instantiates Engine for TLC: registry entries, pools of events (the   *)
(* scenario events of spec.md 8 and events that hit the error paths of    *)
(* the rules), and every input file of up to MaxLines lines over a pool, *)
(* a line that is not JSON and a line over the scanner's token limit.    *)
(***************************************************************************)
EXTENDS Engine, TLC

Arg(n, t, v) == [name |-> n, type |-> t, value |-> v]
\* Events of a task on the host "node1" (the trace.Event HostName field).
Ev(n, o, args) == [source |-> "tracker", name |-> n, origin |-> o, hostName |-> "node1", args |-> args]

\* Scenario A: a write-open of /etc/ld.so.preload in a container.
EvPreloadWrite ==
    Ev("security_file_open", "container",
       <<Arg("pathname", "string", "/etc/ld.so.preload"), Arg("flags", "string", "O_WRONLY")>>)
\* A write-open of a cgroup notify_on_release file in a container.
EvNotifyWrite ==
    Ev("security_file_open", "container",
       <<Arg("pathname", "string", "/sys/fs/cgroup/cpu/notify_on_release"),
         Arg("flags", "string", "O_RDWR|O_CREAT")>>)
\* Scenario D: ptrace(PTRACE_POKETEXT) on the host.
EvPokeText == Ev("ptrace", "host", <<Arg("request", "string", "PTRACE_POKETEXT")>>)
\* A rename over the dynamic loader on the host.
EvLoaderRename ==
    Ev("security_inode_rename", "host",
       <<Arg("old_path", "string", "/tmp/ld"), Arg("new_path", "string", "/lib/ld-linux.so.2")>>)
\* An open event without a flags argument: the rules return an error.
EvOpenNoFlags ==
    Ev("security_file_open", "container", <<Arg("pathname", "string", "/etc/ld.so.preload")>>)
\* A raw open whose flags were not parsed to a string (an integer).
EvRawOpenIntFlags ==
    Ev("open", "container", <<Arg("flags", "int", 1), Arg("pathname", "string", "/proc/self/mem")>>)

\* Scenario B: the same open, read-only.
EvPreloadRead ==
    Ev("security_file_open", "container",
       <<Arg("pathname", "string", "/etc/ld.so.preload"), Arg("flags", "string", "O_RDONLY")>>)
\* Scenario C: an ELF written to a hidden directory, and to a visible one.
ElfMagic == <<127, 69, 76, 70>>
EvHiddenElf ==
    Ev("magic_write", "host", <<Arg("bytes", "[]byte", ElfMagic), Arg("pathname", "string", "/home/user/.hidden/tool")>>)
EvVisibleElf ==
    Ev("magic_write", "host", <<Arg("bytes", "[]byte", ElfMagic), Arg("pathname", "string", "/home/user/visible/tool")>>)
\* Scenario D's negative case: ptrace(PTRACE_PEEKTEXT).
EvPeekText == Ev("ptrace", "host", <<Arg("request", "string", "PTRACE_PEEKTEXT")>>)

\* The e2e workloads: an ftrace hook on commit_creds, and the test's IPv4
\* packet from 172.16.17.2 to 172.16.17.1.
EvFtraceHook == Ev("ftrace_hook", "host", <<Arg("symbol", "string", "commit_creds")>>)
EvIPv4Packet ==
    Ev("net_packet_ipv4", "container",
       <<Arg("src", "string", "172.16.17.2"), Arg("dst", "string", "172.16.17.1"),
         Arg("proto_ipv4", "trace.ProtoIPv4",
             [version |-> 4, ihl |-> 5, srcIP |-> "172.16.17.2", dstIP |-> "172.16.17.1"])>>)

EventLineOf(e) == [kind |-> "event", ev |-> e]
InvalidLine == [kind |-> "invalid"]
TooLongLine == [kind |-> "toolong"]

CONSTANT MaxLines, PoolEvents

LinePool == {EventLineOf(e) : e \in PoolEvents} \cup {InvalidLine, TooLongLine}

MCFiles == UNION {[1..n -> LinePool] : n \in 0..MaxLines}

CONSTANT MCSigs
MCFailingInit == {"DefaultLoaderModification"}

\* OnEvent of every signature on every event of the files, computed once.
OutcomeTable == [s \in Sigs |-> [e \in FileEvents |-> OnEvent(s, e)]]
MCOutcome(s, e) == OutcomeTable[s][e]

OriginPool == {EvPokeText, EvFtraceHook, EvIPv4Packet}
TooLongPool == {EvPreloadWrite}
PanicPool == {EvRawOpenIntFlags}
ScenarioPool == {EvPreloadWrite, EvPreloadRead, EvHiddenElf, EvVisibleElf, EvPokeText, EvPeekText}

\* What spec.md 8 says each scenario event yields: how many findings, and
\* the ID they carry (the code-injection detector's metadata has none).
Expectation(e) ==
    CASE e = EvPreloadWrite -> [n |-> 1, id |-> "TRC-107"]
      [] e = EvHiddenElf    -> [n |-> 1, id |-> "TRC-1015"]
      [] e = EvPokeText     -> [n |-> 1, id |-> ""]
      [] OTHER              -> [n |-> 0, id |-> ""]

\* The findings, reported or not, of the i-th dispatched event.
FindingsOf(i) == SelectSeq(sink \o reported, LAMBDA f : f[2] = i)

(* Scenarios A-D of spec.md 8, end to end through the engine: when it     *)
(* stops, every scenario event read from the input produced exactly the   *)
(* number of findings the spec gives, each with the expected signature ID *)
(* -- no finding lost, duplicated or raised by another signature, and     *)
(* none for the negative cases.                                           *)
ScenarioFindings ==
    phase = "stopped" =>
        \A i \in 1..Len(dispatched) :
            LET x == Expectation(dispatched[i])
            IN  /\ Len(FindingsOf(i)) = x.n
                /\ \A k \in 1..Len(FindingsOf(i)) : SignatureID(FindingsOf(i)[k][1]) = x.id
=============================================================================
