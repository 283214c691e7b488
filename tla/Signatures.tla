----------------------------- MODULE Signatures -----------------------------
(***************************************************************************)
(* The detection rules of signatures/golang and of the benchmark          *)
(* code-injection signature, as pure operators: the selectors each one    *)
(* returns from GetSelectedEvents and the outcome of one OnEvent call.    *)
(*                                                                         *)
(* An event is a record [source, name, origin, args] where args is the    *)
(* ordered argument list of trace.Event, each argument a record           *)
(* [name, type, value].  An OnEvent outcome is a record                   *)
(* [findings, err, panic]: how many times the rule called its finding     *)
(* callback, whether it returned an error, and whether it panicked.       *)
(***************************************************************************)
EXTENDS Naturals, Sequences, GoStrings

Sel(name, origin) == [source |-> "tracker", name |-> name, origin |-> origin]

\* Go's zero value of SignatureEventSelector.Origin: the selector set no origin.
NoOrigin == ""

Ok(n)  == [findings |-> n, err |-> FALSE, panic |-> FALSE]
Fail   == [findings |-> 0, err |-> TRUE, panic |-> FALSE]
Panic  == [findings |-> 0, err |-> FALSE, panic |-> TRUE]
Emit(cond) == Ok(IF cond THEN 1 ELSE 0)

\* A getter result: an error, or a value.
Value(v) == [err |-> FALSE, value |-> v]
Failed   == [err |-> TRUE, value |-> ""]

\* GetTrackerArgumentByName: the first argument with that name, or NotFound.
GetTrackerArgumentByName(ev, argName) ==
    LET I == {i \in 1..Len(ev.args) : ev.args[i].name = argName}
    IN  IF I = {} THEN [found |-> FALSE]
        ELSE [found |-> TRUE, arg |-> ev.args[CHOOSE i \in I : \A j \in I : i <= j]]

\* The typed getters (string, []string, []byte, raw sockaddr): NotFound or TypeMismatch.
GetArgument(ev, argName, type) ==
    LET r == GetTrackerArgumentByName(ev, argName)
    IN  IF r.found /\ r.arg.type = type THEN Value(r.arg.value) ELSE Failed

\* helpers.IsFileWrite: the flags ask for write access.
IsFileWrite(flags) ==
    StrContains(ToLower(flags), "o_wronly") \/ StrContains(ToLower(flags), "o_rdwr")

\* helpers.IsElf: the buffer starts with the ELF magic 0x7f 'E' 'L' 'F'.
IsElf(bytes) == Len(bytes) >= 4 /\ SubSeq(bytes, 1, 4) = <<127, 69, 76, 70>>

\* helpers.IsUnixFamily and helpers.GetPathFromRawAddr on a raw sockaddr map.
IsUnixFamily(addr) ==
    IF "sa_family" \in DOMAIN addr THEN Value(addr["sa_family"] = "AF_UNIX") ELSE Failed
GetPathFromRawAddr(addr) ==
    IF "sun_path" \in DOMAIN addr THEN Value(addr["sun_path"]) ELSE Failed
-----------------------------------------------------------------------------
(* LdPreload (TRC-107) *)
PreloadEnvs == <<"LD_PRELOAD", "LD_LIBRARY_PATH">>
PreloadPath == "/etc/ld.so.preload"

LdPreloadSelectors ==
    {Sel("sched_process_exec", "*"), Sel("security_file_open", "*"),
     Sel("security_inode_rename", "*")}

\* The env loop: the callback is called for the first variable that sets a
\* preload variable, and OnEvent returns right after it.
RECURSIVE PreloadEnvFindings(_)
PreloadEnvFindings(envVars) ==
    IF envVars = <<>> THEN 0
    ELSE IF \E i \in 1..Len(PreloadEnvs) : HasPrefix(Head(envVars), PreloadEnvs[i] \o "=")
         THEN 1
         ELSE PreloadEnvFindings(Tail(envVars))

\* Fault variant of LdPreloadOnEvent: any open of the preload file, read or
\* write, is reported.
LdPreloadOnEventAnyOpen(ev) ==
    CASE ev.name = "sched_process_exec" ->
            LET envVars == GetArgument(ev, "env", "[]string")
            IN  IF envVars.err THEN Ok(0) ELSE Ok(PreloadEnvFindings(envVars.value))
      [] ev.name = "security_file_open" ->
            LET pathname == GetArgument(ev, "pathname", "string")
                flags    == GetArgument(ev, "flags", "string")
            IN  IF pathname.err \/ flags.err THEN Fail
                ELSE Emit(HasSuffix(pathname.value, PreloadPath))
      [] ev.name = "security_inode_rename" ->
            LET newPath == GetArgument(ev, "new_path", "string")
            IN  IF newPath.err THEN Fail ELSE Emit(HasSuffix(newPath.value, PreloadPath))
      [] OTHER -> Ok(0)

LdPreloadOnEvent(ev) ==
    CASE ev.name = "sched_process_exec" ->
            LET envVars == GetArgument(ev, "env", "[]string")
            IN  IF envVars.err THEN Ok(0) ELSE Ok(PreloadEnvFindings(envVars.value))
      [] ev.name = "security_file_open" ->
            LET pathname == GetArgument(ev, "pathname", "string")
                flags    == GetArgument(ev, "flags", "string")
            IN  IF pathname.err \/ flags.err THEN Fail
                ELSE Emit(HasSuffix(pathname.value, PreloadPath) /\ IsFileWrite(flags.value))
      [] ev.name = "security_inode_rename" ->
            LET newPath == GetArgument(ev, "new_path", "string")
            IN  IF newPath.err THEN Fail ELSE Emit(HasSuffix(newPath.value, PreloadPath))
      [] OTHER -> Ok(0)
-----------------------------------------------------------------------------
(* HiddenFileCreated (TRC-1015) *)
HiddenPathPattern == "/."

HiddenFileCreatedSelectors == {Sel("magic_write", "*")}

HiddenFileCreatedOnEvent(ev) ==
    IF ev.name # "magic_write" THEN Ok(0)
    ELSE LET bytes    == GetArgument(ev, "bytes", "[]byte")
             pathname == GetArgument(ev, "pathname", "string")
         IN  IF bytes.err \/ pathname.err THEN Fail
             ELSE Emit(IsElf(bytes.value) /\ StrContains(pathname.value, HiddenPathPattern))
-----------------------------------------------------------------------------
(* DefaultLoaderModification (TRC-1012) *)
DefaultLoaderSelectors == {Sel("security_file_open", "*"), Sel("security_inode_rename", "*")}

\* compiledRegex.MatchString for ^\/(lib|usr\/lib).*\/ld.*\.so[^\/]*
MatchesDynamicLoader(p) ==
    \E pre \in {"/lib", "/usr/lib"} :
        /\ HasPrefix(p, pre)
        /\ \E i \in IndicesOf(p, "/ld"), j \in IndicesOf(p, ".so") : i > Len(pre) /\ j >= i + 3

\* The path the switch of OnEvent leaves in `path`, or the error it returns.
LoaderPath(ev) ==
    CASE ev.name = "security_file_open" ->
            LET flags == GetArgument(ev, "flags", "string")
            IN  CASE flags.err -> Failed
                  [] IsFileWrite(flags.value) -> GetArgument(ev, "pathname", "string")
                  [] OTHER -> Value("")
      [] ev.name = "security_inode_rename" -> GetArgument(ev, "new_path", "string")
      [] OTHER -> Value("")

DefaultLoaderOnEvent(ev) ==
    LET path == LoaderPath(ev)
    IN  IF path.err THEN Fail ELSE Emit(MatchesDynamicLoader(path.value))
-----------------------------------------------------------------------------
(* CgroupNotifyOnReleaseModification (TRC-106) *)
NotifyFileName == "notify_on_release"

CgroupNotifySelectors == {Sel("security_file_open", "container")}

CgroupNotifyOnEvent(ev) ==
    IF ev.name # "security_file_open" THEN Ok(0)
    ELSE LET pathname == GetArgument(ev, "pathname", "string")
             flags    == GetArgument(ev, "flags", "string")
         IN  IF pathname.err \/ flags.err THEN Fail
             ELSE Emit(Base(pathname.value) = NotifyFileName /\ IsFileWrite(flags.value))
-----------------------------------------------------------------------------
(* DockerAbuse (TRC-1019) *)
DockerSock == "docker.sock"

DockerAbuseSelectors ==
    {Sel("security_file_open", "container"), Sel("security_socket_connect", "container")}

\* The path the switch leaves in `path`.  The early `return nil` for a
\* non-unix family is the empty path, which never ends in docker.sock.
DockerPath(ev) ==
    CASE ev.name = "security_file_open" ->
            LET pathname == GetArgument(ev, "pathname", "string")
                flags    == GetArgument(ev, "flags", "string")
            IN  CASE pathname.err \/ flags.err -> Failed
                  [] IsFileWrite(flags.value) -> pathname
                  [] OTHER -> Value("")
      [] ev.name = "security_socket_connect" ->
            LET addr == GetArgument(ev, "remote_addr", "sockaddr")
                unix == IsUnixFamily(addr.value)
            IN  CASE addr.err \/ unix.err -> Failed
                  [] ~unix.value -> Value("")
                  [] OTHER -> GetPathFromRawAddr(addr.value)
      [] OTHER -> Value("")

DockerAbuseOnEvent(ev) ==
    LET path == DockerPath(ev)
    IN  IF path.err THEN Fail ELSE Emit(HasSuffix(path.value, DockerSock))
-----------------------------------------------------------------------------
(* codeInjection (benchmark signature) *)
Digits == {"0", "1", "2", "3", "4", "5", "6", "7", "8", "9"}

\* The selectors leave Origin unset.
CodeInjectionSelectors ==
    {Sel("ptrace", NoOrigin), Sel("open", NoOrigin), Sel("openat", NoOrigin), Sel("execve", NoOrigin)}

\* processMemFileRegexp.MatchString for /proc/(?:\d.+|self)/mem (unanchored)
MatchesProcessMemFile(p) ==
    \E k \in IndicesOf(p, "/proc/") :
        LET r == From(p, k + 6)
        IN  \/ HasPrefix(r, "self/mem")
            \/ r # "" /\ CharAt(r, 1) \in Digits /\ \E m \in IndicesOf(r, "/mem") : m >= 3

\* flags.Value.(string) and pathname.Value.(string) are unchecked type
\* assertions: a value of another type panics.
CodeInjectionOnEvent(ev) ==
    LET flags    == GetTrackerArgumentByName(ev, "flags")
        pathname == GetTrackerArgumentByName(ev, "pathname")
        request  == GetTrackerArgumentByName(ev, "request")
    IN  CASE ev.name \in {"open", "openat"} ->
                CASE ~flags.found -> Fail
                  [] flags.arg.type # "string" -> Panic
                  [] ~IsFileWrite(flags.arg.value) -> Ok(0)
                  [] ~pathname.found -> Fail
                  [] pathname.arg.type # "string" -> Panic
                  [] OTHER -> Emit(MatchesProcessMemFile(pathname.arg.value))
          [] ev.name = "ptrace" ->
                CASE ~request.found -> Fail
                  [] request.arg.type # "string" -> Fail
                  [] OTHER -> Emit(request.arg.value \in {"PTRACE_POKETEXT", "PTRACE_POKEDATA"})
          [] OTHER -> Ok(0)
-----------------------------------------------------------------------------
(* The e2e rules of tests/e2e-*-signatures: selectors without an Origin,  *)
(* and a finding for the one event the e2e workload produces.            *)
E2eFtraceHookSelectors == {Sel("ftrace_hook", NoOrigin)}

E2eFtraceHookOnEvent(ev) ==
    IF ev.name # "ftrace_hook" THEN Ok(0)
    ELSE LET symbolName == GetArgument(ev, "symbol", "string")
         IN  IF symbolName.err THEN Fail ELSE Emit(symbolName.value = "commit_creds")

E2eIPv4Selectors == {Sel("net_packet_ipv4", NoOrigin)}

\* helpers.GetProtoIPv4ByName: the argument of type trace.ProtoIPv4.
GetProtoIPv4ByName(ev, argName) == GetArgument(ev, argName, "trace.ProtoIPv4")

\* The task context must be set (HostName), then src, dst and the parsed
\* header must all name the e2e test's 172.16.17.2 -> 172.16.17.1 packet.
E2eIPv4OnEvent(ev) ==
    IF ev.name # "net_packet_ipv4" \/ ev.hostName = "" THEN Ok(0)
    ELSE LET src  == GetArgument(ev, "src", "string")
             dst  == GetArgument(ev, "dst", "string")
             ipv4 == GetProtoIPv4ByName(ev, "proto_ipv4")
         IN  CASE src.err \/ dst.err \/ ipv4.err -> Fail
               [] src.value # "172.16.17.2" \/ dst.value # "172.16.17.1" -> Ok(0)
               [] OTHER -> Emit(ipv4.value = [version |-> 4, ihl |-> 5, srcIP |-> "172.16.17.2",
                                              dstIP |-> "172.16.17.1"])
-----------------------------------------------------------------------------
(* The signature set: each signature's selectors and OnEvent, by type name. *)
SignatureTypes ==
    {"LdPreload", "HiddenFileCreated", "DefaultLoaderModification",
     "CgroupNotifyOnReleaseModification", "DockerAbuse", "codeInjection",
     "e2eFtraceHook", "e2eIPv4"}

(* GetMetadata of each signature, abstracted to the metadata's ID: the   *)
(* name, description and properties are constants no property reads.     *)
LdPreloadID == "TRC-107"
HiddenFileCreatedID == "TRC-1015"
DefaultLoaderID == "TRC-1012"
CgroupNotifyID == "TRC-106"
DockerAbuseID == "TRC-1019"
\* NewCodeInjectionSignature's metadata sets no ID.
CodeInjectionID == ""
E2eFtraceHookID == "FTRACE_HOOK"
E2eIPv4ID == "IPv4"

SignatureID(s) ==
    CASE s = "LdPreload" -> LdPreloadID
      [] s = "HiddenFileCreated" -> HiddenFileCreatedID
      [] s = "DefaultLoaderModification" -> DefaultLoaderID
      [] s = "CgroupNotifyOnReleaseModification" -> CgroupNotifyID
      [] s = "DockerAbuse" -> DockerAbuseID
      [] s = "codeInjection" -> CodeInjectionID
      [] s = "e2eFtraceHook" -> E2eFtraceHookID
      [] s = "e2eIPv4" -> E2eIPv4ID

GetSelectedEvents(s) ==
    CASE s = "LdPreload" -> LdPreloadSelectors
      [] s = "HiddenFileCreated" -> HiddenFileCreatedSelectors
      [] s = "DefaultLoaderModification" -> DefaultLoaderSelectors
      [] s = "CgroupNotifyOnReleaseModification" -> CgroupNotifySelectors
      [] s = "DockerAbuse" -> DockerAbuseSelectors
      [] s = "codeInjection" -> CodeInjectionSelectors
      [] s = "e2eFtraceHook" -> E2eFtraceHookSelectors
      [] s = "e2eIPv4" -> E2eIPv4Selectors

OnEvent(s, ev) ==
    CASE s = "LdPreload" -> LdPreloadOnEvent(ev)
      [] s = "HiddenFileCreated" -> HiddenFileCreatedOnEvent(ev)
      [] s = "DefaultLoaderModification" -> DefaultLoaderOnEvent(ev)
      [] s = "CgroupNotifyOnReleaseModification" -> CgroupNotifyOnEvent(ev)
      [] s = "DockerAbuse" -> DockerAbuseOnEvent(ev)
      [] s = "codeInjection" -> CodeInjectionOnEvent(ev)
      [] s = "e2eFtraceHook" -> E2eFtraceHookOnEvent(ev)
      [] s = "e2eIPv4" -> E2eIPv4OnEvent(ev)
=============================================================================
