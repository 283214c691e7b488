---------------------------- MODULE InputOptions ----------------------------
(***************************************************************************)
(* The --input-tracker options of tracker-rules (cmd/tracker-rules/       *)
(* input.go): parseTrackerInputOptions walks the "key:value" options in   *)
(* order, returns at the first one that is "help", malformed, empty on a  *)
(* side, names an unusable file, an unknown format or an unknown key, and *)
(* otherwise returns the options it collected; setupTrackerInputSource    *)
(* then starts the JSON reader only for the json format.                  *)
(*                                                                         *)
(* A file option stats and opens the path inside                          *)
(* capabilities.Specific(DAC_OVERRIDE), which may itself fail to raise    *)
(* the capability: that outcome is a nondeterministic choice.             *)
(***************************************************************************)
EXTENDS Naturals, Sequences, FiniteSets, GoStrings

CONSTANTS
    OptionLists,      \* the option slices the model considers
    ExistingFiles,    \* paths os.Stat finds
    UnopenableFiles   \* existing paths os.Open fails on

VARIABLES
    options,   \* the inputOptions slice
    i,         \* the loop index (1-based)
    parsed,    \* inputSourceOptions: [file, format]
    pc,        \* "parse", "setup", "done"
    outcome    \* "none" while running, then the result

optVars == <<options, i, parsed, pc, outcome>>

\* The zero value of the inputFile field: a nil *os.File.
NoFile == "nil"

\* strings.Split(o, ":") when it has exactly two parts, else <<>>.
KV(o) ==
    LET c == IndicesOf(o, ":")
    IN  IF Cardinality(c) # 1 THEN <<>>
        ELSE LET k == CHOOSE x \in c : TRUE IN <<SubSeq(o, 1, k - 1), From(o, k + 1)>>

OptInit ==
    /\ options \in OptionLists
    /\ i = 1
    /\ parsed = [file |-> NoFile, format |-> "invalid"]
    /\ pc = "parse"
    /\ outcome = "none"

Return(err) == pc' = "done" /\ outcome' = err

\* len(inputOptions) == 0
NoOptions ==
    /\ pc = "parse" /\ options = <<>>
    /\ Return("noOptions")
    /\ UNCHANGED <<options, i, parsed>>

\* The option passes the checks at the top of the loop body.
Valid(o) == o # "help" /\ KV(o) # <<>> /\ KV(o)[1] # "" /\ KV(o)[2] # ""

\* The checks at the top of one loop iteration that return an error.
RejectOption ==
    LET o == options[i]
    IN  /\ pc = "parse" /\ i <= Len(options)
        /\ \/ o = "help" /\ Return("help")
           \/ o # "help" /\ KV(o) = <<>> /\ Return("invalidOption")
           \/ o # "help" /\ KV(o) # <<>> /\ (KV(o)[1] = "" \/ KV(o)[2] = "")
              /\ Return("emptyKeyOrValue")
           \/ Valid(o) /\ KV(o)[1] \notin {"file", "format"} /\ Return("invalidKey")
        /\ UNCHANGED <<options, i, parsed>>

\* parseTrackerInputFile: stdin, or stat and open under the capability.
ParseFile ==
    LET v == KV(options[i])[2]
    IN  /\ pc = "parse" /\ i <= Len(options)
        /\ Valid(options[i]) /\ KV(options[i])[1] = "file"
        /\ \/ v = "stdin" /\ parsed' = [parsed EXCEPT !.file = "stdin"]
              /\ i' = i + 1 /\ UNCHANGED <<pc, outcome>>
           \/ v # "stdin" /\ (v \notin ExistingFiles \/ v \in UnopenableFiles)
              /\ Return("invalidFile") /\ UNCHANGED <<i, parsed>>
           \/ v # "stdin" /\ v \in ExistingFiles \ UnopenableFiles
              /\ \/ Return("capFailure") /\ UNCHANGED <<i, parsed>>
                 \/ parsed' = [parsed EXCEPT !.file = v] /\ i' = i + 1
                    /\ UNCHANGED <<pc, outcome>>
        /\ UNCHANGED options

\* parseTrackerInputFormat: strings.ToUpper(value) must be "JSON".
ParseFormat ==
    LET v == KV(options[i])[2]
    IN  /\ pc = "parse" /\ i <= Len(options)
        /\ Valid(options[i]) /\ KV(options[i])[1] = "format"
        /\ IF ToUpper(v) = "JSON"
           THEN parsed' = [parsed EXCEPT !.format = "json"] /\ i' = i + 1
                /\ UNCHANGED <<pc, outcome>>
           ELSE parsed' = [parsed EXCEPT !.format = "invalid"]
                /\ Return("invalidFormat") /\ UNCHANGED i
        /\ UNCHANGED options

\* Fault variant of ParseDone: the loop bound is off by one.
ParseDoneEarly ==
    /\ pc = "parse" /\ options # <<>> /\ i >= Len(options)
    /\ pc' = "setup"
    /\ UNCHANGED <<options, i, parsed, outcome>>

\* The loop ends: return &inputSourceOptions, nil.
ParseDone ==
    /\ pc = "parse" /\ options # <<>> /\ i > Len(options)
    /\ pc' = "setup"
    /\ UNCHANGED <<options, i, parsed, outcome>>

\* setupTrackerInputSource: the JSON reader, or "could not set up input source".
SetupInput ==
    /\ pc = "setup"
    /\ Return(IF parsed.format = "json" THEN "reading" ELSE "noInputSource")
    /\ UNCHANGED <<options, i, parsed>>

OptNext == NoOptions \/ RejectOption \/ ParseFile \/ ParseFormat \/ ParseDone \/ SetupInput

OptSpec == OptInit /\ [][OptNext]_optVars
-----------------------------------------------------------------------------
\* What one option alone leads to: "none" when the loop goes on past it.
OptionOutcomes(o) ==
    IF ~Valid(o)
    THEN {CASE o = "help" -> "help"
            [] KV(o) = <<>> -> "invalidOption"
            [] OTHER -> "emptyKeyOrValue"}
    ELSE LET k == KV(o)[1]
             v == KV(o)[2]
         IN  CASE k = "file" /\ v = "stdin" -> {"none"}
               [] k = "file" /\ (v \notin ExistingFiles \/ v \in UnopenableFiles) -> {"invalidFile"}
               [] k = "file" -> {"none", "capFailure"}
               [] k = "format" -> IF ToUpper(v) = "JSON" THEN {"none"} ELSE {"invalidFormat"}
               [] OTHER -> {"invalidKey"}

\* The value the last option with key k gave, or dflt.
LastValue(opts, k, dflt) ==
    LET I == {j \in 1..Len(opts) : Valid(opts[j]) /\ KV(opts[j])[1] = k}
    IN  IF I = {} THEN dflt ELSE KV(opts[CHOOSE j \in I : \A m \in I : m <= j])[2]

\* The reference result: the first option that can stop the loop decides;
\* if none does, the last file option names the file and a json format
\* option starts the reader.
ReferenceOutcomes(opts) ==
    IF opts = <<>> THEN {[outcome |-> "noOptions", file |-> NoFile]}
    ELSE LET Passes(j) == \A m \in 1..(j - 1) : "none" \in OptionOutcomes(opts[m])
             file == LastValue(opts, "file", NoFile)
         IN  {[outcome |-> e, file |-> file] :
                  e \in UNION {OptionOutcomes(opts[j]) \ {"none"} : j \in {j \in 1..Len(opts) : Passes(j)}}}
             \cup
             IF Passes(Len(opts) + 1)
             THEN {[outcome |-> IF LastValue(opts, "format", "") = "" THEN "noInputSource" ELSE "reading",
                    file |-> file]}
             ELSE {}

(* The parser agrees with the reference: the loop returns the error of   *)
(* the first option that fails, "help" only when it comes before every   *)
(* failing option, and on success the last file option wins and the     *)
(* reader starts only if a format option was given.                      *)
ParseMatchesReference ==
    pc = "done" =>
        \/ outcome # "reading" /\ outcome # "noInputSource"
           /\ outcome \in {r.outcome : r \in ReferenceOutcomes(options)}
        \/ [outcome |-> outcome, file |-> parsed.file] \in ReferenceOutcomes(options)

(* The help text of input.go (printHelp) names `file` as the input       *)
(* source: when the JSON reader starts, the options named a file or       *)
(* stdin.                                                                  *)
InputSourceNamed == outcome = "reading" => parsed.file # NoFile
====
