--------------------------- MODULE MCInputOptions ---------------------------
(***************************************************************************)
(* Every option slice of up to MaxOptions options over a pool that hits   *)
(* each branch of parseTrackerInputOptions, including the test cases of  *)
(* input_test.go ("A", ":", "file:", "format:xml", "shmoo:hallo").       *)
(***************************************************************************)
EXTENDS InputOptions

CONSTANT MaxOptions

OptionPool ==
    {"help", "A", ":", "a:b:c", "file:", "shmoo:hallo", "format:xml", "format:Json",
     "file:stdin", "file:/events.json", "file:/missing", "file:/secret.json"}

MCOptionLists == UNION {[1..n -> OptionPool] : n \in 0..MaxOptions}
MCExistingFiles == {"/events.json", "/secret.json"}
MCUnopenableFiles == {"/secret.json"}
====
