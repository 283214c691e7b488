----------------------------- MODULE MCWaitLoop -----------------------------
(* The timeouts of tests/integration/tracker.go and a test that waits for *)
(* two events.                                                            *)
EXTENDS WaitLoop
====
