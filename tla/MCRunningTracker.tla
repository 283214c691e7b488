-------------------------- MODULE MCRunningTracker --------------------------
(* Instantiates RunningTracker; the timeout is given in the cfg.           *)
EXTENDS RunningTracker
====
