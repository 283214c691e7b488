------------------------- MODULE MCPolicyReconciler -------------------------
(* Instantiates PolicyReconciler; the bounds are given in the cfg.         *)
EXTENDS PolicyReconciler
====
