-------------------------- MODULE PolicyReconciler --------------------------
(***************************************************************************)
(* The tracker operator (pkg/k8s/controller/controller.go): a change of a *)
(* Policy object enqueues a request; one worker of controller-runtime     *)
(* takes it and calls Reconcile, which Gets the tracker DaemonSet, sets   *)
(* the "tracker-operator-restarted" annotation of its pod template and    *)
(* Updates it, so that the DaemonSet controller rolls the pods out again. *)
(* An error from Get or Update is returned, and the request is requeued   *)
(* with backoff.  Update is optimistic: it fails with a conflict when the *)
(* object's resourceVersion moved since the Get (another writer, such as  *)
(* the DaemonSet controller updating the object).                         *)
(*                                                                         *)
(* The workqueue is controller-runtime's: a set of keys, none processed   *)
(* twice at once; a key added while it is processed is marked dirty and   *)
(* queued again when the worker is done with it.                          *)
(***************************************************************************)
EXTENDS Naturals

CONSTANTS
    Policies,      \* the Policy objects
    MaxChanges,    \* bound on policy changes
    MaxApiErrors,  \* bound on transient API errors
    MaxWrites      \* bound on writes by other clients

VARIABLES
    changes,    \* how many policy changes have happened
    queue,      \* keys waiting in the workqueue
    dirty,      \* keys added while being processed
    rc,         \* the worker: [pc, key, seen, rv]
    dsRv,       \* the DaemonSet's resourceVersion
    covered,    \* the changes the last rollout started after
    apiErrors,  \* transient errors so far
    writes      \* other clients' writes so far

recVars == <<changes, queue, dirty, rc, dsRv, covered, apiErrors, writes>>

NoKey == "none"
IdleWorker == [pc |-> "idle", key |-> NoKey, seen |-> 0, rv |-> 0]

RecInit ==
    /\ changes = 0
    /\ queue = {}
    /\ dirty = {}
    /\ rc = IdleWorker
    /\ dsRv = 1
    /\ covered = 0
    /\ apiErrors = 0
    /\ writes = 0

\* The worker is done with its key: a dirty key goes back to the queue,
\* and so does a key whose Reconcile returned an error.
Done(requeue) ==
    /\ queue' = queue \cup (IF requeue \/ rc.key \in dirty THEN {rc.key} ELSE {})
    /\ dirty' = dirty \ {rc.key}
    /\ rc' = IdleWorker

\* Fault variant of ChangePolicy: the request is queued even while processed.
ChangePolicyNoDirty(p) ==
    /\ changes < MaxChanges
    /\ changes' = changes + 1
    /\ queue' = queue \cup {p}
    /\ UNCHANGED <<dirty, rc, dsRv, covered, apiErrors, writes>>

\* For(&v1beta1.Policy{}): a change of policy p enqueues a request for p.
ChangePolicy(p) ==
    /\ changes < MaxChanges
    /\ changes' = changes + 1
    /\ IF rc.pc # "idle" /\ rc.key = p
       THEN dirty' = dirty \cup {p} /\ UNCHANGED queue
       ELSE queue' = queue \cup {p} /\ UNCHANGED dirty
    /\ UNCHANGED <<rc, dsRv, covered, apiErrors, writes>>

\* The worker takes a key and calls Reconcile.
Dequeue(p) ==
    /\ rc.pc = "idle" /\ p \in queue
    /\ queue' = queue \ {p}
    /\ rc' = [pc |-> "get", key |-> p, seen |-> changes, rv |-> 0]
    /\ UNCHANGED <<changes, dirty, dsRv, covered, apiErrors, writes>>

\* r.Get fails: "unable to fetch daemonset", return the error.
GetFails ==
    /\ rc.pc = "get" /\ apiErrors < MaxApiErrors
    /\ apiErrors' = apiErrors + 1
    /\ Done(TRUE)
    /\ UNCHANGED <<changes, dsRv, covered, writes>>

\* r.Get succeeds; the annotation is set on the local copy.
GetOk ==
    /\ rc.pc = "get"
    /\ rc' = [rc EXCEPT !.pc = "update", !.rv = dsRv]
    /\ UNCHANGED <<changes, queue, dirty, dsRv, covered, apiErrors, writes>>

\* Fault variant of UpdateFails: the error is logged and nil returned.
UpdateFailsForgotten ==
    /\ rc.pc = "update"
    /\ \/ rc.rv # dsRv /\ UNCHANGED apiErrors
       \/ apiErrors < MaxApiErrors /\ apiErrors' = apiErrors + 1
    /\ Done(FALSE)
    /\ UNCHANGED <<changes, dsRv, covered, writes>>

\* r.Update fails: a conflict, or a transient error; return the error.
UpdateFails ==
    /\ rc.pc = "update"
    /\ \/ rc.rv # dsRv /\ UNCHANGED apiErrors
       \/ apiErrors < MaxApiErrors /\ apiErrors' = apiErrors + 1
    /\ Done(TRUE)
    /\ UNCHANGED <<changes, dsRv, covered, writes>>

\* r.Update succeeds: the pod template changed and the pods roll out.
UpdateOk ==
    /\ rc.pc = "update" /\ rc.rv = dsRv
    /\ dsRv' = dsRv + 1
    /\ covered' = IF rc.seen > covered THEN rc.seen ELSE covered
    /\ Done(FALSE)
    /\ UNCHANGED <<changes, apiErrors, writes>>

\* Another client writes the DaemonSet.
OtherWrite ==
    /\ writes < MaxWrites
    /\ writes' = writes + 1
    /\ dsRv' = dsRv + 1
    /\ UNCHANGED <<changes, queue, dirty, rc, covered, apiErrors>>

RecNext ==
    \/ \E p \in Policies : ChangePolicy(p) \/ Dequeue(p)
    \/ GetFails \/ GetOk \/ UpdateFails \/ UpdateOk \/ OtherWrite

\* The worker runs whenever a key is queued (a requeue's backoff expires),
\* and the API server answers every call: weak fairness of the whole
\* relation, since changes, errors and foreign writes are bounded.
RecSpec == RecInit /\ [][RecNext]_recVars /\ WF_recVars(RecNext)
-----------------------------------------------------------------------------
(* Type invariant of the operator's state; besides, a request being      *)
(* reconciled is not also queued, so two Reconciles of it never overlap.  *)
RecTypeOK ==
    /\ changes \in 0..MaxChanges
    /\ queue \subseteq Policies /\ dirty \subseteq Policies
    /\ rc.pc \in {"idle", "get", "update"}
    /\ covered \in 0..changes
    /\ rc.pc # "idle" => rc.key \notin queue

(* Every policy change is rolled out: whatever the API errors and update  *)
(* conflicts Reconcile meets, the DaemonSet is eventually updated by a    *)
(* Reconcile that started after the last change.                          *)
EveryChangeRolledOut == <>[](covered = changes)
====
