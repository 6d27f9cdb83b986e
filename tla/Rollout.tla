-------------------------------- MODULE Rollout --------------------------------
(***************************************************************************)
(* What the operator promises those who read the status of an              *)
(* UpgradeAccelerator, without the worker, its copies of the objects, its  *)
(* caches and what may go wrong between them: every update of a status is  *)
(* one step here.  Jobs are made for a version of the cluster only.  A     *)
(* node is reported as preheated only when a job on it has succeeded, and  *)
(* stays reported until the whole report is given up.  The target version  *)
(* is recorded as completed by an update of its own, when as many nodes    *)
(* are reported as are selected.  An edit of a spec changes nothing here.  *)
(***************************************************************************)
EXTENDS Naturals, Sequences, FiniteSets

CONSTANTS UA, Node, Version, NoVersion

VARIABLES
    job,      \* node |-> version |-> the state of its pull job
    pulled,   \* <<node, version>> for which a job has succeeded
    status    \* object |-> what its status reports

vars == <<job, pulled, status>>

(* The nodes reported as preheated, those selected, the target version and *)
(* the last completed one.                                                 *)
NewStatus == [preheated |-> {}, selected |-> <<>>, target |-> NoVersion, last |-> NoVersion]

Init ==
    /\ job = [n \in Node |-> [v \in Version \union {NoVersion} |-> "none"]]
    /\ pulled = {}
    /\ status = [u \in UA |-> NewStatus]

Change(n, v, state) == job' = [job EXCEPT ![n][v] = state]

Launch(n, v) ==
    /\ job[n][v] = "none"
    /\ Change(n, v, "active")
    /\ UNCHANGED <<pulled, status>>

Succeed(n, v) ==
    /\ job[n][v] = "active"
    /\ Change(n, v, "succeeded")
    /\ pulled' = pulled \union {<<n, v>>}
    /\ UNCHANGED status

Fail(n, v) ==
    /\ job[n][v] = "active"
    /\ Change(n, v, "failed")
    /\ UNCHANGED <<pulled, status>>

Expire(n, v) ==
    /\ job[n][v] \in {"succeeded", "failed"}
    /\ Change(n, v, "none")
    /\ UNCHANGED <<pulled, status>>

(* One status changes, the jobs do not.                                    *)
Updates(u) ==
    /\ status' = [status EXCEPT ![u] = status'[u]]
    /\ UNCHANGED <<job, pulled>>

Report(u) ==
    /\ Updates(u)
    /\ status[u].preheated \subseteq status'[u].preheated
    /\ \A n \in status'[u].preheated : \E pull \in pulled : pull[1] = n
    /\ status'[u].last = status[u].last

GiveUp(u) ==
    /\ Updates(u)
    /\ status'[u].preheated = {} /\ status'[u].selected = <<>>
    /\ status'[u].last = status[u].last

Complete(u) ==
    /\ Updates(u)
    /\ Len(status[u].selected) = Cardinality(status[u].preheated)
    /\ status'[u] = [status[u] EXCEPT !.last = status[u].target]

Next ==
    \/ \E n \in Node, v \in Version : Launch(n, v) \/ Succeed(n, v)
    \/ \E n \in Node, v \in Version : Fail(n, v) \/ Expire(n, v)
    \/ \E u \in UA : Report(u) \/ GiveUp(u) \/ Complete(u)

Spec == Init /\ [][Next]_vars
================================================================================
