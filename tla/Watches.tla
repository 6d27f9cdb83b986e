-------------------------------- MODULE Watches --------------------------------
(***************************************************************************)
(* Which changes in the cluster lead to a call of Reconcile, and when:     *)
(* SetupWithManager (upgradeaccelerator_manager.go), its three event       *)
(* filters, and the results that Reconcile returns to the work queue.      *)
(*                                                                         *)
(* An informer delivers the changes of an object one by one, or skips to   *)
(* the last one after its watch broke and it lists again.  All three       *)
(* filters must accept an event before its keys enter the queue.  What     *)
(* Reconcile does with the versions it reads is in module Reconciler.      *)
(***************************************************************************)
EXTENDS Naturals, Sequences

CONSTANTS
    UA,               \* the keys of UpgradeAccelerators
    Owned,            \* the Jobs and ConfigMaps that have one of them as controller
    Owner,            \* owned object |-> key of its controller
    ClusterVersion,   \* the one object of this kind
    ClusterOperator,  \* the one called machine-config
    Version,          \* versions of OpenShift
    NoVersion,        \* no version, or no version called "operator" in the list
    Absent,           \* the contents of an object that does not exist
    None,             \* the worker is idle
    InitialObjects,   \* the sets of the others that may exist at the start
    MaxChanges,       \* bound: changes of objects, and errors of calls
    MaxFeed,          \* bound: changes of one object an informer lags behind
    MaxRestarts       \* bound: restarts of the operator

Object == UA \union Owned \union {ClusterVersion, ClusterOperator}

Steps == {"get", "current", "desired", "rest"}

ASSUME ObjectAssumption ==
    /\ Owner \in [Owned -> UA] /\ InitialObjects \subseteq SUBSET (UA \union Owned)
    /\ UA \cap Owned = {} /\ {ClusterVersion, ClusterOperator} \cap (UA \union Owned) = {}
    /\ ClusterVersion # ClusterOperator
    /\ None \notin [key : UA, step : Steps] /\ NoVersion \notin Version
ASSUME BoundAssumption == {MaxChanges, MaxFeed, MaxRestarts} \subseteq Nat

(* uid tells two objects of one name apart; "state" is the one field of    *)
(* the spec, and "version" the one of the status, that matter here: of a   *)
(* ClusterVersion the desired version, of the ClusterOperator its own.     *)
Contents ==
    [uid : Nat, generation : Nat, state : {"enabled", "disabled"},
     version : Version \union {NoVersion}]

ASSUME AbsentAssumption == Absent \notin Contents

VARIABLES
    feed,      \* object |-> the changes its informer has not delivered yet
    cached,    \* object |-> the informer's copy
    queue,     \* the keys in the work queue
    timers,    \* the keys that enter the queue later
    worker,    \* the key that the worker handles and how far it has come, or None
    acted,     \* key |-> what Reconcile read last of its object and the versions
    changes, restarts

informers == <<feed, cached>>
vars == <<feed, cached, queue, timers, worker, acted, changes, restarts>>

NothingRead == [self |-> Absent, current |-> NoVersion, desired |-> NoVersion]

(* The two objects of the cluster are always there.                        *)
Values(o) == IF o \in {ClusterVersion, ClusterOperator} THEN Contents
                                                        ELSE Contents \union {Absent}

TypeOK ==
    /\ feed \in [Object -> Seq(Contents \union {Absent})]
    /\ cached \in [Object -> Contents \union {Absent}]
    /\ \A o \in Object : feed[o] \in Seq(Values(o)) /\ cached[o] \in Values(o)
    /\ queue \subseteq UA /\ timers \subseteq UA
    /\ worker \in [key : UA, step : Steps] \union {None}
    /\ acted \in [UA -> [self : Contents \union {Absent},
                         current : Version \union {NoVersion},
                         desired : Version \union {NoVersion}]]
    /\ changes \in 0 .. MaxChanges /\ restarts \in 0 .. MaxRestarts

(* The object as the API server holds it.                                  *)
Stored(o) == IF feed[o] = <<>> THEN cached[o] ELSE feed[o][Len(feed[o])]

New(uid, version) ==
    [uid |-> uid, generation |-> 1, state |-> "enabled", version |-> version]

(* A mutant: the owner of an object is not looked up.                      *)
ListedByName == {o \in UA \union Owned : Stored(o) # Absent}

(* The objects an informer lists when it starts are events too, and no     *)
(* filter looks at creations.                                              *)
Listed == {u \in UA : Stored(u) # Absent}
            \union {Owner[o] : o \in {x \in Owned : Stored(x) # Absent}}

(* The cluster has its two objects, and perhaps others; the operator has   *)
(* just started.                                                           *)
Init ==
    /\ feed = [o \in Object |-> <<>>]
    /\ \E version \in Version, existing \in InitialObjects :
         cached = [o \in Object |->
                     IF o \in {ClusterVersion, ClusterOperator} THEN New(0, version)
                     ELSE IF o \in existing THEN New(0, NoVersion) ELSE Absent]
    /\ queue = Listed /\ timers = {} /\ worker = None
    /\ acted = [u \in UA |-> NothingRead]
    /\ changes = 0 /\ restarts = 0

--------------------------------------------------------------------------------
(***************************************************************************)
(* The API server.  A generation counts the changes of a spec: no update   *)
(* of a status changes it, and one update never does both.                 *)
(***************************************************************************)
Change(o, contents) ==
    /\ changes < MaxChanges /\ Len(feed[o]) < MaxFeed
    /\ changes' = changes + 1
    /\ feed' = [feed EXCEPT ![o] = Append(@, contents)]
    /\ UNCHANGED <<cached, queue, timers, worker, acted, restarts>>

Create(o) ==
    /\ o \in UA \union Owned /\ Stored(o) = Absent
    /\ Change(o, New(changes + 1, NoVersion))

Delete(o) ==
    /\ o \in UA \union Owned /\ Stored(o) # Absent
    /\ Change(o, Absent)

(* An edit that leaves the state alone is one of another field.  A         *)
(* ClusterOperator has an empty spec, and nobody edits the spec of what an *)
(* UpgradeAccelerator owns.                                                *)
EditSpec(o, state) ==
    /\ o \in UA \union {ClusterVersion} /\ Stored(o) # Absent
    /\ o = ClusterVersion => state = "enabled"
    /\ Change(o, [Stored(o) EXCEPT !.state = state, !.generation = @ + 1])

(* The version stands for all that the status of the others may say: what  *)
(* their controllers make of the version of the cluster.                   *)
WriteStatus(o, version) ==
    /\ Stored(o) # Absent /\ Stored(o).version # version
    /\ version = NoVersion => o = ClusterOperator
    /\ o \in UA \union Owned => version = Stored(ClusterVersion).version
    /\ Change(o, [Stored(o) EXCEPT !.version = version])

--------------------------------------------------------------------------------
(***************************************************************************)
(* The informers, the filters and the handlers.                            *)
(***************************************************************************)
(* hasClusterVersionChanged                                                *)
VersionFilter(o, old, new) == o = ClusterVersion => old.version # new.version

(* hasMachineConfigClusterOperatorChanged                                  *)
OperatorFilter(o, old, new) ==
    o = ClusterOperator =>
        /\ old.version # NoVersion /\ new.version # NoVersion
        /\ old.version # new.version

(* A mutant: the last filter looks at updates of UpgradeAccelerators only. *)
GenerationOfAccelerators(o, old, new) ==
    o \in UA => old.generation # new.generation

(* A mutant: updates that change the generation are the ones ignored.      *)
GenerationKept(o, old, new) == old.generation = new.generation

GenerationFilter(o, old, new) == old.generation # new.generation

(* "confirmed" is the negation of DeleteStateUnknown: the watch itself     *)
(* reported the deletion.                                                  *)
Passes(o, old, new, confirmed) ==
    CASE old = Absent -> TRUE
      [] old # Absent /\ new = Absent -> confirmed
      [] OTHER -> /\ VersionFilter(o, old, new)
                  /\ OperatorFilter(o, old, new)
                  /\ GenerationFilter(o, old, new)

(* The keys that a handler makes of an event.  The two mapping functions   *)
(* list the objects from the cache, ...                                    *)
Keys(o) ==
    CASE o \in UA -> {o}
      [] o \in Owned -> {Owner[o]}
      [] OTHER -> {u \in UA : cached[u] # Absent}

(* ... and make no request at all if that fails.                           *)
MappingFails(o) ==
    /\ o \in {ClusterVersion, ClusterOperator} /\ changes < MaxChanges
    /\ changes' = changes + 1
    /\ UNCHANGED queue

Notify(o, new, confirmed) ==
    /\ cached' = [cached EXCEPT ![o] = new]
    /\ IF new # cached[o] /\ Passes(o, cached[o], new, confirmed)
       THEN \/ queue' = queue \union Keys(o) /\ UNCHANGED changes
            \/ MappingFails(o)
       ELSE UNCHANGED <<queue, changes>>
    /\ UNCHANGED <<timers, worker, acted, restarts>>

Deliver(o) ==
    /\ feed[o] # <<>>
    /\ feed' = [feed EXCEPT ![o] = Tail(@)]
    /\ Notify(o, Head(feed[o]), TRUE)

(* The watch broke: the informer lists again and sees the last state only. *)
ListAgain(o) ==
    /\ feed[o] # <<>>
    /\ feed' = [feed EXCEPT ![o] = <<>>]
    /\ Notify(o, Stored(o), FALSE)

--------------------------------------------------------------------------------
(***************************************************************************)
(* The work queue and the worker.                                          *)
(***************************************************************************)
Fire(u) ==
    /\ u \in timers
    /\ timers' = timers \ {u}
    /\ queue' = queue \union {u}
    /\ UNCHANGED <<informers, worker, acted, changes, restarts>>

Take(u) ==
    /\ worker = None /\ u \in queue
    /\ queue' = queue \ {u}
    /\ worker' = [key |-> u, step |-> "get"]
    /\ UNCHANGED <<informers, timers, acted, changes, restarts>>

(* A mutant: a return without RequeueAfter.                                *)
Forgotten == UNCHANGED timers

(* Every return of Reconcile asks to be called again after a time or holds *)
(* an error, for which the queue waits a time of its own.                  *)
Requeue == timers' = timers \union {worker.key}

Return ==
    /\ worker' = None
    /\ Requeue

At(step) == worker # None /\ worker.step = step

Proceed(step) ==
    /\ worker' = [worker EXCEPT !.step = step]
    /\ UNCHANGED timers

(* An object that is gone or disabled ends the call.                       *)
GetObject ==
    /\ At("get")
    /\ LET u == worker.key IN
         /\ acted' = [acted EXCEPT ![u].self = cached[u]]
         /\ IF cached[u] # Absent /\ cached[u].state = "enabled"
            THEN Proceed("current") ELSE Return
    /\ UNCHANGED <<informers, queue, changes, restarts>>

(* getCurrentVersion fails when the ClusterOperator lists no version.      *)
GetCurrentVersion ==
    /\ At("current")
    /\ LET current == cached[ClusterOperator].version IN
         IF current = NoVersion
         THEN Return /\ UNCHANGED acted
         ELSE Proceed("desired") /\ acted' = [acted EXCEPT ![worker.key].current = current]
    /\ UNCHANGED <<informers, queue, changes, restarts>>

GetDesiredVersion ==
    /\ At("desired")
    /\ Proceed("rest")
    /\ acted' = [acted EXCEPT ![worker.key].desired = cached[ClusterVersion].version]
    /\ UNCHANGED <<informers, queue, changes, restarts>>

(* The rest of Reconcile changes nothing here but for its result.          *)
FinishReconcile ==
    /\ At("rest")
    /\ Return
    /\ UNCHANGED <<informers, queue, acted, changes, restarts>>

(* An error of a call before the versions are read.                        *)
CallFails ==
    /\ (At("current") \/ At("desired")) /\ changes < MaxChanges
    /\ changes' = changes + 1
    /\ Return
    /\ UNCHANGED <<informers, queue, acted, restarts>>

(* A new process: the queue and the timers are gone, and the worker starts *)
(* once the informers have listed everything.                              *)
Restart ==
    /\ restarts < MaxRestarts
    /\ restarts' = restarts + 1
    /\ feed' = [o \in Object |-> <<>>]
    /\ cached' = [o \in Object |-> Stored(o)]
    /\ queue' = Listed
    /\ timers' = {} /\ worker' = None
    /\ acted' = [u \in UA |-> NothingRead]
    /\ UNCHANGED changes

--------------------------------------------------------------------------------
ChangeObject(o) ==
    \/ Create(o)
    \/ Delete(o)
    \/ \E state \in {"enabled", "disabled"} : EditSpec(o, state)
    \/ \E version \in Version \union {NoVersion} : WriteStatus(o, version)

Work == GetObject \/ GetCurrentVersion \/ GetDesiredVersion \/ FinishReconcile

Next ==
    \/ \E o \in Object : ChangeObject(o) \/ Deliver(o) \/ ListAgain(o)
    \/ \E u \in UA : Fire(u) \/ Take(u)
    \/ Work
    \/ CallFails
    \/ Restart

Spec == Init /\ [][Next]_vars

(* Informers deliver, timers fire, calls return, and the queue is served   *)
(* in order: no key in it is passed over for ever.                         *)
Fairness ==
    /\ WF_vars(\E o \in Object : Deliver(o))
    /\ \A u \in UA : WF_vars(Fire(u)) /\ SF_vars(Take(u))
    /\ WF_vars(Work)

FairSpec == Spec /\ Fairness

--------------------------------------------------------------------------------
(* An object that the informer knows is in the queue, with the worker, or  *)
(* on a timer: nothing else would ever look at a new version of the        *)
(* cluster, since the filters stop its event (controller.go:48-60).        *)
KeysNeverLost ==
    \A u \in UA : cached[u] # Absent =>
        u \in queue \union timers \/ (worker # None /\ worker.key = u)

(* An edit of a spec that the informer knows does not wait for a timer:    *)
(* until Reconcile has read it, the key is in the queue or just taken      *)
(* from it, even when the edit came during a reconcile of the same object  *)
(* (controller.go:50-53 compare generations).                              *)
Unread(u) ==
    /\ cached[u] # Absent
    /\ \/ acted[u].self = Absent
       \/ acted[u].self.generation # cached[u].generation

EditsAreQueued ==
    \A u \in UA : Unread(u) => u \in queue \/ (At("get") /\ worker.key = u)

(* README.md:17: "The default event trigger is when the ClusterVersion      *)
(* changes to a new release", and manager.go:29: "run a reconciliation for *)
(* all UpgradeAccelerators".  The filter of generations stops the event,   *)
(* and a key that is on a timer, or whose reconcile has read the old       *)
(* version, stays where it is.                                             *)
AboutToRead(u) == (At("get") \/ At("current") \/ At("desired")) /\ worker.key = u

VersionsTrigger ==
    [][ (cached'[ClusterVersion].version # cached[ClusterVersion].version
            /\ UNCHANGED restarts)
          => \A u \in UA : cached[u] # Absent => u \in queue' \/ AboutToRead(u) ]_vars

(* How far that goes: the filters on versions want a new version, the other *)
(* one a new generation, and no single update brings both.  A version that *)
(* changes while the watch works wakes nobody, and waits for the timers    *)
(* (manager.go:79-103, controller.go:48-51).                               *)
Concerns(o) == o \in {ClusterVersion, ClusterOperator}

VersionsWaitForTimers ==
    [][ \A o \in Object :
          (Concerns(o) /\ feed[o] # <<>> /\ feed'[o] = Tail(feed[o]) /\ restarts' = restarts)
              => queue' = queue ]_vars

(* All the same every version reaches Reconcile: once changes end, what it *)
(* has read last of an enabled object and the versions is how they are.    *)
UpToDate(u) ==
    /\ acted[u].self = Stored(u)
    /\ acted[u].current = Stored(ClusterOperator).version
    /\ acted[u].desired = Stored(ClusterVersion).version

ChangesReachReconcile ==
    \A u \in UA :
        <>[]( (/\ Stored(u) # Absent /\ Stored(u).state = "enabled"
               /\ Stored(ClusterOperator).version # NoVersion) => UpToDate(u) )
================================================================================
