------------------------------ MODULE Reconciler ------------------------------
(***************************************************************************)
(* The reconcile loop of the UpgradeAccelerator operator                   *)
(* (internal/controller/upgradeaccelerator_controller.go) together with    *)
(* what it runs against: the API server that stores the UpgradeAccelerator *)
(* objects and the pull jobs, the informer caches it reads them through,   *)
(* the kubelets that run the jobs, and the administrators.                 *)
(*                                                                         *)
(* One worker reconciles one object at a time (MaxConcurrentReconciles is  *)
(* 1).  A reconcile is a sequence of steps; a step ends at the next call   *)
(* to the API server whose result matters, so that everything else can     *)
(* happen between two calls.  "pc" names the step the worker is at.        *)
(*                                                                         *)
(* A status update carries the resource version the object was read at:    *)
(* "fresh" says that the API server would still accept it.                 *)
(***************************************************************************)
EXTENDS NodeDetermination, Integers

CONSTANTS
    UA,               \* the UpgradeAccelerator objects
    Version,          \* release versions the cluster may be told to go to
    NoVersion,        \* the empty version of a new object
    Specs,            \* the specs an administrator may write
    InitialClusters,  \* the clusters the operator may be installed on
    Disruptions,      \* the kinds of disruption that may happen ...
    MaxDisruptions,   \* ... and how many of them
    CacheLag          \* the caches may lag behind the API server

ASSUME SpecsAssumption ==
    \A spec \in Specs : spec.prime \in BOOLEAN /\ spec.parallelism \in Int
ASSUME VersionAssumption == NoVersion \notin Version
ASSUME InitialAssumption == InitialClusters \subseteq Clusters
ASSUME BudgetAssumption == MaxDisruptions \in Nat /\ CacheLag \in BOOLEAN

VARIABLES
    api,          \* the objects as the API server stores them
    cache,        \* the objects as the informer cache shows them
    jobs,         \* node |-> version |-> the pull job of that name
    jobCache,     \* the same, as the informer cache shows it
    nodes,        \* the cluster's nodes
    desired,      \* ClusterVersion .status.desired
    pc,           \* the step the worker is at
    self,         \* the object it reconciles ...
    obj,          \* ... its copy of it, and whether an update of the API
    fresh,        \*     server with that copy would be accepted
    local,        \* the local variables of Reconcile
    pulled,       \* history: <<node, version>> whose job has succeeded
    lookedAt,     \* history: the objects reconciled since a job has ended
    disruptions   \* how many disruptions have happened

objects == <<api, cache>>
pulls == <<jobs, jobCache, pulled, lookedAt>>
cluster == <<nodes, desired>>
worker == <<pc, self, obj, fresh, local>>
vars == <<api, cache, jobs, jobCache, nodes, desired, pc, self, obj, fresh,
          local, pulled, lookedAt, disruptions>>

ConditionTypes == {"Failure", "Completed", "Running", "Primer",
                   "SetupComplete", "InfrastructureFound"}
Reasons == {"", "Failed", "ReconciliationCompleted", "Disabled", "NoNodesSelected",
            "JobsScheduled", "PrimingCompleted", "PrimingSkipped",
            "PrimingInProgress", "AllSetupComplete", "InfrastructureFound",
            "InfrastructureNotFound"}
JobStates == {"none", "active", "succeeded", "failed"}
Jobs == [Node -> [Version \union {NoVersion} -> JobStates]]

(* spec; status.clusterInfrastructure is set; targetVersion and            *)
(* desiredVersion, which are always assigned together;                     *)
(* lastCompletedVersion; the node lists; the reason of each condition.     *)
(* nodesPreheated never holds a node twice and its order is never used.    *)
Objects == [spec : Specs, infrastructure : BOOLEAN,
            version : Version \union {NoVersion}, last : Version \union {NoVersion},
            selected : Seq(Node), preheated : SUBSET Node,
            warming : Seq(Node), waiting : Seq(Node),
            conditions : [ConditionTypes -> Reasons]]

NewObject(spec) ==
    [spec |-> spec, infrastructure |-> FALSE, version |-> NoVersion, last |-> NoVersion,
     selected |-> <<>>, preheated |-> {}, warming |-> <<>>, waiting |-> <<>>,
     conditions |-> [type \in ConditionTypes |-> ""]]

Blank == NewObject(CHOOSE spec \in Specs : TRUE)
NoLocals == [version |-> NoVersion, targets |-> <<>>, primers |-> <<>>, next |-> <<>>,
             i |-> 1, scheduled |-> FALSE, stillRunning |-> FALSE, scan |-> {}]

--------------------------------------------------------------------------------
(***************************************************************************)
(* Lists of node names.                                                    *)
(***************************************************************************)
(* append(list[:k], list[k+1:]...) for the first k at which n is.          *)
Without(list, n) ==
    [j \in 1 .. Len(list) - 1 |->
        IF \E k \in 1 .. j : list[k] = n THEN list[j + 1] ELSE list[j]]

(* That append moves the tail within the array.  A slice of the same array *)
(* that is longer sees the list in its first places, and keeps the rest.   *)
Overwritten(slice, list) ==
    [j \in 1 .. Len(slice) |-> IF j <= Len(list) THEN list[j] ELSE slice[j]]

(* The members of a set in the order in which a list has them.             *)
InOrderOf(list, S) ==
    {part \in Listings(S) : \A i, j \in DOMAIN part :
        i < j => \E k, l \in DOMAIN list : k < l /\ list[k] = part[i] /\ list[l] = part[j]}

(***************************************************************************)
(* Conditions (upgradeaccelerator_conditions.go).                          *)
(***************************************************************************)
(* A mutant: the status of the condition is passed as its reason.          *)
SetConditionSwapped(o, type, reason) == [o EXCEPT !.conditions[type] = "True"]

SetCondition(o, type, reason) == [o EXCEPT !.conditions[type] = reason]
DeleteConditions(o, types) ==
    [o EXCEPT !.conditions = [type \in ConditionTypes |->
                                 IF type \in types THEN "" ELSE o.conditions[type]]]
Failed(o, types) == DeleteConditions(SetCondition(o, "Failure", "Failed"), types)

ClearLists(o) == [o EXCEPT !.selected = <<>>, !.preheated = {}, !.warming = <<>>,
                           !.waiting = <<>>]

(***************************************************************************)
(* Reads go through the cache, writes to the API server.                   *)
(***************************************************************************)
View == IF CacheLag THEN cache ELSE api
JobView == IF CacheLag THEN jobCache ELSE jobs

Goto(step) == pc' = step
Step(from, to) == pc = from /\ Goto(to)

(* Reconcile returns, or its goroutine is gone.                            *)
Return ==
    /\ pc' = "idle"
    /\ obj' = Blank /\ fresh' = FALSE /\ local' = NoLocals
    /\ UNCHANGED self

(* The status updates of Reconcile: the step after one that the API server *)
(* accepts, and after one that it refuses.  Every setCondition and         *)
(* deleteConditions ignores the error.                                     *)
Ignored(step) == [accepted |-> step, refused |-> step]
Checked(step) == [accepted |-> step, refused |-> "idle"]
Saves ==
    [saveDisabled |-> Ignored("idle"), saveInfrastructure |-> Ignored("refetchInfrastructure"),
     saveVersion |-> [accepted |-> "refetchVersion", refused |-> "failed"],
     saveFailure |-> Ignored("idle"), saveNoNodes |-> Ignored("idle"),
     savePrimerState |-> Ignored("completion"), saveCompletion |-> Ignored("idle"),
     saveSelected |-> Checked("refetchSelected"), saveSetup |-> Ignored("waiting"),
     saveWaiting |-> Checked("primers"), savePrimer |-> Checked("primers"),
     savePriming |-> Ignored("gate"), saveScheduled |-> Checked("schedule"),
     saveRunning |-> Ignored("list"), saveReset |-> Checked("final"),
     saveScan |-> Checked("scan"), saveNotRunning |-> Checked("record"),
     saveLast |-> Checked("idle")]
Refetches ==
    [refetchInfrastructure |-> "version", refetchVersion |-> "nodes",
     refetchSelected |-> "setup"]
Steps == {"idle", "infrastructure", "version", "nodes", "completion", "setup",
          "waiting", "primers", "gate", "schedule", "list", "scan", "final",
          "record", "failed", "panicked"} \union DOMAIN Saves \union DOMAIN Refetches

Continue(step) ==
    IF step = "idle" THEN Return ELSE Goto(step) /\ UNCHANGED <<self, obj, fresh, local>>

--------------------------------------------------------------------------------
(***************************************************************************)
(* Calls to the API server.                                                *)
(***************************************************************************)
(* A mutant: an update does not carry the resource version.                *)
AcceptedAlways == TRUE

Accepted == fresh

Save ==
    /\ pc \in DOMAIN Saves
    /\ \/ /\ Accepted
          /\ api' = [api EXCEPT ![self] = obj]
          /\ Continue(Saves[pc].accepted)
       \/ /\ ~Accepted
          /\ Continue(Saves[pc].refused)
          /\ UNCHANGED api
    /\ UNCHANGED <<cache, pulls, cluster, disruptions>>

Refetch ==
    /\ pc \in DOMAIN Refetches
    /\ obj' = View[self]
    /\ fresh' = (View[self] = api[self])
    /\ Goto(Refetches[pc])
    /\ UNCHANGED <<objects, pulls, cluster, self, local, disruptions>>

(* createPullJob: the job's name is made of the node and the version the   *)
(* object holds.  A job the cache does not show yet cannot be created.     *)
PullJobSeen(n) == JobView[n][obj.version] # "none"
PullJobRefused(n) == ~PullJobSeen(n) /\ jobs[n][obj.version] # "none"
CreatePullJob(n) ==
    /\ ~PullJobSeen(n) /\ ~PullJobRefused(n)
    /\ jobs' = [jobs EXCEPT ![n][obj.version] = "active"]
    /\ UNCHANGED <<jobCache, pulled, lookedAt>>

Ended(n, v) == jobs[n][v] \in {"succeeded", "failed"}

(* What the steps below leave alone.                                       *)
OnlyWorker == UNCHANGED <<objects, pulls, cluster, self, fresh, disruptions>>
OnlyWorkerAndJobs == UNCHANGED <<objects, cluster, self, fresh, disruptions>>

(* A run-time panic: controller-runtime recovers it and requeues.          *)
Panic == pc' = "panicked" /\ obj' = obj /\ local' = local

--------------------------------------------------------------------------------
(***************************************************************************)
(* Reconcile.                                                              *)
(***************************************************************************)
Disable(o) ==
    DeleteConditions(SetCondition(ClearLists(o), "Running", "Disabled"),
                     {"Failure", "InfrastructureFound", "Primer", "SetupComplete"})

(* Kept only where a TTL is waited for.                                    *)
LookedAt(u) ==
    [n \in Node |-> [v \in Version \union {NoVersion} |->
        IF "ttl" \in Disruptions /\ Ended(n, v) THEN lookedAt[n][v] \union {u}
                                               ELSE lookedAt[n][v]]]

Begin(u) ==
    /\ pc = "idle"
    /\ self' = u
    /\ fresh' = (View[u] = api[u])
    /\ \/ /\ View[u].spec.state = "disabled"
          /\ obj' = Disable(View[u])
          /\ Goto("saveDisabled")
       \/ /\ View[u].spec.state # "disabled"
          /\ obj' = View[u]
          /\ Goto("infrastructure")
    /\ lookedAt' = LookedAt(u)
    /\ UNCHANGED <<objects, jobs, jobCache, pulled, cluster, local, disruptions>>

CheckInfrastructure ==
    /\ pc = "infrastructure"
    /\ \/ obj.infrastructure /\ Goto("version") /\ UNCHANGED obj
       \/ /\ ~obj.infrastructure
          /\ obj' = [SetCondition(obj, "InfrastructureFound", "InfrastructureFound")
                        EXCEPT !.infrastructure = TRUE]
          /\ Goto("saveInfrastructure")
    /\ UNCHANGED local /\ OnlyWorker

(* A mutant: the version is taken over only once.                          *)
SetVersionOnce(o, version) == IF o.version = NoVersion THEN [o EXCEPT !.version = version] ELSE o

SetVersion(o, version) == [o EXCEPT !.version = version]

(* The checked update is made, too, when only the current version or the   *)
(* image has changed, which are stored beside the version.                 *)
SetupClusterVersion ==
    /\ pc = "version"
    /\ local' = [local EXCEPT !.version = desired]
    /\ \/ obj.version = desired /\ Goto("nodes") /\ UNCHANGED obj
       \/ obj' = SetVersion(obj, desired) /\ Goto("saveVersion")
    /\ OnlyWorker

NoNodes(o) ==
    DeleteConditions(SetCondition(ClearLists(o), "Running", "NoNodesSelected"),
                     {"Primer", "SetupComplete"})

(* Lines 176-192: priming is skipped, or done, or cannot be told yet.      *)
PrimersPreheated(o, primers) == Elements(primers) \subseteq o.preheated

SetPrimerState(o, primers) ==
    \/ /\ primers = <<>>
       /\ obj' = SetCondition(o, "Primer", "PrimingSkipped")
       /\ Goto("savePrimerState")
    \/ /\ primers # <<>> /\ PrimersPreheated(o, primers)
       /\ obj' = SetCondition(o, "Primer", "PrimingCompleted")
       /\ Goto("savePrimerState")
    \/ /\ primers # <<>> /\ ~PrimersPreheated(o, primers)
       /\ obj' = o
       /\ Goto("completion")

DetermineNodes ==
    /\ pc = "nodes"
    /\ \E d \in Determinations(nodes, obj.spec) :
        /\ local' = [local EXCEPT !.targets = d.targeted, !.primers = d.primers]
        /\ \/ /\ d.targeted = <<>>
              /\ obj' = NoNodes(obj)
              /\ Goto("saveNoNodes")
           \/ /\ d.targeted # <<>>
              /\ SetPrimerState([obj EXCEPT !.selected = d.targeted], d.primers)
    /\ OnlyWorker

(* A mutant: nodes whose job is running count as done.                     *)
AllWarmed(o) == Len(o.selected) = Cardinality(o.preheated) + Len(o.warming)

(* The length of a target list is compared with that of nodesPreheated.    *)
AllPreheated(o) == Len(o.selected) = Cardinality(o.preheated)

(* Lines 200-205.                                                          *)
NothingLeft(o) == AllPreheated(o) /\ o.waiting = <<>>

CheckCompletion ==
    /\ pc = "completion"
    /\ \/ /\ NothingLeft(obj)
          /\ obj' = SetCondition(SetCondition(obj, "Running", "ReconciliationCompleted"),
                                 "Completed", "ReconciliationCompleted")
          /\ Goto("saveCompletion")
       \/ ~NothingLeft(obj) /\ Goto("saveSelected") /\ UNCHANGED obj
    /\ UNCHANGED local /\ OnlyWorker

(* setupResources succeeds; what it creates is in module Setup.            *)
SetupResources ==
    /\ pc = "setup"
    /\ obj' = SetCondition(obj, "SetupComplete", "AllSetupComplete")
    /\ Goto("saveSetup")
    /\ UNCHANGED local /\ OnlyWorker

(* A mutant: line 257 does not look at nodesWarming.                       *)
UnlistedOrWarming(o, targets) == Elements(targets) \ (o.preheated \union Elements(o.waiting))

(* A mutant: a primer is left to the loop over the primers.                *)
UnlistedButPrimers(o, targets) ==
    Elements(targets) \ (Elements(o.warming) \union o.preheated \union
                         Elements(o.waiting) \union Elements(local.primers))

(* The targets that are in none of the lists.                              *)
Unlisted(o, targets) ==
    Elements(targets) \ (Elements(o.warming) \union o.preheated \union Elements(o.waiting))

FillWaiting ==
    /\ pc = "waiting"
    /\ \/ Unlisted(obj, local.targets) = {} /\ Goto("primers") /\ UNCHANGED obj
       \/ /\ Unlisted(obj, local.targets) # {}
          /\ \E new \in InOrderOf(local.targets, Unlisted(obj, local.targets)) :
                obj' = [obj EXCEPT !.waiting = obj.waiting \o new]
          /\ Goto("saveWaiting")
    /\ UNCHANGED local /\ OnlyWorker

--------------------------------------------------------------------------------
(***************************************************************************)
(* Priming, lines 279-328.                                                 *)
(***************************************************************************)
Primes == obj.spec.prime /\ local.primers # <<>>

SkipPriming ==
    /\ pc = "primers" /\ ~Primes
    /\ Goto("gate")
    /\ UNCHANGED <<obj, local>> /\ OnlyWorker

(* A mutant: a node that is warming, or preheated, gets no other job.       *)
WarmedBeforeEither(o, n) == n \in Elements(o.warming) \/ n \in o.preheated

WarmedBefore(o, n) == n \in Elements(o.warming) /\ n \in o.preheated

StillRunning(n) == local.stillRunning \/ n \in Elements(obj.warming)

(* The primer has been warmed, or its job is there: go on to the next.     *)
PassPrimer ==
    /\ pc = "primers" /\ Primes /\ local.i <= Len(local.primers)
    /\ LET n == local.primers[local.i] IN
        /\ WarmedBefore(obj, n) \/ PullJobSeen(n)
        /\ local' = [local EXCEPT !.i = @ + 1, !.stillRunning = StillRunning(n)]
    /\ Goto("primers")
    /\ UNCHANGED obj /\ OnlyWorker

(* Lines 305-309 leave the list alone when it is empty, or holds one other *)
(* node; in a longer list the node must be.                                *)
AfterPrimer(waiting, n) ==
    IF Len(waiting) > 1 \/ waiting = <<n>> THEN Without(waiting, n) ELSE waiting

StartPrimer ==
    /\ pc = "primers" /\ Primes /\ local.i <= Len(local.primers)
    /\ LET n == local.primers[local.i] IN
        /\ ~WarmedBefore(obj, n)
        /\ CreatePullJob(n)
        /\ \/ /\ Len(obj.waiting) > 1 => n \in Elements(obj.waiting)
              /\ obj' = [obj EXCEPT !.warming = Append(@, n),
                                    !.waiting = AfterPrimer(@, n)]
              /\ local' = [local EXCEPT !.i = @ + 1, !.scheduled = TRUE,
                                        !.stillRunning = StillRunning(n)]
              /\ Goto("savePrimer")
           \/ /\ Len(obj.waiting) > 1 /\ n \notin Elements(obj.waiting)
              /\ Panic
    /\ OnlyWorkerAndJobs

(* A mutant: a primer that is still warming does not hold up the others.   *)
AfterPrimingHasty(o, scheduled, stillRunning) ==
    SetCondition(o, "Primer", IF scheduled THEN "PrimingInProgress" ELSE "PrimingCompleted")

(* Lines 319-327.                                                          *)
AfterPriming(o, scheduled, stillRunning) ==
    LET inProgress == IF scheduled THEN SetCondition(o, "Primer", "PrimingInProgress") ELSE o
        running == IF stillRunning THEN SetCondition(inProgress, "Running", "JobsScheduled")
                                   ELSE inProgress
    IN  IF ~scheduled /\ ~stillRunning THEN SetCondition(o, "Primer", "PrimingCompleted")
                                        ELSE running

EndPriming ==
    /\ pc = "primers" /\ Primes /\ local.i > Len(local.primers)
    /\ obj' = AfterPriming(obj, local.scheduled, local.stillRunning)
    /\ Goto("savePriming")
    /\ UNCHANGED local /\ OnlyWorker

--------------------------------------------------------------------------------
(***************************************************************************)
(* The remaining nodes, lines 334-380.                                     *)
(***************************************************************************)
(* A mutant: the gate forgets that priming may be skipped.                 *)
GateOpenPrimed(o) == o.conditions["Primer"] = "PrimingCompleted"

GateOpen(o) == o.conditions["Primer"] \in {"PrimingSkipped", "PrimingCompleted"}

Batch(parallelism) == IF parallelism > 0 THEN parallelism ELSE 0

(* Line 346 pops from an empty list when fewer nodes wait than the batch   *)
(* takes.  A batch leaves nodesWaiting in memory before any job is made.   *)
ClosedGate ==
    /\ pc = "gate" /\ ~GateOpen(obj)
    /\ Goto("list")
    /\ UNCHANGED <<obj, local>> /\ OnlyWorker

TakeAll ==
    /\ pc = "gate" /\ GateOpen(obj)
    /\ obj.waiting = <<>> \/ obj.spec.parallelism = 0
    /\ local' = [local EXCEPT !.next = obj.waiting, !.i = 1]
    /\ Goto("schedule")
    /\ UNCHANGED obj /\ OnlyWorker

TakeBatch ==
    /\ pc = "gate" /\ GateOpen(obj)
    /\ obj.waiting # <<>> /\ obj.spec.parallelism # 0
    /\ LET size == Batch(obj.spec.parallelism) IN
        \/ /\ size <= Len(obj.waiting)
           /\ local' = [local EXCEPT !.next = SubSeq(obj.waiting, 1, size), !.i = 1]
           /\ obj' = [obj EXCEPT !.waiting = SubSeq(@, size + 1, Len(@))]
           /\ Goto("schedule")
        \/ size > Len(obj.waiting) /\ Panic
    /\ OnlyWorker

PassNode ==
    /\ pc = "schedule" /\ local.i <= Len(local.next)
    /\ WarmedBefore(obj, local.next[local.i]) \/ PullJobSeen(local.next[local.i])
    /\ local' = [local EXCEPT !.i = @ + 1]
    /\ Goto("schedule")
    /\ UNCHANGED obj /\ OnlyWorker

(* With parallelism 0, "next" is a slice of the array of nodesWaiting.     *)
NextAfter(next, waiting, n) ==
    IF obj.spec.parallelism = 0 THEN Overwritten(next, Without(waiting, n)) ELSE next

StartNode ==
    /\ pc = "schedule" /\ local.i <= Len(local.next)
    /\ LET n == local.next[local.i] IN
        /\ ~WarmedBefore(obj, n)
        /\ CreatePullJob(n)
        /\ \/ /\ n \in Elements(obj.waiting)
              /\ obj' = [obj EXCEPT !.warming = Append(@, n), !.waiting = Without(@, n)]
              /\ local' = [local EXCEPT !.i = @ + 1, !.next = NextAfter(@, obj.waiting, n)]
              /\ Goto("saveScheduled")
           \/ /\ n \notin Elements(obj.waiting)
              /\ Panic
    /\ OnlyWorkerAndJobs

EndSchedule ==
    /\ pc = "schedule" /\ local.i > Len(local.next)
    /\ obj' = SetCondition(obj, "Running", "JobsScheduled")
    /\ Goto("saveRunning")
    /\ UNCHANGED local /\ OnlyWorker

(* Create answers AlreadyExists: Reconcile returns the error.              *)
JobRefused ==
    /\ \/ /\ pc = "primers" /\ Primes /\ local.i <= Len(local.primers)
          /\ ~WarmedBefore(obj, local.primers[local.i])
          /\ PullJobRefused(local.primers[local.i])
       \/ /\ pc = "schedule" /\ local.i <= Len(local.next)
          /\ ~WarmedBefore(obj, local.next[local.i])
          /\ PullJobRefused(local.next[local.i])
    /\ Return
    /\ UNCHANGED <<objects, pulls, cluster, disruptions>>

--------------------------------------------------------------------------------
(***************************************************************************)
(* The completion scan, lines 386-452.                                     *)
(***************************************************************************)
Listed(version) == {n \in Node : JobView[n][version] # "none"}

(* A mutant: a job that has failed has finished, too.                      *)
Finished(version) == {n \in Node : JobView[n][version] \notin {"none", "active"}}

Succeeded(version) == {n \in Node : JobView[n][version] = "succeeded"}

(* A mutant: the warming list is dropped.                                  *)
WarmingDropped(o) == [o EXCEPT !.warming = <<>>]

(* With no job at all the warming nodes wait again.                        *)
Rescheduled(o) == [o EXCEPT !.waiting = o.waiting \o o.warming, !.warming = <<>>]

ListJobs ==
    /\ pc = "list"
    /\ \/ /\ Listed(local.version) # {}
          /\ local' = [local EXCEPT !.scan = Succeeded(local.version)]
          /\ Goto("scan")
          /\ UNCHANGED obj
       \/ /\ Listed(local.version) = {} /\ obj.warming # <<>>
          /\ obj' = Rescheduled(obj)
          /\ Goto("saveReset")
          /\ UNCHANGED local
       \/ /\ Listed(local.version) = {} /\ obj.warming = <<>>
          /\ Goto("final")
          /\ UNCHANGED <<obj, local>>
    /\ OnlyWorker

Preheat(o, n) ==
    [o EXCEPT !.preheated = @ \union {n},
              !.warming = IF n \in Elements(@) THEN Without(@, n) ELSE @]

ScanJob ==
    /\ pc = "scan"
    /\ \E n \in local.scan :
        /\ local' = [local EXCEPT !.scan = @ \ {n}]
        /\ obj' = Preheat(obj, n)
        /\ Goto(IF Preheat(obj, n) = obj THEN "scan" ELSE "saveScan")
    /\ OnlyWorker

EndScan ==
    /\ pc = "scan" /\ local.scan = {}
    /\ Goto("final")
    /\ UNCHANGED <<obj, local>> /\ OnlyWorker

(* A mutant: empty lists are taken for a finished rollout.                 *)
ListsEmpty(o) == o.waiting = <<>> /\ o.warming = <<>>

AllDone(o) == o.waiting = <<>> /\ o.warming = <<>> /\ AllPreheated(o)

CheckAllDone ==
    /\ pc = "final"
    /\ \/ /\ AllDone(obj)
          /\ obj' = SetCondition(obj, "Running", "ReconciliationCompleted")
          /\ Goto("saveNotRunning")
          /\ UNCHANGED <<self, fresh, local>>
       \/ ~AllDone(obj) /\ Return
    /\ UNCHANGED <<objects, pulls, cluster, disruptions>>

RecordCompletion ==
    /\ pc = "record"
    /\ obj' = [obj EXCEPT !.last = obj.version]
    /\ Goto("saveLast")
    /\ UNCHANGED local /\ OnlyWorker

(* The version could not be set up, the nodes not listed, or the resources *)
(* not created: the caller sets Failure and drops the other conditions.    *)
ReportFailure ==
    /\ pc = "failed"
    /\ obj' = Failed(obj, {"Running", "Primer", "SetupComplete"})
    /\ Goto("saveFailure")
    /\ UNCHANGED local /\ OnlyWorker

Recover ==
    /\ pc = "panicked"
    /\ Return
    /\ UNCHANGED <<objects, pulls, cluster, disruptions>>

Worker ==
    \/ Save \/ Refetch
    \/ CheckInfrastructure \/ SetupClusterVersion \/ DetermineNodes
    \/ CheckCompletion \/ SetupResources \/ FillWaiting
    \/ SkipPriming \/ PassPrimer \/ StartPrimer \/ EndPriming
    \/ ClosedGate \/ TakeAll \/ TakeBatch \/ PassNode \/ StartNode \/ EndSchedule
    \/ JobRefused \/ ListJobs \/ ScanJob \/ EndScan \/ CheckAllDone \/ RecordCompletion
    \/ ReportFailure \/ Recover

--------------------------------------------------------------------------------
(***************************************************************************)
(* The jobs and the caches.                                                *)
(***************************************************************************)
Pulls(n, v) == jobs[n][v] = "active" /\ nodes[n] # Absent

JobSucceeds(n, v) ==
    /\ Pulls(n, v)
    /\ jobs' = [jobs EXCEPT ![n][v] = "succeeded"]
    /\ pulled' = pulled \union {<<n, v>>}
    /\ UNCHANGED <<objects, jobCache, lookedAt, cluster, worker, disruptions>>

SyncObjects ==
    /\ CacheLag
    /\ cache' = api
    /\ UNCHANGED <<api, pulls, cluster, worker, disruptions>>

SyncJobs ==
    /\ CacheLag
    /\ jobCache' = jobs
    /\ UNCHANGED <<objects, jobs, pulled, lookedAt, cluster, worker, disruptions>>

(***************************************************************************)
(* Disruptions.                                                            *)
(***************************************************************************)
Disrupt(kind) ==
    /\ kind \in Disruptions
    /\ disruptions < MaxDisruptions
    /\ disruptions' = disruptions + 1

(* The pods of a job failed too often.                                     *)
JobFails(n, v) ==
    /\ Disrupt("fail")
    /\ jobs[n][v] = "active"
    /\ jobs' = [jobs EXCEPT ![n][v] = "failed"]
    /\ UNCHANGED <<objects, jobCache, pulled, lookedAt, cluster, worker>>

(* ttlSecondsAfterFinished: the job is deleted two hours after its end.    *)
JobExpires(n, v) ==
    /\ Disrupt("expire")
    /\ Ended(n, v)
    /\ jobs' = [jobs EXCEPT ![n][v] = "none"]
    /\ lookedAt' = [lookedAt EXCEPT ![n][v] = {}]
    /\ UNCHANGED <<objects, jobCache, pulled, cluster, worker>>

(* The same in due time: two hours are many reconciles, so that every      *)
(* object has been through one since the job ended.                        *)
JobCollected(n, v) ==
    /\ "ttl" \in Disruptions
    /\ pc = "idle" /\ lookedAt[n][v] = UA
    /\ Ended(n, v)
    /\ jobs' = [jobs EXCEPT ![n][v] = "none"]
    /\ lookedAt' = [lookedAt EXCEPT ![n][v] = {}]
    /\ UNCHANGED <<objects, jobCache, pulled, cluster, worker, disruptions>>

EditSpec(u, spec) ==
    /\ Disrupt("edit")
    /\ api[u].spec # spec
    /\ api' = [api EXCEPT ![u].spec = spec]
    /\ fresh' = (fresh /\ self # u)
    /\ UNCHANGED <<cache, pulls, cluster, pc, self, obj, local>>

ChangeNode(n, state) ==
    /\ Disrupt("node")
    /\ nodes[n] # state
    /\ nodes' = [nodes EXCEPT ![n] = state]
    /\ UNCHANGED <<objects, pulls, desired, worker>>

ChangeVersion(v) ==
    /\ Disrupt("version")
    /\ desired # v
    /\ desired' = v
    /\ UNCHANGED <<objects, pulls, nodes, worker>>

(* The operator's process ends, or loses the leader's lease.               *)
Crash ==
    /\ Disrupt("crash")
    /\ pc # "idle"
    /\ Return
    /\ UNCHANGED <<objects, pulls, cluster>>

(* A selector makes determineTargetedNodes list more than the nodes.       *)
ListsAgain == obj.spec.selector.nodeSelector # NoSelector \/
              obj.spec.selector.machineConfigPools # {}

CallFails ==
    /\ Disrupt("apierror")
    /\ \/ /\ pc = "infrastructure"
          /\ obj' = SetCondition(Failed(obj, {"Primer", "SetupComplete"}),
                                 "InfrastructureFound", "InfrastructureNotFound")
          /\ Goto("saveFailure")
          /\ UNCHANGED <<self, fresh, local>>
       \/ /\ pc \in {"version", "nodes", "setup"}
          /\ Goto("failed")
          /\ UNCHANGED <<self, obj, fresh, local>>
       \/ /\ pc = "nodes" /\ ListsAgain
          /\ obj' = Failed(obj, {"Primer", "SetupComplete"})
          /\ Goto("saveFailure")
          /\ UNCHANGED <<self, fresh, local>>
       \/ /\ pc \in {"primers", "schedule", "list"} \union DOMAIN Refetches
          /\ Return
    /\ UNCHANGED <<objects, pulls, cluster>>

(* An update fails; the API server may have stored it all the same.        *)
SaveFails ==
    /\ Disrupt("apierror")
    /\ pc \in DOMAIN Saves /\ fresh
    /\ \/ Continue(Saves[pc].refused) /\ UNCHANGED api
       \/ /\ api' = [api EXCEPT ![self] = obj]
          /\ \/ Saves[pc].refused = "idle" /\ Return
             \/ /\ Saves[pc].refused # "idle"
                /\ Goto(Saves[pc].refused) /\ fresh' = FALSE
                /\ UNCHANGED <<self, obj, local>>
    /\ UNCHANGED <<cache, pulls, cluster>>

Environment ==
    \/ \E n \in Node, v \in Version \union {NoVersion} :
          JobSucceeds(n, v) \/ JobFails(n, v) \/ JobExpires(n, v) \/ JobCollected(n, v)
    \/ SyncObjects \/ SyncJobs
    \/ \E u \in UA, spec \in Specs : EditSpec(u, spec)
    \/ \E n \in Node, state \in NodeState \union {Absent} : ChangeNode(n, state)
    \/ \E v \in Version : ChangeVersion(v)
    \/ Crash \/ CallFails \/ SaveFails

--------------------------------------------------------------------------------
Init ==
    /\ api \in [UA -> {NewObject(spec) : spec \in Specs}]
    /\ cache = api
    /\ jobs = [n \in Node |-> [v \in Version \union {NoVersion} |-> "none"]]
    /\ jobCache = jobs
    /\ nodes \in InitialClusters
    /\ desired \in Version
    /\ pc = "idle" /\ self \in UA
    /\ obj = Blank /\ fresh = FALSE /\ local = NoLocals
    /\ pulled = {} /\ disruptions = 0
    /\ lookedAt = [n \in Node |-> [v \in Version \union {NoVersion} |-> {}]]

Next == (\E u \in UA : Begin(u)) \/ Worker \/ Environment

Spec == Init /\ [][Next]_vars

(* Every reconcile asks for another one after a minute at the latest; the  *)
(* worker, the kubelets and the watches do not stop.  Nothing is assumed   *)
(* of disruptions.                                                         *)
Fairness ==
    /\ \A u \in UA : SF_vars(Begin(u))
    /\ WF_vars(Worker)
    /\ \A n \in Node, v \in Version \union {NoVersion} : WF_vars(JobSucceeds(n, v))
    /\ \A n \in Node : SF_vars(\E v \in Version : JobCollected(n, v))
    /\ WF_vars(SyncObjects) /\ WF_vars(SyncJobs)

FairSpec == Spec /\ Fairness

--------------------------------------------------------------------------------
(***************************************************************************)
(* Properties.                                                             *)
(***************************************************************************)
LocalVariables ==
    [version : Version \union {NoVersion}, targets : Seq(Node), primers : Seq(Node),
     next : Seq(Node), i : Nat \ {0}, scheduled : BOOLEAN, stillRunning : BOOLEAN,
     scan : SUBSET Node]

(* The variables have their types.                                         *)
TypeOK ==
    /\ api \in [UA -> Objects] /\ cache \in [UA -> Objects]
    /\ jobs \in Jobs /\ jobCache \in Jobs
    /\ nodes \in Clusters /\ desired \in Version
    /\ pc \in Steps /\ self \in UA /\ obj \in Objects /\ fresh \in BOOLEAN
    /\ local \in LocalVariables
    /\ pulled \subseteq Node \X (Version \union {NoVersion})
    /\ lookedAt \in [Node -> [Version \union {NoVersion} -> SUBSET UA]]
    /\ disruptions \in 0 .. MaxDisruptions

Enabled(u) == api[u].spec.state # "disabled"
Tracked(o) == Elements(o.waiting) \union Elements(o.warming) \union o.preheated
PulledOnce == {pull[1] : pull \in pulled}

(* A node in status.nodesPreheated has had a pull job that succeeded,      *)
(* whatever was stale, repeated or lost on the way from the job to the     *)
(* status (lines 387-430).                                                 *)
PreheatedWasPulled == \A u \in UA : api[u].preheated \subseteq PulledOnce

(* status.lastCompletedVersion is written, and the Completed condition     *)
(* set, only when every selected node has pulled that version (lines       *)
(* 200-205 and 435-450), as long as nobody changes what is selected.       *)
HavePulled(o, version) == Elements(o.selected) \X {version} \subseteq pulled

CompletionSound ==
    \A u \in UA :
        /\ api[u].last # NoVersion => HavePulled(api[u], api[u].last)
        /\ api[u].conditions["Completed"] # "" => HavePulled(api[u], api[u].version)

(* Without batches each selected node is in exactly one of the three lists, *)
(* once, whenever the worker rests and has been through the waiting list   *)
(* (252-271, 302-310, 367-370, 396-397, 414-421 move it between them).     *)
ListsPartition ==
    \A u \in UA :
        LET o == api[u]
            all == o.waiting \o o.warming
        IN  (/\ pc = "idle" /\ o.spec.parallelism <= 0
             /\ o.conditions["SetupComplete"] # "") =>
                /\ IsInjective(all)
                /\ Elements(all) \cap o.preheated = {}
                /\ Elements(o.selected) \subseteq Tracked(o)

(* Without batches no reconcile panics: a node that is to get a job is in   *)
(* nodesWaiting, so that neither line 308 nor line 369 cuts the list at     *)
(* the index -1 of a node it has not got.                                   *)
NeverPanics == api[self].spec.parallelism <= 0 => pc # "panicked"

(* Priming: no other node gets a job before every primer has pulled the    *)
(* version (lines 279-335).                                                *)
PrimersFirst ==
    \A u \in UA, v \in Version :
        (Enabled(u) /\ api[u].spec.prime) =>
            LET primers == PrimerNodes(nodes, TRUE, SelectedNodes(nodes, api[u].spec.selector))
            IN  (\E n \in Node \ primers : jobs[n][v] # "none") =>
                    primers \X {v} \subseteq pulled

(* Without batches, a node the operator has taken up stays in one of the   *)
(* lists until all lists are cleared: no update made with an old copy of   *)
(* the object loses it, and no error path drops it.                        *)
NodesNeverForgotten ==
    [][ pc \notin {"saveDisabled", "saveNoNodes"} =>
          \A u \in UA : api[u].spec.parallelism = 0 =>
              Tracked(api[u]) \subseteq Tracked(api'[u]) ]_vars

(* A job is made for the version that this reconcile has read, for whose   *)
(* images setupResources has just written the ConfigMap, and whose label   *)
(* ListJobs looks for.                                                     *)
JobsForReadVersion ==
    [][ \A n \in Node, v \in Version \union {NoVersion} :
          (jobs[n][v] = "none" /\ jobs'[n][v] = "active") => v = local.version ]_vars

(* What a status reports of all this.                                      *)
Reported(o) ==
    [preheated |-> o.preheated, selected |-> o.selected, target |-> o.version, last |-> o.last]

Abstract == INSTANCE Rollout WITH job <- jobs, status <- [u \in UA |-> Reported(api[u])]

(* Behind stale caches, refused and half-failed updates and crashes the    *)
(* worker keeps the promises of Rollout: above all, an update made from    *)
(* one copy of an object takes no node back that another one reported, and *)
(* completion (lines 434-449) is recorded of the very lists that the API   *)
(* server holds.                                                           *)
ImplementsRollout == Abstract!Spec

(* Left alone, the operator warms every node it has selected and says so.  *)
(* types.go:43: parallelism "defines the number of nodes to upgrade in     *)
(* parallel"; a batch larger than what is left is never made.              *)
EndsPreheated(u) ==
    Enabled(u) /\ api[u].selected # <<>> =>
        api[u].last = desired /\ HavePulled(api[u], desired)

EventuallyPreheated == \A u \in UA : <>[]EndsPreheated(u)

(* The same for all nodes at once and for one after the other, which are   *)
(* the batches that leave no rest, unless a job fails: nothing retries it  *)
(* before its TTL ends.                                                    *)
NoJobFailed == \A n \in Node : jobs[n][desired] # "failed"

EventuallyPreheatedWithoutRest ==
    \A u \in UA : <>[](NoJobFailed /\ api[u].spec.parallelism \in {0, 1} => EndsPreheated(u))

(* Two objects share the job of a node, since its name does not hold theirs *)
(* (lines 291, 392), and a failed job is in the way until its TTL ends     *)
(* (job.go:112).  All the same each object ends up completed, with every   *)
(* node it selected warmed.                                                *)
EventuallyCompleted ==
    \A u \in UA :
        <>[](Enabled(u) /\ api[u].selected # <<>> =>
                api[u].conditions["Completed"] # "" /\ HavePulled(api[u], desired))

(* types.go:131: nodesPreheated lists the nodes "that have been preheated  *)
(* with the targetVersion release images".  A new version does not clear   *)
(* the list.                                                               *)
PreheatedHaveTarget ==
    pc = "idle" => \A u \in UA : api[u].preheated \X {api[u].version} \subseteq pulled
================================================================================
