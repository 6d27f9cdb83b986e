------------------------- MODULE ReconcilerOrderProofs -------------------------
(* What one object promises as long as nothing comes between its reconciles *)
(* and the API server: primers pull before the others, each target is in    *)
(* exactly one of the lists, and no reconcile panics.  For every number of  *)
(* nodes, every selector and every cluster, while jobs fail at any time;    *)
(* primers come first although jobs are deleted, and in batches, too.       *)
EXTENDS ReconcilerCompletionProofs

--------------------------------------------------------------------------------
(***************************************************************************)
(* One object, read as it is, and no disruption but of the jobs.  Without  *)
(* any one of these the code keeps neither promise: a job that another     *)
(* object has made, that a crash or a failing update has left unrecorded,  *)
(* or that a cache does not show yet, is taken for one that has succeeded. *)
(***************************************************************************)
Alone == (\A u, other \in UA : u = other) /\ CacheLag = FALSE
OnlyJobsFail == Alone /\ Disruptions \subseteq {"fail", "expire", "ttl"}

(* The steps at which the copy is what the API server has, and those after  *)
(* the version was read.                                                    *)
Stored == {"infrastructure", "refetchInfrastructure", "version", "refetchVersion", "nodes",
           "refetchSelected", "setup", "waiting", "primers", "gate", "list", "scan", "final",
           "record"}
Determined == Versioned \union Selected

AloneInv ==
    /\ pc # "idle" => fresh /\ obj.spec = api[self].spec
    /\ pc \in Stored => obj = api[self]
    /\ pc \in Determined => obj.version = desired /\ local.version = desired
    /\ pc # "failed"
    /\ \A n \in Node, v \in Version \union {NoVersion} : jobs[n][v] # "none" => v = desired
    /\ pulled \subseteq Node \X {desired}

(***************************************************************************)
(* Primers first.  A primer's job is in the warming list of the copy, or   *)
(* the primer has pulled: so if neither of the loop's flags is set, every  *)
(* primer the loop has passed has pulled.                                  *)
(***************************************************************************)
Primers == PrimerNodes(nodes, api[self].spec.prime, SelectedNodes(nodes, api[self].spec.selector))
AllPrimed == Primers \X {desired} \subseteq pulled

Told(o) ==
    \A p \in Primers : jobs[p][desired] # "none" =>
        p \in Elements(o.warming) \/ <<p, desired>> \in pulled
Honest(o) == Told(o) /\ (GateOpen(o) => AllPrimed)

BeforeLoop == {"savePrimerState", "completion", "saveSelected", "refetchSelected", "setup",
               "saveSetup", "waiting", "saveWaiting"}
Unlooped == {"idle", "saveDisabled", "infrastructure", "saveInfrastructure", "refetchInfrastructure",
             "version", "saveVersion", "refetchVersion", "nodes"} \union BeforeLoop
InLoop == {"primers", "savePrimer"}

LoopInv ==
    /\ pc \in Unlooped => local.i = 1
    /\ pc \in BeforeLoop \union InLoop => Elements(local.primers) = Primers
    /\ pc \in BeforeLoop => Primers \subseteq Elements(local.targets)
    /\ pc \in InLoop \union {"saveWaiting"} => Primers \subseteq Tracked(obj)
    /\ pc \in InLoop /\ ~local.scheduled /\ ~local.stillRunning =>
          \A k \in DOMAIN local.primers :
              k < local.i => <<local.primers[k], desired>> \in pulled
    /\ pc \in {"schedule", "saveScheduled"} => AllPrimed

OrderInv ==
    Enabled(self) =>
        /\ (\E n \in Node \ Primers : jobs[n][desired] # "none") => AllPrimed
        /\ pc # "savePrimer" => Honest(api[self])
        /\ pc # "idle" => Honest(obj)
        /\ LoopInv

(***************************************************************************)
(* One list for each target: a waiting node has no job, the others have    *)
(* one.  Once the waiting list is filled, every target is in a list.       *)
(***************************************************************************)
OnlyFailures == Alone /\ Disruptions \subseteq {"fail"}
NoBatches == \A spec \in Specs : spec.parallelism <= 0

Jobbed == {n \in Node : jobs[n][desired] # "none"}
Wanted == TargetSet(nodes, api[self].spec)

Apart(o, jobbed) ==
    /\ IsInjective(o.waiting) /\ IsInjective(o.warming)
    /\ Elements(o.waiting) \cap jobbed = {}
    /\ Elements(o.warming) \union o.preheated \subseteq jobbed
    /\ Elements(o.warming) \cap o.preheated = {}
    /\ Wanted \cap jobbed \subseteq Elements(o.warming) \union o.preheated
Covered(o) == o.conditions["SetupComplete"] # "" => Wanted \subseteq Tracked(o)
Chose(o) == Elements(o.selected) \subseteq Wanted

Filled == {"saveWaiting", "primers", "savePrimer", "savePriming", "gate", "schedule",
           "saveScheduled", "saveRunning", "list", "saveReset", "scan", "saveScan",
           "final"} \union Completing

OffInv ==
    ~Enabled(self) =>
        /\ pc \in {"idle", "saveDisabled"}
        /\ api[self].conditions["SetupComplete"] = ""
        /\ pc = "saveDisabled" => obj.conditions["SetupComplete"] = ""

ListsInv ==
    /\ pc \notin {"savePrimer", "saveScheduled"} => Apart(api[self], Jobbed)
    /\ pc # "idle" => Apart(obj, Jobbed)
    /\ pc \notin {"waiting", "saveWaiting"} => Covered(api[self])
    /\ pc \notin {"idle", "saveSetup", "waiting"} => Covered(obj)
    /\ Chose(api[self])
    /\ pc # "idle" => Chose(obj)

LocalsInv ==
    /\ pc \in BeforeLoop => Elements(local.targets) = Wanted
    /\ pc \in BeforeLoop \union InLoop => Elements(local.primers) \subseteq Wanted
    /\ pc \in Filled => Wanted \subseteq Tracked(obj)
    /\ pc \in {"schedule", "saveScheduled"} => Elements(local.next) \subseteq Tracked(obj)
    /\ local.scan \subseteq Jobbed

PartInv ==
    /\ pc # "panicked"
    /\ OffInv
    /\ Enabled(self) => ListsInv /\ LocalsInv

--------------------------------------------------------------------------------
(***************************************************************************)
(* Lists that hold a node once.                                            *)
(***************************************************************************)
LEMMA WithoutOnce ==
    ASSUME NEW S, NEW list \in Seq(S), IsInjective(list), NEW n \in Elements(list)
    PROVE  /\ IsInjective(Without(list, n))
           /\ Elements(Without(list, n)) = Elements(list) \ {n}
<1> DEFINE less == Without(list, n)
<1>1. PICK at \in DOMAIN list : list[at] = n
  BY DEF Elements
<1>2. \A k \in DOMAIN list : list[k] = n => k = at
  BY <1>1 DEF IsInjective
<1>3. DOMAIN less = 1 .. Len(list) - 1
  BY DEF Without
<1>4. \A j \in DOMAIN less : less[j] = IF at <= j THEN list[j + 1] ELSE list[j]
  <2> SUFFICES ASSUME NEW j \in 1 .. Len(list) - 1
               PROVE  less[j] = IF at <= j THEN list[j + 1] ELSE list[j]
    BY <1>3
  <2>1. less[j] = IF \E k \in 1 .. j : list[k] = n THEN list[j + 1] ELSE list[j]
    BY DEF Without
  <2>2. (\E k \in 1 .. j : list[k] = n) <=> at <= j
    BY <1>1, <1>2
  <2> QED
    BY <2>1, <2>2
<1> HIDE DEF less
<1>5. IsInjective(less)
  <2> SUFFICES ASSUME NEW i \in 1 .. Len(list) - 1, NEW j \in 1 .. Len(list) - 1,
                      less[i] = less[j]
               PROVE  i = j
    BY <1>3 DEF IsInjective
  <2> DEFINE place(k) == IF at <= k THEN k + 1 ELSE k
  <2>1. \A k \in 1 .. Len(list) - 1 : place(k) \in DOMAIN list /\ less[k] = list[place(k)]
    BY <1>3, <1>4
  <2>2. place(i) = place(j)
    <3> HIDE DEF place
    <3> QED
      BY <2>1 DEF IsInjective
  <2> QED
    BY <1>1, <2>2
<1>6. Elements(list) \subseteq Elements(less) \union {n}
  BY WithoutElements DEF less
<1>7. \A j \in DOMAIN less : less[j] \in Elements(list) /\ less[j] # n
  <2> SUFFICES ASSUME NEW j \in 1 .. Len(list) - 1
               PROVE  less[j] \in Elements(list) /\ less[j] # n
    BY <1>3
  <2>1. PICK k \in DOMAIN list : less[j] = list[k] /\ k # at
    <3>1. CASE at <= j
      BY <1>3, <1>4, <3>1
    <3>2. CASE ~(at <= j)
      BY <1>1, <1>3, <1>4, <3>2
    <3> QED
      BY <3>1, <3>2
  <2> QED
    BY <1>2, <2>1 DEF Elements
<1> QED
  BY <1>5, <1>6, <1>7 DEF Elements, less

LEMMA AppendOnce ==
    ASSUME NEW S, NEW list \in Seq(S), IsInjective(list), NEW n \in S, n \notin Elements(list)
    PROVE  /\ IsInjective(Append(list, n))
           /\ Elements(Append(list, n)) = Elements(list) \union {n}
<1> DEFINE more == Append(list, n)
<1>1. /\ DOMAIN more = DOMAIN list \union {Len(list) + 1} /\ more[Len(list) + 1] = n
      /\ \A i \in DOMAIN list : more[i] = list[i] /\ i # Len(list) + 1
  OBVIOUS
<1> HIDE DEF more
<1>2. \A i \in DOMAIN list : list[i] # n
  BY DEF Elements
<1>3. IsInjective(more)
  BY <1>1, <1>2 DEF IsInjective
<1>4. Elements(more) \subseteq Elements(list) \union {n}
  BY <1>1 DEF Elements
<1>5. Elements(list) \union {n} \subseteq Elements(more)
  BY AppendElements DEF more
<1> QED
  BY <1>3, <1>4, <1>5 DEF more

LEMMA OverwrittenElements ==
    ASSUME NEW S, NEW slice \in Seq(S), NEW list \in Seq(S)
    PROVE  Elements(Overwritten(slice, list)) \subseteq Elements(slice) \union Elements(list)
<1> SUFFICES ASSUME NEW j \in 1 .. Len(slice)
             PROVE  Overwritten(slice, list)[j] \in Elements(slice) \union Elements(list)
  BY DEF Elements, Overwritten
<1>1. Overwritten(slice, list)[j] = IF j <= Len(list) THEN list[j] ELSE slice[j]
  BY DEF Overwritten
<1> QED
  BY <1>1 DEF Elements

LEMMA InOrderOfElements ==
    ASSUME NEW list, NEW S \in SUBSET Node, NEW part \in InOrderOf(list, S)
    PROVE  part \in Seq(S) /\ IsInjective(part) /\ Elements(part) = S
<1>1. IsFiniteSet(S)
  BY NodeAssumption, FS_Subset
<1>2. part \in Listings(S)
  BY DEF InOrderOf
<1> QED
  BY <1>1, <1>2, ListingsType, ListingsAll

LEMMA ListIsOfItsElements ==
    ASSUME NEW S, NEW list \in Seq(S)
    PROVE  list \in Seq(Elements(list))
<1>1. list \in [1 .. Len(list) -> Elements(list)] /\ Len(list) \in Nat
  BY DEF Elements
<1> QED
  BY <1>1

(* Lists without a node in common make one list.                            *)
LEMMA ConcatenationOnce ==
    ASSUME NEW S, NEW list \in Seq(S), NEW more \in Seq(S),
           IsInjective(list), IsInjective(more), Elements(list) \cap Elements(more) = {}
    PROVE  /\ IsInjective(list \o more)
           /\ Elements(list \o more) = Elements(list) \union Elements(more)
<1>1. list \in Seq(Elements(list)) /\ more \in Seq(Elements(more))
  BY ListIsOfItsElements
<1> QED
  BY <1>1, ConcatenationListsOnce

--------------------------------------------------------------------------------
(***************************************************************************)
(* One object, and its jobs.                                               *)
(***************************************************************************)
LEMMA AloneReads ==
    ASSUME TypeOK, Alone
    PROVE  View = api /\ JobView = jobs /\ \A u \in UA : u = self
BY DEF TypeOK, Alone, View, JobView

(* What goes on beside the worker: jobs run, fail, and are deleted.         *)
JobsOnly ==
    /\ UNCHANGED <<api, nodes, desired, pc, self, obj, fresh, local>>
    /\ \A n \in Node, v \in Version \union {NoVersion} :
          /\ jobs'[n][v] # "none" => jobs[n][v] # "none"
          /\ OnlyFailures => (jobs[n][v] # "none" => jobs'[n][v] # "none")
    /\ pulled \subseteq pulled'
    /\ \A pull \in pulled' : pull \in pulled \/
          \E n \in Node, v \in Version \union {NoVersion} :
              pull = <<n, v>> /\ jobs[n][v] # "none"

LEMMA EnvironmentJobs ==
    ASSUME TypeOK, OnlyJobsFail, Environment \/ UNCHANGED vars
    PROVE  JobsOnly
<1>1. CASE UNCHANGED vars
  BY <1>1 DEF vars, JobsOnly
<1>2. CASE ~UNCHANGED vars
  <2>1. PICK n \in Node, v \in Version \union {NoVersion} :
          JobSucceeds(n, v) \/ JobFails(n, v) \/ JobExpires(n, v) \/ JobCollected(n, v)
    <3>1. Environment
      BY <1>2
    <3>2. /\ ~CacheLag
          /\ Disruptions \cap {"edit", "node", "version", "crash", "apierror"} = {}
      BY DEF OnlyJobsFail, Alone
    <3>3. ~SyncObjects /\ ~SyncJobs /\ ~Crash /\ ~CallFails /\ ~SaveFails
      BY <3>2 DEF SyncObjects, SyncJobs, Crash, CallFails, SaveFails, Disrupt
    <3>4. /\ ~\E u \in UA, spec \in Specs : EditSpec(u, spec)
          /\ ~\E n \in Node, state \in NodeState \union {Absent} : ChangeNode(n, state)
          /\ ~\E v \in Version : ChangeVersion(v)
      BY <3>2 DEF EditSpec, ChangeNode, ChangeVersion, Disrupt
    <3> QED
      BY <3>1, <3>3, <3>4, Zenon DEF Environment
  <2>2. /\ UNCHANGED <<api, nodes, desired, pc, self, obj, fresh, local>>
        /\ jobs[n][v] # "none"
        /\ \E state \in JobStates : jobs' = [jobs EXCEPT ![n][v] = state]
        /\ pulled' = pulled \/ pulled' = pulled \union {<<n, v>>}
    BY <2>1 DEF JobSucceeds, JobFails, JobExpires, JobCollected, objects, cluster, worker,
       Pulls, Ended, JobStates
  <2>3. PICK state \in JobStates : jobs' = [jobs EXCEPT ![n][v] = state]
    BY <2>2
  <2>4. OnlyFailures => state # "none"
    <3> SUFFICES ASSUME OnlyFailures PROVE state # "none"
      OBVIOUS
    <3>1. JobSucceeds(n, v) \/ JobFails(n, v)
      BY <2>1 DEF OnlyFailures, JobExpires, JobCollected, Disrupt
    <3>2. jobs'[n][v] # "none"
      BY <3>1 DEF JobSucceeds, JobFails, TypeOK, Jobs
    <3> QED
      BY <2>3, <3>2 DEF TypeOK, Jobs
  <2>5. \A m \in Node, w \in Version \union {NoVersion} :
          jobs'[m][w] = IF m = n /\ w = v THEN state ELSE jobs[m][w]
    BY <2>3 DEF TypeOK, Jobs
  <2> QED
    BY <2>2, <2>4, <2>5 DEF JobsOnly
<1> QED
  BY <1>1, <1>2

(* The steps of the worker between its calls to the API server for the      *)
(* object, and those that end its reconcile.                                *)
InMemory ==
    \/ CheckInfrastructure \/ SetupClusterVersion \/ DetermineNodes \/ CheckCompletion
    \/ SetupResources \/ FillWaiting \/ SkipPriming \/ PassPrimer \/ StartPrimer \/ EndPriming
    \/ ClosedGate \/ TakeAll \/ TakeBatch \/ PassNode \/ StartNode \/ EndSchedule
    \/ ListJobs \/ ScanJob \/ EndScan \/ (CheckAllDone /\ ~Return) \/ RecordCompletion
Finishes == JobRefused \/ Recover \/ (CheckAllDone /\ Return)

LEMMA MemoryFrame ==
    ASSUME InMemory
    PROVE  /\ UNCHANGED <<api, nodes, desired, self, fresh>>
           /\ ~StartPrimer /\ ~StartNode => UNCHANGED <<jobs, pulled>>
BY DEF InMemory, CheckInfrastructure, SetupClusterVersion, DetermineNodes, CheckCompletion,
   SetupResources, FillWaiting, SkipPriming, PassPrimer, StartPrimer, EndPriming, ClosedGate,
   TakeAll, TakeBatch, PassNode, StartNode, EndSchedule, ListJobs, ScanJob, EndScan,
   CheckAllDone, RecordCompletion, OnlyWorker, OnlyWorkerAndJobs, objects, pulls, cluster

(* Where a step in memory leads: a copy that is stored stays as it is.      *)
LEMMA MemoryLeads ==
    ASSUME InMemory
    PROVE  /\ pc # "idle" /\ pc' \notin {"idle", "failed"}
           /\ pc' \in Stored => pc \in Stored /\ obj' = obj
           /\ pc' \in Determined => pc \in Determined \/ SetupClusterVersion
<1>1. CASE \/ CheckInfrastructure \/ SetupClusterVersion \/ CheckCompletion
           \/ SetupResources \/ FillWaiting \/ SkipPriming \/ PassPrimer
  BY <1>1 DEF CheckInfrastructure, SetupClusterVersion, CheckCompletion, SetupResources,
     FillWaiting, SkipPriming, PassPrimer, Goto, Stored, Determined, Versioned, Selecting,
     Pulling, Selected, Completing
<1>2. CASE DetermineNodes
  BY <1>2 DEF DetermineNodes, SetPrimerState, Goto, Stored, Determined, Versioned, Selecting
<1>3. CASE StartPrimer \/ StartNode \/ TakeBatch
  <2>1. /\ pc \in {"primers", "schedule", "gate"}
        /\ pc' \in {"savePrimer", "saveScheduled", "schedule", "panicked"}
    BY <1>3, Zenon DEF StartPrimer, StartNode, TakeBatch, Goto, Panic
  <2> QED
    BY <2>1 DEF Stored, Determined, Versioned, Pulling
<1>4. CASE EndPriming \/ ClosedGate \/ TakeAll \/ PassNode \/ EndSchedule \/ ListJobs \/ EndScan
  BY <1>4 DEF EndPriming, ClosedGate, TakeAll, PassNode, EndSchedule, ListJobs, EndScan, Goto,
     Stored, Determined, Versioned, Pulling, Selected
<1>5. CASE ScanJob
  <2>1. PICK n : /\ obj' = Preheat(obj, n) /\ pc = "scan"
                 /\ pc' = IF Preheat(obj, n) = obj THEN "scan" ELSE "saveScan"
    BY <1>5 DEF ScanJob, Goto
  <2> QED
    BY <2>1 DEF Stored, Determined, Selected
<1>6. CASE (CheckAllDone /\ ~Return) \/ RecordCompletion
  BY <1>6 DEF CheckAllDone, RecordCompletion, Goto, Stored, Determined, Selected, Completing
<1> QED
  BY <1>1, <1>2, <1>3, <1>4, <1>5, <1>6 DEF InMemory

(* The steps that neither touch a list nor the conditions that the promises *)
(* are about.                                                               *)
Lists(o) == <<o.spec, o.selected, o.preheated, o.warming, o.waiting>>
Silent(p, o) ==
    /\ Lists(p) = Lists(o)
    /\ p.conditions["Primer"] = o.conditions["Primer"]
    /\ p.conditions["SetupComplete"] = o.conditions["SetupComplete"]

LEMMA SetConditionSilent ==
    ASSUME NEW o \in Objects, NEW type \in ConditionTypes \ {"Primer", "SetupComplete"},
           NEW reason \in Reasons
    PROVE  SetCondition(o, type, reason) \in Objects /\ Silent(SetCondition(o, type, reason), o)
<1>1. /\ SetCondition(o, type, reason).conditions["Primer"] = o.conditions["Primer"]
      /\ SetCondition(o, type, reason).conditions["SetupComplete"]
            = o.conditions["SetupComplete"]
  BY DEF SetCondition, Objects, ConditionTypes
<1> QED
  BY <1>1, SetConditionType, SetConditionSame DEF Silent, Lists, Same

LEMMA SilentTransitive ==
    ASSUME NEW o, NEW p, NEW q, Silent(o, p), Silent(p, q)
    PROVE  Silent(o, q)
BY DEF Silent

SilentStep ==
    \/ CheckInfrastructure \/ SetupClusterVersion \/ CheckCompletion \/ SkipPriming
    \/ PassPrimer \/ ClosedGate \/ TakeAll \/ PassNode \/ EndSchedule \/ EndScan
    \/ (CheckAllDone /\ ~Return) \/ RecordCompletion

LEMMA SilentSteps ==
    ASSUME TypeOK, SilentStep
    PROVE  Silent(obj', obj)
<1>0. obj \in Objects /\ desired \in Version /\ Silent(obj, obj)
  BY DEF TypeOK, Silent
<1>1. CASE CheckInfrastructure
  <2> DEFINE found == SetCondition(obj, "InfrastructureFound", "InfrastructureFound")
  <2>1. found \in Objects /\ Silent(found, obj)
    BY <1>0, SetConditionSilent DEF ConditionTypes, Reasons
  <2>2. Silent([found EXCEPT !.infrastructure = TRUE], found)
    <3> HIDE DEF found
    <3> QED
      BY <2>1 DEF Silent, Lists, Objects
  <2>3. obj' = obj \/ obj' = [found EXCEPT !.infrastructure = TRUE]
    BY <1>1 DEF CheckInfrastructure
  <2>4. obj' = obj \/ Silent(obj', found)
    BY <2>2, <2>3, Zenon
  <2> HIDE DEF found
  <2> QED
    BY <1>0, <2>1, <2>4, SilentTransitive
<1>2. CASE CheckCompletion
  <2> DEFINE done == SetCondition(obj, "Running", "ReconciliationCompleted")
             both == SetCondition(done, "Completed", "ReconciliationCompleted")
  <2>1. done \in Objects /\ Silent(done, obj)
    BY <1>0, SetConditionSilent DEF ConditionTypes, Reasons
  <2>2. Silent(both, done)
    <3> HIDE DEF done
    <3> QED
      BY <2>1, SetConditionSilent DEF ConditionTypes, Reasons
  <2>3. obj' = obj \/ obj' = both
    BY <1>2 DEF CheckCompletion
  <2> HIDE DEF done, both
  <2> QED
    BY <1>0, <2>1, <2>2, <2>3, SilentTransitive
<1>3. CASE EndSchedule \/ (CheckAllDone /\ ~Return)
  BY <1>0, <1>3, SetConditionSilent DEF EndSchedule, CheckAllDone, ConditionTypes, Reasons
<1>4. CASE SetupClusterVersion \/ RecordCompletion
  <2>1. \/ obj' = obj
        \/ \E v : obj' = [obj EXCEPT !.version = v] \/ obj' = [obj EXCEPT !.last = v]
    BY <1>4, Zenon DEF SetupClusterVersion, RecordCompletion, SetVersion
  <2> QED
    BY <1>0, <2>1 DEF Silent, Lists, Objects
<1>5. CASE SkipPriming \/ PassPrimer \/ ClosedGate \/ TakeAll \/ PassNode \/ EndScan
  BY <1>0, <1>5 DEF SkipPriming, PassPrimer, ClosedGate, TakeAll, PassNode, EndScan
<1> QED
  BY <1>1, <1>2, <1>3, <1>4, <1>5 DEF SilentStep

(* Disabling an object, or finding no node for it, clears its lists, and    *)
(* the conditions that the promises are about.                              *)
LEMMA ClearedFields ==
    ASSUME NEW o \in Objects, NEW p, p = Disable(o) \/ p = NoNodes(o)
    PROVE  /\ p.spec = o.spec /\ p.version = o.version
           /\ p.selected = <<>> /\ p.preheated = {} /\ p.warming = <<>> /\ p.waiting = <<>>
           /\ p.conditions["Primer"] = "" /\ p.conditions["SetupComplete"] = ""
<1>1. Reset(p, o) /\ p.preheated = {}
  BY ClearedReset, ClearedType
<1>2. p.spec = o.spec
  <2> DEFINE disabled == SetCondition(ClearLists(o), "Running", "Disabled")
             noNodes == SetCondition(ClearLists(o), "Running", "NoNodesSelected")
  <2>1. ClearLists(o) \in Objects /\ ClearLists(o).spec = o.spec
    <3>1. ClearLists(o).spec = o.spec
      BY DEF ClearLists, Objects
    <3> QED
      BY <3>1, ClearListsType
  <2>2. /\ disabled \in Objects /\ noNodes \in Objects
        /\ disabled.spec = o.spec /\ noNodes.spec = o.spec
    BY <2>1, SetConditionType, SetConditionSame DEF Same, ConditionTypes, Reasons
  <2> HIDE DEF disabled, noNodes
  <2>3. \A types : /\ DeleteConditions(disabled, types).spec = disabled.spec
                   /\ DeleteConditions(noNodes, types).spec = noNodes.spec
    BY <2>2, DeleteConditionsSame DEF Same
  <2> QED
    BY <2>2, <2>3 DEF Disable, NoNodes, disabled, noNodes
<1>3. p.conditions["Primer"] = "" /\ p.conditions["SetupComplete"] = ""
  <2>1. \E q \in Objects, types \in SUBSET ConditionTypes :
          /\ {"Primer", "SetupComplete"} \subseteq types
          /\ p = DeleteConditions(q, types)
    <3>1. /\ SetCondition(ClearLists(o), "Running", "Disabled") \in Objects
          /\ SetCondition(ClearLists(o), "Running", "NoNodesSelected") \in Objects
      BY ClearListsType, SetConditionType DEF ConditionTypes, Reasons
    <3>2. CASE p = Disable(o)
      <4> DEFINE types == {"Failure", "InfrastructureFound", "Primer", "SetupComplete"}
      <4>1. {"Primer", "SetupComplete"} \subseteq types /\ types \in SUBSET ConditionTypes
        BY DEF ConditionTypes
      <4>2. p = DeleteConditions(SetCondition(ClearLists(o), "Running", "Disabled"), types)
        BY <3>2 DEF Disable
      <4> QED
        BY <3>1, <4>1, <4>2, Zenon
    <3>3. CASE p = NoNodes(o)
      BY <3>1, <3>3 DEF NoNodes, ConditionTypes
    <3> QED
      BY <3>2, <3>3
  <2>2. PICK q \in Objects, types \in SUBSET ConditionTypes :
          /\ {"Primer", "SetupComplete"} \subseteq types
          /\ p = DeleteConditions(q, types)
    BY <2>1
  <2> QED
    BY <2>2 DEF DeleteConditions, Objects, ConditionTypes
<1> QED
  BY <1>1, <1>2, <1>3 DEF Reset

(* What determineTargetedNodes does to the copy and the local variables.    *)
LEMMA DetermineLeads ==
    ASSUME TypeOK, DetermineNodes
    PROVE  \E d \in Determinations(nodes, obj.spec) :
              /\ local' = [local EXCEPT !.targets = d.targeted, !.primers = d.primers]
              /\ \/ d.targeted = <<>> /\ obj' = NoNodes(obj) /\ pc' = "saveNoNodes"
                 \/ /\ pc' \in {"savePrimerState", "completion"}
                    /\ obj'.spec = obj.spec /\ obj'.version = obj.version
                    /\ obj'.selected = d.targeted /\ obj'.preheated = obj.preheated
                    /\ obj'.warming = obj.warming /\ obj'.waiting = obj.waiting
                    /\ obj'.conditions["SetupComplete"] = obj.conditions["SetupComplete"]
                    /\ \/ obj'.conditions["Primer"] = obj.conditions["Primer"]
                       \/ Elements(d.primers) \subseteq obj.preheated
<1>0. obj \in Objects
  BY DEF TypeOK
<1>1. PICK d \in Determinations(nodes, obj.spec) :
        /\ local' = [local EXCEPT !.targets = d.targeted, !.primers = d.primers]
        /\ \/ d.targeted = <<>> /\ obj' = NoNodes(obj) /\ Goto("saveNoNodes")
           \/ SetPrimerState([obj EXCEPT !.selected = d.targeted], d.primers)
  BY DEF DetermineNodes
<1> DEFINE o == [obj EXCEPT !.selected = d.targeted]
<1>2. CASE SetPrimerState(o, d.primers)
  <2>1. /\ o.spec = obj.spec /\ o.version = obj.version /\ o.selected = d.targeted
        /\ o.preheated = obj.preheated /\ o.warming = obj.warming /\ o.waiting = obj.waiting
        /\ o.conditions = obj.conditions
    BY <1>0 DEF Objects
  <2>2. o \in Objects
    <3>1. d.targeted \in Seq(Node)
      BY SpecsAssumption, DeterminationsType DEF TypeOK, Objects
    <3> QED
      BY <1>0, <3>1 DEF Objects
  <2> HIDE DEF o
  <2>3. \A reason \in Reasons :
          LET p == SetCondition(o, "Primer", reason)
          IN  /\ p.spec = o.spec /\ p.version = o.version /\ p.selected = o.selected
              /\ p.preheated = o.preheated /\ p.warming = o.warming /\ p.waiting = o.waiting
              /\ p.conditions["SetupComplete"] = o.conditions["SetupComplete"]
    BY <2>2 DEF SetCondition, Objects, ConditionTypes
  <2>4. /\ pc' \in {"savePrimerState", "completion"}
        /\ \/ obj' = o
           \/ /\ \E reason \in Reasons : obj' = SetCondition(o, "Primer", reason)
              /\ Elements(d.primers) \subseteq obj.preheated
    <3>1. d.primers = <<>> => Elements(d.primers) = {}
      BY DEF Elements
    <3> QED
      BY <1>2, <2>1, <3>1 DEF SetPrimerState, PrimersPreheated, Goto, Reasons
  <2>5. /\ obj'.spec = o.spec /\ obj'.version = o.version /\ obj'.selected = o.selected
        /\ obj'.preheated = o.preheated /\ obj'.warming = o.warming
        /\ obj'.waiting = o.waiting
        /\ obj'.conditions["SetupComplete"] = o.conditions["SetupComplete"]
        /\ obj' = o \/ Elements(d.primers) \subseteq obj.preheated
    BY <2>3, <2>4
  <2> QED
    BY <1>1, <2>1, <2>4, <2>5
<1> QED
  BY <1>1, <1>2 DEF Goto

(* The version of the copy is the one that this reconcile has read.         *)
LEMMA MemoryVersion ==
    ASSUME TypeOK, InMemory
    PROVE  /\ obj'.spec = obj.spec
           /\ SetupClusterVersion => obj'.version = desired /\ local'.version = desired
           /\ ~SetupClusterVersion => obj'.version = obj.version /\ local'.version = local.version
<1>0. obj \in Objects /\ local \in LocalVariables
  BY DEF TypeOK
<1>1. CASE SetupClusterVersion
  BY <1>0, <1>1 DEF SetupClusterVersion, SetVersion, Objects, LocalVariables
<1>2. CASE DetermineNodes
  <2>1. PICK d \in Determinations(nodes, obj.spec) :
          /\ local' = [local EXCEPT !.targets = d.targeted, !.primers = d.primers]
          /\ \/ obj' = NoNodes(obj)
             \/ obj'.spec = obj.spec /\ obj'.version = obj.version
    BY <1>2, DetermineLeads
  <2>2. local'.version = local.version
    BY <1>0, <2>1 DEF LocalVariables
  <2>3. ~SetupClusterVersion
    BY <1>2 DEF DetermineNodes, SetupClusterVersion
  <2> QED
    BY <1>0, <2>1, <2>2, <2>3, ClearedFields
<1>3. CASE FillWaiting \/ TakeBatch \/ ListJobs \/ ScanJob \/ StartPrimer \/ StartNode
  <2>1. obj'.spec = obj.spec /\ obj'.version = obj.version
    BY <1>0, <1>3, ListStepsKeep
  <2>2. \/ local' = local
        \/ \E next, k : local' = [local EXCEPT !.next = next, !.i = k]
        \/ \E next, k : local' = [local EXCEPT !.i = k, !.next = next]
        \/ \E scan : local' = [local EXCEPT !.scan = scan]
        \/ \E k, b : local' = [local EXCEPT !.i = k, !.scheduled = TRUE, !.stillRunning = b]
    <3>1. CASE TakeBatch
      BY <3>1, Zenon DEF TakeBatch, Panic
    <3>2. CASE StartPrimer
      BY <3>2, Zenon DEF StartPrimer, Panic
    <3>3. CASE StartNode
      BY <3>3, Zenon DEF StartNode, Panic
    <3>4. CASE ScanJob \/ ListJobs \/ FillWaiting
      BY <3>4, Zenon DEF ScanJob, ListJobs, FillWaiting
    <3> QED
      BY <1>3, <3>1, <3>2, <3>3, <3>4
  <2>3. local'.version = local.version
    BY <1>0, <2>2 DEF LocalVariables
  <2>4. ~SetupClusterVersion
    BY <1>3 DEF FillWaiting, TakeBatch, ListJobs, ScanJob, StartPrimer, StartNode,
       SetupClusterVersion
  <2> QED
    BY <2>1, <2>3, <2>4
<1>4. CASE \/ CheckInfrastructure \/ CheckCompletion \/ SetupResources \/ SkipPriming
           \/ PassPrimer \/ EndPriming \/ ClosedGate \/ TakeAll \/ PassNode \/ EndSchedule
           \/ EndScan \/ (CheckAllDone /\ ~Return) \/ RecordCompletion
  <2>1. obj'.spec = obj.spec /\ obj'.version = obj.version
    <3>1. CASE CheckCompletion
      BY <3>1, CheckCompletionSame DEF Same
    <3>2. CASE RecordCompletion
      BY <1>0, <3>2 DEF RecordCompletion, Objects
    <3>3. CASE ~CheckCompletion /\ ~RecordCompletion
      <4>1. Calm /\ ~Return
        <5>1. Calm
          BY <1>4, <3>3 DEF Calm
        <5>2. pc' # "idle"
          BY <1>4, MemoryLeads DEF InMemory
        <5> QED
          BY <5>1, <5>2 DEF Return
      <4> QED
        BY <4>1, CalmAlike DEF Alike, Same
    <3> QED
      BY <3>1, <3>2, <3>3
  <2>2. local'.version = local.version
    <3>1. \/ local' = local
          \/ \E k, running : local' = [local EXCEPT !.i = k, !.stillRunning = running]
          \/ \E k : local' = [local EXCEPT !.i = k]
          \/ \E next : local' = [local EXCEPT !.next = next, !.i = 1]
      BY <1>4 DEF CheckInfrastructure, CheckCompletion, SetupResources, SkipPriming,
         PassPrimer, EndPriming, ClosedGate, TakeAll, PassNode, EndSchedule, EndScan,
         CheckAllDone, RecordCompletion
    <3> QED
      BY <1>0, <3>1 DEF LocalVariables
  <2>3. ~SetupClusterVersion
    BY <1>4 DEF CheckInfrastructure, CheckCompletion, SetupResources, SkipPriming,
       PassPrimer, EndPriming, ClosedGate, TakeAll, PassNode, EndSchedule, EndScan,
       CheckAllDone, RecordCompletion, SetupClusterVersion
  <2> QED
    BY <2>1, <2>2, <2>3
<1> QED
  BY <1>1, <1>2, <1>3, <1>4 DEF InMemory

(* A job is made for a node that has none, of the release of the copy.      *)
Launch(n) ==
    /\ n \in Node /\ jobs[n][obj.version] = "none"
    /\ \A m \in Node, v \in Version \union {NoVersion} :
          jobs'[m][v] = IF m = n /\ v = obj.version THEN "active" ELSE jobs[m][v]
    /\ UNCHANGED pulled

LEMMA CreateLaunches ==
    ASSUME TypeOK, Alone, NEW n \in Node, CreatePullJob(n)
    PROVE  Launch(n)
<1>1. JobView = jobs /\ obj.version \in Version \union {NoVersion} /\ jobs \in Jobs
  BY AloneReads DEF TypeOK, Objects
<1>2. jobs[n][obj.version] = "none" /\ UNCHANGED pulled
  BY <1>1 DEF CreatePullJob, PullJobSeen
<1>3. jobs' = [jobs EXCEPT ![n][obj.version] = "active"]
  BY DEF CreatePullJob
<1>4. \A m \in Node, v \in Version \union {NoVersion} :
        jobs'[m][v] = IF m = n /\ v = obj.version THEN "active" ELSE jobs[m][v]
  BY <1>1, <1>3 DEF Jobs
<1> QED
  BY <1>2, <1>4 DEF Launch

LEMMA StartLaunches ==
    ASSUME TypeOK, Alone
    PROVE  /\ StartPrimer => /\ pc = "primers" /\ local.i \in DOMAIN local.primers
                             /\ Launch(local.primers[local.i])
           /\ StartNode => /\ pc = "schedule" /\ local.i \in DOMAIN local.next
                           /\ Launch(local.next[local.i])
<1>0. local \in LocalVariables
  BY DEF TypeOK
<1>1. ASSUME StartPrimer
      PROVE  /\ pc = "primers" /\ local.i \in DOMAIN local.primers
             /\ Launch(local.primers[local.i])
  <2>1. pc = "primers" /\ local.i <= Len(local.primers) /\ CreatePullJob(local.primers[local.i])
    BY <1>1 DEF StartPrimer
  <2>2. local.i \in DOMAIN local.primers /\ local.primers[local.i] \in Node
    BY <1>0, <2>1 DEF LocalVariables
  <2> QED
    BY <2>1, <2>2, CreateLaunches
<1>2. ASSUME StartNode
      PROVE  /\ pc = "schedule" /\ local.i \in DOMAIN local.next
             /\ Launch(local.next[local.i])
  <2>1. pc = "schedule" /\ local.i <= Len(local.next) /\ CreatePullJob(local.next[local.i])
    BY <1>2 DEF StartNode
  <2>2. local.i \in DOMAIN local.next /\ local.next[local.i] \in Node
    BY <1>0, <2>1 DEF LocalVariables
  <2> QED
    BY <2>1, <2>2, CreateLaunches
<1> QED
  BY <1>1, <1>2

(* The calls to the API server for the object.                              *)
LEMMA SaveLeads ==
    ASSUME TypeOK, AloneInv, Save
    PROVE  /\ UNCHANGED <<nodes, desired, self, jobs, pulled>>
           /\ pc \in DOMAIN Saves /\ pc # "idle" /\ fresh
           /\ api' = [api EXCEPT ![self] = obj] /\ api'[self] = obj
           /\ \/ Return
              \/ pc' = Saves[pc].accepted /\ UNCHANGED <<obj, fresh, local>>
<1>1. pc \in DOMAIN Saves /\ self \in UA /\ api \in [UA -> Objects]
  BY DEF Save, TypeOK
<1>2. pc # "idle"
  BY <1>1 DEF Saves
<1>3. fresh
  BY <1>2 DEF AloneInv
<1>4. /\ api' = [api EXCEPT ![self] = obj] /\ Continue(Saves[pc].accepted)
      /\ UNCHANGED <<nodes, desired, jobs, pulled>>
  BY <1>3 DEF Save, Accepted, cluster, pulls
<1>5. api'[self] = obj
  BY <1>1, <1>4
<1> QED
  BY <1>1, <1>2, <1>3, <1>4, <1>5 DEF Continue, Return, Goto

LEMMA RefetchLeads ==
    ASSUME TypeOK, Alone, AloneInv, Refetch
    PROVE  /\ UNCHANGED <<api, nodes, desired, self, jobs, pulled, local, obj>>
           /\ pc # "idle" /\ fresh' /\ pc \in Stored
           /\ pc \in DOMAIN Refetches /\ pc' = Refetches[pc]
<1>1. /\ pc \in DOMAIN Refetches /\ View = api
      /\ obj' = api[self] /\ fresh' /\ pc' = Refetches[pc]
      /\ UNCHANGED <<api, nodes, desired, self, jobs, pulled, local>>
  BY AloneReads DEF Refetch, Goto, objects, pulls, cluster
<1>2. pc \in Stored /\ pc # "idle"
  BY <1>1 DEF Refetches, Stored
<1> QED
  BY <1>1, <1>2 DEF AloneInv

LEMMA BeginLeads ==
    ASSUME TypeOK, Alone, NEW u \in UA, Begin(u)
    PROVE  /\ UNCHANGED <<api, nodes, desired, self, jobs, pulled, local>>
           /\ pc = "idle" /\ fresh'
           /\ \/ Enabled(self) /\ obj' = api[self] /\ pc' = "infrastructure"
              \/ ~Enabled(self) /\ obj' = Disable(api[self]) /\ pc' = "saveDisabled"
<1>1. View = api /\ u = self
  BY AloneReads
<1> QED
  BY <1>1 DEF Begin, Goto, Enabled, objects, cluster

LEMMA FinishLeads ==
    ASSUME Finishes
    PROVE  Return /\ UNCHANGED <<api, nodes, desired, self, jobs, pulled>>
BY DEF Finishes, JobRefused, Recover, CheckAllDone, Return, objects, pulls, cluster

Begins == \E u \in UA : Begin(u)

LEMMA StepsAlone ==
    ASSUME TypeOK, OnlyJobsFail, AloneInv, [Next]_vars
    PROVE  JobsOnly \/ Begins \/ Save \/ Refetch \/ InMemory \/ Finishes
<1>1. CASE Worker
  <2>1. ~ReportFailure
    BY DEF AloneInv, ReportFailure
  <2> QED
    BY <1>1, <2>1, Zenon DEF Worker, InMemory, Finishes
<1>2. CASE Environment \/ UNCHANGED vars
  BY <1>2, EnvironmentJobs
<1> QED
  BY <1>1, <1>2, Zenon DEF Next, Begins

(* What the object asks for, and the cluster, stay as they are.             *)
Fixed == UNCHANGED <<nodes, desired, self>> /\ api'[self].spec = api[self].spec

LEMMA StepsFixed ==
    ASSUME TypeOK, OnlyJobsFail, AloneInv, [Next]_vars
    PROVE  Fixed
<1>1. CASE JobsOnly
  BY <1>1 DEF JobsOnly, Fixed
<1>2. CASE Begins
  BY <1>2, BeginLeads DEF Begins, OnlyJobsFail, Fixed
<1>3. CASE Save
  BY <1>3, SaveLeads DEF AloneInv, Fixed
<1>4. CASE Refetch
  BY <1>4, RefetchLeads DEF OnlyJobsFail, Fixed
<1>5. CASE InMemory
  BY <1>5, MemoryFrame DEF Fixed
<1>6. CASE Finishes
  BY <1>6, FinishLeads DEF Fixed
<1> QED
  BY <1>1, <1>2, <1>3, <1>4, <1>5, <1>6, StepsAlone

LEMMA FixedKeeps ==
    ASSUME Fixed
    PROVE  /\ Primers' = Primers /\ Wanted' = Wanted
           /\ Enabled(self)' = Enabled(self)
BY DEF Fixed, Primers, Wanted, Enabled

--------------------------------------------------------------------------------
(***************************************************************************)
(* The copy is the object: AloneInv is an invariant.                       *)
(***************************************************************************)
LEMMA ReturnAlone ==
    ASSUME AloneInv, Return, UNCHANGED <<desired, jobs, pulled>>
    PROVE  AloneInv'
<1>1. pc' = "idle"
  BY DEF Return
<1> QED
  BY <1>1 DEF AloneInv, Stored, Determined, Versioned, Selecting, Pulling, Selected, Completing

LEMMA JobsAlone ==
    ASSUME AloneInv, JobsOnly
    PROVE  AloneInv'
<1>1. \A n \in Node, v \in Version \union {NoVersion} : jobs'[n][v] # "none" => v = desired
  BY DEF AloneInv, JobsOnly
<1>2. pulled' \subseteq Node \X {desired}
  <2> SUFFICES ASSUME NEW pull \in pulled' PROVE pull \in Node \X {desired}
    OBVIOUS
  <2>1. CASE pull \in pulled
    BY <2>1 DEF AloneInv
  <2>2. CASE pull \notin pulled
    <3>1. PICK n \in Node, v \in Version \union {NoVersion} :
            pull = <<n, v>> /\ jobs[n][v] # "none"
      BY <2>2 DEF JobsOnly
    <3> QED
      BY <3>1 DEF AloneInv
  <2> QED
    BY <2>1, <2>2
<1> QED
  BY <1>1, <1>2 DEF AloneInv, JobsOnly

LEMMA SavesAlone ==
    ASSUME NEW step \in DOMAIN Saves
    PROVE  /\ Saves[step].accepted # "failed"
           /\ Saves[step].accepted \in Determined => step \in Determined
BY DEF Saves, Ignored, Checked, Determined, Versioned, Selecting, Pulling, Selected, Completing

LEMMA NextAlone ==
    ASSUME TypeOK, OnlyJobsFail, AloneInv, [Next]_vars
    PROVE  AloneInv'
<1>0. Fixed
  BY StepsFixed
<1>1. CASE JobsOnly
  BY <1>1, JobsAlone
<1>2. CASE Begins
  <2>1. /\ UNCHANGED <<api, desired, jobs, pulled>> /\ fresh'
        /\ pc' \in {"infrastructure", "saveDisabled"}
        /\ pc' = "infrastructure" => obj' = api'[self']
        /\ obj'.spec = api'[self'].spec
    <3>1. PICK u \in UA : Begin(u)
      BY <1>2 DEF Begins
    <3>2. Disable(api[self]).spec = api[self].spec
      BY ClearedFields DEF TypeOK
    <3> QED
      BY <3>1, <3>2, BeginLeads DEF OnlyJobsFail
  <2>2. pc' # "failed" /\ pc' \notin Determined /\ (pc' \in Stored => pc' = "infrastructure")
    BY <2>1 DEF Stored, Determined, Versioned, Selecting, Pulling, Selected, Completing
  <2> QED
    BY <2>1, <2>2 DEF AloneInv
<1>3. CASE Save
  <2>1. /\ UNCHANGED <<desired, self, jobs, pulled>> /\ api'[self] = obj /\ fresh
        /\ pc \in DOMAIN Saves /\ pc # "idle"
    BY <1>3, SaveLeads
  <2>2. CASE Return
    BY <2>1, <2>2, ReturnAlone
  <2>3. CASE pc' = Saves[pc].accepted /\ UNCHANGED <<obj, fresh, local>>
    BY <2>1, <2>3, SavesAlone DEF AloneInv
  <2> QED
    BY <1>3, <2>2, <2>3, SaveLeads
<1>4. CASE Refetch
  <2>1. /\ UNCHANGED <<api, desired, self, jobs, pulled, local, obj>> /\ fresh' /\ pc \in Stored
        /\ pc \in DOMAIN Refetches /\ pc' = Refetches[pc] /\ pc # "idle"
    BY <1>4, RefetchLeads DEF OnlyJobsFail
  <2>2. pc' # "failed" /\ (pc' \in Determined => pc \in Determined)
    BY <2>1 DEF Refetches, Determined, Versioned, Selecting, Pulling, Selected, Completing
  <2> QED
    BY <2>1, <2>2 DEF AloneInv
<1>5. CASE InMemory
  <2>1. /\ UNCHANGED <<api, desired, self, fresh>> /\ obj'.spec = obj.spec /\ pc # "idle"
        /\ pc' # "failed" /\ (pc' \in Stored => pc \in Stored /\ obj' = obj)
    BY <1>5, MemoryFrame, MemoryVersion, MemoryLeads
  <2>2. pc' \in Determined => obj'.version = desired /\ local'.version = desired
    <3>1. CASE SetupClusterVersion
      BY <1>5, <3>1, MemoryVersion
    <3>2. CASE ~SetupClusterVersion
      BY <1>5, <3>2, MemoryLeads, MemoryVersion DEF AloneInv
    <3> QED
      BY <3>1, <3>2
  <2>3. /\ \A n \in Node, v \in Version \union {NoVersion} : jobs'[n][v] # "none" => v = desired
        /\ pulled' = pulled
    <3>1. CASE StartPrimer \/ StartNode
      <4>1. PICK n \in Node : Launch(n) /\ pc \in {"primers", "schedule"}
        BY <3>1, StartLaunches DEF OnlyJobsFail, Launch
      <4>2. pc \in Determined
        BY <4>1 DEF Determined, Versioned, Pulling
      <4>3. obj.version = desired
        BY <4>2 DEF AloneInv
      <4> QED
        BY <4>1, <4>3 DEF AloneInv, Launch
    <3>2. CASE ~StartPrimer /\ ~StartNode
      BY <1>5, <3>2, MemoryFrame DEF AloneInv
    <3> QED
      BY <3>1, <3>2
  <2> QED
    BY <2>1, <2>2, <2>3 DEF AloneInv
<1>6. CASE Finishes
  BY <1>6, FinishLeads, ReturnAlone
<1> QED
  BY <1>1, <1>2, <1>3, <1>4, <1>5, <1>6, StepsAlone

LEMMA InitAlone ==
    ASSUME Init
    PROVE  AloneInv
<1>1. /\ pc = "idle" /\ pulled = {}
      /\ \A n \in Node, v \in Version \union {NoVersion} : jobs[n][v] = "none"
  BY DEF Init
<1> QED
  BY <1>1 DEF AloneInv, Stored, Determined, Versioned, Selecting, Pulling, Selected, Completing

--------------------------------------------------------------------------------
(***************************************************************************)
(* Primers first: OrderInv is an invariant.                                *)
(***************************************************************************)
LEMMA PulledNow ==
    ASSUME AloneInv, NEW n \in PulledOnce
    PROVE  <<n, desired>> \in pulled
<1>1. PICK pull \in pulled : pull[1] = n
  BY DEF PulledOnce
<1>2. pull = <<n, desired>>
  BY <1>1 DEF AloneInv
<1> QED
  BY <1>2

LEMMA PrimersAreNodes ==
    ASSUME TypeOK
    PROVE  /\ Primers \subseteq Node /\ desired \in Version \union {NoVersion}
           /\ self \in UA /\ api[self] \in Objects /\ api[self].spec.prime \in BOOLEAN
<1>1. self \in UA /\ api[self] \in Objects /\ api[self].spec \in Specs
  BY DEF TypeOK, Objects
<1>2. api[self].spec.prime \in BOOLEAN
  BY <1>1, SpecsAssumption
<1> QED
  BY <1>1, <1>2, SelectedArePresent, PrimersArePresent DEF Primers, Present, TypeOK

(* The same of the next state, for an object of any state.                  *)
HonestThen(o) ==
    /\ \A p \in Primers : jobs'[p][desired] # "none" =>
          p \in Elements(o.warming) \/ <<p, desired>> \in pulled'
    /\ GateOpen(o) => Primers \X {desired} \subseteq pulled'

LEMMA HonestNext ==
    ASSUME Fixed
    PROVE  /\ HonestThen(obj') => Honest(obj)'
           /\ HonestThen(api'[self]) => Honest(api[self])'
<1>1. Primers' = Primers /\ desired' = desired /\ self' = self
  BY FixedKeeps DEF Fixed
<1> QED
  BY <1>1 DEF HonestThen, Honest, Told, AllPrimed, GateOpen

LEMMA HonestStays ==
    ASSUME NEW o, Honest(o), pulled \subseteq pulled',
           \A p \in Primers : jobs'[p][desired] # "none" => jobs[p][desired] # "none"
    PROVE  HonestThen(o)
BY DEF Honest, Told, AllPrimed, HonestThen

LEMMA AfterPrimingGate ==
    ASSUME NEW o \in Objects, NEW scheduled \in BOOLEAN, NEW stillRunning \in BOOLEAN
    PROVE  LET p == AfterPriming(o, scheduled, stillRunning)
           IN  /\ Lists(p) = Lists(o)
               /\ p.conditions["SetupComplete"] = o.conditions["SetupComplete"]
               /\ GateOpen(p) => (~scheduled /\ ~stillRunning) \/ GateOpen(o)
<1> DEFINE p == AfterPriming(o, scheduled, stillRunning)
           inProgress == SetCondition(o, "Primer", "PrimingInProgress")
           completed == SetCondition(o, "Primer", "PrimingCompleted")
           running == SetCondition(o, "Running", "JobsScheduled")
           both == SetCondition(inProgress, "Running", "JobsScheduled")
<1>1. Lists(p) = Lists(o)
  BY AfterPrimingSame DEF Same, Lists
<1>2. /\ inProgress \in Objects
      /\ inProgress.conditions["SetupComplete"] = o.conditions["SetupComplete"]
      /\ completed.conditions["SetupComplete"] = o.conditions["SetupComplete"]
      /\ inProgress.conditions["Primer"] = "PrimingInProgress"
  <2>1. inProgress \in Objects
    BY SetConditionType DEF ConditionTypes, Reasons
  <2> QED
    BY <2>1 DEF SetCondition, Objects, ConditionTypes
<1>3. Silent(running, o) /\ Silent(both, inProgress)
  <2> HIDE DEF inProgress
  <2> QED
    BY <1>2, SetConditionSilent DEF ConditionTypes, Reasons
<1>4. \/ ~scheduled /\ ~stillRunning /\ p = completed
      \/ p \in {o, running, inProgress, both} /\ (p \in {o, running} \/ scheduled)
  BY DEF AfterPriming
<1> HIDE DEF p, inProgress, completed, running, both
<1>5. p.conditions["SetupComplete"] = o.conditions["SetupComplete"]
  BY <1>2, <1>3, <1>4 DEF Silent
<1>6. GateOpen(p) => (~scheduled /\ ~stillRunning) \/ GateOpen(o)
  BY <1>2, <1>3, <1>4 DEF Silent, GateOpen
<1> QED
  BY <1>1, <1>5, <1>6 DEF p

LEMMA DeterminedPrimers ==
    ASSUME TypeOK, AloneInv, pc = "nodes", NEW d \in Determinations(nodes, obj.spec)
    PROVE  /\ Elements(d.primers) = Primers /\ Primers \subseteq Elements(d.targeted)
           /\ Elements(d.targeted) = Wanted
<1>1. obj.spec = api[self].spec /\ obj.spec.prime \in BOOLEAN
  <2>1. obj.spec = api[self].spec
    BY DEF AloneInv
  <2> QED
    BY <2>1, PrimersAreNodes
<1> QED
  BY <1>1, DeterminationLists DEF Primers, Wanted

LEMMA MemoryHonest ==
    ASSUME TypeOK, PulledInv, AloneInv, OrderInv, Enabled(self), Alone,
           InMemory, ~StartPrimer, ~StartNode
    PROVE  Honest(obj')
<1>0. obj \in Objects /\ local \in LocalVariables /\ pc # "idle" /\ Honest(obj)
  BY MemoryLeads DEF TypeOK, OrderInv
<1>1. \A o : (/\ o.warming = obj.warming
              /\ o.conditions["Primer"] = obj.conditions["Primer"]) => Honest(o)
  BY <1>0 DEF Honest, Told, GateOpen
<1>2. CASE SilentStep
  BY <1>1, <1>2, SilentSteps DEF Silent, Lists
<1>3. CASE SetupResources
  <2>1. obj' = SetCondition(obj, "SetupComplete", "AllSetupComplete")
    BY <1>3 DEF SetupResources
  <2>2. obj'.warming = obj.warming /\ obj'.conditions["Primer"] = obj.conditions["Primer"]
    BY <1>0, <2>1 DEF SetCondition, Objects, ConditionTypes
  <2> QED
    BY <1>1, <2>2
<1>4. CASE EndPriming
  <2>1. /\ obj' = AfterPriming(obj, local.scheduled, local.stillRunning)
        /\ pc = "primers" /\ local.i > Len(local.primers)
    BY <1>4 DEF EndPriming
  <2>2. /\ obj'.warming = obj.warming
        /\ GateOpen(obj') => (~local.scheduled /\ ~local.stillRunning) \/ GateOpen(obj)
    BY <1>0, <2>1, AfterPrimingGate DEF Lists, LocalVariables
  <2>3. ~local.scheduled /\ ~local.stillRunning => AllPrimed
    <3> SUFFICES ASSUME ~local.scheduled, ~local.stillRunning, NEW p \in Primers
                 PROVE  <<p, desired>> \in pulled
      BY DEF AllPrimed
    <3>1. Elements(local.primers) = Primers
      BY <2>1 DEF OrderInv, LoopInv, InLoop
    <3>2. PICK k \in DOMAIN local.primers : p = local.primers[k]
      BY <3>1 DEF Elements
    <3>3. k < local.i
      BY <1>0, <2>1 DEF LocalVariables
    <3> QED
      BY <2>1, <3>2, <3>3 DEF OrderInv, LoopInv, InLoop
  <2> QED
    BY <1>0, <2>2, <2>3 DEF Honest, Told
<1>5. CASE DetermineNodes
  <2>1. PICK d \in Determinations(nodes, obj.spec) :
          \/ d.targeted = <<>> /\ obj' = NoNodes(obj)
          \/ /\ obj'.warming = obj.warming
             /\ \/ obj'.conditions["Primer"] = obj.conditions["Primer"]
                \/ Elements(d.primers) \subseteq obj.preheated
    BY <1>5, DetermineLeads
  <2>2. Elements(d.primers) = Primers /\ Primers \subseteq Elements(d.targeted)
    BY <1>5, DeterminedPrimers DEF DetermineNodes
  <2>3. CASE d.targeted = <<>>
    <3>1. Primers = {}
      BY <2>2, <2>3 DEF Elements
    <3> QED
      BY <3>1 DEF Honest, Told, AllPrimed
  <2>4. CASE obj'.warming = obj.warming /\ Elements(d.primers) \subseteq obj.preheated
    <3>1. \A p \in Primers : <<p, desired>> \in pulled
      BY <2>2, <2>4, PulledNow DEF PulledInv
    <3> QED
      BY <3>1 DEF Honest, Told, AllPrimed
  <2> QED
    BY <1>1, <2>1, <2>3, <2>4
<1>6. CASE FillWaiting \/ TakeBatch
  <2>1. obj' = obj \/ \E waiting : obj' = [obj EXCEPT !.waiting = waiting]
    <3>1. CASE TakeBatch
      BY <3>1, Zenon DEF TakeBatch, Panic
    <3>2. CASE FillWaiting
      BY <3>2, Zenon DEF FillWaiting
    <3> QED
      BY <1>6, <3>1, <3>2
  <2>2. obj'.warming = obj.warming /\ obj'.conditions = obj.conditions
    BY <1>0, <2>1 DEF Objects
  <2> QED
    BY <1>1, <2>2
<1>7. CASE ListJobs
  <2>1. obj' = obj \/ (obj' = Rescheduled(obj) /\ Listed(local.version) = {})
    BY <1>7, Zenon DEF ListJobs
  <2>2. ASSUME Listed(local.version) = {} PROVE \A p \in Primers : jobs[p][desired] = "none"
    <3>1. local.version = desired
      BY <1>7 DEF ListJobs, AloneInv, Determined, Selected
    <3>2. JobView = jobs
      BY AloneReads
    <3> QED
      BY <2>2, <3>1, <3>2, PrimersAreNodes DEF Listed
  <2>3. CASE obj' = Rescheduled(obj) /\ Listed(local.version) = {}
    <3>1. obj'.conditions = obj.conditions
      BY <1>0, <2>3 DEF Rescheduled, Objects
    <3> QED
      BY <1>0, <2>2, <2>3, <3>1 DEF Honest, Told, GateOpen
  <2> QED
    BY <1>0, <2>1, <2>3
<1>8. CASE ScanJob
  <2>1. PICK n \in local.scan : obj' = Preheat(obj, n)
    BY <1>8 DEF ScanJob
  <2>2. <<n, desired>> \in pulled /\ n \in Node
    BY <1>0, PulledNow DEF PulledInv, LocalVariables
  <2>3. /\ obj'.conditions = obj.conditions
        /\ obj'.warming = IF n \in Elements(obj.warming) THEN Without(obj.warming, n)
                                                         ELSE obj.warming
    <3> DEFINE warming == IF n \in Elements(obj.warming) THEN Without(obj.warming, n)
                                                         ELSE obj.warming
               preheated == obj.preheated \union {n}
    <3>1. obj' = [obj EXCEPT !.preheated = preheated, !.warming = warming]
      BY <2>1, Zenon DEF Preheat
    <3> HIDE DEF warming, preheated
    <3>2. obj'.conditions = obj.conditions /\ obj'.warming = warming
      BY <1>0, <3>1 DEF Objects
    <3> QED
      BY <3>2 DEF warming
  <2>4. Elements(obj.warming) \subseteq Elements(obj'.warming) \union {n}
    BY <1>0, <2>3, WithoutElements DEF Objects
  <2> QED
    BY <1>0, <2>2, <2>3, <2>4 DEF Honest, Told, GateOpen
<1> QED
  BY <1>2, <1>3, <1>4, <1>5, <1>6, <1>7, <1>8 DEF InMemory, SilentStep

(* A job has been made: the node is warming, or the list of waiting nodes   *)
(* has not got it.                                                          *)
Moved(n, waiting) ==
    /\ obj'.warming = Append(obj.warming, n) /\ obj'.waiting = waiting
    /\ obj'.preheated = obj.preheated /\ obj'.selected = obj.selected
    /\ obj'.conditions = obj.conditions
Broken == pc' = "panicked" /\ obj' = obj /\ local' = local

LEMMA StartPrimerLeads ==
    ASSUME TypeOK, StartPrimer
    PROVE  LET n == local.primers[local.i]
           IN  \/ /\ pc' = "savePrimer" /\ (Len(obj.waiting) > 1 => n \in Elements(obj.waiting))
                  /\ Moved(n, AfterPrimer(obj.waiting, n))
                  /\ local'.i = local.i + 1 /\ local'.scheduled = TRUE
                  /\ local'.primers = local.primers /\ local'.scan = local.scan
               \/ Broken /\ Len(obj.waiting) > 1 /\ n \notin Elements(obj.waiting)
<1> DEFINE n == local.primers[local.i]
           running == StillRunning(n)
           warming == Append(obj.warming, n)
           waiting == AfterPrimer(obj.waiting, n)
<1>0. obj \in Objects /\ local \in LocalVariables
  BY DEF TypeOK
<1>1. \/ /\ pc' = "savePrimer" /\ (Len(obj.waiting) > 1 => n \in Elements(obj.waiting))
         /\ obj' = [obj EXCEPT !.warming = warming, !.waiting = waiting]
         /\ local' = [local EXCEPT !.i = local.i + 1, !.scheduled = TRUE,
                                   !.stillRunning = running]
      \/ Broken /\ Len(obj.waiting) > 1 /\ n \notin Elements(obj.waiting)
  BY Zenon DEF StartPrimer, Goto, Panic, Broken
<1>2. CASE Broken
  BY <1>1, <1>2 DEF Broken
<1>3. CASE ~Broken
  <2> HIDE DEF warming, waiting, running
  <2>1. /\ obj'.warming = warming /\ obj'.waiting = waiting
        /\ obj'.preheated = obj.preheated /\ obj'.selected = obj.selected
        /\ obj'.conditions = obj.conditions
    BY <1>0, <1>1, <1>3 DEF Objects
  <2>2. /\ local'.i = local.i + 1 /\ local'.scheduled = TRUE
        /\ local'.primers = local.primers /\ local'.scan = local.scan
    BY <1>0, <1>1, <1>3 DEF LocalVariables
  <2> QED
    BY <1>1, <1>3, <2>1, <2>2 DEF Moved, warming, waiting
<1> QED
  BY <1>2, <1>3

LEMMA StartNodeLeads ==
    ASSUME TypeOK, StartNode
    PROVE  LET n == local.next[local.i]
           IN  \/ /\ pc' = "saveScheduled" /\ n \in Elements(obj.waiting)
                  /\ Moved(n, Without(obj.waiting, n))
                  /\ local'.next = NextAfter(local.next, obj.waiting, n)
                  /\ local'.scan = local.scan
               \/ Broken /\ n \notin Elements(obj.waiting)
<1> DEFINE n == local.next[local.i]
           next == NextAfter(local.next, obj.waiting, n)
           warming == Append(obj.warming, n)
           waiting == Without(obj.waiting, n)
<1>0. obj \in Objects /\ local \in LocalVariables
  BY DEF TypeOK
<1>1. \/ /\ pc' = "saveScheduled" /\ n \in Elements(obj.waiting)
         /\ obj' = [obj EXCEPT !.warming = warming, !.waiting = waiting]
         /\ local' = [local EXCEPT !.i = local.i + 1, !.next = next]
      \/ Broken /\ n \notin Elements(obj.waiting)
  BY Zenon DEF StartNode, Goto, Panic, Broken
<1>2. CASE Broken
  BY <1>1, <1>2 DEF Broken
<1>3. CASE ~Broken
  <2> HIDE DEF warming, waiting, next
  <2>1. /\ obj'.warming = warming /\ obj'.waiting = waiting
        /\ obj'.preheated = obj.preheated /\ obj'.selected = obj.selected
        /\ obj'.conditions = obj.conditions
    BY <1>0, <1>1, <1>3 DEF Objects
  <2>2. local'.next = next /\ local'.scan = local.scan
    BY <1>0, <1>1, <1>3 DEF LocalVariables
  <2> QED
    BY <1>1, <1>3, <2>1, <2>2 DEF Moved, warming, waiting, next
<1> QED
  BY <1>2, <1>3

HonestInv ==
    /\ (\E n \in Node \ Primers : jobs[n][desired] # "none") => AllPrimed
    /\ pc # "savePrimer" => Honest(api[self])
    /\ pc # "idle" => Honest(obj)

LEMMA HonestFollows ==
    ASSUME Fixed, pulled \subseteq pulled',
           (\E n \in Node \ Primers : jobs'[n][desired] # "none") => AllPrimed,
           pc' # "savePrimer" => HonestThen(api'[self]),
           pc' # "idle" => HonestThen(obj')
    PROVE  HonestInv'
<1>1. AllPrimed => AllPrimed'
  BY FixedKeeps DEF Fixed, AllPrimed
<1> QED
  BY <1>1, HonestNext, FixedKeeps DEF HonestInv, Fixed

LEMMA StartsHonest ==
    ASSUME TypeOK, PulledInv, AloneInv, OrderInv, Enabled(self), Alone, Fixed,
           StartPrimer \/ StartNode
    PROVE  HonestInv'
<1>0. /\ obj \in Objects /\ local \in LocalVariables /\ pc \in {"primers", "schedule"}
      /\ Honest(obj) /\ Honest(api[self]) /\ HonestInv
  BY StartLaunches DEF TypeOK, OrderInv, HonestInv
<1>1. /\ UNCHANGED <<api, desired, pulled>> /\ obj.version = desired
      /\ desired \in Version \union {NoVersion}
  <2>1. InMemory
    BY DEF InMemory
  <2>2. UNCHANGED <<api, desired>>
    BY <2>1, MemoryFrame
  <2>3. UNCHANGED pulled
    BY StartLaunches DEF Launch
  <2>4. pc \in Determined
    BY <1>0 DEF Determined, Versioned, Pulling
  <2> QED
    BY <2>2, <2>3, <2>4, PrimersAreNodes DEF AloneInv
<1>2. CASE StartPrimer
  <2> DEFINE n == local.primers[local.i]
  <2>1. /\ pc = "primers" /\ n \in Primers /\ Launch(n)
    <3>1. pc = "primers" /\ local.i \in DOMAIN local.primers /\ Launch(n)
      BY <1>2, StartLaunches
    <3>2. Elements(local.primers) = Primers
      BY <3>1 DEF OrderInv, LoopInv, InLoop
    <3> QED
      BY <3>1, <3>2 DEF Elements
  <2>2. \A m \in Node : m # n => jobs'[m][desired] = jobs[m][desired]
    BY <1>1, <2>1 DEF Launch
  <2>3. (\E m \in Node \ Primers : jobs'[m][desired] # "none") => AllPrimed
    BY <1>0, <2>1, <2>2 DEF HonestInv
  <2>4. \/ pc' = "savePrimer" /\ Moved(n, AfterPrimer(obj.waiting, n))
        \/ Broken /\ Len(obj.waiting) > 1 /\ n \notin Elements(obj.waiting)
    BY <1>2, StartPrimerLeads
  <2> HIDE DEF n
  <2>5. CASE pc' = "savePrimer" /\ Moved(n, AfterPrimer(obj.waiting, n))
    <3>1. Elements(obj.warming) \union {n} \subseteq Elements(obj'.warming)
      BY <1>0, <2>1, <2>5, AppendElements DEF Moved, Objects, Launch
    <3>2. HonestThen(obj')
      BY <1>0, <1>1, <2>2, <2>5, <3>1, PrimersAreNodes
         DEF Moved, Honest, Told, GateOpen, AllPrimed, HonestThen
    <3> QED
      BY <1>1, <2>3, <2>5, <3>2, HonestFollows
  <2>6. CASE Broken /\ Len(obj.waiting) > 1 /\ n \notin Elements(obj.waiting)
    <3>1. obj = api[self]
      BY <2>1 DEF AloneInv, Stored
    <3>2. n \in Elements(obj.warming) \/ <<n, desired>> \in pulled
      <4>1. n \in Tracked(obj)
        BY <2>1 DEF OrderInv, LoopInv, InLoop
      <4>2. n \in Elements(obj.warming) \/ n \in PulledOnce
        BY <2>6, <4>1 DEF Tracked, PulledInv
      <4> QED
        BY <4>2, PulledNow
    <3>3. HonestThen(obj)
      BY <1>0, <1>1, <2>2, <3>2, PrimersAreNodes
         DEF Honest, Told, GateOpen, AllPrimed, HonestThen
    <3>4. obj' = obj /\ api'[self] = obj
      BY <1>1, <2>6, <3>1 DEF Broken
    <3> QED
      BY <1>1, <2>3, <3>3, <3>4, HonestFollows
  <2> QED
    BY <2>4, <2>5, <2>6
<1>3. CASE StartNode
  <2> DEFINE n == local.next[local.i]
  <2>1. pc = "schedule" /\ Launch(n) /\ AllPrimed
    BY <1>3, StartLaunches DEF OrderInv, LoopInv
  <2>2. \A o : Honest(o) => HonestThen(o)
    BY <1>1, <2>1 DEF Honest, AllPrimed, HonestThen
  <2>3. Elements(obj.warming) \subseteq Elements(obj'.warming) /\ obj'.conditions = obj.conditions
    <3>1. Moved(n, Without(obj.waiting, n)) \/ Broken
      BY <1>3, StartNodeLeads
    <3>2. Elements(obj.warming) \subseteq Elements(Append(obj.warming, n))
      BY <1>0, <2>1, AppendElements DEF Launch, Objects
    <3> QED
      BY <3>1, <3>2 DEF Moved, Broken
  <2>4. HonestThen(obj')
    BY <1>0, <1>1, <2>1, <2>3 DEF Honest, GateOpen, AllPrimed, HonestThen
  <2>5. HonestThen(api'[self])
    BY <1>0, <1>1, <2>2
  <2> QED
    BY <1>1, <2>1, <2>4, <2>5, HonestFollows
<1> QED
  BY <1>2, <1>3

LEMMA NextHonest ==
    ASSUME TypeOK, PulledInv, OnlyJobsFail, AloneInv, OrderInv, Enabled(self), [Next]_vars
    PROVE  HonestInv'
<1>0. Fixed /\ Alone /\ HonestInv /\ desired \in Version \union {NoVersion} /\ Primers \subseteq Node
  BY StepsFixed, PrimersAreNodes DEF OnlyJobsFail, OrderInv, HonestInv
<1>1. ASSUME UNCHANGED <<jobs, desired, pulled>>, api'[self] = api[self] \/ api'[self] = obj,
             pc # "savePrimer" \/ api'[self] = obj, pc # "idle" \/ api'[self] = api[self],
             pc' # "idle" => Honest(obj')
      PROVE  HonestInv'
  <2>1. \A o : Honest(o) => HonestThen(o)
    BY <1>1, HonestStays
  <2>2. Honest(api'[self])
    BY <1>0, <1>1 DEF HonestInv
  <2>3. (\E n \in Node \ Primers : jobs'[n][desired] # "none") => AllPrimed
    BY <1>0, <1>1 DEF HonestInv
  <2> QED
    BY <1>0, <1>1, <2>1, <2>2, <2>3, HonestFollows
<1>2. CASE JobsOnly
  <2>1. /\ UNCHANGED <<api, obj, pc>> /\ pulled \subseteq pulled'
        /\ \A n \in Node : jobs'[n][desired] # "none" => jobs[n][desired] # "none"
    BY <1>0, <1>2 DEF JobsOnly
  <2>2. \A o : Honest(o) => HonestThen(o)
    BY <1>0, <2>1, HonestStays
  <2>3. (\E n \in Node \ Primers : jobs'[n][desired] # "none") => AllPrimed
    BY <1>0, <2>1 DEF HonestInv
  <2> QED
    BY <1>0, <2>1, <2>2, <2>3, HonestFollows DEF HonestInv
<1>3. CASE Begins
  <2>1. /\ UNCHANGED <<api, desired, jobs, pulled>> /\ pc = "idle" /\ obj' = api[self]
    BY <1>0, <1>3, BeginLeads DEF Begins
  <2> QED
    BY <1>0, <1>1, <2>1 DEF HonestInv
<1>4. CASE Save
  <2>1. /\ UNCHANGED <<desired, jobs, pulled>> /\ pc # "idle" /\ api'[self] = obj
        /\ pc' # "idle" => obj' = obj
    BY <1>4, SaveLeads DEF Return
  <2> QED
    BY <1>0, <1>1, <2>1 DEF HonestInv
<1>5. CASE Refetch
  <2>1. UNCHANGED <<api, desired, jobs, pulled, obj>> /\ pc \in DOMAIN Refetches
    BY <1>0, <1>5, RefetchLeads
  <2>2. pc # "savePrimer" /\ pc # "idle"
    BY <2>1 DEF Refetches
  <2> QED
    BY <1>0, <1>1, <2>1, <2>2 DEF HonestInv
<1>6. CASE InMemory
  <2>1. CASE StartPrimer \/ StartNode
    BY <1>0, <2>1, StartsHonest
  <2>2. CASE ~StartPrimer /\ ~StartNode
    <3>1. UNCHANGED <<api, desired, jobs, pulled>> /\ Honest(obj')
      BY <1>0, <1>6, <2>2, MemoryFrame, MemoryHonest
    <3>2. pc # "savePrimer"
      BY <1>6 DEF InMemory, CheckInfrastructure, SetupClusterVersion, DetermineNodes,
         CheckCompletion, SetupResources, FillWaiting, SkipPriming, PassPrimer, StartPrimer,
         EndPriming, ClosedGate, TakeAll, TakeBatch, PassNode, StartNode, EndSchedule,
         ListJobs, ScanJob, EndScan, CheckAllDone, RecordCompletion
    <3> QED
      BY <1>1, <3>1, <3>2
  <2> QED
    BY <2>1, <2>2
<1>7. CASE Finishes
  <2>1. UNCHANGED <<api, desired, jobs, pulled>> /\ pc' = "idle"
    BY <1>7, FinishLeads DEF Return
  <2>2. pc # "savePrimer"
    BY <1>7 DEF Finishes, JobRefused, Recover, CheckAllDone
  <2> QED
    BY <1>1, <2>1, <2>2
<1> QED
  BY <1>2, <1>3, <1>4, <1>5, <1>6, <1>7, StepsAlone

(* The loop over the primers: steps that leave it as it is ...              *)
LEMMA LoopStays ==
    ASSUME TypeOK, Fixed, LoopInv, pulled \subseteq pulled',
           local'.i = local.i, local'.primers = local.primers, local'.targets = local.targets,
           local'.scheduled = local.scheduled, local'.stillRunning = local.stillRunning,
           pc' \in Unlooped => pc \in Unlooped, pc' \in BeforeLoop => pc \in BeforeLoop,
           pc' \in InLoop => pc \in InLoop \union {"saveWaiting"},
           pc' = "saveWaiting" => pc = "saveWaiting",
           pc' \in {"schedule", "saveScheduled"} => pc \in {"schedule", "saveScheduled"},
           Tracked(obj) \subseteq Tracked(obj')
    PROVE  LoopInv'
<1>1. Primers' = Primers /\ desired' = desired /\ (AllPrimed => AllPrimed')
  BY FixedKeeps DEF Fixed, AllPrimed
<1>2. Tracked(obj)' = Tracked(obj')
  BY DEF Tracked
<1>3. pc' \in BeforeLoop \union InLoop => pc \in BeforeLoop \union InLoop
  BY DEF BeforeLoop
<1>4. pc' \in InLoop /\ ~local'.scheduled /\ ~local'.stillRunning =>
        \A k \in DOMAIN local'.primers : k < local'.i => <<local'.primers[k], desired>> \in pulled'
  <2>1. pc = "saveWaiting" => \A k \in DOMAIN local.primers : ~(k < local.i)
    BY DEF LoopInv, Unlooped, BeforeLoop, TypeOK, LocalVariables
  <2> QED
    BY <2>1 DEF LoopInv
<1>5. /\ pc' \in Unlooped => local'.i = 1
      /\ pc' \in BeforeLoop \union InLoop => Elements(local'.primers) = Primers
      /\ pc' \in BeforeLoop => Primers \subseteq Elements(local'.targets)
      /\ pc' \in {"schedule", "saveScheduled"} => AllPrimed'
  BY <1>1, <1>3 DEF LoopInv
<1>6. pc' \in InLoop \union {"saveWaiting"} => Primers \subseteq Tracked(obj')
  BY DEF LoopInv
<1>7. (pc \in Unlooped => local.i = 1)'
  BY <1>5
<1>8. (pc \in BeforeLoop \union InLoop => Elements(local.primers) = Primers)'
  BY <1>1, <1>5 DEF Elements
<1>9. (pc \in BeforeLoop => Primers \subseteq Elements(local.targets))'
  BY <1>1, <1>5 DEF Elements
<1>10. (pc \in InLoop \union {"saveWaiting"} => Primers \subseteq Tracked(obj))'
  BY <1>1, <1>2, <1>6
<1>11. (pc \in InLoop /\ ~local.scheduled /\ ~local.stillRunning =>
          \A k \in DOMAIN local.primers :
              k < local.i => <<local.primers[k], desired>> \in pulled)'
  BY <1>1, <1>4
<1>12. (pc \in {"schedule", "saveScheduled"} => AllPrimed)'
  BY <1>5
<1> QED
  BY <1>7, <1>8, <1>9, <1>10, <1>11, <1>12 DEF LoopInv

(* ... and those outside of it.                                             *)
LEMMA LoopLeft ==
    ASSUME Fixed, pulled \subseteq pulled', pc' \notin Unlooped \union InLoop,
           pc' \in {"schedule", "saveScheduled"} => AllPrimed
    PROVE  LoopInv'
<1>1. AllPrimed => AllPrimed'
  BY FixedKeeps DEF Fixed, AllPrimed
<1>2. pc' \notin BeforeLoop /\ pc' # "saveWaiting"
  BY DEF Unlooped, BeforeLoop
<1> QED
  BY <1>1, <1>2 DEF LoopInv

LEMMA ReturnLoop ==
    ASSUME Return
    PROVE  LoopInv'
BY DEF Return, NoLocals, LoopInv, Unlooped, BeforeLoop, InLoop

LEMMA SavesLoop ==
    ASSUME NEW step \in DOMAIN Saves
    PROVE  LET next == Saves[step].accepted
           IN  /\ next \in Unlooped \ {"idle"} => step \in Unlooped
               /\ next \in BeforeLoop => step \in BeforeLoop
               /\ next \in InLoop => step \in InLoop \union {"saveWaiting"}
               /\ next # "saveWaiting"
               /\ next \in {"schedule", "saveScheduled"} => step \in {"schedule", "saveScheduled"}
BY DEF Saves, Ignored, Checked, Unlooped, BeforeLoop, InLoop

LEMMA PassPrimerLoop ==
    ASSUME TypeOK, OrderInv, AloneInv, Enabled(self), Alone, Fixed, PassPrimer
    PROVE  LoopInv'
<1> DEFINE n == local.primers[local.i]
           running == StillRunning(n)
<1>0. obj \in Objects /\ local \in LocalVariables /\ LoopInv /\ Honest(obj)
  BY DEF TypeOK, OrderInv, PassPrimer
<1>1. /\ pc = "primers" /\ pc' = "primers" /\ obj' = obj /\ UNCHANGED pulled
      /\ WarmedBefore(obj, n) \/ PullJobSeen(n)
      /\ local.i \in DOMAIN local.primers
      /\ local' = [local EXCEPT !.i = local.i + 1, !.stillRunning = running]
  BY <1>0 DEF PassPrimer, Goto, OnlyWorker, pulls, LocalVariables
<1>2. /\ local'.i = local.i + 1 /\ local'.stillRunning = running
      /\ local'.primers = local.primers /\ local'.scheduled = local.scheduled
  <2> HIDE DEF running
  <2> QED
    BY <1>0, <1>1 DEF LocalVariables
<1>3. running = (local.stillRunning \/ n \in Elements(obj.warming))
  BY DEF StillRunning
<1>4. Elements(local.primers) = Primers /\ Primers \subseteq Tracked(obj)
  BY <1>0, <1>1 DEF LoopInv, InLoop
<1>5. n \in Primers
  BY <1>1, <1>4 DEF Elements
<1>6. n \in Elements(obj.warming) \/ <<n, desired>> \in pulled
  <2>1. CASE WarmedBefore(obj, n)
    BY <2>1 DEF WarmedBefore
  <2>2. CASE PullJobSeen(n)
    <3>1. obj.version = desired /\ JobView = jobs
      BY <1>1, AloneReads DEF AloneInv, Determined, Versioned, Pulling
    <3> QED
      BY <1>0, <1>5, <2>2, <3>1 DEF PullJobSeen, Honest, Told
  <2> QED
    BY <1>1, <2>1, <2>2
<1> HIDE DEF n, running
<1>7. ~local'.scheduled /\ ~local'.stillRunning =>
        \A k \in DOMAIN local.primers : k < local.i + 1 => <<local.primers[k], desired>> \in pulled
  <2> SUFFICES ASSUME ~local'.scheduled, ~local'.stillRunning, NEW k \in DOMAIN local.primers,
                      k < local.i + 1
               PROVE  <<local.primers[k], desired>> \in pulled
    OBVIOUS
  <2>1. ~local.stillRunning /\ ~local.scheduled /\ <<n, desired>> \in pulled
    BY <1>2, <1>3, <1>6
  <2>2. CASE k = local.i
    BY <2>1, <2>2 DEF n
  <2>3. CASE k < local.i
    BY <1>0, <1>1, <2>1, <2>3 DEF LoopInv, InLoop
  <2> QED
    BY <1>0, <2>2, <2>3 DEF LocalVariables
<1>8. Primers' = Primers /\ desired' = desired
  BY FixedKeeps DEF Fixed
<1>9. pc' \notin Unlooped /\ pc' \in InLoop /\ pc' \notin BeforeLoop
  BY <1>1 DEF Unlooped, BeforeLoop, InLoop
<1>10. (Elements(local.primers) = Primers)' /\ (Primers \subseteq Tracked(obj))'
  BY <1>1, <1>2, <1>4, <1>8 DEF Elements, Tracked
<1> QED
  BY <1>1, <1>2, <1>7, <1>8, <1>9, <1>10 DEF LoopInv

LEMMA StartPrimerLoop ==
    ASSUME TypeOK, OrderInv, AloneInv, Enabled(self), Alone, Fixed, StartPrimer
    PROVE  LoopInv'
<1> DEFINE n == local.primers[local.i]
<1>0. obj \in Objects /\ local \in LocalVariables /\ LoopInv /\ pc = "primers" /\ Launch(n)
  BY StartLaunches DEF TypeOK, OrderInv
<1>1. UNCHANGED pulled
  BY <1>0 DEF Launch
<1>2. CASE Broken
  BY <1>1, <1>2, LoopLeft DEF Broken, Unlooped, BeforeLoop, InLoop
<1>3. CASE ~Broken
  <2>1. /\ pc' = "savePrimer" /\ (Len(obj.waiting) > 1 => n \in Elements(obj.waiting))
        /\ Moved(n, AfterPrimer(obj.waiting, n))
        /\ local'.scheduled = TRUE /\ local'.primers = local.primers
    BY <1>3, StartPrimerLeads
  <2>2. Tracked(obj) \subseteq Tracked(obj')
    <3>1. obj.waiting \in Seq(Node) /\ obj.warming \in Seq(Node) /\ n \in Node
      BY <1>0 DEF Objects, Launch
    <3> HIDE DEF n
    <3>2. Elements(obj.waiting) \subseteq Elements(AfterPrimer(obj.waiting, n)) \union {n}
      <4>1. CASE n \in Elements(obj.waiting)
        BY <3>1, <4>1, WithoutElements DEF AfterPrimer
      <4>2. CASE n \notin Elements(obj.waiting)
        <5>1. obj.waiting # <<n>>
          BY <4>2 DEF Elements
        <5>2. AfterPrimer(obj.waiting, n) = obj.waiting
          BY <2>1, <4>2, <5>1 DEF AfterPrimer
        <5> QED
          BY <5>2
      <4> QED
        BY <4>1, <4>2
    <3>3. Elements(obj.warming) \union {n} \subseteq Elements(Append(obj.warming, n))
      BY <3>1, AppendElements
    <3> QED
      BY <2>1, <3>2, <3>3 DEF Moved, Tracked
  <2>3. Elements(local.primers) = Primers /\ Primers \subseteq Tracked(obj)
    BY <1>0 DEF LoopInv, InLoop
  <2>4. Primers' = Primers
    BY FixedKeeps
  <2>5. pc' \notin Unlooped /\ pc' \notin BeforeLoop
    BY <2>1 DEF Unlooped, BeforeLoop
  <2>6. (Elements(local.primers) = Primers)' /\ (Primers \subseteq Tracked(obj))'
    BY <2>1, <2>2, <2>3, <2>4 DEF Elements, Tracked
  <2> QED
    BY <2>1, <2>5, <2>6 DEF LoopInv
<1> QED
  BY <1>2, <1>3

LEMMA DetermineLoop ==
    ASSUME TypeOK, OrderInv, AloneInv, Enabled(self), Fixed, DetermineNodes
    PROVE  LoopInv'
<1>0. local \in LocalVariables /\ pc = "nodes" /\ local.i = 1 /\ UNCHANGED pulled
  BY DEF TypeOK, OrderInv, LoopInv, Unlooped, DetermineNodes, OnlyWorker, pulls
<1>1. PICK d \in Determinations(nodes, obj.spec) :
        /\ local' = [local EXCEPT !.targets = d.targeted, !.primers = d.primers]
        /\ pc' \in {"saveNoNodes", "savePrimerState", "completion"}
  BY DetermineLeads
<1>2. Elements(d.primers) = Primers /\ Primers \subseteq Elements(d.targeted)
  BY <1>0, DeterminedPrimers
<1>3. local'.i = 1 /\ local'.targets = d.targeted /\ local'.primers = d.primers
  BY <1>0, <1>1 DEF LocalVariables
<1>4. Primers' = Primers
  BY FixedKeeps
<1>5. pc' \notin InLoop /\ pc' \notin {"saveWaiting", "schedule", "saveScheduled"}
  BY <1>1 DEF InLoop
<1>6. (local.i = 1 /\ Elements(local.primers) = Primers /\ Primers \subseteq Elements(local.targets))'
  BY <1>2, <1>3, <1>4 DEF Elements
<1> QED
  BY <1>5, <1>6 DEF LoopInv

LEMMA FillWaitingLeads ==
    ASSUME TypeOK, FillWaiting
    PROVE  /\ local' = local /\ Tracked(obj) \union Elements(local.targets) \subseteq Tracked(obj')
           /\ obj'.warming = obj.warming /\ obj'.preheated = obj.preheated
           /\ obj'.selected = obj.selected /\ obj'.conditions = obj.conditions
           /\ \/ pc' = "primers" /\ obj' = obj
              \/ /\ pc' = "saveWaiting"
                 /\ \E new \in Seq(Node) :
                       /\ IsInjective(new) /\ Elements(new) = Unlisted(obj, local.targets)
                       /\ obj'.waiting = obj.waiting \o new
<1>0. obj \in Objects /\ local \in LocalVariables /\ local' = local
  BY DEF TypeOK, FillWaiting
<1>1. Unlisted(obj, local.targets) \in SUBSET Node
  BY <1>0, ElementsType DEF Unlisted, LocalVariables
<1>2. CASE pc' = "primers" /\ obj' = obj /\ Unlisted(obj, local.targets) = {}
  BY <1>0, <1>2 DEF Unlisted, Tracked
<1>3. CASE ~(pc' = "primers" /\ obj' = obj /\ Unlisted(obj, local.targets) = {})
  <2>1. PICK new \in InOrderOf(local.targets, Unlisted(obj, local.targets)) :
          obj' = [obj EXCEPT !.waiting = obj.waiting \o new] /\ pc' = "saveWaiting"
    BY <1>3 DEF FillWaiting, Goto
  <2>2. /\ new \in Seq(Node) /\ IsInjective(new)
        /\ Elements(new) = Unlisted(obj, local.targets)
    BY <1>1, InOrderOfElements
  <2> DEFINE waiting == obj.waiting \o new
  <2>3. Elements(obj.waiting) \union Elements(new) \subseteq Elements(waiting)
    BY <1>0, <2>2, ConcatElements DEF Objects
  <2>4. /\ obj'.warming = obj.warming /\ obj'.preheated = obj.preheated
        /\ obj'.selected = obj.selected /\ obj'.conditions = obj.conditions
        /\ obj'.waiting = waiting
    <3> HIDE DEF waiting
    <3> QED
      BY <1>0, <2>1 DEF Objects, waiting
  <2>5. Tracked(obj) \union Elements(local.targets) \subseteq Tracked(obj')
    <3> HIDE DEF waiting
    <3> QED
      BY <2>2, <2>3, <2>4 DEF Tracked, Unlisted
  <2> QED
    BY <1>0, <2>1, <2>2, <2>4, <2>5
<1> QED
  BY <1>2, <1>3

LEMMA FillWaitingLoop ==
    ASSUME TypeOK, OrderInv, AloneInv, Enabled(self), Fixed, FillWaiting
    PROVE  LoopInv'
<1>0. /\ local \in LocalVariables /\ pc = "waiting" /\ UNCHANGED pulled
      /\ local.i = 1 /\ Elements(local.primers) = Primers
      /\ Primers \subseteq Elements(local.targets)
  BY DEF TypeOK, OrderInv, LoopInv, Unlooped, BeforeLoop, FillWaiting, OnlyWorker, pulls
<1>1. /\ local' = local /\ Primers \subseteq Tracked(obj')
      /\ pc' \in {"primers", "saveWaiting"}
  BY <1>0, FillWaitingLeads
<1>2. Primers' = Primers
  BY FixedKeeps
<1>3. /\ (local.i = 1 /\ Elements(local.primers) = Primers)'
      /\ (Primers \subseteq Elements(local.targets) /\ Primers \subseteq Tracked(obj))'
  BY <1>0, <1>1, <1>2 DEF Elements, Tracked
<1>4. \A k \in DOMAIN local'.primers : ~(k < local'.i)
  BY <1>0, <1>1 DEF LocalVariables
<1>5. pc' \notin {"schedule", "saveScheduled"}
  BY <1>1
<1> QED
  BY <1>3, <1>4, <1>5 DEF LoopInv

LEMMA MemoryLoop ==
    ASSUME TypeOK, OrderInv, AloneInv, Enabled(self), Alone, Fixed, InMemory
    PROVE  LoopInv'
<1>0. /\ local \in LocalVariables /\ obj \in Objects /\ LoopInv
      /\ pc # "idle" /\ Honest(obj)
  BY MemoryLeads DEF TypeOK, OrderInv
<1>1. pulled \subseteq pulled'
  <2>1. CASE StartPrimer \/ StartNode
    BY <2>1, StartLaunches DEF Launch
  <2>2. CASE ~StartPrimer /\ ~StartNode
    BY <2>2, MemoryFrame
  <2> QED
    BY <2>1, <2>2
<1>2. CASE CheckInfrastructure \/ SetupClusterVersion \/ CheckCompletion \/ SetupResources
  <2>1. /\ local'.i = local.i /\ local'.primers = local.primers
        /\ local'.targets = local.targets /\ local'.scheduled = local.scheduled
        /\ local'.stillRunning = local.stillRunning
    <3>1. local' = local \/ \E v : local' = [local EXCEPT !.version = v]
      BY <1>2 DEF CheckInfrastructure, SetupClusterVersion, CheckCompletion, SetupResources
    <3> QED
      BY <1>0, <3>1 DEF LocalVariables
  <2>2. Tracked(obj') = Tracked(obj)
    <3>1. CASE SetupResources
      BY <1>0, <3>1, SetConditionSame DEF SetupResources, ConditionTypes, Reasons, Same, Tracked
    <3>2. CASE ~SetupResources
      BY <1>2, <3>2, SilentSteps DEF SilentStep, Silent, Lists, Tracked
    <3> QED
      BY <3>1, <3>2
  <2>3. /\ pc' \in Unlooped => pc \in Unlooped
        /\ pc' \in BeforeLoop => pc \in BeforeLoop
        /\ pc' \notin InLoop /\ pc' \notin {"saveWaiting", "schedule", "saveScheduled"}
    BY <1>2 DEF CheckInfrastructure, SetupClusterVersion, CheckCompletion, SetupResources, Goto,
       Unlooped, BeforeLoop, InLoop
  <2> QED
    BY <1>0, <1>1, <2>1, <2>2, <2>3, LoopStays
<1>3. CASE \/ SkipPriming \/ EndPriming \/ ClosedGate \/ EndSchedule \/ ListJobs
           \/ EndScan \/ (CheckAllDone /\ ~Return) \/ RecordCompletion \/ ScanJob
  <2>1. pc' \in {"gate", "savePriming", "list", "saveRunning", "scan", "saveReset", "final",
                 "saveNotRunning", "saveLast", "saveScan"}
    <3>1. CASE ScanJob
      BY <3>1 DEF ScanJob, Goto
    <3>2. CASE ~ScanJob
      BY <1>3, <3>2 DEF SkipPriming, EndPriming, ClosedGate, EndSchedule, ListJobs, EndScan,
         CheckAllDone, RecordCompletion, Goto
    <3> QED
      BY <3>1, <3>2
  <2> QED
    BY <1>1, <2>1, LoopLeft DEF Unlooped, BeforeLoop, InLoop
<1>4. CASE TakeAll \/ TakeBatch \/ PassNode \/ StartNode
  <2>1. AllPrimed
    <3>1. CASE TakeAll \/ TakeBatch
      BY <1>0, <3>1 DEF TakeAll, TakeBatch, Honest
    <3>2. CASE PassNode \/ StartNode
      BY <1>0, <3>2 DEF PassNode, StartNode, LoopInv
    <3> QED
      BY <1>4, <3>1, <3>2
  <2>2. pc' \in {"schedule", "saveScheduled", "panicked"}
    BY <1>4, Zenon DEF TakeAll, TakeBatch, PassNode, StartNode, Goto, Panic
  <2> QED
    BY <1>1, <2>1, <2>2, LoopLeft DEF Unlooped, BeforeLoop, InLoop
<1> QED
  BY <1>2, <1>3, <1>4, PassPrimerLoop, StartPrimerLoop, DetermineLoop, FillWaitingLoop
     DEF InMemory

LEMMA NextLoop ==
    ASSUME TypeOK, OnlyJobsFail, AloneInv, OrderInv, Enabled(self), [Next]_vars
    PROVE  LoopInv'
<1>0. Fixed /\ Alone /\ LoopInv
  BY StepsFixed DEF OnlyJobsFail, OrderInv
<1>1. CASE JobsOnly
  BY <1>0, <1>1, LoopStays DEF JobsOnly
<1>2. CASE Begins
  <2>1. UNCHANGED <<local, pulled>> /\ pc = "idle" /\ pc' = "infrastructure" /\ obj' = api[self]
    BY <1>0, <1>2, BeginLeads DEF Begins
  <2>2. local.i = 1
    BY <1>0, <2>1 DEF LoopInv, Unlooped
  <2>3. /\ pc' \notin BeforeLoop \union InLoop
        /\ pc' \notin {"saveWaiting", "schedule", "saveScheduled"}
    BY <2>1 DEF BeforeLoop, InLoop
  <2> QED
    BY <2>1, <2>2, <2>3 DEF LoopInv
<1>3. CASE Save
  <2>1. pc \in DOMAIN Saves /\ UNCHANGED pulled
    BY <1>3, SaveLeads
  <2>2. CASE pc' = Saves[pc].accepted /\ UNCHANGED <<obj, fresh, local>> /\ pc' # "idle"
    BY <1>0, <2>1, <2>2, SavesLoop, LoopStays
  <2>3. CASE pc' = Saves[pc].accepted /\ UNCHANGED <<obj, fresh, local>> /\ pc' = "idle"
    <3>1. ~Accepted \/ Return
      BY <1>3, <2>3 DEF Save, Continue, Goto, Checked, Ignored, Saves
    <3>2. Accepted
      BY <1>3, SaveLeads DEF Accepted
    <3> QED
      BY <3>1, <3>2, ReturnLoop
  <2> QED
    BY <1>3, <2>2, <2>3, SaveLeads, ReturnLoop
<1>4. CASE Refetch
  <2>1. UNCHANGED <<pulled, local, obj>> /\ pc \in DOMAIN Refetches /\ pc' = Refetches[pc]
    BY <1>0, <1>4, RefetchLeads
  <2>2. /\ pc' \in BeforeLoop => pc \in BeforeLoop
        /\ pc \in Unlooped
        /\ pc' \notin InLoop \union {"saveWaiting", "schedule", "saveScheduled"}
    BY <2>1 DEF Refetches, Unlooped, BeforeLoop, InLoop
  <2> QED
    BY <1>0, <2>1, <2>2, LoopStays
<1>5. CASE InMemory
  BY <1>0, <1>5, MemoryLoop
<1>6. CASE Finishes
  BY <1>6, FinishLeads, ReturnLoop
<1> QED
  BY <1>1, <1>2, <1>3, <1>4, <1>5, <1>6, StepsAlone

LEMMA NextOrder ==
    ASSUME TypeOK, PulledInv, OnlyJobsFail, AloneInv, OrderInv, [Next]_vars
    PROVE  OrderInv'
<1>1. CASE Enabled(self)
  BY <1>1, NextHonest, NextLoop DEF OrderInv, HonestInv
<1>2. CASE ~Enabled(self)
  BY <1>2, StepsFixed, FixedKeeps DEF OrderInv
<1> QED
  BY <1>1, <1>2

LEMMA InitOrder ==
    ASSUME Init
    PROVE  OrderInv
<1>1. TypeOK
  BY InitType
<1>2. \A n \in Node : jobs[n][desired] = "none"
  BY <1>1 DEF Init, TypeOK
<1>3. ~GateOpen(api[self])
  <2>1. \E spec \in Specs : api[self] = NewObject(spec)
    BY DEF Init
  <2>2. \A spec : NewObject(spec).conditions["Primer"] = ""
    BY DEF NewObject, ConditionTypes
  <2> QED
    BY <2>1, <2>2 DEF GateOpen
<1>4. Honest(api[self])
  BY <1>1, <1>2, <1>3, PrimersAreNodes DEF Honest, Told
<1>5. LoopInv
  <2>1. pc = "idle" /\ local.i = 1
    BY DEF Init, NoLocals
  <2> QED
    BY <2>1 DEF LoopInv, BeforeLoop, InLoop
<1>6. pc = "idle"
  BY DEF Init
<1> QED
  BY <1>2, <1>4, <1>5, <1>6 DEF OrderInv

(* For one object, read without a lag from a cluster and a spec that do not *)
(* change, no other node gets a job before every primer has pulled the      *)
(* release, however its jobs fail, expire or are deleted, and in batches of *)
(* every size (lines 279-335): a primer whose job there is, is warming or   *)
(* has pulled, so that neither flag of the loop is set only when all have.  *)
THEOREM PrimersComeFirst == OnlyJobsFail /\ Spec => []PrimersFirst
<1>1. OnlyJobsFail /\ Init => OnlyJobsFail /\ AloneInv /\ OrderInv
  BY InitAlone, InitOrder
<1>2. /\ OnlyJobsFail /\ TypeOK /\ PulledInv /\ AloneInv /\ OrderInv /\ [Next]_vars
      => (OnlyJobsFail /\ AloneInv /\ OrderInv)'
  BY NextAlone, NextOrder DEF OnlyJobsFail, Alone
<1>3. OnlyJobsFail /\ TypeOK /\ AloneInv /\ OrderInv => PrimersFirst
  <2> SUFFICES ASSUME OnlyJobsFail, TypeOK, AloneInv, OrderInv,
                      NEW u \in UA, NEW v \in Version, Enabled(u), api[u].spec.prime,
                      NEW n \in Node \ PrimerNodes(nodes, TRUE,
                                          SelectedNodes(nodes, api[u].spec.selector)),
                      jobs[n][v] # "none"
               PROVE  PrimerNodes(nodes, TRUE, SelectedNodes(nodes, api[u].spec.selector))
                         \X {v} \subseteq pulled
    BY DEF PrimersFirst
  <2>1. u = self
    BY AloneReads DEF OnlyJobsFail
  <2>2. v = desired
    BY DEF AloneInv
  <2>3. api[u].spec.prime = TRUE
    BY <2>1, PrimersAreNodes
  <2>4. PrimerNodes(nodes, TRUE, SelectedNodes(nodes, api[u].spec.selector)) = Primers
    BY <2>1, <2>3 DEF Primers
  <2> QED
    BY <2>1, <2>2, <2>4 DEF OrderInv, AllPrimed
<1> QED
  BY <1>1, <1>2, <1>3, InvariantHolds, PTL DEF Spec

--------------------------------------------------------------------------------
(***************************************************************************)
(* One list for each target: PartInv is an invariant.                      *)
(***************************************************************************)
LEMMA ListsFollow ==
    ASSUME Fixed,
           pc' \notin {"savePrimer", "saveScheduled"} => Apart(api'[self], Jobbed'),
           pc' # "idle" => Apart(obj', Jobbed'),
           pc' \notin {"waiting", "saveWaiting"} => Covered(api'[self]),
           pc' \notin {"idle", "saveSetup", "waiting"} => Covered(obj'),
           Chose(api'[self]), pc' # "idle" => Chose(obj')
    PROVE  ListsInv'
<1>1. Wanted' = Wanted /\ self' = self
  BY FixedKeeps DEF Fixed
<1>2. /\ (Apart(api[self], Jobbed))' = Apart(api'[self], Jobbed')
      /\ (Apart(obj, Jobbed))' = Apart(obj', Jobbed')
  BY <1>1 DEF Apart
<1>3. /\ (Covered(api[self]))' = Covered(api'[self])
      /\ (Covered(obj))' = Covered(obj')
  BY <1>1 DEF Covered, Tracked
<1>4. (Chose(api[self]))' = Chose(api'[self]) /\ (Chose(obj))' = Chose(obj')
  BY <1>1 DEF Chose
<1> QED
  BY <1>2, <1>3, <1>4 DEF ListsInv

(* A node that waits gets a job, and is warming.                            *)
LEMMA MovedApart ==
    ASSUME obj \in Objects, Apart(obj, Jobbed), NEW n \in Elements(obj.waiting),
           Moved(n, Without(obj.waiting, n))
    PROVE  /\ Apart(obj', Jobbed \union {n})
           /\ Tracked(obj') = Tracked(obj)
<1>1. obj.waiting \in Seq(Node) /\ obj.warming \in Seq(Node)
  BY DEF Objects
<1>2. n \in Node /\ n \notin Jobbed
  BY <1>1, ElementsType DEF Apart
<1>3. n \notin Elements(obj.warming)
  BY <1>2 DEF Apart
<1>4. /\ IsInjective(obj'.waiting)
      /\ Elements(obj'.waiting) = Elements(obj.waiting) \ {n}
  BY <1>1, WithoutOnce DEF Moved, Apart
<1>5. /\ IsInjective(obj'.warming)
      /\ Elements(obj'.warming) = Elements(obj.warming) \union {n}
  BY <1>1, <1>2, <1>3, AppendOnce DEF Moved, Apart
<1>6. obj'.preheated = obj.preheated
  BY DEF Moved
<1>7. Apart(obj', Jobbed \union {n})
  BY <1>2, <1>4, <1>5, <1>6 DEF Apart
<1>8. Tracked(obj') = Tracked(obj)
  BY <1>4, <1>5, <1>6 DEF Tracked
<1> QED
  BY <1>7, <1>8

(* No node that gets a job is missing in the list of waiting nodes.         *)
LEMMA StartsApart ==
    ASSUME TypeOK, AloneInv, Alone, Enabled(self), PartInv, Fixed, StartPrimer \/ StartNode
    PROVE  /\ pc' \in {"savePrimer", "saveScheduled"} /\ api' = api
           /\ Apart(obj', Jobbed') /\ Jobbed \subseteq Jobbed'
           /\ Tracked(obj') = Tracked(obj)
           /\ obj'.selected = obj.selected /\ obj'.conditions = obj.conditions
           /\ local'.scan = local.scan
           /\ pc' = "savePrimer" => Elements(local'.primers) \subseteq Wanted
           /\ pc' = "saveScheduled" => Elements(local'.next) \subseteq Tracked(obj)
<1>0. /\ obj \in Objects /\ local \in LocalVariables /\ pc \in {"primers", "schedule"}
      /\ Apart(obj, Jobbed) /\ LocalsInv
  <2>1. pc \in {"primers", "schedule"}
    BY StartLaunches
  <2> QED
    BY <2>1 DEF TypeOK, PartInv, ListsInv
<1>1. UNCHANGED <<api, desired>> /\ obj.version = desired /\ desired \in Version \union {NoVersion}
  <2>1. InMemory /\ pc \in Determined
    BY <1>0 DEF InMemory, Determined, Versioned, Pulling
  <2> QED
    BY <2>1, MemoryFrame, PrimersAreNodes DEF AloneInv
<1>2. \A n : Launch(n) => n \in Node \ Jobbed /\ Jobbed' = Jobbed \union {n}
  BY <1>1 DEF Launch, Jobbed
<1>3. \A n \in Tracked(obj) : n \notin Jobbed => n \in Elements(obj.waiting)
  BY <1>0 DEF Apart, Tracked
<1>4. CASE StartPrimer
  <2> DEFINE n == local.primers[local.i]
  <2>1. pc = "primers" /\ Launch(n) /\ n \in Elements(local.primers)
    BY <1>4, StartLaunches DEF Elements
  <2>2. Elements(local.primers) \subseteq Wanted /\ Wanted \subseteq Tracked(obj)
    BY <1>0, <2>1 DEF LocalsInv, InLoop, Filled
  <2>3. n \in Elements(obj.waiting)
    BY <1>2, <1>3, <2>1, <2>2
  <2>4. /\ pc' = "savePrimer" /\ Moved(n, AfterPrimer(obj.waiting, n))
        /\ local'.primers = local.primers /\ local'.scan = local.scan
    BY <1>4, <2>3, StartPrimerLeads
  <2> HIDE DEF n
  <2>5. AfterPrimer(obj.waiting, n) = Without(obj.waiting, n)
    <3>1. PICK k \in DOMAIN obj.waiting : obj.waiting[k] = n
      BY <2>3 DEF Elements
    <3>2. obj.waiting \in Seq(Node)
      BY <1>0 DEF Objects
    <3>3. Len(obj.waiting) > 1 \/ obj.waiting = <<n>>
      BY <3>1, <3>2
    <3> QED
      BY <3>3 DEF AfterPrimer
  <2>6. Apart(obj', Jobbed \union {n}) /\ Tracked(obj') = Tracked(obj)
    BY <1>0, <2>3, <2>4, <2>5, MovedApart
  <2> QED
    BY <1>1, <1>2, <2>1, <2>2, <2>4, <2>6 DEF Moved
<1>5. CASE StartNode
  <2> DEFINE n == local.next[local.i]
  <2>1. pc = "schedule" /\ Launch(n) /\ n \in Elements(local.next)
    BY <1>5, StartLaunches DEF Elements
  <2>2. Elements(local.next) \subseteq Tracked(obj)
    BY <1>0, <2>1 DEF LocalsInv
  <2>3. n \in Elements(obj.waiting)
    BY <1>2, <1>3, <2>1, <2>2
  <2>4. /\ pc' = "saveScheduled" /\ Moved(n, Without(obj.waiting, n))
        /\ local'.next = NextAfter(local.next, obj.waiting, n) /\ local'.scan = local.scan
    BY <1>5, <2>3, StartNodeLeads
  <2> HIDE DEF n
  <2>5. Apart(obj', Jobbed \union {n}) /\ Tracked(obj') = Tracked(obj)
    BY <1>0, <2>3, <2>4, MovedApart
  <2>6. Elements(local'.next) \subseteq Tracked(obj)
    <3>1. obj.waiting \in Seq(Node) /\ local.next \in Seq(Node)
      BY <1>0 DEF Objects, LocalVariables
    <3>2. Without(obj.waiting, n) \in Seq(Node)
      BY <3>1, WithoutType
    <3>3. Elements(Overwritten(local.next, Without(obj.waiting, n)))
            \subseteq Elements(local.next) \union Elements(Without(obj.waiting, n))
      BY <3>1, <3>2, OverwrittenElements
    <3>4. Elements(Without(obj.waiting, n)) \subseteq Elements(obj.waiting)
      BY <1>0, <2>3, <3>1, WithoutOnce DEF Apart
    <3> QED
      BY <2>2, <2>4, <3>3, <3>4 DEF NextAfter, Tracked
  <2> QED
    BY <1>1, <1>2, <2>1, <2>4, <2>5, <2>6 DEF Moved
<1> QED
  BY <1>4, <1>5

(* A batch of a parallelism below zero takes no node, and so cannot take    *)
(* more of them than there are.                                             *)
LEMMA TakeBatchLeads ==
    ASSUME TypeOK, AloneInv, NoBatches, TakeBatch
    PROVE  /\ pc' = "schedule" /\ local'.next = <<>>
           /\ Lists(obj') = Lists(obj) /\ obj'.conditions = obj.conditions
<1>0. obj \in Objects /\ local \in LocalVariables /\ obj.waiting \in Seq(Node)
  BY DEF TypeOK, Objects
<1>1. obj.spec.parallelism \in Int /\ obj.spec.parallelism <= 0
  <2>1. obj.spec \in Specs
    BY <1>0 DEF Objects
  <2> QED
    BY <2>1, SpecsAssumption DEF NoBatches
<1>2. Batch(obj.spec.parallelism) = 0
  BY <1>1 DEF Batch
<1> DEFINE next == SubSeq(obj.waiting, 1, 0)
           waiting == SubSeq(obj.waiting, 1, Len(obj.waiting))
<1>3. next = <<>> /\ waiting = obj.waiting
  BY <1>0
<1>4. /\ local' = [local EXCEPT !.next = next, !.i = 1]
      /\ obj' = [obj EXCEPT !.waiting = waiting]
      /\ pc' = "schedule"
  <2> DEFINE size == Batch(obj.spec.parallelism)
             taken == SubSeq(obj.waiting, 1, size)
             rest == SubSeq(obj.waiting, size + 1, Len(obj.waiting))
  <2>1. \/ /\ local' = [local EXCEPT !.next = taken, !.i = 1]
           /\ obj' = [obj EXCEPT !.waiting = rest]
           /\ pc' = "schedule"
        \/ size > Len(obj.waiting)
    BY Zenon DEF TakeBatch, Goto
  <2>2. taken = next /\ rest = waiting /\ ~(size > Len(obj.waiting))
    BY <1>0, <1>2
  <2> HIDE DEF taken, rest, next, waiting
  <2> QED
    BY <2>1, <2>2
<1> HIDE DEF next, waiting
<1> QED
  BY <1>0, <1>3, <1>4 DEF LocalVariables, Lists, Objects

(* A node whose job has succeeded leaves the list of warming nodes.         *)
LEMMA PreheatApart ==
    ASSUME NEW o \in Objects, NEW n \in Jobbed, Apart(o, Jobbed)
    PROVE  /\ Apart(Preheat(o, n), Jobbed) /\ Tracked(o) \subseteq Tracked(Preheat(o, n))
           /\ Preheat(o, n).selected = o.selected /\ Preheat(o, n).conditions = o.conditions
<1> DEFINE warming == IF n \in Elements(o.warming) THEN Without(o.warming, n) ELSE o.warming
           preheated == o.preheated \union {n}
           p == [o EXCEPT !.preheated = preheated, !.warming = warming]
<1>1. Preheat(o, n) = p /\ n \in Node /\ o.warming \in Seq(Node)
  <2>1. Preheat(o, n) = p
    BY Zenon DEF Preheat
  <2> QED
    BY <2>1 DEF Jobbed, Objects
<1>2. IsInjective(warming) /\ Elements(warming) = Elements(o.warming) \ {n}
  <2>1. CASE n \in Elements(o.warming)
    BY <1>1, <2>1, WithoutOnce DEF Apart
  <2>2. CASE n \notin Elements(o.warming)
    BY <2>2 DEF Apart
  <2> QED
    BY <2>1, <2>2
<1>3. /\ p.waiting = o.waiting /\ p.warming = warming /\ p.preheated = preheated
      /\ p.selected = o.selected /\ p.conditions = o.conditions
  <2> HIDE DEF warming, preheated
  <2> QED
    BY DEF Objects
<1> HIDE DEF p, warming
<1> QED
  BY <1>1, <1>2, <1>3, PreheatTracks DEF Apart

LEMMA MemoryApart ==
    ASSUME TypeOK, AloneInv, Alone, NoBatches, Enabled(self), PartInv,
           InMemory, ~StartPrimer, ~StartNode
    PROVE  /\ Apart(obj', Jobbed) /\ Chose(obj') /\ pc' # "panicked"
           /\ pc' # "saveSetup" => Covered(obj')
           /\ pc # "nodes" => Tracked(obj) \subseteq Tracked(obj')
<1>0. /\ obj \in Objects /\ local \in LocalVariables /\ pc # "idle"
      /\ Apart(obj, Jobbed) /\ Chose(obj)
      /\ pc \notin {"saveSetup", "waiting"} => Covered(obj)
      /\ LocalsInv
  BY MemoryLeads DEF TypeOK, PartInv, ListsInv
<1>1. \A o : Lists(o) = Lists(obj) => /\ Apart(o, Jobbed) /\ Chose(o)
                                      /\ Tracked(o) = Tracked(obj)
  BY <1>0 DEF Lists, Apart, Chose, Tracked
<1>2. \A o : /\ Covered(obj) /\ Tracked(obj) \subseteq Tracked(o)
             /\ o.conditions["SetupComplete"] = obj.conditions["SetupComplete"]
             => Covered(o)
  BY DEF Covered
<1>3. CASE SilentStep
  <2>1. pc \notin {"saveSetup", "waiting"} /\ pc' # "panicked"
    BY <1>3 DEF SilentStep, CheckInfrastructure, SetupClusterVersion, CheckCompletion,
       SkipPriming, PassPrimer, ClosedGate, TakeAll, PassNode, EndSchedule, EndScan,
       CheckAllDone, RecordCompletion, Goto
  <2>2. Silent(obj', obj)
    BY <1>3, SilentSteps
  <2> QED
    BY <1>0, <1>1, <1>2, <2>1, <2>2 DEF Silent
<1>4. CASE SetupResources
  <2>1. pc' = "saveSetup" /\ Lists(obj') = Lists(obj)
    BY <1>0, <1>4, SetConditionSame DEF SetupResources, Goto, ConditionTypes, Reasons, Same, Lists
  <2> QED
    BY <1>1, <2>1
<1>5. CASE EndPriming
  <2>1. /\ obj' = AfterPriming(obj, local.scheduled, local.stillRunning)
        /\ pc = "primers" /\ pc' = "savePriming"
    BY <1>5 DEF EndPriming, Goto
  <2>2. /\ Lists(obj') = Lists(obj)
        /\ obj'.conditions["SetupComplete"] = obj.conditions["SetupComplete"]
    BY <1>0, <2>1, AfterPrimingGate DEF LocalVariables
  <2> QED
    BY <1>0, <1>1, <1>2, <2>1, <2>2
<1>6. CASE DetermineNodes
  <2>1. PICK d \in Determinations(nodes, obj.spec) :
          \/ d.targeted = <<>> /\ obj' = NoNodes(obj) /\ pc' = "saveNoNodes"
          \/ /\ pc' \in {"savePrimerState", "completion"}
             /\ obj'.selected = d.targeted /\ obj'.preheated = obj.preheated
             /\ obj'.warming = obj.warming /\ obj'.waiting = obj.waiting
             /\ obj'.conditions["SetupComplete"] = obj.conditions["SetupComplete"]
    BY <1>6, DetermineLeads
  <2>2. pc = "nodes" /\ Elements(d.targeted) = Wanted
    BY <1>6, DeterminedPrimers DEF DetermineNodes
  <2>3. CASE d.targeted = <<>> /\ obj' = NoNodes(obj) /\ pc' = "saveNoNodes"
    <3>1. /\ obj'.selected = <<>> /\ obj'.preheated = {} /\ obj'.warming = <<>>
          /\ obj'.waiting = <<>> /\ obj'.conditions["SetupComplete"] = ""
      BY <1>0, <2>3, ClearedFields
    <3>2. Wanted = {} /\ Elements(<<>>) = {} /\ IsInjective(<<>>)
      BY <2>2, <2>3 DEF Elements, IsInjective
    <3>3. Apart(obj', Jobbed)
      BY <3>1, <3>2 DEF Apart
    <3> QED
      BY <2>2, <2>3, <3>1, <3>2, <3>3 DEF Chose, Covered
  <2>4. CASE /\ pc' \in {"savePrimerState", "completion"}
             /\ obj'.selected = d.targeted /\ obj'.preheated = obj.preheated
             /\ obj'.warming = obj.warming /\ obj'.waiting = obj.waiting
             /\ obj'.conditions["SetupComplete"] = obj.conditions["SetupComplete"]
    <3>1. Apart(obj', Jobbed) /\ Tracked(obj') = Tracked(obj)
      BY <1>0, <2>4 DEF Apart, Tracked
    <3>2. Chose(obj')
      BY <2>2, <2>4 DEF Chose
    <3> QED
      BY <1>0, <1>2, <2>2, <2>4, <3>1, <3>2
  <2> QED
    BY <2>1, <2>3, <2>4
<1>7. CASE FillWaiting
  <2>1. /\ Tracked(obj) \union Elements(local.targets) \subseteq Tracked(obj')
        /\ obj'.warming = obj.warming /\ obj'.preheated = obj.preheated
        /\ obj'.selected = obj.selected
        /\ \/ pc' = "primers" /\ obj' = obj
           \/ /\ pc' = "saveWaiting"
              /\ \E new \in Seq(Node) :
                    /\ IsInjective(new) /\ Elements(new) = Unlisted(obj, local.targets)
                    /\ obj'.waiting = obj.waiting \o new
    BY <1>7, FillWaitingLeads
  <2>2. Elements(local.targets) = Wanted
    BY <1>0, <1>7 DEF LocalsInv, BeforeLoop, FillWaiting
  <2>3. IsInjective(obj'.waiting) /\ Elements(obj'.waiting) \cap Jobbed = {}
    <3>1. CASE obj' = obj
      BY <1>0, <3>1 DEF Apart
    <3>2. CASE obj' # obj
      <4>1. PICK new \in Seq(Node) :
              /\ IsInjective(new) /\ Elements(new) = Unlisted(obj, local.targets)
              /\ obj'.waiting = obj.waiting \o new
        BY <2>1, <3>2
      <4>2. /\ obj.waiting \in Seq(Node) /\ IsInjective(obj.waiting)
            /\ Elements(obj.waiting) \cap Elements(new) = {}
        BY <1>0, <4>1 DEF Objects, Apart, Unlisted
      <4>3. /\ IsInjective(obj.waiting \o new)
            /\ Elements(obj.waiting \o new) = Elements(obj.waiting) \union Elements(new)
        BY <4>1, <4>2, ConcatenationOnce
      <4>4. Elements(new) \cap Jobbed = {}
        BY <1>0, <2>2, <4>1 DEF Apart, Unlisted
      <4> QED
        BY <1>0, <4>1, <4>3, <4>4 DEF Apart
    <3> QED
      BY <3>1, <3>2
  <2>4. Apart(obj', Jobbed)
    BY <1>0, <2>1, <2>3 DEF Apart
  <2>5. Chose(obj') /\ Covered(obj')
    BY <1>0, <2>1, <2>2 DEF Chose, Covered
  <2> QED
    BY <2>1, <2>4, <2>5
<1>8. CASE TakeBatch
  <2>1. /\ pc = "gate" /\ pc' = "schedule" /\ Lists(obj') = Lists(obj)
        /\ obj'.conditions = obj.conditions
    BY <1>8, TakeBatchLeads DEF TakeBatch
  <2> QED
    BY <1>0, <1>1, <1>2, <2>1
<1>9. CASE ListJobs
  <2>1. Listed(local.version) = Jobbed
    <3>1. local.version = desired
      BY <1>9 DEF ListJobs, AloneInv, Determined, Selected
    <3> QED
      BY <3>1, AloneReads DEF Listed, Jobbed
  <2>2. Jobbed = {} => obj.warming = <<>>
    <3> SUFFICES ASSUME obj.warming # <<>> PROVE Jobbed # {}
      OBVIOUS
    <3>1. obj.warming \in Seq(Node)
      BY <1>0 DEF Objects
    <3>2. obj.warming[1] \in Elements(obj.warming)
      BY <3>1 DEF Elements
    <3> QED
      BY <1>0, <3>2 DEF Apart
  <2>3. obj' = obj /\ pc' # "panicked" /\ pc = "list"
    BY <1>9, <2>1, <2>2 DEF ListJobs, Goto
  <2> QED
    BY <1>0, <2>3
<1>10. CASE ScanJob
  <2>1. PICK n \in local.scan : /\ obj' = Preheat(obj, n) /\ pc = "scan"
                                /\ pc' \in {"scan", "saveScan"}
    BY <1>10 DEF ScanJob, Goto
  <2>2. n \in Jobbed
    BY <1>0 DEF LocalsInv
  <2>3. /\ Apart(obj', Jobbed) /\ Tracked(obj) \subseteq Tracked(obj')
        /\ obj'.selected = obj.selected /\ obj'.conditions = obj.conditions
    BY <1>0, <2>1, <2>2, PreheatApart
  <2> QED
    BY <1>0, <1>2, <2>1, <2>3 DEF Chose
<1> QED
  BY <1>3, <1>4, <1>5, <1>6, <1>7, <1>8, <1>9, <1>10 DEF InMemory, SilentStep

LEMMA MemoryPlaces ==
    ASSUME InMemory
    PROVE  pc \notin DOMAIN Saves \union DOMAIN Refetches \union {"idle"}
BY DEF InMemory, CheckInfrastructure, SetupClusterVersion, DetermineNodes, CheckCompletion,
   SetupResources, FillWaiting, SkipPriming, PassPrimer, StartPrimer, EndPriming, ClosedGate,
   TakeAll, TakeBatch, PassNode, StartNode, EndSchedule, ListJobs, ScanJob, EndScan,
   CheckAllDone, RecordCompletion, Saves, Refetches

LEMMA FailuresOnly ==
    ASSUME OnlyFailures
    PROVE  OnlyJobsFail /\ Alone
BY DEF OnlyFailures, OnlyJobsFail

LEMMA NextApart ==
    ASSUME TypeOK, OnlyFailures, NoBatches, AloneInv, PartInv, Enabled(self), [Next]_vars
    PROVE  ListsInv'
<1>0. /\ Fixed /\ Alone /\ OnlyJobsFail /\ ListsInv
      /\ self \in UA /\ desired \in Version \union {NoVersion}
  BY StepsFixed, FailuresOnly, PrimersAreNodes DEF PartInv
<1>1. CASE JobsOnly
  <2>1. \A n \in Node : jobs'[n][desired] # "none" <=> jobs[n][desired] # "none"
    BY <1>0, <1>1 DEF JobsOnly
  <2>2. Jobbed' = Jobbed /\ UNCHANGED <<api, pc, obj>>
    BY <1>1, <2>1 DEF Jobbed, JobsOnly
  <2> QED
    BY <1>0, <2>2, ListsFollow DEF ListsInv
<1>2. CASE Begins
  <2>1. UNCHANGED <<api, desired, jobs>> /\ pc = "idle" /\ obj' = api[self] /\ pc' = "infrastructure"
    BY <1>0, <1>2, BeginLeads DEF Begins
  <2>2. Jobbed' = Jobbed
    BY <2>1 DEF Jobbed
  <2> QED
    BY <1>0, <2>1, <2>2, ListsFollow DEF ListsInv
<1>3. CASE Save
  <2>1. /\ UNCHANGED <<desired, jobs>> /\ pc # "idle" /\ api'[self] = obj
        /\ pc' # "idle" => obj' = obj
        /\ pc \in DOMAIN Saves
    BY <1>3, SaveLeads DEF Return
  <2>2. pc # "waiting" /\ (pc = "saveSetup" => pc' = "waiting")
    <3>1. Accepted
      BY <1>3, SaveLeads DEF Accepted
    <3> QED
      BY <1>3, <2>1, <3>1 DEF Save, Continue, Goto, Saves, Ignored
  <2>3. Jobbed' = Jobbed
    BY <2>1 DEF Jobbed
  <2> QED
    BY <1>0, <2>1, <2>2, <2>3, ListsFollow DEF ListsInv
<1>4. CASE Refetch
  <2>1. /\ UNCHANGED <<api, desired, jobs, obj>> /\ pc \in DOMAIN Refetches
    BY <1>0, <1>4, RefetchLeads
  <2>2. pc \notin {"idle", "savePrimer", "saveScheduled", "saveSetup", "waiting", "saveWaiting"}
    BY <2>1 DEF Refetches
  <2>3. Jobbed' = Jobbed
    BY <2>1 DEF Jobbed
  <2> QED
    BY <1>0, <2>1, <2>2, <2>3, ListsFollow DEF ListsInv
<1>5. CASE InMemory /\ (StartPrimer \/ StartNode)
  <2>1. /\ pc' \in {"savePrimer", "saveScheduled"} /\ api' = api
        /\ Apart(obj', Jobbed') /\ Tracked(obj') = Tracked(obj)
        /\ obj'.selected = obj.selected /\ obj'.conditions = obj.conditions
    BY <1>0, <1>5, StartsApart
  <2>2. pc \in {"primers", "schedule"}
    BY <1>0, <1>5, StartLaunches
  <2>3. Covered(obj') /\ Chose(obj')
    BY <1>0, <2>1, <2>2 DEF ListsInv, Covered, Chose
  <2> QED
    BY <1>0, <2>1, <2>2, <2>3, ListsFollow DEF ListsInv
<1>6. CASE InMemory /\ ~StartPrimer /\ ~StartNode
  <2>1. /\ UNCHANGED <<api, desired, jobs>>
        /\ Apart(obj', Jobbed) /\ Chose(obj') /\ (pc' # "saveSetup" => Covered(obj'))
    BY <1>0, <1>6, MemoryFrame, MemoryApart
  <2>2. pc \notin {"idle", "savePrimer", "saveScheduled", "saveWaiting"}
    BY <1>6, MemoryPlaces DEF Saves
  <2>3. Jobbed' = Jobbed
    BY <2>1 DEF Jobbed
  <2>4. pc' \notin {"waiting", "saveWaiting"} => Covered(api[self])
    <3>1. CASE pc = "waiting"
      <4>1. FillWaiting
        BY <1>6, <3>1 DEF InMemory, CheckInfrastructure, SetupClusterVersion, DetermineNodes,
           CheckCompletion, SetupResources, SkipPriming, PassPrimer, EndPriming, ClosedGate,
           TakeAll, TakeBatch, PassNode, EndSchedule, ListJobs, ScanJob, EndScan, CheckAllDone,
           RecordCompletion
      <4>2. pc' = "saveWaiting" \/ (pc' = "primers" /\ obj' = obj)
        BY <4>1, FillWaitingLeads
      <4>3. obj = api[self]
        BY <3>1 DEF AloneInv, Stored
      <4> QED
        BY <2>1, <4>2, <4>3
    <3>2. CASE pc # "waiting"
      BY <1>0, <2>2, <3>2 DEF ListsInv
    <3> QED
      BY <3>1, <3>2
  <2> QED
    BY <1>0, <2>1, <2>2, <2>3, <2>4, ListsFollow DEF ListsInv
<1>7. CASE Finishes
  <2>1. UNCHANGED <<api, desired, jobs>> /\ pc' = "idle"
    BY <1>7, FinishLeads DEF Return
  <2>2. pc \notin {"savePrimer", "saveScheduled", "waiting", "saveWaiting"}
    BY <1>7 DEF Finishes, JobRefused, Recover, CheckAllDone
  <2>3. Jobbed' = Jobbed
    BY <2>1 DEF Jobbed
  <2> QED
    BY <1>0, <2>1, <2>2, <2>3, ListsFollow DEF ListsInv
<1> QED
  <2>1. JobsOnly \/ Begins \/ Save \/ Refetch \/ InMemory \/ Finishes
    BY <1>0, StepsAlone
  <2> QED
    BY <1>1, <1>2, <1>3, <1>4, <1>5, <1>6, <1>7, <2>1

LEMMA LocalsFollow ==
    ASSUME Fixed,
           pc' \in BeforeLoop => Elements(local'.targets) = Wanted,
           pc' \in BeforeLoop \union InLoop => Elements(local'.primers) \subseteq Wanted,
           pc' \in Filled => Wanted \subseteq Tracked(obj'),
           pc' \in {"schedule", "saveScheduled"} => Elements(local'.next) \subseteq Tracked(obj'),
           local'.scan \subseteq Jobbed'
    PROVE  LocalsInv'
<1>1. Wanted' = Wanted
  BY FixedKeeps
<1>2. /\ Elements(local.targets)' = Elements(local'.targets)
      /\ Elements(local.primers)' = Elements(local'.primers)
      /\ Elements(local.next)' = Elements(local'.next)
      /\ Tracked(obj)' = Tracked(obj')
  BY DEF Elements, Tracked
<1> QED
  BY <1>1, <1>2 DEF LocalsInv

LEMMA LocalsStay ==
    ASSUME Fixed, LocalsInv, Tracked(obj) \subseteq Tracked(obj'), Jobbed \subseteq Jobbed',
           local'.targets = local.targets, local'.primers = local.primers,
           local'.next = local.next, local'.scan = local.scan,
           pc' \in BeforeLoop => pc \in BeforeLoop,
           pc' \in InLoop => pc \in BeforeLoop \union InLoop,
           pc' \in Filled => pc \in Filled,
           pc' \in {"schedule", "saveScheduled"} => pc \in {"schedule", "saveScheduled"}
    PROVE  LocalsInv'
BY LocalsFollow DEF LocalsInv

LEMMA SavesLocals ==
    ASSUME NEW step \in DOMAIN Saves
    PROVE  LET next == Saves[step].accepted
           IN  /\ next \in BeforeLoop => step \in BeforeLoop
               /\ next \in InLoop => step \in BeforeLoop \union InLoop
               /\ next \in Filled => step \in Filled
               /\ next \in {"schedule", "saveScheduled"} => step \in {"schedule", "saveScheduled"}
BY DEF Saves, Ignored, Checked, BeforeLoop, InLoop, Filled, Completing

LEMMA ReturnLocals ==
    ASSUME Fixed, Return
    PROVE  LocalsInv'
<1>1. pc' = "idle" /\ local'.scan = {}
  BY DEF Return, NoLocals
<1> QED
  BY <1>1, LocalsFollow DEF BeforeLoop, InLoop, Filled, Completing

(* The steps that change what the worker remembers of the lists.            *)
LEMMA RememberedLocals ==
    ASSUME TypeOK, AloneInv, Alone, NoBatches, Enabled(self), PartInv, Fixed,
           FillWaiting \/ TakeAll \/ TakeBatch \/ ListJobs \/ ScanJob \/ DetermineNodes
    PROVE  LocalsInv'
<1>0. /\ obj \in Objects /\ local \in LocalVariables /\ LocalsInv /\ UNCHANGED <<jobs, desired>>
      /\ InMemory /\ ~StartPrimer /\ ~StartNode
  <2>1. InMemory /\ ~StartPrimer /\ ~StartNode
    BY DEF InMemory, FillWaiting, TakeAll, TakeBatch, ListJobs, ScanJob, DetermineNodes,
       StartPrimer, StartNode
  <2> QED
    BY <2>1, MemoryFrame DEF TypeOK, PartInv
<1>1. Jobbed' = Jobbed /\ (pc # "nodes" => Tracked(obj) \subseteq Tracked(obj'))
  BY <1>0, MemoryApart DEF Jobbed
<1>2. CASE DetermineNodes
  <2>1. PICK d \in Determinations(nodes, obj.spec) :
          /\ local' = [local EXCEPT !.targets = d.targeted, !.primers = d.primers]
          /\ pc' \in {"saveNoNodes", "savePrimerState", "completion"}
    BY <1>2, DetermineLeads
  <2>2. pc = "nodes"
    BY <1>2 DEF DetermineNodes
  <2>3. Elements(d.targeted) = Wanted /\ Elements(d.primers) \subseteq Wanted
    BY <2>2, DeterminedPrimers
  <2>4. local'.targets = d.targeted /\ local'.primers = d.primers /\ local'.scan = local.scan
    BY <1>0, <2>1 DEF LocalVariables
  <2> QED
    BY <1>0, <1>1, <2>1, <2>3, <2>4, LocalsFollow DEF LocalsInv, Filled, Completing
<1>3. CASE FillWaiting
  <2>1. /\ local' = local /\ pc = "waiting" /\ pc' \in {"primers", "saveWaiting"}
        /\ Elements(local.targets) \subseteq Tracked(obj')
    BY <1>3, FillWaitingLeads DEF FillWaiting
  <2> QED
    BY <1>0, <1>1, <2>1, LocalsFollow DEF LocalsInv, BeforeLoop
<1>4. CASE TakeAll \/ TakeBatch
  <2>1. /\ pc = "gate" /\ pc' = "schedule" /\ local'.scan = local.scan
        /\ local'.next = obj.waiting \/ local'.next = <<>>
    <3>1. CASE TakeAll
      BY <1>0, <3>1 DEF TakeAll, Goto, LocalVariables
    <3>2. CASE TakeBatch
      <4>1. \E next : local' = [local EXCEPT !.next = next, !.i = 1]
        <5>1. pc' # "panicked"
          BY <3>2, TakeBatchLeads
        <5> QED
          BY <3>2, <5>1, Zenon DEF TakeBatch, Panic
      <4> QED
        BY <1>0, <3>2, <4>1, TakeBatchLeads DEF TakeBatch, LocalVariables
    <3> QED
      BY <1>4, <3>1, <3>2
  <2>2. Elements(local'.next) \subseteq Tracked(obj)
    BY <2>1 DEF Elements, Tracked
  <2> QED
    BY <1>0, <1>1, <2>1, <2>2, LocalsFollow DEF LocalsInv, BeforeLoop, InLoop, Filled
<1>5. CASE ListJobs
  <2>1. /\ pc = "list" /\ pc' \in {"scan", "saveReset", "final"}
        /\ local' = local \/ local' = [local EXCEPT !.scan = Succeeded(local.version)]
    BY <1>5 DEF ListJobs, Goto
  <2>2. Succeeded(local.version) \subseteq Jobbed
    <3>1. local.version = desired
      BY <2>1 DEF AloneInv, Determined, Selected
    <3> QED
      BY <3>1, AloneReads DEF Succeeded, Jobbed
  <2>3. local'.scan \subseteq Jobbed
    BY <1>0, <2>1, <2>2 DEF LocalVariables, LocalsInv
  <2> QED
    BY <1>0, <1>1, <2>1, <2>3, LocalsFollow DEF LocalsInv, BeforeLoop, InLoop, Filled
<1>6. CASE ScanJob
  <2>1. /\ pc = "scan" /\ pc' \in {"scan", "saveScan"}
        /\ \E n : local' = [local EXCEPT !.scan = local.scan \ {n}]
    BY <1>6 DEF ScanJob, Goto
  <2>2. local'.scan \subseteq local.scan
    BY <1>0, <2>1 DEF LocalVariables
  <2> QED
    BY <1>0, <1>1, <2>1, <2>2, LocalsFollow DEF LocalsInv, BeforeLoop, InLoop, Filled
<1> QED
  BY <1>2, <1>3, <1>4, <1>5, <1>6

LEMMA NextLocals ==
    ASSUME TypeOK, OnlyFailures, NoBatches, AloneInv, PartInv, Enabled(self), [Next]_vars
    PROVE  LocalsInv'
<1>0. /\ Fixed /\ Alone /\ OnlyJobsFail /\ LocalsInv /\ local \in LocalVariables
      /\ self \in UA /\ desired \in Version \union {NoVersion}
  BY StepsFixed, FailuresOnly, PrimersAreNodes DEF PartInv, TypeOK
<1>1. CASE JobsOnly
  <2>1. Jobbed \subseteq Jobbed' /\ UNCHANGED <<pc, obj, local>>
    BY <1>0, <1>1 DEF Jobbed, JobsOnly
  <2> QED
    BY <1>0, <2>1, LocalsStay
<1>2. CASE Begins
  <2>1. UNCHANGED <<local, desired, jobs>> /\ pc' = "infrastructure"
    BY <1>0, <1>2, BeginLeads DEF Begins
  <2>2. Jobbed' = Jobbed
    BY <2>1 DEF Jobbed
  <2> QED
    BY <1>0, <2>1, <2>2, LocalsFollow DEF LocalsInv, BeforeLoop, InLoop, Filled, Completing
<1>3. CASE Save
  <2>1. UNCHANGED <<desired, jobs>> /\ pc \in DOMAIN Saves
    BY <1>3, SaveLeads
  <2>2. Jobbed' = Jobbed
    BY <2>1 DEF Jobbed
  <2>3. CASE pc' = Saves[pc].accepted /\ UNCHANGED <<obj, fresh, local>>
    BY <1>0, <2>1, <2>2, <2>3, SavesLocals, LocalsStay
  <2> QED
    BY <1>0, <1>3, <2>3, SaveLeads, ReturnLocals
<1>4. CASE Refetch
  <2>1. UNCHANGED <<desired, jobs, local, obj>> /\ pc \in DOMAIN Refetches /\ pc' = Refetches[pc]
    BY <1>0, <1>4, RefetchLeads
  <2>2. Jobbed' = Jobbed
    BY <2>1 DEF Jobbed
  <2>3. /\ pc' \in BeforeLoop => pc \in BeforeLoop
        /\ pc' \notin InLoop \union Filled \union {"schedule", "saveScheduled"}
    BY <2>1 DEF Refetches, BeforeLoop, InLoop, Filled, Completing
  <2> QED
    BY <1>0, <2>1, <2>2, <2>3, LocalsStay
<1>5. CASE StartPrimer \/ StartNode
  <2>1. /\ pc' \in {"savePrimer", "saveScheduled"} /\ Jobbed \subseteq Jobbed'
        /\ Tracked(obj') = Tracked(obj) /\ local'.scan = local.scan
        /\ pc' = "savePrimer" => Elements(local'.primers) \subseteq Wanted
        /\ pc' = "saveScheduled" => Elements(local'.next) \subseteq Tracked(obj)
    BY <1>0, <1>5, StartsApart
  <2>2. pc \in Filled
    BY <1>0, <1>5, StartLaunches DEF Filled
  <2> QED
    BY <1>0, <2>1, <2>2, LocalsFollow DEF LocalsInv, BeforeLoop, InLoop
<1>6. CASE FillWaiting \/ TakeAll \/ TakeBatch \/ ListJobs \/ ScanJob \/ DetermineNodes
  BY <1>0, <1>6, RememberedLocals
<1>7. CASE /\ ~StartPrimer /\ ~StartNode
           /\ \/ CheckInfrastructure \/ SetupClusterVersion \/ CheckCompletion \/ SetupResources
              \/ SkipPriming \/ PassPrimer \/ EndPriming \/ ClosedGate \/ PassNode \/ EndSchedule
              \/ EndScan \/ (CheckAllDone /\ ~Return) \/ RecordCompletion
  <2>1. InMemory /\ pc # "nodes"
    <3>1. InMemory
      BY <1>7 DEF InMemory
    <3>2. pc # "nodes"
      BY <1>7 DEF CheckInfrastructure, SetupClusterVersion, CheckCompletion, SetupResources,
         SkipPriming, PassPrimer, EndPriming, ClosedGate, PassNode, EndSchedule, EndScan,
         CheckAllDone, RecordCompletion
    <3> QED
      BY <3>1, <3>2
  <2>2. Jobbed' = Jobbed /\ Tracked(obj) \subseteq Tracked(obj')
    BY <1>0, <1>7, <2>1, MemoryFrame, MemoryApart DEF Jobbed
  <2>3. /\ local'.targets = local.targets /\ local'.primers = local.primers
        /\ local'.next = local.next /\ local'.scan = local.scan
    <3>1. \/ local' = local
          \/ \E v : local' = [local EXCEPT !.version = v]
          \/ \E k, running : local' = [local EXCEPT !.i = k, !.stillRunning = running]
          \/ \E k : local' = [local EXCEPT !.i = k]
      BY <1>7 DEF CheckInfrastructure, SetupClusterVersion, CheckCompletion, SetupResources,
         SkipPriming, PassPrimer, EndPriming, ClosedGate, PassNode, EndSchedule, EndScan,
         CheckAllDone, RecordCompletion
    <3> QED
      BY <1>0, <3>1 DEF LocalVariables
  <2>4. /\ pc' \in BeforeLoop => pc \in BeforeLoop
        /\ pc' \in InLoop => pc \in BeforeLoop \union InLoop
        /\ pc' \in Filled => pc \in Filled
        /\ pc' \in {"schedule", "saveScheduled"} => pc \in {"schedule", "saveScheduled"}
    BY <1>7 DEF CheckInfrastructure, SetupClusterVersion, CheckCompletion, SetupResources,
       SkipPriming, PassPrimer, EndPriming, ClosedGate, PassNode, EndSchedule, EndScan,
       CheckAllDone, RecordCompletion, Goto, BeforeLoop, InLoop, Filled, Completing
  <2> QED
    BY <1>0, <2>2, <2>3, <2>4, LocalsStay
<1>8. CASE Finishes
  BY <1>0, <1>8, FinishLeads, ReturnLocals
<1> QED
  <2>1. JobsOnly \/ Begins \/ Save \/ Refetch \/ InMemory \/ Finishes
    BY <1>0, StepsAlone
  <2> QED
    BY <1>1, <1>2, <1>3, <1>4, <1>5, <1>6, <1>7, <1>8, <2>1 DEF InMemory

(* A disabled object is only disabled once more.                            *)
LEMMA NextOff ==
    ASSUME TypeOK, OnlyFailures, AloneInv, PartInv, ~Enabled(self), [Next]_vars
    PROVE  OffInv' /\ pc' # "panicked"
<1>0. /\ Fixed /\ Alone /\ OnlyJobsFail
      /\ pc \in {"idle", "saveDisabled"} /\ api[self].conditions["SetupComplete"] = ""
      /\ pc = "saveDisabled" => obj.conditions["SetupComplete"] = ""
  BY StepsFixed, FailuresOnly DEF PartInv, OffInv
<1>1. CASE JobsOnly
  BY <1>0, <1>1 DEF JobsOnly, OffInv
<1>2. CASE Begins
  <2>1. UNCHANGED <<api, self>> /\ obj' = Disable(api[self]) /\ pc' = "saveDisabled"
    BY <1>0, <1>2, BeginLeads DEF Begins
  <2>2. Disable(api[self]).conditions["SetupComplete"] = ""
    BY PrimersAreNodes, ClearedFields
  <2> QED
    BY <1>0, <2>1, <2>2 DEF OffInv
<1>3. CASE Save
  <2>1. UNCHANGED self /\ api'[self] = obj /\ pc = "saveDisabled" /\ Accepted
    BY <1>0, <1>3, SaveLeads DEF Accepted
  <2>2. pc' = "idle"
    BY <1>3, <2>1 DEF Save, Saves, Ignored, Continue, Return
  <2> QED
    BY <1>0, <2>1, <2>2 DEF OffInv
<1>4. pc \notin DOMAIN Refetches
  BY <1>0 DEF Refetches
<1>5. ~InMemory
  BY <1>0, MemoryPlaces DEF Saves
<1>6. ~Finishes
  BY <1>0 DEF Finishes, JobRefused, Recover, CheckAllDone
<1>7. ~Refetch
  BY <1>4 DEF Refetch
<1> QED
  BY <1>0, <1>1, <1>2, <1>3, <1>5, <1>6, <1>7, StepsAlone

LEMMA SavesDoNotPanic ==
    ASSUME NEW step \in DOMAIN Saves
    PROVE  Saves[step].accepted # "panicked"
BY DEF Saves, Ignored, Checked

LEMMA NextPart ==
    ASSUME TypeOK, OnlyFailures, NoBatches, AloneInv, PartInv, [Next]_vars
    PROVE  PartInv'
<1>0. Fixed /\ Alone /\ OnlyJobsFail /\ (Enabled(self)' <=> Enabled(self))
  <2>1. Fixed
    BY StepsFixed, FailuresOnly
  <2> QED
    BY <2>1, FailuresOnly, FixedKeeps
<1>1. CASE ~Enabled(self)
  BY <1>0, <1>1, NextOff DEF PartInv
<1>2. CASE Enabled(self)
  <2>1. pc' # "panicked"
    <3>1. CASE JobsOnly
      BY <3>1 DEF JobsOnly, PartInv
    <3>2. CASE Begins
      BY <1>0, <3>2, BeginLeads DEF Begins
    <3>3. CASE Save
      BY <3>3, SaveLeads, SavesDoNotPanic DEF Return
    <3>4. CASE Refetch
      <4>1. pc \in DOMAIN Refetches /\ pc' = Refetches[pc]
        BY <1>0, <3>4, RefetchLeads
      <4> QED
        BY <4>1 DEF Refetches
    <3>5. CASE InMemory
      <4>1. CASE StartPrimer \/ StartNode
        BY <1>0, <1>2, <4>1, StartsApart
      <4>2. CASE ~StartPrimer /\ ~StartNode
        BY <1>0, <1>2, <3>5, <4>2, MemoryApart
      <4> QED
        BY <4>1, <4>2
    <3>6. CASE Finishes
      BY <3>6, FinishLeads DEF Return
    <3> QED
      BY <1>0, <3>1, <3>2, <3>3, <3>4, <3>5, <3>6, StepsAlone
  <2>2. ListsInv' /\ LocalsInv'
    BY <1>2, NextApart, NextLocals
  <2>3. OffInv'
    BY <1>0, <1>2 DEF OffInv
  <2> QED
    BY <2>1, <2>2, <2>3 DEF PartInv
<1> QED
  BY <1>1, <1>2

LEMMA InitPart ==
    ASSUME Init
    PROVE  PartInv
<1>1. TypeOK /\ pc = "idle" /\ local.scan = {}
  BY InitType DEF Init, NoLocals
<1>2. Jobbed = {}
  BY <1>1 DEF Init, TypeOK, Jobbed
<1>3. /\ api[self].waiting = <<>> /\ api[self].warming = <<>>
      /\ api[self].preheated = {} /\ api[self].selected = <<>>
      /\ api[self].conditions["SetupComplete"] = ""
  <2>1. \E spec \in Specs : api[self] = NewObject(spec)
    BY DEF Init
  <2>2. \A spec : /\ NewObject(spec).waiting = <<>> /\ NewObject(spec).warming = <<>>
                  /\ NewObject(spec).preheated = {} /\ NewObject(spec).selected = <<>>
                  /\ NewObject(spec).conditions["SetupComplete"] = ""
    BY DEF NewObject, ConditionTypes
  <2> QED
    BY <2>1, <2>2
<1>4. Elements(<<>>) = {} /\ IsInjective(<<>>)
  BY DEF Elements, IsInjective
<1>5. ListsInv
  BY <1>1, <1>2, <1>3, <1>4 DEF ListsInv, Apart, Covered, Chose
<1>6. LocalsInv
  BY <1>1 DEF LocalsInv, BeforeLoop, InLoop, Filled, Completing
<1>7. OffInv
  BY <1>1, <1>3 DEF OffInv
<1> QED
  BY <1>1, <1>5, <1>6, <1>7 DEF PartInv

PartHolds == OnlyFailures /\ NoBatches /\ TypeOK /\ AloneInv /\ PartInv

LEMMA PartInvariant == OnlyFailures /\ NoBatches /\ Spec => []PartHolds
<1>1. OnlyFailures /\ NoBatches /\ Init => OnlyFailures /\ NoBatches /\ AloneInv /\ PartInv
  BY InitAlone, InitPart
<1>2. /\ OnlyFailures /\ NoBatches /\ TypeOK /\ PulledInv /\ AloneInv /\ PartInv /\ [Next]_vars
      => (OnlyFailures /\ NoBatches /\ AloneInv /\ PartInv)'
  BY FailuresOnly, NextAlone, NextPart DEF OnlyFailures, Alone, NoBatches
<1>3. OnlyFailures /\ NoBatches /\ TypeOK /\ AloneInv /\ PartInv => PartHolds
  BY DEF PartHolds
<1> QED
  BY <1>1, <1>2, <1>3, InvariantHolds, PTL DEF Spec

(* For one object, read without a lag, whose spec and cluster do not        *)
(* change, each target is in exactly one of the three lists whenever the    *)
(* worker rests, however many jobs fail (lines 252-271, 302-310, 367-370,   *)
(* 396-397 and 414-421 move it): a node waits as long as it has no job, and *)
(* is then warming until it is preheated.                                   *)
THEOREM ListsArePartition == OnlyFailures /\ NoBatches /\ Spec => []ListsPartition
<1>1. PartHolds => ListsPartition
  <2> SUFFICES ASSUME OnlyFailures, TypeOK, AloneInv, PartInv, NEW u \in UA,
                      pc = "idle", api[u].conditions["SetupComplete"] # ""
               PROVE  /\ IsInjective(api[u].waiting \o api[u].warming)
                      /\ Elements(api[u].waiting \o api[u].warming) \cap api[u].preheated = {}
                      /\ Elements(api[u].selected) \subseteq Tracked(api[u])
    BY DEF PartHolds, ListsPartition
  <2> DEFINE o == api[u]
  <2>1. u = self /\ Enabled(self)
    BY FailuresOnly, AloneReads DEF PartInv, OffInv
  <2>2. Apart(o, Jobbed) /\ Chose(o) /\ Wanted \subseteq Tracked(o)
    BY <2>1 DEF PartInv, ListsInv, Covered
  <2>3. o.waiting \in Seq(Node) /\ o.warming \in Seq(Node)
    BY DEF TypeOK, Objects
  <2> HIDE DEF o
  <2>4. Elements(o.waiting) \cap Elements(o.warming) = {}
    BY <2>2 DEF Apart
  <2>5. /\ IsInjective(o.waiting \o o.warming)
        /\ Elements(o.waiting \o o.warming) = Elements(o.waiting) \union Elements(o.warming)
    BY <2>2, <2>3, <2>4, ConcatenationOnce DEF Apart
  <2> QED
    BY <2>2, <2>5 DEF Apart, Chose, o
<1> QED
  BY <1>1, PartInvariant, PTL

(* Under the same conditions the loops of lines 283-318 and 352-378 never   *)
(* panic: a target without a job is a waiting one, since all the others     *)
(* have a job, so that the node is found where lines 308 and 369 cut.       *)
THEOREM WithoutBatchesNoPanic == OnlyFailures /\ NoBatches /\ Spec => []NeverPanics
<1>1. PartHolds => NeverPanics
  BY DEF PartHolds, PartInv, NeverPanics
<1> QED
  BY <1>1, PartInvariant, PTL

================================================================================
