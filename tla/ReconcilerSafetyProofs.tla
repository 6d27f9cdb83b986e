------------------------ MODULE ReconcilerSafetyProofs -------------------------
(* The worker's copies of the objects: what an update made from one of them *)
(* can lose, which version it speaks of, and what it may declare completed. *)
(* From this follow NodesNeverForgotten and JobsForReadVersion, and that    *)
(* the Reconciler implements Rollout, for every set of objects, nodes,      *)
(* versions and specs, and every number and kind of disruptions.            *)
EXTENDS ReconcilerProofs

--------------------------------------------------------------------------------
(***************************************************************************)
(* The invariant.  "fresh" says that the API server would accept an update *)
(* with the worker's copy, so everything it says is about copies that are  *)
(* fresh: the others cannot do any harm.                                   *)
(***************************************************************************)
Clearing == {"saveDisabled", "saveNoNodes"}
Completing == {"saveNotRunning", "record", "saveLast"}
Reading == {"infrastructure", "saveInfrastructure", "version"}
Selecting == {"nodes", "savePrimerState", "completion", "saveCompletion", "saveSelected"}
Pulling == {"setup", "saveSetup", "waiting", "saveWaiting", "primers", "savePrimer",
            "savePriming", "gate", "schedule", "saveScheduled"}
Ending == {"saveRunning", "list", "saveReset", "scan", "saveScan", "final",
           "failed", "saveFailure", "panicked", "idle"}
Versioned == Selecting \union Pulling \union {"saveVersion", "refetchVersion", "refetchSelected"}

(* The copy has every node that the API server's object has.                *)
NothingLost ==
    /\ pc \in Clearing => obj.preheated = {} /\ obj.selected = <<>>
    /\ (fresh /\ pc \notin Clearing) =>
          /\ obj.spec = api[self].spec
          /\ api[self].preheated \subseteq obj.preheated
          /\ obj.spec.parallelism = 0 => Tracked(api[self]) \subseteq Tracked(obj)

(* What is declared completed is what the API server has.                   *)
CompletionCopied ==
    /\ (fresh /\ pc # "saveLast") => obj.last = api[self].last
    /\ pc = "saveLast" => obj.last = obj.version
    /\ pc \in Completing => AllPreheated(obj)
    /\ (fresh /\ pc \in {"record", "saveLast"}) =>
          /\ obj.preheated = api[self].preheated
          /\ obj.selected = api[self].selected
          /\ obj.version = api[self].version

(* The version a copy holds is the one this reconcile has read, even after  *)
(* it is read from the cache again: the cache can only be as old as the     *)
(* last update that was accepted.                                           *)
VersionCopied ==
    /\ (fresh /\ pc \in Reading) =>
          obj.version = View[self].version /\ obj.version = api[self].version
    /\ pc = "saveVersion" => obj.version = local.version
    /\ pc = "refetchVersion" => api[self].version = local.version
    /\ (fresh /\ pc \in Selecting) =>
          /\ obj.version = local.version
          /\ View[self].version = local.version
          /\ api[self].version = local.version
    /\ pc = "refetchSelected" =>
          View[self].version = local.version /\ api[self].version = local.version
    /\ pc \in Pulling => obj.version = local.version
    /\ pc \in Versioned => local.version \in Version

CopyInv == NothingLost /\ CompletionCopied /\ VersionCopied

--------------------------------------------------------------------------------
(***************************************************************************)
(* Lists, and what the operators leave alone.                              *)
(***************************************************************************)
LEMMA AppendElements ==
    ASSUME NEW S, NEW list \in Seq(S), NEW n \in S
    PROVE  Elements(list) \union {n} \subseteq Elements(Append(list, n))
<1> DEFINE more == Append(list, n)
<1>1. /\ DOMAIN more = 1 .. Len(list) + 1 /\ more[Len(list) + 1] = n
      /\ \A i \in DOMAIN list : i \in DOMAIN more /\ more[i] = list[i]
  OBVIOUS
<1>2. Len(list) + 1 \in DOMAIN more
  BY <1>1
<1> HIDE DEF more
<1> QED
  BY <1>1, <1>2 DEF Elements

LEMMA ConcatElements ==
    ASSUME NEW S, NEW list \in Seq(S), NEW more \in Seq(S)
    PROVE  Elements(list) \union Elements(more) \subseteq Elements(list \o more)
<1> DEFINE both == list \o more
<1>1. \A i \in DOMAIN list : i \in DOMAIN both /\ both[i] = list[i]
  OBVIOUS
<1>2. \A i \in DOMAIN more : i + Len(list) \in DOMAIN both /\ both[i + Len(list)] = more[i]
  OBVIOUS
<1> HIDE DEF both
<1>3. Elements(list) \subseteq Elements(both)
  BY <1>1 DEF Elements
<1>4. Elements(more) \subseteq Elements(both)
  BY <1>2 DEF Elements
<1> QED
  BY <1>3, <1>4 DEF both

(* Taking a node out of a list that has it takes out no other.              *)
LEMMA WithoutElements ==
    ASSUME NEW S, NEW list \in Seq(S), NEW n, n \in Elements(list)
    PROVE  Elements(list) \subseteq Elements(Without(list, n)) \union {n}
<1> SUFFICES ASSUME NEW k \in DOMAIN list, list[k] # n
             PROVE  list[k] \in Elements(Without(list, n))
  BY DEF Elements
<1>1. PICK at \in DOMAIN list : list[at] = n
  BY DEF Elements
<1>2. DOMAIN Without(list, n) = 1 .. Len(list) - 1
  BY DEF Without
<1>3. CASE \E j \in 1 .. k : list[j] = n
  <2>1. PICK j \in 1 .. k : list[j] = n
    BY <1>3
  <2>2. k - 1 \in 1 .. Len(list) - 1 /\ j \in 1 .. k - 1 /\ (k - 1) + 1 = k
    BY <2>1
  <2>3. Without(list, n)[k - 1] = list[k]
    BY <2>1, <2>2 DEF Without
  <2> QED
    BY <1>2, <2>2, <2>3 DEF Elements
<1>4. CASE ~\E j \in 1 .. k : list[j] = n
  <2>1. k < at
    BY <1>1, <1>4
  <2>2. k \in 1 .. Len(list) - 1
    BY <1>1, <2>1
  <2>3. Without(list, n)[k] = list[k]
    BY <1>4, <2>2 DEF Without
  <2> QED
    BY <1>2, <2>2, <2>3 DEF Elements
<1> QED
  BY <1>3, <1>4

(* Only the conditions differ, or the infrastructure.                       *)
Same(o, p) ==
    /\ o.spec = p.spec /\ o.version = p.version /\ o.last = p.last
    /\ o.selected = p.selected /\ o.preheated = p.preheated
    /\ o.warming = p.warming /\ o.waiting = p.waiting

LEMMA SetConditionSame ==
    ASSUME NEW o \in Objects, NEW type \in ConditionTypes, NEW reason \in Reasons
    PROVE  Same(SetCondition(o, type, reason), o)
BY DEF Same, SetCondition, Objects

LEMMA DeleteConditionsSame ==
    ASSUME NEW o \in Objects, NEW types
    PROVE  Same(DeleteConditions(o, types), o)
BY DEF Same, DeleteConditions, Objects

LEMMA SameTransitive ==
    ASSUME NEW o, NEW p, NEW q, Same(o, p), Same(p, q)
    PROVE  Same(o, q)
BY DEF Same

LEMMA FailedSame ==
    ASSUME NEW o \in Objects, NEW types
    PROVE  Same(Failed(o, types), o)
<1>1. /\ SetCondition(o, "Failure", "Failed") \in Objects
      /\ Same(SetCondition(o, "Failure", "Failed"), o)
  BY SetConditionType, SetConditionSame DEF ConditionTypes, Reasons
<1> QED
  BY <1>1, DeleteConditionsSame, SameTransitive DEF Failed

LEMMA AfterPrimingSame ==
    ASSUME NEW o \in Objects, NEW scheduled \in BOOLEAN, NEW stillRunning \in BOOLEAN
    PROVE  Same(AfterPriming(o, scheduled, stillRunning), o)
<1> DEFINE inProgress == SetCondition(o, "Primer", "PrimingInProgress")
<1>1. /\ inProgress \in Objects /\ Same(inProgress, o)
      /\ Same(SetCondition(o, "Primer", "PrimingCompleted"), o)
      /\ Same(SetCondition(o, "Running", "JobsScheduled"), o)
  BY SetConditionType, SetConditionSame DEF ConditionTypes, Reasons
<1>2. Same(SetCondition(inProgress, "Running", "JobsScheduled"), o)
  <2>1. Same(SetCondition(inProgress, "Running", "JobsScheduled"), inProgress)
    BY <1>1, SetConditionSame DEF ConditionTypes, Reasons
  <2> QED
    BY <1>1, <2>1, SameTransitive
<1>3. Same(o, o)
  BY DEF Same
<1> QED
  BY <1>1, <1>2, <1>3 DEF AfterPriming

LEMMA ClearedType ==
    ASSUME NEW o \in Objects
    PROVE  /\ Disable(o).preheated = {} /\ Disable(o).selected = <<>> /\ Disable(o).last = o.last
           /\ NoNodes(o).preheated = {} /\ NoNodes(o).selected = <<>> /\ NoNodes(o).last = o.last
<1> DEFINE disabled == SetCondition(ClearLists(o), "Running", "Disabled")
           noNodes == SetCondition(ClearLists(o), "Running", "NoNodesSelected")
<1>1. ClearLists(o) \in Objects
  BY ClearListsType
<1>2. /\ ClearLists(o).preheated = {} /\ ClearLists(o).selected = <<>>
      /\ ClearLists(o).last = o.last
  BY DEF ClearLists, Objects
<1>3. /\ disabled \in Objects /\ noNodes \in Objects
      /\ Same(disabled, ClearLists(o)) /\ Same(noNodes, ClearLists(o))
  BY <1>1, SetConditionType, SetConditionSame DEF ConditionTypes, Reasons
<1>4. /\ Same(Disable(o), disabled) /\ Same(NoNodes(o), noNodes)
  BY <1>3, DeleteConditionsSame DEF Disable, NoNodes
<1> QED
  BY <1>2, <1>3, <1>4 DEF Same

(* The lists of an object in which a node is tracked.                       *)
LEMMA SameTracked ==
    ASSUME NEW o, NEW p, Same(o, p)
    PROVE  Tracked(o) = Tracked(p) /\ (AllPreheated(o) <=> AllPreheated(p))
BY DEF Same, Tracked, AllPreheated

LEMMA RescheduledTracks ==
    ASSUME NEW o \in Objects
    PROVE  /\ Rescheduled(o).spec = o.spec /\ Rescheduled(o).version = o.version
           /\ Rescheduled(o).last = o.last /\ Rescheduled(o).preheated = o.preheated
           /\ Tracked(o) \subseteq Tracked(Rescheduled(o))
<1> DEFINE both == o.waiting \o o.warming
<1>1. o.waiting \in Seq(Node) /\ o.warming \in Seq(Node)
  BY DEF Objects
<1>2. Elements(o.waiting) \union Elements(o.warming) \subseteq Elements(both)
  BY <1>1, ConcatElements
<1>3. /\ Rescheduled(o).spec = o.spec /\ Rescheduled(o).version = o.version
      /\ Rescheduled(o).last = o.last /\ Rescheduled(o).preheated = o.preheated
      /\ Rescheduled(o).waiting = both
  BY DEF Rescheduled, Objects
<1> HIDE DEF both
<1> QED
  BY <1>2, <1>3 DEF Tracked

LEMMA PreheatTracks ==
    ASSUME NEW o \in Objects, NEW n \in Node
    PROVE  /\ Preheat(o, n).spec = o.spec /\ Preheat(o, n).version = o.version
           /\ Preheat(o, n).last = o.last
           /\ o.preheated \subseteq Preheat(o, n).preheated
           /\ Tracked(o) \subseteq Tracked(Preheat(o, n))
<1> DEFINE warming == IF n \in Elements(o.warming) THEN Without(o.warming, n) ELSE o.warming
           more == o.preheated \union {n}
           p == [o EXCEPT !.preheated = more, !.warming = warming]
<1>1. Preheat(o, n) = p
  BY Zenon DEF Preheat
<1>2. o.warming \in Seq(Node)
  BY DEF Objects
<1>3. Elements(o.warming) \subseteq Elements(warming) \union {n}
  BY <1>2, WithoutElements
<1>4. /\ p.spec = o.spec /\ p.version = o.version /\ p.last = o.last
      /\ p.preheated = more /\ p.warming = warming /\ p.waiting = o.waiting
  <2> HIDE DEF more, warming
  <2> QED
    BY DEF Objects
<1>5. Tracked(o) \subseteq Tracked(p)
  <2> HIDE DEF warming, p
  <2> QED
    BY <1>3, <1>4 DEF Tracked
<1> HIDE DEF p
<1> QED
  BY <1>1, <1>4, <1>5

(* A node goes from a waiting list that has it, or that has no other way to *)
(* lose one, into the warming list.                                         *)
LEMMA MovedTracks ==
    ASSUME NEW o \in Objects, NEW n \in Node, NEW waiting \in Seq(Node),
           Elements(o.waiting) \subseteq Elements(waiting) \union {n}
    PROVE  LET p == [o EXCEPT !.warming = Append(o.warming, n), !.waiting = waiting]
           IN  /\ p.spec = o.spec /\ p.version = o.version /\ p.last = o.last
               /\ p.preheated = o.preheated
               /\ Tracked(o) \subseteq Tracked(p)
<1> DEFINE more == Append(o.warming, n)
           p == [o EXCEPT !.warming = more, !.waiting = waiting]
<1>1. o.warming \in Seq(Node)
  BY DEF Objects
<1>2. Elements(o.warming) \union {n} \subseteq Elements(more)
  BY <1>1, AppendElements
<1>3. /\ p.spec = o.spec /\ p.version = o.version /\ p.last = o.last
      /\ p.preheated = o.preheated /\ p.warming = more /\ p.waiting = waiting
  <2> HIDE DEF more
  <2> QED
    BY DEF Objects
<1>4. Tracked(o) \subseteq Tracked(p)
  <2> HIDE DEF more, p
  <2> QED
    BY <1>2, <1>3 DEF Tracked
<1> QED
  BY <1>3, <1>4

--------------------------------------------------------------------------------
(***************************************************************************)
(* The steps of the worker.                                                *)
(***************************************************************************)
(* A step within one part of the reconcile, or to its end, that takes no    *)
(* node out of the lists.                                                   *)
Within(part) == pc \in part /\ pc' \in part
Ends == pc \notin Clearing \union {"saveLast"} /\ pc' \in Ending
WorkerOnly == UNCHANGED <<api, cache, self, fresh>> /\ local'.version = local.version

LEMMA QuietStep ==
    ASSUME CopyInv, WorkerOnly,
           Within(Reading) \/ Within(Selecting) \/ Within(Pulling) \/ Ends,
           obj'.spec = obj.spec, obj'.version = obj.version, obj'.last = obj.last,
           obj.preheated \subseteq obj'.preheated,
           obj.spec.parallelism = 0 => Tracked(obj) \subseteq Tracked(obj')
    PROVE  CopyInv'
<1>1. /\ pc \notin Clearing \union {"saveLast"}
      /\ pc' \notin Clearing \union Completing
      /\ pc' \notin {"saveVersion", "refetchVersion", "refetchSelected"}
  BY DEF Within, Reading, Selecting, Pulling, Ends, Ending, Clearing, Completing
<1>2. NothingLost'
  <2>1. pc' \notin Clearing /\ pc \notin Clearing
    BY <1>1
  <2> QED
    BY <2>1 DEF CopyInv, NothingLost, WorkerOnly, Tracked
<1>3. CompletionCopied'
  BY <1>1 DEF CopyInv, CompletionCopied, WorkerOnly, Completing
<1>4. VersionCopied'
  <2>1. View' = View
    BY DEF View, WorkerOnly
  <2>2. /\ pc' \in Reading => pc \in Reading
        /\ pc' \in Selecting => pc \in Selecting
        /\ pc' \in Pulling => pc \in Pulling
    BY DEF Within, Reading, Selecting, Pulling, Ends, Ending
  <2>3. pc' \in Versioned => pc \in Versioned
    BY <1>1, <2>2 DEF Versioned
  <2> QED
    BY <1>1, <2>1, <2>2, <2>3 DEF CopyInv, VersionCopied, WorkerOnly
<1> QED
  BY <1>2, <1>3, <1>4 DEF CopyInv

LEMMA SameStep ==
    ASSUME CopyInv, WorkerOnly,
           Within(Reading) \/ Within(Selecting) \/ Within(Pulling) \/ Ends,
           Same(obj', obj)
    PROVE  CopyInv'
<1>1. /\ obj'.spec = obj.spec /\ obj'.version = obj.version /\ obj'.last = obj.last
      /\ obj'.preheated = obj.preheated /\ Tracked(obj') = Tracked(obj)
  BY SameTracked DEF Same
<1> QED
  BY <1>1, QuietStep


LEMMA OnlyWorkerKeeps ==
    ASSUME OnlyWorker \/ OnlyWorkerAndJobs
    PROVE  UNCHANGED <<api, cache, self, fresh>>
BY DEF OnlyWorker, OnlyWorkerAndJobs, objects

(* The steps that do not touch the lists.                                   *)
LEMMA ConditionStepsCopy ==
    ASSUME TypeOK, CopyInv,
           \/ CheckInfrastructure \/ CheckCompletion \/ SetupResources \/ SkipPriming
           \/ PassPrimer \/ EndPriming \/ ClosedGate \/ TakeAll \/ PassNode \/ EndSchedule
           \/ EndScan \/ ReportFailure
    PROVE  CopyInv'
<1>0. obj \in Objects /\ local \in LocalVariables
  BY DEF TypeOK
<1>1. UNCHANGED <<api, cache, self, fresh>>
  BY OnlyWorkerKeeps DEF CheckInfrastructure, CheckCompletion, SetupResources, SkipPriming,
     PassPrimer, EndPriming, ClosedGate, TakeAll, PassNode, EndSchedule, EndScan, ReportFailure
<1>2. WorkerOnly
  <2>1. local'.version = local.version
    <3>1. CASE local' = local
      BY <3>1
    <3>2. CASE local' # local
      <4>1. \/ \E running : local' = [local EXCEPT !.i = local.i + 1, !.stillRunning = running]
            \/ local' = [local EXCEPT !.i = local.i + 1]
            \/ \E next : local' = [local EXCEPT !.next = next, !.i = 1]
        BY <3>2 DEF CheckInfrastructure, CheckCompletion, SetupResources, SkipPriming,
           PassPrimer, EndPriming, ClosedGate, TakeAll, PassNode, EndSchedule, EndScan,
           ReportFailure
      <4> QED
        BY <1>0, <4>1 DEF LocalVariables
    <3> QED
      BY <3>1, <3>2
  <2> QED
    BY <1>1, <2>1 DEF WorkerOnly
<1>3. Same(obj, obj)
  BY DEF Same
<1>4. Same(obj', obj)
  <2>1. CASE CheckInfrastructure
    <3> DEFINE found == SetCondition(obj, "InfrastructureFound", "InfrastructureFound")
    <3>1. found \in Objects /\ Same(found, obj)
      BY <1>0, SetConditionType, SetConditionSame DEF ConditionTypes, Reasons
    <3>2. Same([found EXCEPT !.infrastructure = TRUE], found)
      <4> HIDE DEF found
      <4> QED
        BY <3>1 DEF Same, Objects
    <3>3. obj' = obj \/ obj' = [found EXCEPT !.infrastructure = TRUE]
      BY <2>1 DEF CheckInfrastructure
    <3>4. obj' = obj \/ Same(obj', found)
      BY <3>2, <3>3, Zenon
    <3> HIDE DEF found
    <3> QED
      BY <1>3, <3>1, <3>4, SameTransitive
  <2>2. CASE CheckCompletion
    <3> DEFINE done == SetCondition(obj, "Running", "ReconciliationCompleted")
    <3>1. done \in Objects /\ Same(done, obj)
      BY <1>0, SetConditionType, SetConditionSame DEF ConditionTypes, Reasons
    <3>2. Same(SetCondition(done, "Completed", "ReconciliationCompleted"), done)
      BY <3>1, SetConditionSame DEF ConditionTypes, Reasons
    <3> QED
      BY <1>3, <2>2, <3>1, <3>2, SameTransitive DEF CheckCompletion
  <2>3. CASE SetupResources
    BY <1>0, <2>3, SetConditionSame DEF SetupResources, ConditionTypes, Reasons
  <2>4. CASE EndPriming
    BY <1>0, <2>4, AfterPrimingSame DEF EndPriming, LocalVariables
  <2>5. CASE EndSchedule
    BY <1>0, <2>5, SetConditionSame DEF EndSchedule, ConditionTypes, Reasons
  <2>6. CASE ReportFailure
    BY <1>0, <2>6, FailedSame DEF ReportFailure
  <2>7. CASE SkipPriming \/ PassPrimer \/ ClosedGate \/ TakeAll \/ PassNode \/ EndScan
    BY <1>3, <2>7 DEF SkipPriming, PassPrimer, ClosedGate, TakeAll, PassNode, EndScan
  <2> QED
    BY <2>1, <2>2, <2>3, <2>4, <2>5, <2>6, <2>7
<1>5. Within(Reading) \/ Within(Selecting) \/ Within(Pulling) \/ Ends
  BY DEF CheckInfrastructure, CheckCompletion, SetupResources, SkipPriming, PassPrimer,
     EndPriming, ClosedGate, TakeAll, PassNode, EndSchedule, EndScan, ReportFailure, Goto,
     Within, Reading, Selecting, Pulling, Clearing, Ends, Ending
<1> QED
  BY <1>2, <1>4, <1>5, SameStep

(* The steps that move nodes between the lists.                             *)
LEMMA ListStepsCopy ==
    ASSUME TypeOK, CopyInv, FillWaiting \/ TakeBatch \/ ListJobs \/ ScanJob
    PROVE  CopyInv'
<1>0. obj \in Objects /\ local \in LocalVariables
  BY DEF TypeOK
<1>1. WorkerOnly
  <2>1. UNCHANGED <<api, cache, self, fresh>>
    BY OnlyWorkerKeeps DEF FillWaiting, TakeBatch, ListJobs, ScanJob
  <2>2. local'.version = local.version
    <3>1. \/ local' = local
          \/ \E next : local' = [local EXCEPT !.next = next, !.i = 1]
          \/ \E scan : local' = [local EXCEPT !.scan = scan]
      <4>1. CASE TakeBatch
        BY <4>1, Zenon DEF TakeBatch, Panic
      <4>2. CASE ScanJob \/ ListJobs \/ FillWaiting
        BY <4>2, Zenon DEF ScanJob, ListJobs, FillWaiting
      <4> QED
        BY <4>1, <4>2
    <3> QED
      BY <1>0, <3>1 DEF LocalVariables
  <2> QED
    BY <2>1, <2>2 DEF WorkerOnly
<1>2. Within(Pulling) \/ Ends
  <2>1. CASE FillWaiting
    BY <2>1 DEF FillWaiting, Goto, Within, Pulling
  <2>2. CASE TakeBatch
    <3>1. pc = "gate" /\ pc' \in {"schedule", "panicked"}
      BY <2>2, Zenon DEF TakeBatch, Goto, Panic
    <3> QED
      BY <3>1 DEF Within, Pulling, Clearing, Ends, Ending
  <2>3. CASE ListJobs
    BY <2>3 DEF ListJobs, Goto, Clearing, Ends, Ending
  <2>4. CASE ScanJob
    <3>1. pc = "scan" /\ pc' \in {"scan", "saveScan"}
      BY <2>4 DEF ScanJob, Goto
    <3> QED
      BY <3>1 DEF Clearing, Ends, Ending
  <2> QED
    BY <2>1, <2>2, <2>3, <2>4
<1>3. CASE obj' = obj
  BY <1>1, <1>2, <1>3, SameStep DEF Same
<1>4. CASE FillWaiting /\ obj' # obj
  <2>1. PICK new \in InOrderOf(local.targets, Unlisted(obj, local.targets)) :
          obj' = [obj EXCEPT !.waiting = obj.waiting \o new]
    BY <1>4 DEF FillWaiting
  <2>2. new \in Seq(Node)
    <3>1. Unlisted(obj, local.targets) \in SUBSET Node
      BY <1>0, ElementsType DEF Unlisted, LocalVariables
    <3> QED
      BY <3>1, InOrderOfType
  <2> DEFINE waiting == obj.waiting \o new
  <2>3. Elements(obj.waiting) \subseteq Elements(waiting)
    BY <1>0, <2>2, ConcatElements DEF Objects
  <2>4. /\ obj'.spec = obj.spec /\ obj'.version = obj.version /\ obj'.last = obj.last
        /\ obj'.preheated = obj.preheated /\ obj'.warming = obj.warming
        /\ obj'.waiting = waiting
    <3> HIDE DEF waiting
    <3> QED
      BY <1>0, <2>1 DEF Objects, waiting
  <2>5. Tracked(obj) \subseteq Tracked(obj')
    <3> HIDE DEF waiting
    <3> QED
      BY <2>3, <2>4 DEF Tracked
  <2> QED
    BY <1>1, <1>2, <2>4, <2>5, QuietStep
<1>5. CASE TakeBatch /\ obj' # obj
  <2>1. /\ obj.spec.parallelism # 0
        /\ \E waiting : obj' = [obj EXCEPT !.waiting = waiting]
    BY <1>5 DEF TakeBatch, Panic
  <2>2. /\ obj'.spec = obj.spec /\ obj'.version = obj.version /\ obj'.last = obj.last
        /\ obj'.preheated = obj.preheated
    BY <1>0, <2>1 DEF Objects
  <2> QED
    BY <1>1, <1>2, <2>1, <2>2, QuietStep
<1>6. CASE ListJobs /\ obj' # obj
  <2>1. obj' = Rescheduled(obj)
    BY <1>6 DEF ListJobs
  <2> QED
    BY <1>0, <1>1, <1>2, <2>1, RescheduledTracks, QuietStep
<1>7. CASE ScanJob
  <2>1. PICK n \in Node : obj' = Preheat(obj, n)
    BY <1>0, <1>7 DEF ScanJob, LocalVariables
  <2> QED
    BY <1>0, <1>1, <1>2, <2>1, PreheatTracks, QuietStep
<1> QED
  BY <1>3, <1>4, <1>5, <1>6, <1>7

LEMMA StartsCopy ==
    ASSUME TypeOK, CopyInv, StartPrimer \/ StartNode
    PROVE  CopyInv'
<1>0. obj \in Objects /\ local \in LocalVariables
  BY DEF TypeOK
<1>1. WorkerOnly
  <2>1. UNCHANGED <<api, cache, self, fresh>>
    BY OnlyWorkerKeeps DEF StartPrimer, StartNode
  <2>2. local'.version = local.version
    <3>1. \/ local' = local
          \/ \E k, b : local' = [local EXCEPT !.i = k, !.scheduled = TRUE, !.stillRunning = b]
          \/ \E k, next : local' = [local EXCEPT !.i = k, !.next = next]
      BY Zenon DEF StartPrimer, StartNode, Panic
    <3> QED
      BY <1>0, <3>1 DEF LocalVariables
  <2> QED
    BY <2>1, <2>2 DEF WorkerOnly
<1>2. Within(Pulling) \/ Ends
  <2>1. /\ pc \in {"primers", "schedule"}
        /\ pc' \in {"savePrimer", "saveScheduled", "panicked"}
    BY Zenon DEF StartPrimer, StartNode, Goto, Panic
  <2> QED
    BY <2>1 DEF Within, Pulling, Clearing, Ends, Ending
<1>3. CASE obj' = obj
  BY <1>1, <1>2, <1>3, SameStep DEF Same
<1>4. CASE obj' # obj
  <2>1. PICK n \in Node, waiting \in Seq(Node) :
          /\ Elements(obj.waiting) \subseteq Elements(waiting) \union {n}
          /\ obj' = [obj EXCEPT !.warming = Append(obj.warming, n), !.waiting = waiting]
    <3>1. CASE StartPrimer
      <4> DEFINE n == local.primers[local.i]
      <4>1. /\ n \in Node
            /\ Len(obj.waiting) > 1 => n \in Elements(obj.waiting)
            /\ obj' = [obj EXCEPT !.warming = Append(obj.warming, n),
                                  !.waiting = AfterPrimer(obj.waiting, n)]
        BY <1>0, <1>4, <3>1 DEF StartPrimer, Panic, LocalVariables
      <4>2. obj.waiting \in Seq(Node) /\ AfterPrimer(obj.waiting, n) \in Seq(Node)
        BY <1>0, <4>1, AfterPrimerType DEF Objects
      <4>3. Elements(obj.waiting) \subseteq Elements(AfterPrimer(obj.waiting, n)) \union {n}
        <5>1. CASE n \in Elements(obj.waiting)
          BY <4>2, <5>1, WithoutElements DEF AfterPrimer
        <5>2. CASE n \notin Elements(obj.waiting)
          <6>1. obj.waiting # <<n>>
            BY <5>2 DEF Elements
          <6>2. AfterPrimer(obj.waiting, n) = obj.waiting
            BY <4>1, <5>2, <6>1 DEF AfterPrimer
          <6> QED
            BY <6>2
        <5> QED
          BY <5>1, <5>2
      <4> HIDE DEF n
      <4> QED
        BY <4>1, <4>2, <4>3
    <3>2. CASE StartNode
      <4> DEFINE n == local.next[local.i]
      <4>1. /\ n \in Node /\ n \in Elements(obj.waiting)
            /\ obj' = [obj EXCEPT !.warming = Append(obj.warming, n),
                                  !.waiting = Without(obj.waiting, n)]
        BY <1>0, <1>4, <3>2 DEF StartNode, Panic, LocalVariables
      <4>2. obj.waiting \in Seq(Node) /\ Without(obj.waiting, n) \in Seq(Node)
        BY <1>0, <4>1, WithoutType DEF Objects
      <4>3. Elements(obj.waiting) \subseteq Elements(Without(obj.waiting, n)) \union {n}
        BY <4>1, <4>2, WithoutElements
      <4> HIDE DEF n
      <4> QED
        BY <4>1, <4>2, <4>3
    <3> QED
      BY <3>1, <3>2
  <2>2. /\ obj'.spec = obj.spec /\ obj'.version = obj.version /\ obj'.last = obj.last
        /\ obj'.preheated = obj.preheated /\ Tracked(obj) \subseteq Tracked(obj')
    BY <1>0, <2>1, MovedTracks
  <2> QED
    BY <1>1, <1>2, <2>2, QuietStep
<1> QED
  BY <1>3, <1>4


(* The steps that change the version, the selection or the completion.      *)
LEMMA VersionStepCopy ==
    ASSUME TypeOK, CopyInv, SetupClusterVersion
    PROVE  CopyInv'
<1>0. /\ obj \in Objects /\ local \in LocalVariables /\ desired \in Version
      /\ UNCHANGED <<api, cache, self, fresh>> /\ View' = View
  BY OnlyWorkerKeeps DEF TypeOK, SetupClusterVersion, View
<1>1. pc = "version" /\ local'.version = desired
  BY <1>0 DEF SetupClusterVersion, LocalVariables
<1>2. /\ obj'.spec = obj.spec /\ obj'.last = obj.last /\ obj'.preheated = obj.preheated
      /\ obj'.warming = obj.warming /\ obj'.waiting = obj.waiting /\ obj'.version = desired
      /\ \/ pc' = "nodes" /\ obj.version = desired /\ obj' = obj
         \/ pc' = "saveVersion"
  BY <1>0 DEF SetupClusterVersion, SetVersion, Objects, Goto
<1>3. NothingLost'
  BY <1>0, <1>1, <1>2 DEF CopyInv, NothingLost, Clearing, Tracked
<1>4. CompletionCopied'
  BY <1>0, <1>1, <1>2 DEF CopyInv, CompletionCopied, Completing
<1>5. VersionCopied'
  <2>1. fresh => obj.version = View[self].version /\ obj.version = api[self].version
    BY <1>1 DEF CopyInv, VersionCopied, Reading
  <2>2. CASE pc' = "nodes" /\ obj.version = desired /\ obj' = obj
    BY <1>0, <1>1, <1>2, <2>1, <2>2 DEF VersionCopied, Reading, Selecting, Pulling
  <2>3. CASE pc' = "saveVersion"
    BY <1>0, <1>1, <1>2, <2>3 DEF VersionCopied, Reading, Selecting, Pulling
  <2> QED
    BY <1>2, <2>2, <2>3
<1> QED
  BY <1>3, <1>4, <1>5 DEF CopyInv

LEMMA DetermineCopy ==
    ASSUME TypeOK, CopyInv, DetermineNodes
    PROVE  CopyInv'
<1>0. /\ obj \in Objects /\ local \in LocalVariables /\ nodes \in Clusters
      /\ UNCHANGED <<api, cache, self, fresh>> /\ pc = "nodes"
  BY OnlyWorkerKeeps DEF TypeOK, DetermineNodes
<1>1. PICK d \in Determinations(nodes, obj.spec) :
        /\ local' = [local EXCEPT !.targets = d.targeted, !.primers = d.primers]
        /\ \/ /\ obj' = NoNodes(obj)
              /\ Goto("saveNoNodes")
           \/ SetPrimerState([obj EXCEPT !.selected = d.targeted], d.primers)
  BY <1>0 DEF DetermineNodes
<1> DEFINE o == [obj EXCEPT !.selected = d.targeted]
<1>2. WorkerOnly
  BY <1>0, <1>1 DEF WorkerOnly, LocalVariables
<1>3. CASE obj' = NoNodes(obj) /\ Goto("saveNoNodes")
  <2>1. pc' = "saveNoNodes"
    BY <1>3 DEF Goto
  <2>2. obj'.preheated = {} /\ obj'.selected = <<>> /\ obj'.last = obj.last
    BY <1>0, <1>3, ClearedType
  <2>3. fresh => obj.last = api[self].last
    BY <1>0 DEF CopyInv, CompletionCopied
  <2>4. NothingLost'
    BY <2>1, <2>2 DEF NothingLost, Clearing
  <2>5. CompletionCopied'
    BY <1>0, <2>1, <2>2, <2>3 DEF CompletionCopied, Completing
  <2>6. VersionCopied'
    BY <2>1 DEF VersionCopied, Reading, Selecting, Pulling, Versioned
  <2> QED
    BY <2>4, <2>5, <2>6 DEF CopyInv
<1>4. CASE SetPrimerState(o, d.primers)
  <2>1. /\ o \in Objects /\ o.spec = obj.spec /\ o.version = obj.version /\ o.last = obj.last
        /\ o.preheated = obj.preheated /\ o.warming = obj.warming /\ o.waiting = obj.waiting
    <3>1. d.targeted \in Seq(Node)
      BY <1>0, SpecsAssumption, DeterminationsType DEF Objects
    <3> QED
      BY <1>0, <3>1 DEF Objects
  <2>2. Within(Selecting)
    <3>1. pc' \in {"savePrimerState", "completion"}
      BY <1>4 DEF SetPrimerState, Goto
    <3> QED
      BY <1>0, <3>1 DEF Within, Selecting
  <2>3. Same(obj', o)
    <3> HIDE DEF o
    <3>1. /\ Same(o, o) /\ Same(SetCondition(o, "Primer", "PrimingSkipped"), o)
          /\ Same(SetCondition(o, "Primer", "PrimingCompleted"), o)
      BY <2>1, SetConditionSame DEF ConditionTypes, Reasons, Same
    <3> QED
      BY <1>4, <3>1 DEF SetPrimerState
  <2>4. /\ obj'.spec = obj.spec /\ obj'.version = obj.version /\ obj'.last = obj.last
        /\ obj'.preheated = obj.preheated /\ Tracked(obj) = Tracked(obj')
    <3> HIDE DEF o
    <3> QED
      BY <2>1, <2>3 DEF Same, Tracked
  <2> QED
    BY <1>2, <2>2, <2>4, QuietStep
<1> QED
  BY <1>1, <1>3, <1>4

(* Reconcile returns, or its goroutine is gone.                             *)
LEMMA ReturnCopy ==
    ASSUME Return
    PROVE  CopyInv'
<1>1. pc' = "idle" /\ fresh' = FALSE
  BY DEF Return
<1> QED
  BY <1>1 DEF CopyInv, NothingLost, CompletionCopied, VersionCopied, Clearing, Completing,
     Reading, Selecting, Pulling, Versioned

LEMMA CompletionStepsCopy ==
    ASSUME TypeOK, CopyInv, CheckAllDone \/ RecordCompletion
    PROVE  CopyInv'
<1>0. obj \in Objects
  BY DEF TypeOK
<1>1. CASE Return
  BY <1>1, ReturnCopy
<1>2. CASE CheckAllDone /\ ~Return
  <2>1. /\ pc = "final" /\ pc' = "saveNotRunning" /\ AllDone(obj)
        /\ obj' = SetCondition(obj, "Running", "ReconciliationCompleted")
        /\ UNCHANGED <<self, fresh, local, api, cache>>
    BY <1>2 DEF CheckAllDone, Goto, objects
  <2>2. Same(obj', obj)
    BY <1>0, <2>1, SetConditionSame DEF ConditionTypes, Reasons
  <2>3. NothingLost'
    BY <2>1, <2>2, SameTracked DEF CopyInv, NothingLost, Clearing, Same, Tracked
  <2>4. CompletionCopied'
    BY <2>1, <2>2 DEF CopyInv, CompletionCopied, Completing, Same, AllDone, AllPreheated
  <2>5. VersionCopied'
    BY <2>1 DEF VersionCopied, Reading, Selecting, Pulling, Versioned
  <2> QED
    BY <2>3, <2>4, <2>5 DEF CopyInv
<1>3. CASE RecordCompletion
  <2>1. /\ pc = "record" /\ pc' = "saveLast" /\ obj' = [obj EXCEPT !.last = obj.version]
        /\ UNCHANGED <<self, fresh, local, api, cache>>
    BY <1>3, OnlyWorkerKeeps DEF RecordCompletion, Goto
  <2>2. /\ obj'.spec = obj.spec /\ obj'.version = obj.version /\ obj'.last = obj.version
        /\ obj'.selected = obj.selected /\ obj'.preheated = obj.preheated
        /\ obj'.warming = obj.warming /\ obj'.waiting = obj.waiting
    BY <1>0, <2>1 DEF Objects
  <2>3. NothingLost'
    BY <2>1, <2>2 DEF CopyInv, NothingLost, Clearing, Tracked
  <2>4. CompletionCopied'
    BY <2>1, <2>2 DEF CopyInv, CompletionCopied, Completing, AllPreheated
  <2>5. VersionCopied'
    BY <2>1 DEF VersionCopied, Reading, Selecting, Pulling, Versioned
  <2> QED
    BY <2>3, <2>4, <2>5 DEF CopyInv
<1> QED
  BY <1>1, <1>2, <1>3 DEF CheckAllDone

--------------------------------------------------------------------------------
(***************************************************************************)
(* Reading from and writing to the API server.                             *)
(***************************************************************************)
LEMMA BeginCopy ==
    ASSUME TypeOK, CopyInv, NEW u \in UA, Begin(u)
    PROVE  CopyInv'
<1>0. /\ self' = u /\ fresh' = (View[u] = api[u]) /\ UNCHANGED <<api, cache>>
      /\ View[u] \in Objects /\ View' = View
  BY ViewType DEF Begin, objects, View
<1>1. CASE pc' = "saveDisabled" /\ obj' = Disable(View[u])
  <2>1. obj'.preheated = {} /\ obj'.selected = <<>> /\ obj'.last = View[u].last
    BY <1>0, <1>1, ClearedType
  <2>2. NothingLost'
    BY <1>1, <2>1 DEF NothingLost, Clearing
  <2>3. CompletionCopied'
    BY <1>0, <1>1, <2>1 DEF CompletionCopied, Completing
  <2>4. VersionCopied'
    BY <1>1 DEF VersionCopied, Reading, Selecting, Pulling, Versioned
  <2> QED
    BY <2>2, <2>3, <2>4 DEF CopyInv
<1>2. CASE pc' = "infrastructure" /\ obj' = View[u]
  <2>1. NothingLost'
    BY <1>0, <1>2 DEF NothingLost, Clearing, Tracked
  <2>2. CompletionCopied'
    BY <1>0, <1>2 DEF CompletionCopied, Completing
  <2>3. VersionCopied'
    BY <1>0, <1>2 DEF VersionCopied, Reading, Selecting, Pulling, Versioned
  <2> QED
    BY <2>1, <2>2, <2>3 DEF CopyInv
<1> QED
  BY <1>1, <1>2 DEF Begin, Goto

LEMMA RefetchCopy ==
    ASSUME TypeOK, CopyInv, Refetch
    PROVE  CopyInv'
<1>0. /\ obj' = View[self] /\ fresh' = (View[self] = api[self])
      /\ UNCHANGED <<api, cache, self, local>> /\ View' = View
  BY DEF Refetch, objects, View
<1>1. \/ pc = "refetchInfrastructure" /\ pc' = "version"
      \/ pc = "refetchVersion" /\ pc' = "nodes"
      \/ pc = "refetchSelected" /\ pc' = "setup"
  BY DEF Refetch, Refetches, Goto
<1>2. NothingLost'
  BY <1>0, <1>1 DEF NothingLost, Clearing, Tracked
<1>3. CompletionCopied'
  BY <1>0, <1>1 DEF CompletionCopied, Completing
<1>4. VersionCopied'
  <2>1. CASE pc = "refetchInfrastructure" /\ pc' = "version"
    BY <1>0, <2>1 DEF VersionCopied, Reading, Selecting, Pulling, Versioned
  <2>2. CASE pc = "refetchVersion" /\ pc' = "nodes"
    <3>1. api[self].version = local.version /\ local.version \in Version
      BY <2>2 DEF CopyInv, VersionCopied, Versioned
    <3> QED
      BY <1>0, <2>2, <3>1 DEF VersionCopied, Reading, Selecting, Pulling, Versioned
  <2>3. CASE pc = "refetchSelected" /\ pc' = "setup"
    <3>1. View[self].version = local.version /\ local.version \in Version
      BY <2>3 DEF CopyInv, VersionCopied, Versioned
    <3> QED
      BY <1>0, <2>3, <3>1 DEF VersionCopied, Reading, Selecting, Pulling, Versioned
  <2> QED
    BY <1>1, <2>1, <2>2, <2>3
<1> QED
  BY <1>2, <1>3, <1>4 DEF CopyInv


(* Where an update leads, by the part of the reconcile it is in.            *)
Leads(step, next) ==
    /\ next \notin Clearing \union {"saveNotRunning", "saveLast", "saveVersion"} \union Reading
    /\ next \in Selecting => step \in Selecting
    /\ next \in Pulling => step \in Pulling

LEMMA SavesLead ==
    ASSUME NEW step \in DOMAIN Saves
    PROVE  /\ Leads(step, Saves[step].accepted)
           /\ Saves[step].accepted = "record" => step = "saveNotRunning"
           /\ Saves[step].accepted = "refetchVersion" => step = "saveVersion"
           /\ Saves[step].accepted = "refetchSelected" => step = "saveSelected"
           /\ Saves[step].accepted # "idle" => step \notin Clearing \union {"saveLast"}
           /\ Leads(step, Saves[step].refused)
           /\ Saves[step].refused \notin {"record", "refetchVersion", "refetchSelected"}
           /\ Saves[step].refused # "idle" => step \notin Clearing \union {"saveLast"}
BY DEF Leads, Saves, Checked, Ignored, Clearing, Reading, Selecting, Pulling

LEMMA AcceptedCopy ==
    ASSUME TypeOK, CopyInv, pc \in DOMAIN Saves, fresh, Saves[pc].accepted # "idle",
           pc' = Saves[pc].accepted, api' = [api EXCEPT ![self] = obj],
           UNCHANGED <<self, obj, fresh, local, cache>>
    PROVE  CopyInv'
<1>1. /\ Leads(pc, pc')
      /\ pc' = "record" => pc = "saveNotRunning"
      /\ pc' = "refetchVersion" => pc = "saveVersion"
      /\ pc' = "refetchSelected" => pc = "saveSelected"
      /\ pc \notin Clearing \union {"saveLast"}
  BY SavesLead
<1>2. api'[self] = obj
  BY DEF TypeOK
<1>3. NothingLost'
  BY <1>1, <1>2 DEF NothingLost, Leads, Tracked
<1>4. CompletionCopied'
  <2>1. pc' \notin {"saveLast", "saveNotRunning"}
    BY <1>1 DEF Leads
  <2>2. pc' = "record" => AllPreheated(obj)
    BY <1>1 DEF CopyInv, CompletionCopied, Completing
  <2> QED
    BY <1>2, <2>1, <2>2 DEF CompletionCopied, Completing, AllPreheated
<1>5. VersionCopied'
  <2>1. /\ pc' \notin Reading /\ pc' # "saveVersion"
        /\ pc' \in Selecting => pc \in Selecting
        /\ pc' \in Pulling => pc \in Pulling
    BY <1>1 DEF Leads
  <2>2. pc' = "refetchVersion" => api'[self].version = local.version
    BY <1>1, <1>2 DEF CopyInv, VersionCopied
  <2>3. pc \in Selecting =>
          obj.version = local.version /\ View[self].version = local.version
    BY DEF CopyInv, VersionCopied
  <2>4. pc \in Selecting =>
          api'[self].version = local.version /\ View'[self].version = local.version
    BY <1>2, <2>3 DEF View
  <2>5. pc' = "refetchSelected" => pc \in Selecting
    BY <1>1 DEF Selecting
  <2>6. pc' \in Versioned => pc \in Versioned
    BY <1>1, <2>1, <2>5 DEF Versioned
  <2>7. pc \in Versioned => local.version \in Version
    BY DEF CopyInv, VersionCopied
  <2>8. pc \in Pulling => obj.version = local.version
    BY DEF CopyInv, VersionCopied
  <2> QED
    BY <2>1, <2>2, <2>3, <2>4, <2>5, <2>6, <2>7, <2>8 DEF VersionCopied
<1> QED
  BY <1>3, <1>4, <1>5 DEF CopyInv

(* A refused update, or one whose answer is lost.                           *)
LEMMA RefusedCopy ==
    ASSUME TypeOK, CopyInv, pc \in DOMAIN Saves, Saves[pc].refused # "idle",
           pc' = Saves[pc].refused, UNCHANGED <<self, obj, local, cache>>,
           fresh' = FALSE \/ UNCHANGED <<api, fresh>>
    PROVE  CopyInv'
<1>1. /\ Leads(pc, pc')
      /\ pc' \notin {"record", "refetchVersion", "refetchSelected"}
      /\ pc \notin Clearing \union {"saveLast"}
  BY SavesLead
<1>2. fresh' => fresh /\ UNCHANGED <<api, View>>
  BY DEF View
<1>3. NothingLost'
  BY <1>1, <1>2 DEF CopyInv, NothingLost, Leads, Tracked
<1>4. CompletionCopied'
  <2>1. pc' \notin Completing
    BY <1>1 DEF Leads, Completing
  <2> QED
    BY <1>1, <1>2, <2>1 DEF CopyInv, CompletionCopied, Completing
<1>5. VersionCopied'
  <2>1. /\ pc' \notin Reading /\ pc' # "saveVersion"
        /\ pc' \in Selecting => pc \in Selecting
        /\ pc' \in Pulling => pc \in Pulling
    BY <1>1 DEF Leads
  <2>2. pc' \in Versioned => pc \in Versioned
    BY <1>1, <2>1 DEF Versioned
  <2> QED
    BY <1>1, <1>2, <2>1, <2>2 DEF CopyInv, VersionCopied
<1> QED
  BY <1>3, <1>4, <1>5 DEF CopyInv

LEMMA SaveCopy ==
    ASSUME TypeOK, CopyInv, Save \/ SaveFails
    PROVE  CopyInv'
<1>1. CASE Return
  BY <1>1, ReturnCopy
<1>2. CASE ~Return
  <2>1. /\ pc \in DOMAIN Saves /\ UNCHANGED cache
        /\ \/ /\ fresh /\ api' = [api EXCEPT ![self] = obj]
              /\ Continue(Saves[pc].accepted)
           \/ Continue(Saves[pc].refused) /\ UNCHANGED api
           \/ /\ Saves[pc].refused # "idle"
              /\ Goto(Saves[pc].refused) /\ fresh' = FALSE
              /\ UNCHANGED <<self, obj, local>>
    BY <1>2 DEF Save, SaveFails, Accepted
  <2>2. CASE /\ fresh /\ api' = [api EXCEPT ![self] = obj]
             /\ Continue(Saves[pc].accepted)
    BY <1>2, <2>1, <2>2, AcceptedCopy DEF Continue, Goto
  <2>3. CASE Continue(Saves[pc].refused) /\ UNCHANGED api
    BY <1>2, <2>1, <2>3, RefusedCopy DEF Continue, Goto
  <2>4. CASE /\ Saves[pc].refused # "idle"
             /\ Goto(Saves[pc].refused) /\ fresh' = FALSE
             /\ UNCHANGED <<self, obj, local>>
    BY <2>1, <2>4, RefusedCopy DEF Goto
  <2> QED
    BY <2>1, <2>2, <2>3, <2>4
<1> QED
  BY <1>1, <1>2

LEMMA InterruptedCopy ==
    ASSUME TypeOK, CopyInv, JobRefused \/ Recover \/ Crash \/ CallFails
    PROVE  CopyInv'
<1>1. CASE Return
  BY <1>1, ReturnCopy
<1>2. CASE ~Return
  <2> DEFINE broken == Failed(obj, {"Primer", "SetupComplete"})
             found == SetCondition(broken, "InfrastructureFound", "InfrastructureNotFound")
  <2>1. /\ UNCHANGED <<self, fresh, local, api, cache>>
        /\ pc \in {"infrastructure", "version", "nodes", "setup"}
        /\ pc' \in {"saveFailure", "failed"}
        /\ obj' = found \/ obj' = broken \/ obj' = obj
    BY <1>2 DEF JobRefused, Recover, Crash, CallFails, Goto, objects
  <2>2. Same(obj', obj)
    <3>1. broken \in Objects /\ Same(broken, obj) /\ Same(obj, obj)
      BY FailedType, FailedSame DEF TypeOK, Same
    <3>2. Same(found, broken)
      BY <3>1, SetConditionSame DEF ConditionTypes, Reasons
    <3>3. Same(found, obj)
      BY <3>1, <3>2, SameTransitive
    <3> HIDE DEF found, broken
    <3> QED
      BY <2>1, <3>1, <3>3
  <2>3. WorkerOnly /\ Ends
    BY <2>1 DEF WorkerOnly, Ends, Ending, Clearing
  <2> QED
    BY <2>2, <2>3, SameStep
<1> QED
  BY <1>1, <1>2

(* The jobs, the caches and the administrators.                             *)
LEMMA OthersCopy ==
    ASSUME TypeOK, CopyInv,
           \/ \E n \in Node, v \in Version \union {NoVersion} :
                 JobSucceeds(n, v) \/ JobFails(n, v) \/ JobExpires(n, v) \/ JobCollected(n, v)
           \/ SyncObjects \/ SyncJobs
           \/ \E u \in UA, spec \in Specs : EditSpec(u, spec)
           \/ \E n \in Node, state \in NodeState \union {Absent} : ChangeNode(n, state)
           \/ \E v \in Version : ChangeVersion(v)
           \/ UNCHANGED vars
    PROVE  CopyInv'
<1>1. CASE UNCHANGED <<api, cache, pc, self, obj, fresh, local>>
  BY <1>1 DEF CopyInv, NothingLost, CompletionCopied, VersionCopied, View, Tracked, AllPreheated
<1>2. CASE SyncObjects
  <2>1. CacheLag /\ cache' = api /\ UNCHANGED <<api, pc, self, obj, fresh, local>>
    BY <1>2 DEF SyncObjects, worker
  <2>2. View' = api
    BY <2>1 DEF View
  <2> QED
    BY <2>1, <2>2 DEF CopyInv, NothingLost, CompletionCopied, VersionCopied, Tracked, AllPreheated
<1>3. CASE \E u \in UA, spec \in Specs : EditSpec(u, spec)
  <2>1. PICK u \in UA, spec \in Specs :
          /\ api' = [api EXCEPT ![u].spec = spec]
          /\ fresh' = (fresh /\ self # u)
          /\ UNCHANGED <<cache, pc, self, obj, local>>
    BY <1>3 DEF EditSpec
  <2>2. \A w \in UA : api'[w].version = api[w].version
    BY <2>1 DEF TypeOK, Objects
  <2>3. fresh' => fresh /\ api'[self] = api[self]
    BY <2>1 DEF TypeOK
  <2>4. View'[self].version = View[self].version
    BY <2>1, <2>2 DEF View, TypeOK
  <2>5. NothingLost'
    BY <2>1, <2>3 DEF CopyInv, NothingLost, Tracked
  <2>6. CompletionCopied'
    BY <2>1, <2>3 DEF CopyInv, CompletionCopied, AllPreheated
  <2>7. VersionCopied'
    <3>1. self' = self /\ self \in UA
      BY <2>1 DEF TypeOK
    <3>2. api'[self].version = api[self].version
      BY <2>2, <3>1
    <3> QED
      BY <2>1, <2>3, <2>4, <3>1, <3>2 DEF CopyInv, VersionCopied
  <2> QED
    BY <2>5, <2>6, <2>7 DEF CopyInv
<1> QED
  BY <1>1, <1>2, <1>3 DEF JobSucceeds, JobFails, JobExpires, JobCollected, SyncJobs, ChangeNode,
     ChangeVersion, vars, objects, worker

LEMMA InitCopy == Init => CopyInv
<1> SUFFICES ASSUME Init PROVE CopyInv
  OBVIOUS
<1>1. pc = "idle" /\ fresh = FALSE
  BY DEF Init
<1> QED
  BY <1>1 DEF CopyInv, NothingLost, CompletionCopied, VersionCopied, Clearing, Completing,
     Reading, Selecting, Pulling, Versioned

LEMMA NextCopy ==
    ASSUME TypeOK, CopyInv, [Next]_vars
    PROVE  CopyInv'
<1>1. CASE \E u \in UA : Begin(u)
  BY <1>1, BeginCopy
<1>2. CASE Worker
  BY <1>2, SaveCopy, RefetchCopy, VersionStepCopy, DetermineCopy, ConditionStepsCopy,
     ListStepsCopy, StartsCopy, CompletionStepsCopy, InterruptedCopy DEF Worker
<1>3. CASE Environment
  BY <1>3, OthersCopy, InterruptedCopy, SaveCopy DEF Environment
<1>4. CASE UNCHANGED vars
  BY <1>4, OthersCopy
<1> QED
  BY <1>1, <1>2, <1>3, <1>4 DEF Next


LEMMA InvariantHolds == Spec => [](TypeOK /\ PulledInv /\ CopyInv)
<1>1. Init => TypeOK /\ PulledInv /\ CopyInv
  BY InitType, InitPulled, InitCopy
<1>2. TypeOK /\ PulledInv /\ CopyInv /\ [Next]_vars => (TypeOK /\ PulledInv /\ CopyInv)'
  BY NextType, NextPulled, NextCopy
<1> QED
  BY <1>1, <1>2, PTL DEF Spec

--------------------------------------------------------------------------------
(***************************************************************************)
(* What follows from it.                                                   *)
(***************************************************************************)
(* What the API server stores changes by an accepted update or an edit.     *)
LEMMA StatusChanges ==
    ASSUME [Next]_vars
    PROVE  \/ UNCHANGED api
           \/ /\ fresh /\ api' = [api EXCEPT ![self] = obj]
              /\ UNCHANGED <<jobs, pulled>>
           \/ /\ \E u \in UA, spec \in Specs : api' = [api EXCEPT ![u].spec = spec]
              /\ UNCHANGED <<jobs, pulled>>
<1>1. CASE \E u \in UA : Begin(u)
  BY <1>1 DEF Begin, objects
<1>2. CASE Save \/ SaveFails
  BY <1>2 DEF Save, SaveFails, Accepted, pulls
<1>3. CASE Worker /\ ~Save
  BY <1>3 DEF Worker, Refetch, CheckInfrastructure, SetupClusterVersion, DetermineNodes,
     CheckCompletion, SetupResources, FillWaiting, SkipPriming, PassPrimer, StartPrimer,
     EndPriming, ClosedGate, TakeAll, TakeBatch, PassNode, StartNode, EndSchedule, JobRefused,
     ListJobs, ScanJob, EndScan, CheckAllDone, RecordCompletion, ReportFailure, Recover,
     OnlyWorker, OnlyWorkerAndJobs, objects
<1>4. CASE \E u \in UA, spec \in Specs : EditSpec(u, spec)
  BY <1>4 DEF EditSpec, pulls
<1>5. CASE \/ \E n \in Node, v \in Version \union {NoVersion} :
                 JobSucceeds(n, v) \/ JobFails(n, v) \/ JobExpires(n, v) \/ JobCollected(n, v)
           \/ SyncObjects \/ SyncJobs \/ Crash \/ CallFails
           \/ \E n \in Node, state \in NodeState \union {Absent} : ChangeNode(n, state)
           \/ \E v \in Version : ChangeVersion(v)
  BY <1>5 DEF JobSucceeds, JobFails, JobExpires, JobCollected, SyncObjects, SyncJobs, Crash,
     CallFails, ChangeNode, ChangeVersion, objects
<1>6. CASE UNCHANGED vars
  BY <1>6 DEF vars
<1> QED
  BY <1>1, <1>2, <1>3, <1>4, <1>5, <1>6 DEF Next, Environment

(* A job is made by the two steps that start one, for the version of the    *)
(* reconcile, and where there is none.                                      *)
LEMMA LaunchStep ==
    ASSUME TypeOK, CopyInv, StartPrimer \/ StartNode
    PROVE  /\ local.version \in Version /\ UNCHANGED <<api, pulled>>
           /\ \E n \in Node : /\ jobs[n][local.version] = "none"
                              /\ jobs' = [jobs EXCEPT ![n][local.version] = "active"]
<1>0. local \in LocalVariables
  BY DEF TypeOK
<1>1. /\ UNCHANGED api /\ pc \in Pulling
      /\ \E n \in Node : CreatePullJob(n)
  <2>1. CASE StartPrimer
    BY <1>0, <2>1 DEF StartPrimer, OnlyWorkerAndJobs, objects, Pulling, LocalVariables
  <2>2. CASE StartNode
    BY <1>0, <2>2 DEF StartNode, OnlyWorkerAndJobs, objects, Pulling, LocalVariables
  <2> QED
    BY <2>1, <2>2
<1>2. obj.version = local.version /\ local.version \in Version
  BY <1>1 DEF CopyInv, VersionCopied, Versioned
<1> QED
  BY <1>1, <1>2 DEF CreatePullJob, PullJobSeen, PullJobRefused

(* How jobs change otherwise.                                               *)
LEMMA JobsChange ==
    ASSUME [Next]_vars
    PROVE  \/ UNCHANGED <<jobs, pulled>>
           \/ StartPrimer \/ StartNode
           \/ \E n \in Node, v \in Version \union {NoVersion} :
                 JobSucceeds(n, v) \/ JobFails(n, v) \/ JobExpires(n, v) \/ JobCollected(n, v)
<1>1. CASE \E u \in UA : Begin(u)
  BY <1>1 DEF Begin
<1>2. CASE Worker
  BY <1>2 DEF Worker, Save, Refetch, CheckInfrastructure, SetupClusterVersion, DetermineNodes,
     CheckCompletion, SetupResources, FillWaiting, SkipPriming, PassPrimer,
     EndPriming, ClosedGate, TakeAll, TakeBatch, PassNode, EndSchedule, JobRefused,
     ListJobs, ScanJob, EndScan, CheckAllDone, RecordCompletion, ReportFailure, Recover,
     OnlyWorker, pulls
<1>3. CASE Environment
  BY <1>3 DEF Environment, SyncObjects, SyncJobs, EditSpec, Crash, CallFails, SaveFails,
     ChangeNode, ChangeVersion, pulls
<1>4. CASE UNCHANGED vars
  BY <1>4 DEF vars
<1> QED
  BY <1>1, <1>2, <1>3, <1>4 DEF Next

(* Without batches no update takes a node out of the lists that hold it:    *)
(* an update made from a copy that lacks one is refused, and every step of  *)
(* lines 252-432 that takes a node from one list puts it into another.      *)
THEOREM NeverForgotten == Spec => NodesNeverForgotten
<1> DEFINE Kept == pc \notin {"saveDisabled", "saveNoNodes"} =>
              \A u \in UA : api[u].spec.parallelism = 0 =>
                  Tracked(api[u]) \subseteq Tracked(api'[u])
<1>1. ASSUME TypeOK, CopyInv, [Next]_vars PROVE Kept
  <2>1. CASE UNCHANGED api
    BY <2>1
  <2>2. CASE fresh /\ api' = [api EXCEPT ![self] = obj]
    BY <1>1, <2>2 DEF TypeOK, CopyInv, NothingLost, Clearing
  <2>3. CASE \E u \in UA, spec \in Specs : api' = [api EXCEPT ![u].spec = spec]
    <3>1. PICK u \in UA, spec \in Specs : api' = [api EXCEPT ![u].spec = spec]
      BY <2>3
    <3>2. \A w \in UA : /\ api'[w].waiting = api[w].waiting
                       /\ api'[w].warming = api[w].warming
                       /\ api'[w].preheated = api[w].preheated
      BY <1>1, <3>1 DEF TypeOK, Objects
    <3> QED
      BY <3>2 DEF Tracked
  <2> QED
    BY <1>1, <2>1, <2>2, <2>3, StatusChanges
<1>2. TypeOK /\ PulledInv /\ CopyInv /\ [Next]_vars => [Kept]_vars
  BY <1>1
<1> QED
  BY <1>2, InvariantHolds, PTL DEF Spec, NodesNeverForgotten

(* The version a job is named and labelled after is the one the reconcile   *)
(* has read and made the ConfigMap for, although the object that holds it   *)
(* is read from the cache twice in between (lines 136-140, 213-216).        *)
THEOREM JobsHaveReadVersion == Spec => JobsForReadVersion
<1> DEFINE Read == \A n \in Node, v \in Version \union {NoVersion} :
              (jobs[n][v] = "none" /\ jobs'[n][v] = "active") => v = local.version
<1>1. ASSUME TypeOK, CopyInv, [Next]_vars PROVE Read
  <2>1. CASE UNCHANGED jobs
    BY <2>1
  <2>2. CASE StartPrimer \/ StartNode
    <3>1. PICK n \in Node : jobs' = [jobs EXCEPT ![n][local.version] = "active"]
      BY <1>1, <2>2, LaunchStep
    <3>2. jobs \in Jobs
      BY <1>1 DEF TypeOK
    <3> QED
      BY <3>1, <3>2 DEF Jobs
  <2>3. CASE \E n \in Node, v \in Version \union {NoVersion} :
               JobSucceeds(n, v) \/ JobFails(n, v) \/ JobExpires(n, v) \/ JobCollected(n, v)
    <3>1. PICK n \in Node, v \in Version \union {NoVersion},
               state \in {"succeeded", "failed", "none"} :
            jobs' = [jobs EXCEPT ![n][v] = state]
      BY <2>3, Zenon DEF JobSucceeds, JobFails, JobExpires, JobCollected
    <3> QED
      BY <1>1, <3>1 DEF TypeOK, Jobs
  <2> QED
    BY <1>1, <2>1, <2>2, <2>3, JobsChange
<1>2. TypeOK /\ PulledInv /\ CopyInv /\ [Next]_vars => [Read]_vars
  BY <1>1
<1> QED
  BY <1>2, InvariantHolds, PTL DEF Spec, JobsForReadVersion


--------------------------------------------------------------------------------
(***************************************************************************)
(* The Reconciler implements Rollout.                                      *)
(***************************************************************************)
Statuses == [u \in UA |-> Reported(api[u])]

(* No job is named after the empty version of a new object.                 *)
JobsVersioned == \A n \in Node : jobs[n][NoVersion] = "none"

RefinementInv == TypeOK /\ PulledInv /\ CopyInv /\ JobsVersioned

LEMMA NextVersioned ==
    ASSUME TypeOK, CopyInv, JobsVersioned, [Next]_vars
    PROVE  JobsVersioned'
<1>0. jobs \in Jobs
  BY DEF TypeOK
<1>1. CASE UNCHANGED jobs
  BY <1>1 DEF JobsVersioned
<1>2. CASE StartPrimer \/ StartNode
  <2>1. PICK n \in Node : jobs' = [jobs EXCEPT ![n][local.version] = "active"]
    BY <1>2, LaunchStep
  <2>2. local.version # NoVersion
    BY <1>2, LaunchStep, VersionAssumption
  <2> QED
    BY <1>0, <2>1, <2>2 DEF JobsVersioned, Jobs
<1>3. CASE \E n \in Node, v \in Version \union {NoVersion} :
             JobSucceeds(n, v) \/ JobFails(n, v) \/ JobExpires(n, v) \/ JobCollected(n, v)
  <2>1. PICK n \in Node, v \in Version \union {NoVersion},
             state \in {"succeeded", "failed", "none"} :
          /\ jobs[n][v] # "none" /\ jobs' = [jobs EXCEPT ![n][v] = state]
    BY <1>3, Zenon DEF JobSucceeds, Pulls, JobFails, JobExpires, JobCollected, Ended
  <2>2. v # NoVersion
    BY <2>1 DEF JobsVersioned
  <2> QED
    BY <1>0, <2>1, <2>2 DEF JobsVersioned, Jobs
<1> QED
  BY <1>1, <1>2, <1>3, JobsChange

LEMMA InitRefines == Init => Abstract!Init /\ JobsVersioned
<1> SUFFICES ASSUME Init PROVE Abstract!Init /\ JobsVersioned
  OBVIOUS
<1>1. \A u \in UA : Reported(api[u]) = Abstract!NewStatus
  <2>1. \A spec \in Specs : Reported(NewObject(spec)) = Abstract!NewStatus
    BY DEF Reported, NewObject, Abstract!NewStatus
  <2>2. \A u \in UA : \E spec \in Specs : api[u] = NewObject(spec)
    BY DEF Init
  <2> QED
    BY <2>1, <2>2
<1> QED
  BY <1>1 DEF Init, Abstract!Init, JobsVersioned

(* A step of the jobs.                                                      *)
LEMMA JobStepRefines ==
    ASSUME RefinementInv, NEW n \in Node, NEW v \in Version \union {NoVersion},
           JobSucceeds(n, v) \/ JobFails(n, v) \/ JobExpires(n, v) \/ JobCollected(n, v)
    PROVE  Abstract!Next
<1>1. v \in Version
  <2>1. jobs[n][v] # "none"
    BY DEF JobSucceeds, Pulls, JobFails, JobExpires, JobCollected, Ended
  <2> QED
    BY <2>1 DEF RefinementInv, JobsVersioned
<1>2. Statuses' = Statuses
  BY DEF Statuses, JobSucceeds, JobFails, JobExpires, JobCollected, objects
<1>3. CASE JobSucceeds(n, v)
  <2>1. Abstract!Succeed(n, v)
    BY <1>2, <1>3 DEF JobSucceeds, Pulls, Abstract!Succeed, Abstract!Change, Statuses
  <2> QED
    BY <1>1, <2>1 DEF Abstract!Next
<1>4. CASE JobFails(n, v)
  <2>1. Abstract!Fail(n, v)
    BY <1>2, <1>4 DEF JobFails, Abstract!Fail, Abstract!Change, Statuses
  <2> QED
    BY <1>1, <2>1 DEF Abstract!Next
<1>5. CASE JobExpires(n, v) \/ JobCollected(n, v)
  <2>1. Abstract!Expire(n, v)
    BY <1>2, <1>5 DEF JobExpires, JobCollected, Ended, Abstract!Expire, Abstract!Change, Statuses
  <2> QED
    BY <1>1, <2>1 DEF Abstract!Next
<1> QED
  BY <1>3, <1>4, <1>5

(* An update of the API server with a fresh copy.                           *)
LEMMA UpdateRefines ==
    ASSUME RefinementInv, fresh, api' = [api EXCEPT ![self] = obj], UNCHANGED <<jobs, pulled>>
    PROVE  Abstract!Next
<1>0. PICK u \in UA : u = self
  BY DEF RefinementInv, TypeOK
<1> DEFINE old == Reported(api[u])
           new == Reported(obj)
<1>1. Statuses[u] = old /\ Statuses'[u] = new
  BY <1>0 DEF RefinementInv, TypeOK, Statuses
<1>2. Abstract!Updates(u)
  <2>1. Statuses' = [Statuses EXCEPT ![u] = Statuses'[u]]
    BY <1>0 DEF RefinementInv, TypeOK, Statuses
  <2> QED
    BY <2>1 DEF Abstract!Updates, Statuses
<1> HIDE DEF old, new
<1>3. CASE pc \in Clearing
  <2>1. obj.preheated = {} /\ obj.selected = <<>> /\ obj.last = api[self].last
    BY <1>3 DEF RefinementInv, CopyInv, NothingLost, CompletionCopied, Clearing
  <2>2. new.preheated = {} /\ new.selected = <<>> /\ new.last = old.last
    BY <1>0, <2>1 DEF old, new, Reported
  <2>3. Abstract!GiveUp(u)
    BY <1>1, <1>2, <2>2 DEF Abstract!GiveUp, Statuses
  <2> QED
    BY <2>3 DEF Abstract!Next
<1>4. CASE pc = "saveLast"
  <2>1. /\ obj.preheated = api[self].preheated /\ obj.selected = api[self].selected
        /\ obj.version = api[self].version /\ obj.last = obj.version
        /\ Len(obj.selected) = Cardinality(obj.preheated)
    BY <1>4 DEF RefinementInv, CopyInv, CompletionCopied, Completing, AllPreheated
  <2>2. new = [old EXCEPT !.last = old.target] /\ Len(old.selected) = Cardinality(old.preheated)
    BY <1>0, <2>1 DEF old, new, Reported
  <2>3. Len(old.selected) = Abstract!Cardinality(old.preheated)
    BY <2>2 DEF Cardinality, Abstract!Cardinality
  <2>4. Abstract!Complete(u)
    BY <1>1, <1>2, <2>2, <2>3 DEF Abstract!Complete, Statuses
  <2> QED
    BY <2>4 DEF Abstract!Next
<1>5. CASE pc \notin Clearing /\ pc # "saveLast"
  <2>1. api[self].preheated \subseteq obj.preheated /\ obj.last = api[self].last
    BY <1>5 DEF RefinementInv, CopyInv, NothingLost, CompletionCopied
  <2>2. \A n \in obj.preheated : \E pull \in pulled : pull[1] = n
    BY DEF RefinementInv, PulledInv, PulledOnce
  <2>3. /\ old.preheated \subseteq new.preheated /\ new.last = old.last
        /\ \A n \in new.preheated : \E pull \in pulled : pull[1] = n
    BY <1>0, <2>1, <2>2 DEF old, new, Reported
  <2>4. Abstract!Report(u)
    BY <1>1, <1>2, <2>3 DEF Abstract!Report, Statuses
  <2> QED
    BY <2>4 DEF Abstract!Next
<1> QED
  BY <1>3, <1>4, <1>5

LEMMA NextRefines ==
    ASSUME RefinementInv, [Next]_vars
    PROVE  Abstract!Next \/ UNCHANGED Abstract!vars
<1>1. CASE UNCHANGED <<api, jobs, pulled>>
  BY <1>1 DEF Abstract!vars
<1>2. CASE StartPrimer \/ StartNode
  <2>1. Statuses' = Statuses /\ UNCHANGED pulled
    BY <1>2, LaunchStep DEF RefinementInv, Statuses
  <2>2. PICK n \in Node : Abstract!Launch(n, local.version)
    BY <1>2, <2>1, LaunchStep DEF RefinementInv, Abstract!Launch, Abstract!Change, Statuses
  <2>3. local.version \in Version
    BY <1>2, LaunchStep DEF RefinementInv
  <2> QED
    BY <2>2, <2>3 DEF Abstract!Next
<1>3. CASE \E n \in Node, v \in Version \union {NoVersion} :
             JobSucceeds(n, v) \/ JobFails(n, v) \/ JobExpires(n, v) \/ JobCollected(n, v)
  BY <1>3, JobStepRefines
<1>4. CASE fresh /\ api' = [api EXCEPT ![self] = obj] /\ UNCHANGED <<jobs, pulled>>
  BY <1>4, UpdateRefines
<1>5. CASE /\ \E u \in UA, spec \in Specs : api' = [api EXCEPT ![u].spec = spec]
           /\ UNCHANGED <<jobs, pulled>>
  <2>1. \A u \in UA : Reported(api'[u]) = Reported(api[u])
    <3>1. PICK u \in UA, spec \in Specs : api' = [api EXCEPT ![u].spec = spec]
      BY <1>5
    <3> QED
      BY <3>1 DEF RefinementInv, TypeOK, Objects, Reported
  <2>2. Statuses' = Statuses
    BY <2>1 DEF Statuses
  <2> QED
    BY <1>5, <2>2 DEF Abstract!vars, Statuses
<1> QED
  BY <1>1, <1>2, <1>3, <1>4, <1>5, StatusChanges, JobsChange

(* The worker with its copies, caches and failing calls does to jobs and    *)
(* statuses what Rollout allows.  This rests on the resource version alone: *)
(* a copy that is still accepted lacks nothing the API server has, holds    *)
(* the version this reconcile read, and is complete as the API server's.    *)
THEOREM Implementation == Spec => ImplementsRollout
<1>1. Init => RefinementInv /\ Abstract!Init
  BY InitType, InitPulled, InitCopy, InitRefines DEF RefinementInv
<1>2. RefinementInv /\ [Next]_vars => RefinementInv'
  BY NextType, NextPulled, NextCopy, NextVersioned DEF RefinementInv
<1>3. RefinementInv /\ [Next]_vars => [Abstract!Next]_Abstract!vars
  BY NextRefines
<1> QED
  BY <1>1, <1>2, <1>3, PTL DEF Spec, ImplementsRollout, Abstract!Spec
================================================================================
