--------------------------- MODULE ReconcilerProofs ---------------------------
(* Type correctness of the Reconciler, and that no node is reported as      *)
(* preheated without a job that succeeded: for every set of objects, nodes, *)
(* versions and specs, and every number and kind of disruptions.            *)
EXTENDS Reconciler, NodeDeterminationProofs

--------------------------------------------------------------------------------
(* Lists of nodes stay lists of nodes.                                      *)
LEMMA WithoutType ==
    ASSUME NEW S, NEW list \in Seq(S), NEW n
    PROVE  Without(list, n) \in Seq(S)
<1>1. CASE list = <<>>
  <2>1. Len(list) - 1 = -1 /\ 1 .. -1 = {}
    BY <1>1
  <2>2. Without(list, n) = << >>
    BY <2>1 DEF Without
  <2> QED
    BY <2>2
<1>2. CASE list # <<>>
  <2>1. Len(list) - 1 \in Nat
    BY <1>2
  <2>2. Without(list, n) \in [1 .. Len(list) - 1 -> S]
    BY <2>1 DEF Without
  <2> QED
    BY <2>1, <2>2
<1> QED
  BY <1>1, <1>2

LEMMA OverwrittenType ==
    ASSUME NEW S, NEW slice \in Seq(S), NEW list \in Seq(S)
    PROVE  Overwritten(slice, list) \in Seq(S)
<1>1. Overwritten(slice, list) \in [1 .. Len(slice) -> S]
  BY DEF Overwritten
<1> QED
  BY <1>1

LEMMA InOrderOfType ==
    ASSUME NEW list, NEW S \in SUBSET Node, NEW part \in InOrderOf(list, S)
    PROVE  part \in Seq(Node)
<1>1. part \in Seq(S)
  BY NodeAssumption, FS_Subset, ListingsType DEF InOrderOf
<1> QED
  BY <1>1

(* What Reconcile does to the object in memory keeps it an object.          *)
LEMMA SetConditionType ==
    ASSUME NEW o \in Objects, NEW type \in ConditionTypes, NEW reason \in Reasons
    PROVE  SetCondition(o, type, reason) \in Objects
BY DEF SetCondition, Objects

LEMMA DeleteConditionsType ==
    ASSUME NEW o \in Objects, NEW types
    PROVE  DeleteConditions(o, types) \in Objects
BY DEF DeleteConditions, Objects, Reasons

LEMMA FailedType ==
    ASSUME NEW o \in Objects, NEW types
    PROVE  Failed(o, types) \in Objects
BY SetConditionType, DeleteConditionsType DEF Failed, ConditionTypes, Reasons

LEMMA ListsType ==
    ASSUME NEW o \in Objects, NEW selected \in Seq(Node), NEW preheated \in SUBSET Node,
           NEW warming \in Seq(Node), NEW waiting \in Seq(Node)
    PROVE  /\ [o EXCEPT !.selected = selected] \in Objects
           /\ [o EXCEPT !.waiting = waiting] \in Objects
           /\ [o EXCEPT !.warming = warming, !.waiting = waiting] \in Objects
           /\ [o EXCEPT !.waiting = waiting, !.warming = warming] \in Objects
           /\ [o EXCEPT !.preheated = preheated, !.warming = warming] \in Objects
           /\ [o EXCEPT !.selected = selected, !.preheated = preheated,
                        !.warming = warming, !.waiting = waiting] \in Objects
BY DEF Objects

LEMMA ClearListsType ==
    ASSUME NEW o \in Objects
    PROVE  ClearLists(o) \in Objects
<1>1. <<>> \in Seq(Node) /\ {} \in SUBSET Node
  OBVIOUS
<1> QED
  BY <1>1, ListsType, Zenon DEF ClearLists

LEMMA NewObjectType ==
    ASSUME NEW spec \in Specs
    PROVE  NewObject(spec) \in Objects
BY DEF NewObject, Objects, ConditionTypes, Reasons

LEMMA NoLocalsType == NoLocals \in LocalVariables
BY DEF NoLocals, LocalVariables

(* What Reconcile does to its local variables keeps their types.            *)
LEMMA NextIndexType ==
    ASSUME NEW l \in LocalVariables, NEW k \in Nat \ {0}
    PROVE  [l EXCEPT !.i = k] \in LocalVariables
BY DEF LocalVariables

LEMMA RunningType ==
    ASSUME NEW l \in LocalVariables, NEW k \in Nat \ {0}, NEW b \in BOOLEAN
    PROVE  [l EXCEPT !.i = k, !.stillRunning = b] \in LocalVariables
BY DEF LocalVariables

LEMMA ScheduledType ==
    ASSUME NEW l \in LocalVariables, NEW k \in Nat \ {0}, NEW a \in BOOLEAN, NEW b \in BOOLEAN
    PROVE  [l EXCEPT !.i = k, !.scheduled = a, !.stillRunning = b] \in LocalVariables
BY DEF LocalVariables

LEMMA TakenType ==
    ASSUME NEW l \in LocalVariables, NEW next \in Seq(Node), NEW k \in Nat \ {0}
    PROVE  [l EXCEPT !.next = next, !.i = k] \in LocalVariables
BY DEF LocalVariables

LEMMA NextNodeType ==
    ASSUME NEW l \in LocalVariables, NEW k \in Nat \ {0}, NEW next \in Seq(Node)
    PROVE  [l EXCEPT !.i = k, !.next = next] \in LocalVariables
BY DEF LocalVariables

(* The steps that follow an update, and the records that name them.         *)
LEMMA SavesType ==
    ASSUME NEW step \in DOMAIN Saves
    PROVE  Saves[step].accepted \in Steps /\ Saves[step].refused \in Steps
BY DEF Saves, Steps, Checked, Ignored, Refetches

LEMMA RefetchesType ==
    ASSUME NEW step \in DOMAIN Refetches
    PROVE  Refetches[step] \in Steps
BY DEF Refetches, Steps

LEMMA StepNames ==
    /\ {"idle", "infrastructure", "version", "nodes", "completion", "setup", "waiting",
        "primers", "gate", "schedule", "list", "scan", "final", "record", "failed",
        "panicked"} \subseteq Steps
    /\ {"saveDisabled", "saveInfrastructure", "saveVersion", "saveFailure", "saveNoNodes",
        "savePrimerState", "saveCompletion", "saveSelected", "saveSetup", "saveWaiting",
        "savePrimer", "savePriming", "saveScheduled", "saveRunning", "saveReset",
        "saveScan", "saveNotRunning", "saveLast"} \subseteq Steps
BY DEF Steps, Saves

LEMMA DisableType ==
    ASSUME NEW o \in Objects
    PROVE  Disable(o) \in Objects /\ NoNodes(o) \in Objects
<1>1. ClearLists(o) \in Objects
  BY ClearListsType
<1>2. /\ SetCondition(ClearLists(o), "Running", "Disabled") \in Objects
      /\ SetCondition(ClearLists(o), "Running", "NoNodesSelected") \in Objects
  BY <1>1, SetConditionType DEF ConditionTypes, Reasons
<1> QED
  BY <1>2, DeleteConditionsType DEF Disable, NoNodes

LEMMA SetVersionType ==
    ASSUME NEW o \in Objects, NEW v \in Version \union {NoVersion}
    PROVE  SetVersion(o, v) \in Objects
BY DEF SetVersion, Objects

LEMMA AfterPrimingType ==
    ASSUME NEW o \in Objects, NEW scheduled \in BOOLEAN, NEW stillRunning \in BOOLEAN
    PROVE  AfterPriming(o, scheduled, stillRunning) \in Objects
<1> DEFINE inProgress == SetCondition(o, "Primer", "PrimingInProgress")
<1>1. inProgress \in Objects /\ SetCondition(o, "Primer", "PrimingCompleted") \in Objects
  BY SetConditionType DEF ConditionTypes, Reasons
<1>2. /\ SetCondition(inProgress, "Running", "JobsScheduled") \in Objects
      /\ SetCondition(o, "Running", "JobsScheduled") \in Objects
  BY <1>1, SetConditionType DEF ConditionTypes, Reasons
<1> QED
  BY <1>1, <1>2 DEF AfterPriming

LEMMA PreheatType ==
    ASSUME NEW o \in Objects, NEW n \in Node
    PROVE  Preheat(o, n) \in Objects
<1> DEFINE warming == IF n \in Elements(o.warming) THEN Without(o.warming, n) ELSE o.warming
<1>1. o.warming \in Seq(Node) /\ o.preheated \in SUBSET Node
  BY DEF Objects
<1>2. warming \in Seq(Node)
  BY <1>1, WithoutType
<1>3. o.preheated \union {n} \in SUBSET Node
  BY <1>1
<1>4. [o EXCEPT !.preheated = o.preheated \union {n}, !.warming = warming] \in Objects
  BY <1>2, <1>3, ListsType
<1> QED
  BY <1>4, Zenon DEF Preheat

LEMMA RescheduledType ==
    ASSUME NEW o \in Objects
    PROVE  Rescheduled(o) \in Objects
<1>1. o.warming \in Seq(Node) /\ o.waiting \in Seq(Node)
  BY DEF Objects
<1>2. o.waiting \o o.warming \in Seq(Node) /\ <<>> \in Seq(Node)
  BY <1>1
<1>3. [o EXCEPT !.waiting = o.waiting \o o.warming, !.warming = <<>>] \in Objects
  BY <1>2, ListsType, Zenon
<1> QED
  BY <1>3, Zenon DEF Rescheduled

LEMMA AfterPrimerType ==
    ASSUME NEW waiting \in Seq(Node), NEW n \in Node
    PROVE  AfterPrimer(waiting, n) \in Seq(Node)
BY WithoutType DEF AfterPrimer

LEMMA NextAfterType ==
    ASSUME NEW next \in Seq(Node), NEW waiting \in Seq(Node), NEW n
    PROVE  NextAfter(next, waiting, n) \in Seq(Node)
BY WithoutType, OverwrittenType DEF NextAfter

--------------------------------------------------------------------------------
(***************************************************************************)
(* Type correctness.                                                       *)
(***************************************************************************)

(* A step of the worker that calls nobody.                                  *)
LEMMA OnlyWorkerType ==
    ASSUME TypeOK, OnlyWorker, obj' \in Objects, pc' \in Steps, local' \in LocalVariables
    PROVE  TypeOK'
BY DEF TypeOK, OnlyWorker, objects, pulls, cluster

(* Reconcile returns.                                                       *)
LEMMA ReturnType ==
    ASSUME TypeOK, Return
    PROVE  pc' \in Steps /\ self' \in UA /\ obj' \in Objects /\ fresh' \in BOOLEAN
             /\ local' \in LocalVariables
<1>1. Blank \in Objects
  <2>1. api[self].spec \in Specs
    BY DEF TypeOK, Objects
  <2>2. (CHOOSE spec \in Specs : TRUE) \in Specs
    BY <2>1
  <2> QED
    BY <2>2, NewObjectType DEF Blank
<1> QED
  BY <1>1, NoLocalsType, StepNames DEF Return, TypeOK

LEMMA ContinueType ==
    ASSUME TypeOK, NEW step \in Steps, Continue(step)
    PROVE  pc' \in Steps /\ self' \in UA /\ obj' \in Objects /\ fresh' \in BOOLEAN
             /\ local' \in LocalVariables
<1>1. CASE step = "idle"
  BY <1>1, ReturnType DEF Continue
<1>2. CASE step # "idle"
  BY <1>2 DEF Continue, Goto, TypeOK
<1> QED
  BY <1>1, <1>2

(* The views are typed as what they show.                                   *)
LEMMA ViewType ==
    ASSUME TypeOK
    PROVE  View \in [UA -> Objects]
BY DEF TypeOK, View

LEMMA InitType == Init => TypeOK
<1> SUFFICES ASSUME Init PROVE TypeOK
  OBVIOUS
<1>1. api \in [UA -> Objects] /\ cache \in [UA -> Objects]
  BY NewObjectType DEF Init
<1>2. jobs \in Jobs /\ jobCache \in Jobs
  BY DEF Init, Jobs, JobStates
<1>3. nodes \in Clusters /\ desired \in Version /\ self \in UA
  BY InitialAssumption DEF Init
<1>4. obj \in Objects
  <2>1. api[self].spec \in Specs
    BY <1>1, <1>3 DEF Objects
  <2>2. (CHOOSE spec \in Specs : TRUE) \in Specs
    BY <2>1
  <2> QED
    BY <2>2, NewObjectType DEF Init, Blank
<1>5. pc \in Steps /\ fresh \in BOOLEAN /\ local \in LocalVariables
  BY StepNames, NoLocalsType DEF Init
<1>6. pulled \subseteq Node \X (Version \union {NoVersion}) /\ disruptions \in 0 .. MaxDisruptions
        /\ lookedAt \in [Node -> [Version \union {NoVersion} -> SUBSET UA]]
  BY BudgetAssumption DEF Init
<1> QED
  BY <1>1, <1>2, <1>3, <1>4, <1>5, <1>6 DEF TypeOK

(* The steps of the worker that change the object, the locals and pc only.  *)
LEMMA LocalStepsType ==
    ASSUME TypeOK,
           \/ CheckInfrastructure \/ SetupClusterVersion \/ DetermineNodes \/ CheckCompletion
           \/ SetupResources \/ FillWaiting \/ SkipPriming \/ PassPrimer \/ EndPriming
           \/ ClosedGate \/ TakeAll \/ TakeBatch \/ PassNode \/ EndSchedule \/ ListJobs
           \/ ScanJob \/ EndScan \/ RecordCompletion \/ ReportFailure
    PROVE  TypeOK'
<1> SUFFICES obj' \in Objects /\ pc' \in Steps /\ local' \in LocalVariables /\ OnlyWorker
  BY OnlyWorkerType
<1>0. /\ obj \in Objects /\ local \in LocalVariables /\ nodes \in Clusters /\ desired \in Version
      /\ jobs \in Jobs /\ jobCache \in Jobs
  BY DEF TypeOK
<1>1. CASE CheckInfrastructure
  <2>1. SetCondition(obj, "InfrastructureFound", "InfrastructureFound") \in Objects
    BY <1>0, SetConditionType DEF ConditionTypes, Reasons
  <2>2. [SetCondition(obj, "InfrastructureFound", "InfrastructureFound")
           EXCEPT !.infrastructure = TRUE] \in Objects
    BY <2>1 DEF Objects
  <2> QED
    BY <1>0, <1>1, <2>2, StepNames DEF CheckInfrastructure, Goto
<1>2. CASE SetupClusterVersion
  <2>1. SetVersion(obj, desired) \in Objects
    BY <1>0, SetVersionType
  <2>2. [local EXCEPT !.version = desired] \in LocalVariables
    BY <1>0 DEF LocalVariables
  <2> QED
    BY <1>0, <1>2, <2>1, <2>2, StepNames DEF SetupClusterVersion, Goto
<1>3. CASE DetermineNodes
  <2>1. PICK d \in Determinations(nodes, obj.spec) :
          /\ local' = [local EXCEPT !.targets = d.targeted, !.primers = d.primers]
          /\ \/ /\ d.targeted = <<>>
                /\ obj' = NoNodes(obj)
                /\ Goto("saveNoNodes")
             \/ /\ d.targeted # <<>>
                /\ SetPrimerState([obj EXCEPT !.selected = d.targeted], d.primers)
    BY <1>3 DEF DetermineNodes
  <2>2. d.targeted \in Seq(Node) /\ d.primers \in Seq(Node)
    BY <1>0, SpecsAssumption, DeterminationsType DEF Objects
  <2>3. local' \in LocalVariables
    BY <1>0, <2>1, <2>2 DEF LocalVariables
  <2>4. NoNodes(obj) \in Objects
    BY <1>0, DisableType
  <2>5. [obj EXCEPT !.selected = d.targeted] \in Objects
    BY <1>0, <2>2, ListsType
  <2>6. /\ SetCondition([obj EXCEPT !.selected = d.targeted], "Primer", "PrimingSkipped")
              \in Objects
        /\ SetCondition([obj EXCEPT !.selected = d.targeted], "Primer", "PrimingCompleted")
              \in Objects
    BY <2>5, SetConditionType DEF ConditionTypes, Reasons
  <2> QED
    BY <1>3, <2>1, <2>3, <2>4, <2>5, <2>6, StepNames DEF DetermineNodes, SetPrimerState, Goto
<1>4. CASE CheckCompletion
  <2>1. SetCondition(obj, "Running", "ReconciliationCompleted") \in Objects
    BY <1>0, SetConditionType DEF ConditionTypes, Reasons
  <2>2. SetCondition(SetCondition(obj, "Running", "ReconciliationCompleted"),
                     "Completed", "ReconciliationCompleted") \in Objects
    BY <2>1, SetConditionType DEF ConditionTypes, Reasons
  <2> QED
    BY <1>0, <1>4, <2>2, StepNames DEF CheckCompletion, Goto
<1>5. CASE SetupResources
  BY <1>0, <1>5, SetConditionType, StepNames DEF SetupResources, Goto, ConditionTypes, Reasons
<1>6. CASE FillWaiting
  <2>1. Unlisted(obj, local.targets) \in SUBSET Node
    BY <1>0, ElementsType DEF Unlisted, LocalVariables
  <2>2. \A new \in InOrderOf(local.targets, Unlisted(obj, local.targets)) :
          [obj EXCEPT !.waiting = obj.waiting \o new] \in Objects
    <3> TAKE new \in InOrderOf(local.targets, Unlisted(obj, local.targets))
    <3>1. new \in Seq(Node)
      BY <2>1, InOrderOfType
    <3>2. obj.waiting \o new \in Seq(Node)
      BY <1>0, <3>1 DEF Objects
    <3> QED
      BY <1>0, <3>2, ListsType
  <2> QED
    BY <1>0, <1>6, <2>2, StepNames DEF FillWaiting, Goto
<1>7. CASE SkipPriming
  BY <1>0, <1>7, StepNames DEF SkipPriming, Goto
<1>8. CASE PassPrimer
  <2>1. \A n : StillRunning(n) \in BOOLEAN
    BY <1>0 DEF StillRunning, LocalVariables
  <2>2. PICK running \in BOOLEAN :
          local' = [local EXCEPT !.i = local.i + 1, !.stillRunning = running]
    BY <1>8, <2>1 DEF PassPrimer
  <2>3. local.i + 1 \in Nat \ {0}
    BY <1>0 DEF LocalVariables
  <2>4. [local EXCEPT !.i = local.i + 1, !.stillRunning = running] \in LocalVariables
    BY <1>0, <2>3, RunningType
  <2> QED
    BY <1>0, <1>8, <2>2, <2>4, StepNames DEF PassPrimer, Goto
<1>9. CASE EndPriming
  BY <1>0, <1>9, AfterPrimingType, StepNames DEF EndPriming, Goto, LocalVariables
<1>10. CASE ClosedGate
  BY <1>0, <1>10, StepNames DEF ClosedGate, Goto
<1>11. CASE TakeAll
  <2>1. \A next \in Seq(Node) : [local EXCEPT !.next = next, !.i = 1] \in LocalVariables
    <3>1. 1 \in Nat \ {0}
      OBVIOUS
    <3> QED
      BY <1>0, <3>1, TakenType, Zenon
  <2> QED
    BY <1>0, <1>11, <2>1, StepNames DEF TakeAll, Goto, Objects
<1>12. CASE TakeBatch
  <2> DEFINE size == Batch(obj.spec.parallelism)
  <2>1. \A next \in Seq(Node) : [local EXCEPT !.next = next, !.i = 1] \in LocalVariables
    <3>1. 1 \in Nat \ {0}
      OBVIOUS
    <3> QED
      BY <1>0, <3>1, TakenType, Zenon
  <2>2. size \in Nat /\ obj.waiting \in Seq(Node)
    BY <1>0, SpecsAssumption DEF Batch, Objects
  <2>3. CASE size <= Len(obj.waiting)
    <3>1. SubSeq(obj.waiting, 1, size) \in Seq(Node)
      BY <2>2, <2>3
    <3>2. SubSeq(obj.waiting, size + 1, Len(obj.waiting)) \in Seq(Node)
      BY <2>2, <2>3
    <3>3. [obj EXCEPT !.waiting = SubSeq(obj.waiting, size + 1, Len(obj.waiting))] \in Objects
      BY <1>0, <3>2, ListsType
    <3>4. /\ local' = [local EXCEPT !.next = SubSeq(obj.waiting, 1, size), !.i = 1]
          /\ obj' = [obj EXCEPT !.waiting = SubSeq(obj.waiting, size + 1, Len(obj.waiting))]
          /\ pc' = "schedule"
      <4>1. ~(size > Len(obj.waiting))
        BY <2>2, <2>3
      <4> QED
        BY <1>12, <4>1 DEF TakeBatch, Goto
    <3> QED
      BY <1>12, <2>1, <3>1, <3>3, <3>4, StepNames DEF TakeBatch
  <2>4. CASE ~(size <= Len(obj.waiting))
    <3>1. obj' = obj /\ local' = local /\ pc' = "panicked"
      BY <1>12, <2>4 DEF TakeBatch, Panic
    <3> QED
      BY <1>0, <1>12, <3>1, StepNames DEF TakeBatch
  <2> QED
    BY <2>3, <2>4
<1>13. CASE PassNode
  <2>1. local.i + 1 \in Nat \ {0}
    BY <1>0 DEF LocalVariables
  <2>2. [local EXCEPT !.i = local.i + 1] \in LocalVariables
    BY <1>0, <2>1, NextIndexType, Zenon
  <2> QED
    BY <1>0, <1>13, <2>2, StepNames DEF PassNode, Goto
<1>14. CASE EndSchedule
  BY <1>0, <1>14, SetConditionType, StepNames DEF EndSchedule, Goto, ConditionTypes, Reasons
<1>15. CASE ListJobs
  <2>1. [local EXCEPT !.scan = Succeeded(local.version)] \in LocalVariables
    BY <1>0 DEF LocalVariables, Succeeded
  <2> QED
    BY <1>0, <1>15, <2>1, RescheduledType, StepNames DEF ListJobs, Goto
<1>16. CASE ScanJob
  <2>1. \A n \in Node : [local EXCEPT !.scan = local.scan \ {n}] \in LocalVariables
    BY <1>0 DEF LocalVariables
  <2>2. local.scan \subseteq Node
    BY <1>0 DEF LocalVariables
  <2> QED
    BY <1>0, <1>16, <2>1, <2>2, PreheatType, StepNames DEF ScanJob, Goto
<1>17. CASE EndScan
  BY <1>0, <1>17, StepNames DEF EndScan, Goto
<1>18. CASE RecordCompletion
  <2>1. [obj EXCEPT !.last = obj.version] \in Objects
    BY <1>0 DEF Objects
  <2> QED
    BY <1>0, <1>18, <2>1, StepNames DEF RecordCompletion, Goto
<1>19. CASE ReportFailure
  BY <1>0, <1>19, FailedType, StepNames DEF ReportFailure, Goto
<1> QED
  BY <1>1, <1>2, <1>3, <1>4, <1>5, <1>6, <1>7, <1>8, <1>9, <1>10, <1>11, <1>12, <1>13, <1>14,
     <1>15, <1>16, <1>17, <1>18, <1>19

(* The steps of the worker that write to, or read from, the API server.     *)
LEMMA SaveType ==
    ASSUME TypeOK, Save \/ SaveFails
    PROVE  TypeOK'
<1>1. pc \in DOMAIN Saves /\ api' \in [UA -> Objects]
  <2>1. [api EXCEPT ![self] = obj] \in [UA -> Objects]
    BY DEF TypeOK
  <2> QED
    BY <2>1 DEF TypeOK, Save, SaveFails
<1>2. Saves[pc].accepted \in Steps /\ Saves[pc].refused \in Steps
  BY <1>1, SavesType
<1>3. pc' \in Steps /\ self' \in UA /\ obj' \in Objects /\ fresh' \in BOOLEAN
        /\ local' \in LocalVariables
  <2>1. CASE Continue(Saves[pc].accepted) \/ Continue(Saves[pc].refused) \/ Return
    BY <1>2, <2>1, ContinueType, ReturnType
  <2>2. CASE /\ Goto(Saves[pc].refused) /\ fresh' = FALSE
             /\ UNCHANGED <<self, obj, local>>
    BY <1>2, <2>2 DEF TypeOK, Goto
  <2> QED
    BY <2>1, <2>2 DEF Save, SaveFails
<1>4. /\ UNCHANGED <<cache, jobs, jobCache, pulled, lookedAt, nodes, desired>>
      /\ disruptions' \in 0 .. MaxDisruptions
  BY BudgetAssumption DEF TypeOK, Save, SaveFails, Disrupt, pulls, cluster
<1> QED
  BY <1>1, <1>3, <1>4 DEF TypeOK

LEMMA RefetchType ==
    ASSUME TypeOK, Refetch
    PROVE  TypeOK'
<1>1. Refetches[pc] \in Steps
  BY RefetchesType DEF Refetch
<1>2. View[self] \in Objects /\ obj' = View[self] /\ fresh' \in BOOLEAN
  BY ViewType DEF Refetch, TypeOK
<1>3. pc' \in Steps /\ UNCHANGED <<api, cache, jobs, jobCache, pulled, lookedAt, nodes, desired,
                                   self, local, disruptions>>
  BY <1>1 DEF Refetch, Goto, objects, pulls, cluster
<1> QED
  BY <1>2, <1>3 DEF TypeOK

LEMMA BeginType ==
    ASSUME TypeOK, NEW u \in UA, Begin(u)
    PROVE  TypeOK'
<1>1. View[u] \in Objects /\ Disable(View[u]) \in Objects
  BY ViewType, DisableType
<1>2. obj' \in Objects /\ pc' \in Steps /\ self' \in UA /\ fresh' \in BOOLEAN
  BY <1>1, StepNames DEF Begin, Goto
<1>3. UNCHANGED <<api, cache, jobs, jobCache, pulled, nodes, desired, local, disruptions>>
  BY DEF Begin, objects, cluster
<1>4. lookedAt' \in [Node -> [Version \union {NoVersion} -> SUBSET UA]]
  BY DEF Begin, LookedAt, TypeOK
<1> QED
  BY <1>2, <1>3, <1>4 DEF TypeOK

LEMMA CreatePullJobType ==
    ASSUME TypeOK, NEW n \in Node, CreatePullJob(n)
    PROVE  jobs' \in Jobs
<1>1. obj.version \in Version \union {NoVersion}
  BY DEF TypeOK, Objects
<1> QED
  BY <1>1 DEF TypeOK, CreatePullJob, Jobs, JobStates

(* A step that makes a job for the node at position i of a list.            *)
LEMMA StartedType ==
    ASSUME TypeOK, OnlyWorkerAndJobs, NEW n \in Node, CreatePullJob(n),
           obj' \in Objects, pc' \in Steps, local' \in LocalVariables
    PROVE  TypeOK'
<1>1. jobs' \in Jobs /\ UNCHANGED <<jobCache, pulled, lookedAt>>
  BY CreatePullJobType DEF CreatePullJob
<1> QED
  BY <1>1 DEF TypeOK, OnlyWorkerAndJobs, objects, cluster

LEMMA StartPrimerType ==
    ASSUME TypeOK, StartPrimer
    PROVE  TypeOK'
<1> DEFINE n == local.primers[local.i]
           running == StillRunning(n)
<1>1. obj \in Objects /\ local \in LocalVariables
  BY DEF TypeOK
<1>2. local.i \in Nat \ {0} /\ local.primers \in Seq(Node)
  BY <1>1 DEF LocalVariables
<1>3. n \in Node
  BY <1>2 DEF StartPrimer
<1>4. CreatePullJob(n) /\ OnlyWorkerAndJobs
  BY DEF StartPrimer
<1>5. CASE Panic
  BY <1>1, <1>3, <1>4, <1>5, StartedType, StepNames DEF Panic
<1>6. CASE /\ obj' = [obj EXCEPT !.warming = Append(@, n), !.waiting = AfterPrimer(@, n)]
           /\ local' = [local EXCEPT !.i = @ + 1, !.scheduled = TRUE,
                                     !.stillRunning = StillRunning(n)]
           /\ Goto("savePrimer")
  <2>1. Append(obj.warming, n) \in Seq(Node) /\ AfterPrimer(obj.waiting, n) \in Seq(Node)
    BY <1>1, <1>3, AfterPrimerType DEF Objects
  <2>2. [obj EXCEPT !.warming = Append(obj.warming, n),
                    !.waiting = AfterPrimer(obj.waiting, n)] \in Objects
    BY <1>1, <2>1, ListsType
  <2>3. local.i + 1 \in Nat \ {0} /\ StillRunning(n) \in BOOLEAN
    BY <1>1, <1>2 DEF StillRunning, LocalVariables
  <2>4. [local EXCEPT !.i = local.i + 1, !.scheduled = TRUE, !.stillRunning = StillRunning(n)]
          \in LocalVariables
    BY <1>1, <2>3, ScheduledType, Zenon
  <2>5. obj' \in Objects /\ local' \in LocalVariables
    BY <1>6, <2>2, <2>4, Zenon
  <2> QED
    BY <1>3, <1>4, <1>6, <2>5, StartedType, StepNames DEF Goto
<1> QED
  BY <1>5, <1>6 DEF StartPrimer

LEMMA StartNodeType ==
    ASSUME TypeOK, StartNode
    PROVE  TypeOK'
<1> DEFINE n == local.next[local.i]
<1>1. obj \in Objects /\ local \in LocalVariables
  BY DEF TypeOK
<1>2. local.i \in Nat \ {0} /\ local.next \in Seq(Node) /\ obj.waiting \in Seq(Node)
  BY <1>1 DEF LocalVariables, Objects
<1>3. n \in Node
  BY <1>2 DEF StartNode
<1>4. CreatePullJob(n) /\ OnlyWorkerAndJobs
  BY DEF StartNode
<1>5. CASE Panic
  BY <1>1, <1>3, <1>4, <1>5, StartedType, StepNames DEF Panic
<1>6. CASE /\ obj' = [obj EXCEPT !.warming = Append(@, n), !.waiting = Without(@, n)]
           /\ local' = [local EXCEPT !.i = @ + 1, !.next = NextAfter(@, obj.waiting, n)]
           /\ Goto("saveScheduled")
  <2>1. Append(obj.warming, n) \in Seq(Node) /\ Without(obj.waiting, n) \in Seq(Node)
    BY <1>1, <1>3, WithoutType DEF Objects
  <2>2. [obj EXCEPT !.warming = Append(obj.warming, n),
                    !.waiting = Without(obj.waiting, n)] \in Objects
    BY <1>1, <2>1, ListsType
  <2>3. local.i + 1 \in Nat \ {0} /\ NextAfter(local.next, obj.waiting, n) \in Seq(Node)
    BY <1>2, NextAfterType
  <2>4. [local EXCEPT !.i = local.i + 1, !.next = NextAfter(local.next, obj.waiting, n)]
          \in LocalVariables
    BY <1>1, <2>3, NextNodeType, Zenon
  <2>5. obj' \in Objects /\ local' \in LocalVariables
    BY <1>6, <2>2, <2>4, Zenon
  <2> QED
    BY <1>3, <1>4, <1>6, <2>5, StartedType, StepNames DEF Goto
<1> QED
  BY <1>5, <1>6 DEF StartNode

(* Steps that may end the reconcile.                                        *)
LEMMA ReturningType ==
    ASSUME TypeOK, JobRefused \/ CheckAllDone \/ Recover
    PROVE  TypeOK'
<1>1. pc' \in Steps /\ self' \in UA /\ obj' \in Objects /\ fresh' \in BOOLEAN
        /\ local' \in LocalVariables
  <2>1. CASE Return
    BY <2>1, ReturnType
  <2>2. CASE ~Return
    <3>1. /\ obj' = SetCondition(obj, "Running", "ReconciliationCompleted")
          /\ Goto("saveNotRunning")
          /\ UNCHANGED <<self, fresh, local>>
      BY <2>2 DEF JobRefused, CheckAllDone, Recover
    <3>2. SetCondition(obj, "Running", "ReconciliationCompleted") \in Objects
      BY SetConditionType DEF TypeOK, ConditionTypes, Reasons
    <3> QED
      BY <3>1, <3>2, StepNames DEF TypeOK, Goto
  <2> QED
    BY <2>1, <2>2
<1>2. UNCHANGED <<api, cache, jobs, jobCache, pulled, lookedAt, nodes, desired, disruptions>>
  BY DEF JobRefused, CheckAllDone, Recover, objects, pulls, cluster
<1> QED
  BY <1>1, <1>2 DEF TypeOK

(* The jobs, the caches and the administrators.                             *)
LEMMA DisruptType ==
    ASSUME TypeOK, NEW kind, Disrupt(kind)
    PROVE  disruptions' \in 0 .. MaxDisruptions
BY BudgetAssumption DEF TypeOK, Disrupt

LEMMA JobChangeType ==
    ASSUME TypeOK, NEW n \in Node, NEW v \in Version \union {NoVersion},
           NEW state \in JobStates
    PROVE  [jobs EXCEPT ![n][v] = state] \in Jobs
BY DEF TypeOK, Jobs

LEMMA JobsEndType ==
    ASSUME TypeOK, NEW n \in Node, NEW v \in Version \union {NoVersion},
           JobSucceeds(n, v) \/ JobFails(n, v) \/ JobExpires(n, v) \/ JobCollected(n, v)
    PROVE  TypeOK'
<1>1. PICK state \in JobStates : jobs' = [jobs EXCEPT ![n][v] = state]
  <2>1. {"succeeded", "failed", "none"} \subseteq JobStates
    BY DEF JobStates
  <2> QED
    BY <2>1, Zenon DEF JobSucceeds, JobFails, JobExpires, JobCollected
<1>2. pulled' \subseteq Node \X (Version \union {NoVersion})
  BY DEF TypeOK, JobSucceeds, JobFails, JobExpires, JobCollected
<1>3. disruptions' \in 0 .. MaxDisruptions
  BY DisruptType DEF TypeOK, JobSucceeds, JobFails, JobExpires, JobCollected
<1>4. lookedAt' \in [Node -> [Version \union {NoVersion} -> SUBSET UA]]
  <2>1. lookedAt \in [Node -> [Version \union {NoVersion} -> SUBSET UA]]
    BY DEF TypeOK
  <2>2. CASE UNCHANGED lookedAt
    BY <2>1, <2>2
  <2>3. CASE lookedAt' = [lookedAt EXCEPT ![n][v] = {}]
    BY <2>1, <2>3
  <2> QED
    BY <2>2, <2>3 DEF JobSucceeds, JobFails, JobExpires, JobCollected
<1>5. UNCHANGED <<api, cache, jobCache, nodes, desired, pc, self, obj, fresh, local>>
  BY DEF JobSucceeds, JobFails, JobExpires, JobCollected, objects, cluster, worker
<1>6. jobs' \in Jobs
  BY <1>1, JobChangeType
<1> QED
  BY <1>2, <1>3, <1>4, <1>5, <1>6 DEF TypeOK

LEMMA SyncType ==
    ASSUME TypeOK, SyncObjects \/ SyncJobs
    PROVE  TypeOK'
<1>1. CASE SyncObjects
  BY <1>1 DEF TypeOK, SyncObjects, pulls, cluster, worker
<1>2. CASE SyncJobs
  BY <1>2 DEF TypeOK, SyncJobs, objects, cluster, worker
<1> QED
  BY <1>1, <1>2

LEMMA EditSpecType ==
    ASSUME TypeOK, NEW u \in UA, NEW spec \in Specs, EditSpec(u, spec)
    PROVE  TypeOK'
<1>1. api' \in [UA -> Objects]
  <2>1. api' = [api EXCEPT ![u].spec = spec]
    BY DEF EditSpec
  <2>2. api \in [UA -> Objects]
    BY DEF TypeOK
  <2> QED
    BY <2>1, <2>2 DEF Objects
<1>2. fresh' \in BOOLEAN /\ disruptions' \in 0 .. MaxDisruptions
  BY DisruptType DEF TypeOK, EditSpec
<1>3. UNCHANGED <<cache, jobs, jobCache, pulled, lookedAt, nodes, desired, pc, self, obj, local>>
  BY DEF EditSpec, pulls, cluster
<1> QED
  BY <1>1, <1>2, <1>3 DEF TypeOK

LEMMA ClusterChangesType ==
    ASSUME TypeOK,
           \/ \E n \in Node, state \in NodeState \union {Absent} : ChangeNode(n, state)
           \/ \E v \in Version : ChangeVersion(v)
    PROVE  TypeOK'
<1>1. nodes' \in Clusters /\ desired' \in Version
  BY DEF TypeOK, ChangeNode, ChangeVersion, Clusters
<1>2. disruptions' \in 0 .. MaxDisruptions
  BY DisruptType DEF ChangeNode, ChangeVersion
<1>3. UNCHANGED <<api, cache, jobs, jobCache, pulled, lookedAt, pc, self, obj, fresh, local>>
  BY DEF ChangeNode, ChangeVersion, objects, pulls, worker
<1> QED
  BY <1>1, <1>2, <1>3 DEF TypeOK

LEMMA InterruptedType ==
    ASSUME TypeOK, Crash \/ CallFails
    PROVE  TypeOK'
<1>1. pc' \in Steps /\ self' \in UA /\ obj' \in Objects /\ fresh' \in BOOLEAN
        /\ local' \in LocalVariables
  <2>1. CASE Return
    BY <2>1, ReturnType
  <2>2. CASE ~Return
    <3> DEFINE broken == Failed(obj, {"Primer", "SetupComplete"})
    <3>1. /\ UNCHANGED <<self, fresh, local>>
          /\ \/ Goto("saveFailure") /\ obj' = SetCondition(broken, "InfrastructureFound",
                                                         "InfrastructureNotFound")
             \/ Goto("saveFailure") /\ obj' = broken
             \/ Goto("failed") /\ obj' = obj
      BY <2>2 DEF Crash, CallFails
    <3>2. broken \in Objects
      BY FailedType DEF TypeOK
    <3>3. SetCondition(broken, "InfrastructureFound", "InfrastructureNotFound") \in Objects
      BY <3>2, SetConditionType DEF ConditionTypes, Reasons
    <3> QED
      BY <3>1, <3>2, <3>3, StepNames DEF TypeOK, Goto
  <2> QED
    BY <2>1, <2>2
<1>2. disruptions' \in 0 .. MaxDisruptions
  BY DisruptType DEF Crash, CallFails
<1>3. UNCHANGED <<api, cache, jobs, jobCache, pulled, lookedAt, nodes, desired>>
  BY DEF Crash, CallFails, objects, pulls, cluster
<1> QED
  BY <1>1, <1>2, <1>3 DEF TypeOK

LEMMA NextType ==
    ASSUME TypeOK, [Next]_vars
    PROVE  TypeOK'
<1>1. CASE \E u \in UA : Begin(u)
  BY <1>1, BeginType
<1>2. CASE Worker
  BY <1>2, SaveType, RefetchType, LocalStepsType, StartPrimerType, StartNodeType,
     ReturningType DEF Worker
<1>3. CASE Environment
  BY <1>3, JobsEndType, SyncType, EditSpecType, ClusterChangesType, InterruptedType,
     SaveType DEF Environment
<1>4. CASE UNCHANGED vars
  BY <1>4 DEF TypeOK, vars
<1> QED
  BY <1>1, <1>2, <1>3, <1>4 DEF Next

(* The variables have their types, after every step of the worker, the jobs *)
(* and the administrators, whatever the specs hold and whatever fails.      *)
THEOREM TypeCorrect == Spec => []TypeOK
<1>1. Init => TypeOK
  BY InitType
<1>2. TypeOK /\ [Next]_vars => TypeOK'
  BY NextType
<1> QED
  BY <1>1, <1>2, PTL DEF Spec

--------------------------------------------------------------------------------
(***************************************************************************)
(* A node in nodesPreheated has had a job that succeeded.  To keep that    *)
(* true of what the API server stores it must be true of every copy an     *)
(* update may be made from: the cache, the worker's object, and the nodes  *)
(* it still has to scan; and no job, seen or not, may have succeeded       *)
(* without leaving its trace in "pulled", which no expiry takes back.      *)
(***************************************************************************)
Traced(js) ==
    \A n \in Node, v \in Version \union {NoVersion} :
        js[n][v] = "succeeded" => <<n, v>> \in pulled

PulledInv ==
    /\ \A u \in UA : api[u].preheated \subseteq PulledOnce
    /\ \A u \in UA : cache[u].preheated \subseteq PulledOnce
    /\ obj.preheated \subseteq PulledOnce
    /\ local.scan \subseteq PulledOnce
    /\ Traced(jobs) /\ Traced(jobCache)

(* What the operators do to nodesPreheated.                                 *)
LEMMA ConditionsKeepPreheated ==
    ASSUME NEW o \in Objects, NEW type \in ConditionTypes, NEW reason \in Reasons
    PROVE  SetCondition(o, type, reason).preheated = o.preheated
BY DEF SetCondition, Objects

LEMMA DeleteKeepsPreheated ==
    ASSUME NEW o \in Objects, NEW types
    PROVE  DeleteConditions(o, types).preheated = o.preheated
BY DEF DeleteConditions, Objects

LEMMA FailedKeepsPreheated ==
    ASSUME NEW o \in Objects, NEW types
    PROVE  Failed(o, types).preheated = o.preheated
<1>1. SetCondition(o, "Failure", "Failed") \in Objects
  BY SetConditionType DEF ConditionTypes, Reasons
<1>2. SetCondition(o, "Failure", "Failed").preheated = o.preheated
  BY ConditionsKeepPreheated DEF ConditionTypes, Reasons
<1>3. DeleteConditions(SetCondition(o, "Failure", "Failed"), types).preheated
        = SetCondition(o, "Failure", "Failed").preheated
  BY <1>1, DeleteKeepsPreheated
<1> QED
  BY <1>2, <1>3 DEF Failed

LEMMA DisableClearsPreheated ==
    ASSUME NEW o \in Objects
    PROVE  Disable(o).preheated = {} /\ NoNodes(o).preheated = {}
<1> DEFINE disabled == SetCondition(ClearLists(o), "Running", "Disabled")
           noNodes == SetCondition(ClearLists(o), "Running", "NoNodesSelected")
<1>1. ClearLists(o) \in Objects
  BY ClearListsType
<1>2. ClearLists(o).preheated = {}
  BY DEF ClearLists, Objects
<1>3. disabled \in Objects /\ noNodes \in Objects
  BY <1>1, SetConditionType DEF ConditionTypes, Reasons
<1>4. disabled.preheated = {} /\ noNodes.preheated = {}
  BY <1>1, <1>2, ConditionsKeepPreheated DEF ConditionTypes, Reasons
<1>5. \A types : /\ DeleteConditions(disabled, types).preheated = disabled.preheated
                 /\ DeleteConditions(noNodes, types).preheated = noNodes.preheated
  BY <1>3, DeleteKeepsPreheated
<1> QED
  BY <1>4, <1>5 DEF Disable, NoNodes

LEMMA AfterPrimingKeepsPreheated ==
    ASSUME NEW o \in Objects, NEW scheduled \in BOOLEAN, NEW stillRunning \in BOOLEAN
    PROVE  AfterPriming(o, scheduled, stillRunning).preheated = o.preheated
<1> DEFINE inProgress == SetCondition(o, "Primer", "PrimingInProgress")
<1>1. inProgress \in Objects
  BY SetConditionType DEF ConditionTypes, Reasons
<1>2. /\ inProgress.preheated = o.preheated
      /\ SetCondition(o, "Primer", "PrimingCompleted").preheated = o.preheated
      /\ SetCondition(o, "Running", "JobsScheduled").preheated = o.preheated
  BY ConditionsKeepPreheated DEF ConditionTypes, Reasons
<1>3. SetCondition(inProgress, "Running", "JobsScheduled").preheated = inProgress.preheated
  BY <1>1, ConditionsKeepPreheated DEF ConditionTypes, Reasons
<1> QED
  BY <1>2, <1>3 DEF AfterPriming

LEMMA ListsKeepPreheated ==
    ASSUME NEW o \in Objects, NEW selected, NEW warming, NEW waiting
    PROVE  /\ [o EXCEPT !.selected = selected].preheated = o.preheated
           /\ [o EXCEPT !.waiting = waiting].preheated = o.preheated
           /\ [o EXCEPT !.warming = warming, !.waiting = waiting].preheated = o.preheated
           /\ [o EXCEPT !.waiting = waiting, !.warming = warming].preheated = o.preheated
BY DEF Objects

LEMMA RescheduledKeepsPreheated ==
    ASSUME NEW o \in Objects
    PROVE  Rescheduled(o).preheated = o.preheated
BY ListsKeepPreheated, Zenon DEF Rescheduled

LEMMA PreheatAddsOne ==
    ASSUME NEW o \in Objects, NEW n
    PROVE  Preheat(o, n).preheated = o.preheated \union {n}
<1> DEFINE warming == IF n \in Elements(o.warming) THEN Without(o.warming, n) ELSE o.warming
           more == o.preheated \union {n}
<1>1. [o EXCEPT !.preheated = more, !.warming = warming].preheated = more
  <2> HIDE DEF warming, more
  <2> QED
    BY DEF Objects
<1> QED
  BY <1>1, Zenon DEF Preheat

(* The scan looks at jobs that have succeeded.                              *)
LEMMA SucceededPulled ==
    ASSUME TypeOK, PulledInv, NEW version \in Version \union {NoVersion}
    PROVE  Succeeded(version) \subseteq PulledOnce
<1> SUFFICES ASSUME NEW n \in Succeeded(version) PROVE n \in PulledOnce
  OBVIOUS
<1>1. n \in Node /\ JobView[n][version] = "succeeded"
  BY DEF Succeeded
<1>2. <<n, version>> \in pulled
  BY <1>1 DEF PulledInv, Traced, JobView
<1>3. <<n, version>>[1] = n
  OBVIOUS
<1> QED
  BY <1>2, <1>3 DEF PulledOnce

(* A step of the worker that leaves everybody else's state alone.           *)
LEMMA WorkerKeepsPulled ==
    ASSUME PulledInv, UNCHANGED <<api, cache, jobs, jobCache, pulled>>,
           obj'.preheated \subseteq PulledOnce, local'.scan \subseteq PulledOnce
    PROVE  PulledInv'
BY DEF PulledInv, PulledOnce, Traced

LEMMA ReturnKeepsPulled ==
    ASSUME Return
    PROVE  obj'.preheated = {} /\ local'.scan = {}
BY DEF Return, Blank, NewObject, NoLocals

LEMMA ContinueKeepsPulled ==
    ASSUME PulledInv, NEW step, Continue(step)
    PROVE  obj'.preheated \subseteq PulledOnce /\ local'.scan \subseteq PulledOnce
<1>1. CASE step = "idle"
  BY <1>1, ReturnKeepsPulled DEF Continue
<1>2. CASE step # "idle"
  BY <1>2 DEF Continue, PulledInv
<1> QED
  BY <1>1, <1>2

LEMMA InitPulled == Init => PulledInv
<1> SUFFICES ASSUME Init PROVE PulledInv
  OBVIOUS
<1>1. \A u \in UA : api[u].preheated = {} /\ cache[u].preheated = {}
  <2>1. \A spec \in Specs : NewObject(spec).preheated = {}
    BY DEF NewObject
  <2>2. cache = api /\ \A u \in UA : \E spec \in Specs : api[u] = NewObject(spec)
    BY DEF Init
  <2> QED
    BY <2>1, <2>2
<1>2. obj.preheated = {} /\ local.scan = {}
  BY DEF Init, Blank, NewObject, NoLocals
<1>3. Traced(jobs) /\ Traced(jobCache)
  BY DEF Init, Traced
<1> QED
  BY <1>1, <1>2, <1>3 DEF PulledInv

LEMMA ScanKept ==
    ASSUME NEW l \in LocalVariables, NEW k, NEW b, NEW next
    PROVE  /\ [l EXCEPT !.i = k].scan = l.scan
           /\ [l EXCEPT !.i = k, !.stillRunning = b].scan = l.scan
           /\ [l EXCEPT !.i = k, !.scheduled = TRUE, !.stillRunning = b].scan = l.scan
           /\ [l EXCEPT !.i = k, !.next = next].scan = l.scan
           /\ [l EXCEPT !.next = next, !.i = k].scan = l.scan
BY DEF LocalVariables

(* The steps of the worker that only it sees.                               *)
LEMMA LocalStepsPulled ==
    ASSUME TypeOK, PulledInv,
           \/ CheckInfrastructure \/ SetupClusterVersion \/ DetermineNodes \/ CheckCompletion
           \/ SetupResources \/ FillWaiting \/ SkipPriming \/ PassPrimer \/ EndPriming
           \/ ClosedGate \/ TakeAll \/ TakeBatch \/ PassNode \/ EndSchedule \/ ListJobs
           \/ ScanJob \/ EndScan \/ RecordCompletion \/ ReportFailure
    PROVE  PulledInv'
<1>0. /\ obj \in Objects /\ local \in LocalVariables /\ nodes \in Clusters
      /\ obj.preheated \subseteq PulledOnce /\ local.scan \subseteq PulledOnce
  BY DEF TypeOK, PulledInv
<1>00. UNCHANGED <<api, cache, jobs, jobCache, pulled>>
  BY DEF CheckInfrastructure, SetupClusterVersion, DetermineNodes, CheckCompletion,
     SetupResources, FillWaiting, SkipPriming, PassPrimer, EndPriming, ClosedGate, TakeAll,
     TakeBatch, PassNode, EndSchedule, ListJobs, ScanJob, EndScan, RecordCompletion,
     ReportFailure, OnlyWorker, objects, pulls
<1> SUFFICES obj'.preheated \subseteq PulledOnce /\ local'.scan \subseteq PulledOnce
  BY <1>00, WorkerKeepsPulled
<1>1. CASE CheckInfrastructure
  <2> DEFINE found == SetCondition(obj, "InfrastructureFound", "InfrastructureFound")
  <2>1. found \in Objects /\ found.preheated = obj.preheated
    BY <1>0, SetConditionType, ConditionsKeepPreheated DEF ConditionTypes, Reasons
  <2>2. [found EXCEPT !.infrastructure = TRUE].preheated = found.preheated
    <3> HIDE DEF found
    <3> QED
      BY <2>1 DEF Objects
  <2> QED
    BY <1>0, <1>1, <2>1, <2>2 DEF CheckInfrastructure
<1>2. CASE SetupClusterVersion
  <2>1. SetVersion(obj, desired).preheated = obj.preheated
    BY <1>0 DEF SetVersion, Objects
  <2>2. [local EXCEPT !.version = desired].scan = local.scan
    BY <1>0 DEF LocalVariables
  <2> QED
    BY <1>0, <1>2, <2>1, <2>2 DEF SetupClusterVersion
<1>3. CASE DetermineNodes
  <2>1. PICK d \in Determinations(nodes, obj.spec) :
          /\ local' = [local EXCEPT !.targets = d.targeted, !.primers = d.primers]
          /\ \/ obj' = NoNodes(obj)
             \/ SetPrimerState([obj EXCEPT !.selected = d.targeted], d.primers)
    BY <1>3 DEF DetermineNodes
  <2> DEFINE o == [obj EXCEPT !.selected = d.targeted]
  <2>2. d.targeted \in Seq(Node)
    BY <1>0, SpecsAssumption, DeterminationsType DEF Objects
  <2>3. o \in Objects /\ o.preheated = obj.preheated
    BY <1>0, <2>2, ListsType, ListsKeepPreheated
  <2>4. /\ SetCondition(o, "Primer", "PrimingSkipped").preheated = o.preheated
        /\ SetCondition(o, "Primer", "PrimingCompleted").preheated = o.preheated
    BY <2>3, ConditionsKeepPreheated DEF ConditionTypes, Reasons
  <2>5. NoNodes(obj).preheated = {}
    BY <1>0, DisableClearsPreheated
  <2>6. obj'.preheated \subseteq PulledOnce
    <3> HIDE DEF o
    <3>1. obj' = NoNodes(obj) \/ SetPrimerState(o, d.primers)
      BY <2>1 DEF o
    <3> QED
      BY <1>0, <3>1, <2>3, <2>4, <2>5 DEF SetPrimerState
  <2>7. local'.scan = local.scan
    BY <1>0, <2>1 DEF LocalVariables
  <2> QED
    BY <1>0, <2>6, <2>7
<1>4. CASE CheckCompletion
  <2> DEFINE done == SetCondition(obj, "Running", "ReconciliationCompleted")
  <2>1. done \in Objects /\ done.preheated = obj.preheated
    BY <1>0, SetConditionType, ConditionsKeepPreheated DEF ConditionTypes, Reasons
  <2>2. SetCondition(done, "Completed", "ReconciliationCompleted").preheated = done.preheated
    BY <2>1, ConditionsKeepPreheated DEF ConditionTypes, Reasons
  <2> QED
    BY <1>0, <1>4, <2>1, <2>2 DEF CheckCompletion
<1>5. CASE SetupResources
  BY <1>0, <1>5, ConditionsKeepPreheated DEF SetupResources, ConditionTypes, Reasons
<1>6. CASE FillWaiting
  <2>1. \A waiting : [obj EXCEPT !.waiting = waiting].preheated = obj.preheated
    BY <1>0, ListsKeepPreheated
  <2>2. local' = local /\ (obj' = obj \/ \E waiting : obj' = [obj EXCEPT !.waiting = waiting])
    BY <1>6 DEF FillWaiting
  <2> QED
    BY <1>0, <2>1, <2>2
<1>7. CASE PassPrimer
  <2>1. local'.scan = local.scan
    <3>1. PICK running : local' = [local EXCEPT !.i = local.i + 1, !.stillRunning = running]
      BY <1>7 DEF PassPrimer
    <3>2. [local EXCEPT !.i = local.i + 1, !.stillRunning = running].scan = local.scan
      BY <1>0, ScanKept
    <3> QED
      BY <3>1, <3>2
  <2> QED
    BY <1>0, <1>7, <2>1 DEF PassPrimer
<1>8. CASE EndPriming
  BY <1>0, <1>8, AfterPrimingKeepsPreheated DEF EndPriming, LocalVariables
<1>9. CASE SkipPriming \/ ClosedGate \/ EndScan
  BY <1>0, <1>9 DEF SkipPriming, ClosedGate, EndScan
<1>10. CASE TakeAll
  <2>1. [local EXCEPT !.next = obj.waiting, !.i = 1].scan = local.scan
    BY <1>0, ScanKept
  <2> QED
    BY <1>0, <1>10, <2>1 DEF TakeAll
<1>11. CASE TakeBatch
  <2>1. \A next, waiting : /\ [local EXCEPT !.next = next, !.i = 1].scan = local.scan
                           /\ [obj EXCEPT !.waiting = waiting].preheated = obj.preheated
    BY <1>0, ScanKept, ListsKeepPreheated
  <2>2. CASE Panic
    BY <1>0, <2>2 DEF Panic
  <2>3. CASE ~Panic
    <3>1. PICK next, waiting : /\ local' = [local EXCEPT !.next = next, !.i = 1]
                               /\ obj' = [obj EXCEPT !.waiting = waiting]
      BY <1>11, <2>3 DEF TakeBatch
    <3> QED
      BY <1>0, <2>1, <3>1
  <2> QED
    BY <2>2, <2>3
<1>12. CASE PassNode
  <2>1. [local EXCEPT !.i = local.i + 1].scan = local.scan
    BY <1>0, ScanKept
  <2> QED
    BY <1>0, <1>12, <2>1 DEF PassNode
<1>13. CASE EndSchedule
  BY <1>0, <1>13, ConditionsKeepPreheated DEF EndSchedule, ConditionTypes, Reasons
<1>14. CASE ListJobs
  <2>1. Succeeded(local.version) \subseteq PulledOnce
    BY <1>0, SucceededPulled DEF LocalVariables
  <2>2. [local EXCEPT !.scan = Succeeded(local.version)].scan = Succeeded(local.version)
    BY <1>0 DEF LocalVariables
  <2> QED
    BY <1>0, <1>14, <2>1, <2>2, RescheduledKeepsPreheated DEF ListJobs
<1>15. CASE ScanJob
  <2>1. PICK n \in local.scan : local' = [local EXCEPT !.scan = local.scan \ {n}]
                                /\ obj' = Preheat(obj, n)
    BY <1>15 DEF ScanJob
  <2>2. [local EXCEPT !.scan = local.scan \ {n}].scan = local.scan \ {n}
    BY <1>0 DEF LocalVariables
  <2> QED
    BY <1>0, <2>1, <2>2, PreheatAddsOne
<1>16. CASE RecordCompletion
  <2>1. [obj EXCEPT !.last = obj.version].preheated = obj.preheated
    BY <1>0 DEF Objects
  <2> QED
    BY <1>0, <1>16, <2>1 DEF RecordCompletion
<1>17. CASE ReportFailure
  BY <1>0, <1>17, FailedKeepsPreheated DEF ReportFailure
<1> QED
  BY <1>1, <1>2, <1>3, <1>4, <1>5, <1>6, <1>7, <1>8, <1>9, <1>10, <1>11, <1>12, <1>13, <1>14,
     <1>15, <1>16, <1>17

LEMMA StartsPulled ==
    ASSUME TypeOK, PulledInv, StartPrimer \/ StartNode
    PROVE  PulledInv'
<1>1. obj \in Objects /\ local \in LocalVariables /\ obj.version \in Version \union {NoVersion}
  BY DEF TypeOK, Objects
<1>2. obj'.preheated = obj.preheated /\ local'.scan = local.scan
  <2>1. CASE Panic
    BY <2>1 DEF Panic
  <2>2. CASE StartPrimer /\ ~Panic
    <3>1. PICK k, b, warming, waiting :
            /\ obj' = [obj EXCEPT !.warming = warming, !.waiting = waiting]
            /\ local' = [local EXCEPT !.i = k, !.scheduled = TRUE, !.stillRunning = b]
      BY <2>2, Zenon DEF StartPrimer
    <3> QED
      BY <1>1, <3>1, ListsKeepPreheated, ScanKept
  <2>3. CASE StartNode /\ ~Panic
    <3>1. PICK k, next, warming, waiting :
            /\ obj' = [obj EXCEPT !.warming = warming, !.waiting = waiting]
            /\ local' = [local EXCEPT !.i = k, !.next = next]
      BY <2>3, Zenon DEF StartNode
    <3> QED
      BY <1>1, <3>1, ListsKeepPreheated, ScanKept
  <2> QED
    BY <2>1, <2>2, <2>3
<1>3. UNCHANGED <<api, cache, jobCache, pulled>>
  BY DEF StartPrimer, StartNode, CreatePullJob, OnlyWorkerAndJobs, objects
<1>4. PICK n : jobs' = [jobs EXCEPT ![n][obj.version] = "active"]
  BY DEF StartPrimer, StartNode, CreatePullJob
<1>5. Traced(jobs)'
  <2> SUFFICES ASSUME NEW m \in Node, NEW v \in Version \union {NoVersion},
                      jobs'[m][v] = "succeeded"
               PROVE  <<m, v>> \in pulled
    BY <1>3 DEF Traced
  <2>1. jobs[m][v] = "succeeded"
    BY <1>4 DEF TypeOK, Jobs
  <2> QED
    BY <2>1 DEF PulledInv, Traced
<1> QED
  BY <1>2, <1>3, <1>5 DEF PulledInv, PulledOnce, Traced

(* The steps that write to the API server, read it, or end the reconcile.   *)
LEMMA CallsPulled ==
    ASSUME TypeOK, PulledInv, Save \/ SaveFails
    PROVE  PulledInv'
<1>1. \A u \in UA : api'[u].preheated \subseteq PulledOnce
  <2>1. api' = [api EXCEPT ![self] = obj] \/ api' = api
    BY DEF Save, SaveFails
  <2> QED
    BY <2>1 DEF TypeOK, PulledInv
<1>2. obj'.preheated \subseteq PulledOnce /\ local'.scan \subseteq PulledOnce
  <2>1. CASE \E step : Continue(step)
    BY <2>1, ContinueKeepsPulled
  <2>2. CASE Return
    BY <2>2, ReturnKeepsPulled
  <2>3. CASE UNCHANGED <<self, obj, local>>
    BY <2>3 DEF PulledInv
  <2> QED
    BY <2>1, <2>2, <2>3 DEF Save, SaveFails
<1>3. UNCHANGED <<cache, jobs, jobCache, pulled>>
  BY DEF Save, SaveFails, pulls
<1> QED
  BY <1>1, <1>2, <1>3 DEF PulledInv, PulledOnce, Traced

LEMMA ReadsPulled ==
    ASSUME TypeOK, PulledInv, Refetch \/ \E u \in UA : Begin(u)
    PROVE  PulledInv'
<1>1. \A u \in UA : View[u] \in Objects /\ View[u].preheated \subseteq PulledOnce
  BY ViewType DEF PulledInv, View
<1>2. obj'.preheated \subseteq PulledOnce
  <2>1. CASE \E u \in UA : obj' = View[u]
    BY <1>1, <2>1
  <2>2. CASE \E u \in UA : obj' = Disable(View[u])
    BY <1>1, <2>2, DisableClearsPreheated
  <2> QED
    BY <2>1, <2>2 DEF TypeOK, Refetch, Begin
<1>3. local'.scan \subseteq PulledOnce
  BY DEF PulledInv, Refetch, Begin
<1>4. UNCHANGED <<api, cache, jobs, jobCache, pulled>>
  BY DEF Refetch, Begin, objects, pulls
<1> QED
  BY <1>2, <1>3, <1>4, WorkerKeepsPulled

LEMMA ReturningPulled ==
    ASSUME TypeOK, PulledInv,
           JobRefused \/ CheckAllDone \/ Recover \/ Crash \/ CallFails
    PROVE  PulledInv'
<1> DEFINE broken == Failed(obj, {"Primer", "SetupComplete"})
<1>1. UNCHANGED <<api, cache, jobs, jobCache, pulled>>
  BY DEF JobRefused, CheckAllDone, Recover, Crash, CallFails, objects, pulls
<1>2. obj'.preheated \subseteq PulledOnce /\ local'.scan \subseteq PulledOnce
  <2>1. CASE Return
    BY <2>1, ReturnKeepsPulled
  <2>2. CASE ~Return
    <3>1. /\ local' = local
          /\ \/ obj' = SetCondition(obj, "Running", "ReconciliationCompleted")
             \/ obj' = SetCondition(broken, "InfrastructureFound", "InfrastructureNotFound")
             \/ obj' = broken
             \/ obj' = obj
      BY <2>2 DEF JobRefused, CheckAllDone, Recover, Crash, CallFails
    <3>2. obj \in Objects /\ broken \in Objects /\ broken.preheated = obj.preheated
      BY FailedType, FailedKeepsPreheated DEF TypeOK
    <3>3. /\ SetCondition(obj, "Running", "ReconciliationCompleted").preheated = obj.preheated
          /\ SetCondition(broken, "InfrastructureFound", "InfrastructureNotFound").preheated
               = broken.preheated
      BY <3>2, ConditionsKeepPreheated DEF ConditionTypes, Reasons
    <3> QED
      BY <3>1, <3>2, <3>3 DEF PulledInv
  <2> QED
    BY <2>1, <2>2
<1> QED
  BY <1>1, <1>2, WorkerKeepsPulled

(* The jobs, the caches and the administrators.                             *)
LEMMA JobsEndPulled ==
    ASSUME TypeOK, PulledInv, NEW n \in Node, NEW v \in Version \union {NoVersion},
           JobSucceeds(n, v) \/ JobFails(n, v) \/ JobExpires(n, v) \/ JobCollected(n, v)
    PROVE  PulledInv'
<1>1. pulled \subseteq pulled' /\ PulledOnce \subseteq PulledOnce'
  BY DEF JobSucceeds, JobFails, JobExpires, JobCollected, PulledOnce
<1>2. UNCHANGED <<api, cache, jobCache, obj, local>>
  BY DEF JobSucceeds, JobFails, JobExpires, JobCollected, objects, worker
<1>3. Traced(jobs)'
  <2> SUFFICES ASSUME NEW m \in Node, NEW w \in Version \union {NoVersion},
                      jobs'[m][w] = "succeeded"
               PROVE  <<m, w>> \in pulled'
    BY DEF Traced
  <2>1. jobs \in Jobs
    BY DEF TypeOK
  <2>2. CASE jobs[m][w] = "succeeded"
    BY <1>1, <2>2 DEF PulledInv, Traced
  <2>3. CASE jobs[m][w] # "succeeded"
    <3>1. JobSucceeds(n, v)
      BY <2>1, <2>3 DEF JobFails, JobExpires, JobCollected, Jobs
    <3>2. m = n /\ w = v
      BY <2>1, <2>3, <3>1 DEF JobSucceeds, Jobs
    <3> QED
      BY <3>1, <3>2 DEF JobSucceeds
  <2> QED
    BY <2>2, <2>3
<1>4. Traced(jobCache)'
  BY <1>1, <1>2 DEF PulledInv, Traced
<1> QED
  BY <1>1, <1>2, <1>3, <1>4 DEF PulledInv

LEMMA OthersPulled ==
    ASSUME TypeOK, PulledInv,
           \/ SyncObjects \/ SyncJobs
           \/ \E u \in UA, spec \in Specs : EditSpec(u, spec)
           \/ \E n \in Node, state \in NodeState \union {Absent} : ChangeNode(n, state)
           \/ \E v \in Version : ChangeVersion(v)
           \/ UNCHANGED vars
    PROVE  PulledInv'
<1>1. UNCHANGED <<obj, local, pulled, jobs>>
  BY DEF SyncObjects, SyncJobs, EditSpec, ChangeNode, ChangeVersion, vars, objects, pulls, worker
<1>2. jobCache' = jobCache \/ jobCache' = jobs
  BY DEF SyncObjects, SyncJobs, EditSpec, ChangeNode, ChangeVersion, vars, objects, pulls, worker
<1>3. cache' = cache \/ cache' = api
  BY DEF SyncObjects, SyncJobs, EditSpec, ChangeNode, ChangeVersion, vars, objects, pulls, worker
<1>4. \A w \in UA : api'[w].preheated \subseteq PulledOnce
  <2>1. CASE UNCHANGED api
    BY <2>1 DEF PulledInv
  <2>2. CASE \E u \in UA, spec \in Specs : EditSpec(u, spec)
    <3>1. PICK u \in UA, spec \in Specs : api' = [api EXCEPT ![u].spec = spec]
      BY <2>2 DEF EditSpec
    <3>2. \A w \in UA : api'[w].preheated = api[w].preheated
      BY <3>1 DEF TypeOK, Objects
    <3> QED
      BY <3>2 DEF PulledInv
  <2> QED
    BY <2>1, <2>2 DEF SyncObjects, SyncJobs, ChangeNode, ChangeVersion, vars, objects
<1> QED
  BY <1>1, <1>2, <1>3, <1>4 DEF PulledInv, PulledOnce, Traced

LEMMA NextPulled ==
    ASSUME TypeOK, PulledInv, [Next]_vars
    PROVE  PulledInv'
<1>1. CASE \E u \in UA : Begin(u)
  BY <1>1, ReadsPulled
<1>2. CASE Worker
  BY <1>2, CallsPulled, ReadsPulled, LocalStepsPulled, StartsPulled, ReturningPulled DEF Worker
<1>3. CASE Environment
  BY <1>3, JobsEndPulled, OthersPulled, ReturningPulled, CallsPulled DEF Environment
<1>4. CASE UNCHANGED vars
  BY <1>4, OthersPulled
<1> QED
  BY <1>1, <1>2, <1>3, <1>4 DEF Next

(* No stale cache, lost update, expired job, crash or failing call puts a   *)
(* node into status.nodesPreheated that no job has pulled for: the scan of  *)
(* lines 404-432 is the only writer, and every copy of an object it is      *)
(* merged into was true when it was made and stays so.                      *)
THEOREM PreheatedPulled == Spec => []PreheatedWasPulled
<1>1. Init => TypeOK /\ PulledInv
  BY InitType, InitPulled
<1>2. TypeOK /\ PulledInv /\ [Next]_vars => TypeOK' /\ PulledInv'
  BY NextType, NextPulled
<1>3. PulledInv => PreheatedWasPulled
  BY DEF PulledInv, PreheatedWasPulled
<1> QED
  BY <1>1, <1>2, <1>3, PTL DEF Spec
================================================================================
