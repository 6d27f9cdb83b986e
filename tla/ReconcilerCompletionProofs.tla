---------------------- MODULE ReconcilerCompletionProofs -----------------------
(* Completion is declared truthfully as long as nobody changes what is      *)
(* selected: for every set of objects, every number of nodes, every release *)
(* and every spec, whatever is stale, refused, repeated, lost or restarted  *)
(* on the way.                                                              *)
EXTENDS ReconcilerSafetyProofs

--------------------------------------------------------------------------------
(***************************************************************************)
(* What is selected stays what it is: the nodes and the release do not     *)
(* change, and every spec an administrator may write selects the same      *)
(* nodes (it may still be disabled, or change its batches).                *)
(***************************************************************************)
FixedSelection ==
    /\ "node" \notin Disruptions /\ "version" \notin Disruptions
    /\ \A first \in InitialClusters : \A spec, other \in Specs :
          TargetSet(first, spec) = TargetSet(first, other)

Targets == TargetSet(nodes, CHOOSE spec \in Specs : TRUE)
Everywhere == Targets \X {desired}

FixedInv == FixedSelection /\ nodes \in InitialClusters

--------------------------------------------------------------------------------
(***************************************************************************)
(* The invariant.  The lists, in every copy of an object and in the local  *)
(* variables, hold targets only, and a job is for a target and the release *)
(* that is desired: otherwise a list could be as long as another without   *)
(* having the same nodes (line 200 and line 436 compare lengths).          *)
(***************************************************************************)
OnTarget(o) ==
    o.selected \in Seq(Targets) /\ o.waiting \in Seq(Targets) /\ o.warming \in Seq(Targets)

ListInv ==
    /\ \A u \in UA : OnTarget(api[u]) /\ OnTarget(cache[u])
    /\ OnTarget(obj)
    /\ local.targets \in Seq(Targets) /\ local.primers \in Seq(Targets)
    /\ local.next \in Seq(Targets)
    /\ local.version \in {NoVersion, desired}
    /\ \A n \in Node, v \in Version \union {NoVersion} :
          jobs[n][v] # "none" => <<n, v>> \in Everywhere
    /\ pulled \subseteq Everywhere

(* What a status declares completed, and that the declaration is made of a *)
(* copy whose list of selected nodes is the whole of it.                    *)
Sound(o) ==
    /\ o.version \in {NoVersion, desired}
    /\ o.last # NoVersion => o.last = desired /\ Everywhere \subseteq pulled
    /\ o.conditions["Completed"] # "" => o.version = desired /\ Everywhere \subseteq pulled

Full(o) == Len(o.selected) = Cardinality(Targets)
Chosen == {"savePrimerState", "completion", "saveSelected"}
Selected == Pulling \union Completing \union
            {"saveRunning", "list", "saveReset", "scan", "saveScan", "final"}

SoundInv ==
    /\ \A u \in UA : Sound(api[u]) /\ Sound(cache[u])
    /\ fresh => Sound(obj)
    /\ pc \in Chosen => Full(obj)
    /\ pc = "refetchSelected" => Full(api[self])
    /\ (fresh /\ pc \in Selected) => Full(obj) /\ obj.version = desired

CompletionInv == FixedInv /\ ListInv /\ SoundInv

--------------------------------------------------------------------------------
(***************************************************************************)
(* What is selected.                                                       *)
(***************************************************************************)
LEMMA ClusterFixed ==
    ASSUME "node" \notin Disruptions, "version" \notin Disruptions, [Next]_vars
    PROVE  UNCHANGED <<nodes, desired>>
<1>1. CASE \E u \in UA : Begin(u)
  BY <1>1 DEF Begin, cluster
<1>2. CASE Worker
  BY <1>2 DEF Worker, Save, Refetch, CheckInfrastructure, SetupClusterVersion, DetermineNodes,
     CheckCompletion, SetupResources, FillWaiting, SkipPriming, PassPrimer, StartPrimer,
     EndPriming, ClosedGate, TakeAll, TakeBatch, PassNode, StartNode, EndSchedule, JobRefused,
     ListJobs, ScanJob, EndScan, CheckAllDone, RecordCompletion, ReportFailure, Recover,
     OnlyWorker, OnlyWorkerAndJobs, cluster
<1>3. CASE Environment
  BY <1>3 DEF Environment, JobSucceeds, JobFails, JobExpires, JobCollected, SyncObjects,
     SyncJobs, EditSpec, ChangeNode, ChangeVersion, Crash, CallFails, SaveFails, Disrupt,
     cluster
<1>4. CASE UNCHANGED vars
  BY <1>4 DEF vars
<1> QED
  BY <1>1, <1>2, <1>3, <1>4 DEF Next

LEMMA TargetsFixed ==
    ASSUME UNCHANGED <<nodes, desired>>
    PROVE  Targets' = Targets /\ Everywhere' = Everywhere
BY DEF Targets, Everywhere

LEMMA TargetsAreNodes ==
    ASSUME TypeOK
    PROVE  Targets \subseteq Node /\ IsFiniteSet(Targets)
<1> DEFINE spec == CHOOSE s \in Specs : TRUE
           selected == SelectedNodes(nodes, spec.selector)
<1>1. spec.prime \in BOOLEAN
  <2>1. api[self].spec \in Specs
    BY DEF TypeOK, Objects
  <2> QED
    BY <2>1, SpecsAssumption
<1>2. selected \subseteq Node
  BY SelectedArePresent DEF Present
<1>3. PrimerNodes(nodes, spec.prime, selected) \subseteq Node
  BY <1>1, SelectedArePresent, PrimersArePresent DEF Present
<1>4. Targets \subseteq Node
  BY <1>2, <1>3 DEF Targets, TargetSet, BaseTargets, AppendedPrimers
<1> QED
  BY <1>4, NodeAssumption, FS_Subset

(* Every call of determineTargetedNodes lists the same targets, each once.  *)
LEMMA DeterminedTargets ==
    ASSUME TypeOK, FixedInv, NEW spec \in Specs, NEW d \in Determinations(nodes, spec)
    PROVE  /\ d.targeted \in Seq(Targets) /\ d.primers \in Seq(Targets)
           /\ Len(d.targeted) = Cardinality(Targets)
<1> DEFINE selected == SelectedNodes(nodes, spec.selector)
           base == BaseTargets(nodes, spec.prime, selected)
           appended == AppendedPrimers(nodes, spec.prime, selected)
           primers == PrimerNodes(nodes, spec.prime, selected)
<1>1. PICK b \in SortedListings(base), a \in Listings(appended),
           p \in SortedListings(primers) : d = [targeted |-> b \o a, primers |-> p]
  BY DEF Determinations
<1>2. base \union appended = Targets
  <2>1. TargetSet(nodes, spec) = Targets
    BY DEF FixedInv, FixedSelection, Targets
  <2> QED
    BY <2>1 DEF TargetSet
<1>3. base \cap appended = {} /\ primers \subseteq base \union appended
  BY DEF AppendedPrimers
<1>4. IsFiniteSet(base) /\ IsFiniteSet(appended) /\ IsFiniteSet(primers)
  BY <1>2, <1>3, TargetsAreNodes, FS_Subset
<1> HIDE DEF base, appended, primers
<1>5. /\ b \in Seq(base) /\ Len(b) = Cardinality(base)
      /\ a \in Seq(appended) /\ Len(a) = Cardinality(appended)
      /\ p \in Seq(primers)
  <2>1. b \in Seq(base) /\ a \in Seq(appended) /\ p \in Seq(primers)
    BY <1>4, ListingsType, SortedListingsType
  <2>2. /\ b \in [1 .. Cardinality(base) -> base]
        /\ a \in [1 .. Cardinality(appended) -> appended]
    BY DEF SortedListings, Listings
  <2>3. Cardinality(base) \in Nat /\ Cardinality(appended) \in Nat
    BY <1>4, FS_CardinalityType
  <2> QED
    BY <2>1, <2>2, <2>3
<1>6. Cardinality(Targets) = Len(b) + Len(a)
  <2>1. Cardinality(base \union appended)
          = Cardinality(base) + Cardinality(appended) - Cardinality(base \cap appended)
    BY <1>4, FS_Union
  <2>2. Cardinality(base \cap appended) = 0
    BY <1>3, FS_EmptySet
  <2>3. Cardinality(base) \in Nat /\ Cardinality(appended) \in Nat
    BY <1>4, FS_CardinalityType
  <2>4. Cardinality(Targets) = Cardinality(base \union appended)
    BY <1>2, Zenon
  <2> HIDE DEF Targets
  <2> QED
    BY <1>5, <2>1, <2>2, <2>3, <2>4
<1>7. b \in Seq(Targets) /\ a \in Seq(Targets) /\ p \in Seq(Targets)
  BY <1>2, <1>3, <1>5
<1>8. b \o a \in Seq(Targets) /\ Len(b \o a) = Len(b) + Len(a)
  BY <1>7
<1> QED
  BY <1>1, <1>6, <1>7, <1>8

(* When the preheated nodes are as many as the targets, all were pulled.    *)
LEMMA AllWerePulled ==
    ASSUME TypeOK, ListInv, NEW o \in Objects, o.preheated \subseteq PulledOnce,
           Full(o), AllPreheated(o)
    PROVE  Everywhere \subseteq pulled
<1>1. PulledOnce \subseteq Targets
  BY DEF ListInv, Everywhere, PulledOnce
<1>2. o.preheated = Targets
  <2>1. IsFiniteSet(Targets) /\ o.preheated \in SUBSET Targets
    BY <1>1, TargetsAreNodes
  <2>2. Cardinality(o.preheated) = Cardinality(Targets)
    BY DEF Full, AllPreheated
  <2> QED
    BY <2>1, <2>2, FS_Subset
<1>3. \A n \in Targets : <<n, desired>> \in pulled
  <2> SUFFICES ASSUME NEW n \in Targets PROVE <<n, desired>> \in pulled
    OBVIOUS
  <2>1. PICK pull \in pulled : pull[1] = n
    BY <1>2 DEF PulledOnce
  <2>2. pull = <<n, desired>>
    BY <2>1 DEF ListInv, Everywhere
  <2> QED
    BY <2>2
<1> QED
  BY <1>3 DEF Everywhere

--------------------------------------------------------------------------------
(***************************************************************************)
(* What the operators leave alone.                                         *)
(***************************************************************************)
(* Only the infrastructure or conditions other than Completed differ.       *)
Alike(p, o) == Same(p, o) /\ p.conditions["Completed"] = o.conditions["Completed"]

LEMMA AlikeTransitive ==
    ASSUME NEW o, NEW p, NEW q, Alike(o, p), Alike(p, q)
    PROVE  Alike(o, q)
BY SameTransitive DEF Alike

LEMMA SetConditionAlike ==
    ASSUME NEW o \in Objects, NEW type \in ConditionTypes \ {"Completed"},
           NEW reason \in Reasons
    PROVE  /\ SetCondition(o, type, reason) \in Objects
           /\ Alike(SetCondition(o, type, reason), o)
<1>1. SetCondition(o, type, reason).conditions["Completed"] = o.conditions["Completed"]
  BY DEF SetCondition, Objects, ConditionTypes
<1> QED
  BY <1>1, SetConditionType, SetConditionSame DEF Alike

LEMMA DeleteConditionsAlike ==
    ASSUME NEW o \in Objects, NEW types, "Completed" \notin types
    PROVE  Alike(DeleteConditions(o, types), o)
<1>1. DeleteConditions(o, types).conditions["Completed"] = o.conditions["Completed"]
  BY DEF DeleteConditions, Objects, ConditionTypes
<1> QED
  BY <1>1, DeleteConditionsSame DEF Alike

LEMMA FailedAlike ==
    ASSUME NEW o \in Objects, NEW types, "Completed" \notin types
    PROVE  Alike(Failed(o, types), o)
<1>1. /\ SetCondition(o, "Failure", "Failed") \in Objects
      /\ Alike(SetCondition(o, "Failure", "Failed"), o)
  BY SetConditionAlike DEF ConditionTypes, Reasons
<1> QED
  BY <1>1, DeleteConditionsAlike, AlikeTransitive DEF Failed

LEMMA AfterPrimingAlike ==
    ASSUME NEW o \in Objects, NEW scheduled \in BOOLEAN, NEW stillRunning \in BOOLEAN
    PROVE  Alike(AfterPriming(o, scheduled, stillRunning), o)
<1> DEFINE inProgress == SetCondition(o, "Primer", "PrimingInProgress")
<1>1. /\ inProgress \in Objects /\ Alike(inProgress, o)
      /\ Alike(SetCondition(o, "Primer", "PrimingCompleted"), o)
      /\ Alike(SetCondition(o, "Running", "JobsScheduled"), o)
  BY SetConditionAlike DEF ConditionTypes, Reasons
<1>2. Alike(SetCondition(inProgress, "Running", "JobsScheduled"), o)
  <2>1. Alike(SetCondition(inProgress, "Running", "JobsScheduled"), inProgress)
    BY <1>1, SetConditionAlike DEF ConditionTypes, Reasons
  <2> QED
    BY <1>1, <2>1, AlikeTransitive
<1>3. Alike(o, o)
  BY DEF Alike, Same
<1> QED
  BY <1>1, <1>2, <1>3 DEF AfterPriming

(* Clearing the lists leaves what is said of the release alone.             *)
Reset(p, o) ==
    /\ p.selected = <<>> /\ p.waiting = <<>> /\ p.warming = <<>>
    /\ p.version = o.version /\ p.last = o.last
    /\ p.conditions["Completed"] = o.conditions["Completed"]

LEMMA ClearedReset ==
    ASSUME NEW o \in Objects
    PROVE  Reset(Disable(o), o) /\ Reset(NoNodes(o), o)
<1> DEFINE disabled == SetCondition(ClearLists(o), "Running", "Disabled")
           noNodes == SetCondition(ClearLists(o), "Running", "NoNodesSelected")
<1>1. ClearLists(o) \in Objects /\ Reset(ClearLists(o), o)
  <2>1. Reset(ClearLists(o), o)
    BY DEF ClearLists, Objects, Reset
  <2> QED
    BY <2>1, ClearListsType
<1>2. /\ disabled \in Objects /\ noNodes \in Objects
      /\ Alike(disabled, ClearLists(o)) /\ Alike(noNodes, ClearLists(o))
  BY <1>1, SetConditionAlike DEF ConditionTypes, Reasons
<1>3. Alike(Disable(o), disabled) /\ Alike(NoNodes(o), noNodes)
  BY <1>2, DeleteConditionsAlike DEF Disable, NoNodes
<1>4. \A p, q : Alike(p, q) /\ Reset(q, o) => Reset(p, o)
  BY DEF Alike, Same, Reset
<1> QED
  BY <1>1, <1>2, <1>3, <1>4

(* The steps that neither touch a list nor declare completion.              *)
Calm ==
    \/ CheckInfrastructure \/ SetupResources \/ SkipPriming \/ PassPrimer \/ EndPriming
    \/ ClosedGate \/ TakeAll \/ PassNode \/ EndSchedule \/ EndScan \/ ReportFailure
    \/ CheckAllDone \/ JobRefused \/ Recover \/ Crash \/ CallFails

LEMMA CalmAlike ==
    ASSUME TypeOK, Calm, ~Return
    PROVE  Alike(obj', obj)
<1>0. obj \in Objects /\ local \in LocalVariables /\ Alike(obj, obj)
  BY DEF TypeOK, Alike, Same
<1>1. CASE CheckInfrastructure
  <2> DEFINE found == SetCondition(obj, "InfrastructureFound", "InfrastructureFound")
  <2>1. found \in Objects /\ Alike(found, obj)
    BY <1>0, SetConditionAlike DEF ConditionTypes, Reasons
  <2>2. Alike([found EXCEPT !.infrastructure = TRUE], found)
    <3> HIDE DEF found
    <3> QED
      BY <2>1 DEF Alike, Same, Objects
  <2>3. obj' = obj \/ obj' = [found EXCEPT !.infrastructure = TRUE]
    BY <1>1 DEF CheckInfrastructure
  <2>4. obj' = obj \/ Alike(obj', found)
    BY <2>2, <2>3, Zenon
  <2> HIDE DEF found
  <2> QED
    BY <1>0, <2>1, <2>4, AlikeTransitive
<1>2. CASE SetupResources
  BY <1>0, <1>2, SetConditionAlike DEF SetupResources, ConditionTypes, Reasons
<1>3. CASE EndPriming
  BY <1>0, <1>3, AfterPrimingAlike DEF EndPriming, LocalVariables
<1>4. CASE EndSchedule
  BY <1>0, <1>4, SetConditionAlike DEF EndSchedule, ConditionTypes, Reasons
<1>5. CASE ReportFailure
  BY <1>0, <1>5, FailedAlike DEF ReportFailure
<1>6. CASE CheckAllDone
  BY <1>0, <1>6, SetConditionAlike DEF CheckAllDone, ConditionTypes, Reasons
<1>7. CASE CallFails
  <2> DEFINE broken == Failed(obj, {"Primer", "SetupComplete"})
             found == SetCondition(broken, "InfrastructureFound", "InfrastructureNotFound")
  <2>1. broken \in Objects /\ Alike(broken, obj)
    BY <1>0, FailedType, FailedAlike
  <2>2. Alike(found, obj)
    BY <2>1, SetConditionAlike, AlikeTransitive DEF ConditionTypes, Reasons
  <2>3. obj' = found \/ obj' = broken \/ obj' = obj
    BY <1>7 DEF CallFails
  <2> HIDE DEF found, broken
  <2> QED
    BY <1>0, <2>1, <2>2, <2>3
<1>8. CASE \/ SkipPriming \/ PassPrimer \/ ClosedGate \/ TakeAll \/ PassNode \/ EndScan
           \/ JobRefused \/ Recover \/ Crash
  BY <1>0, <1>8 DEF SkipPriming, PassPrimer, ClosedGate, TakeAll, PassNode, EndScan,
     JobRefused, Recover, Crash
<1> QED
  BY <1>1, <1>2, <1>3, <1>4, <1>5, <1>6, <1>7, <1>8 DEF Calm

LEMMA CheckCompletionSame ==
    ASSUME TypeOK, CheckCompletion
    PROVE  /\ Same(obj', obj)
           /\ obj' = obj \/ NothingLeft(obj)
<1> DEFINE done == SetCondition(obj, "Running", "ReconciliationCompleted")
<1>0. obj \in Objects /\ Same(obj, obj)
  BY DEF TypeOK, Same
<1>1. done \in Objects /\ Same(done, obj)
  BY <1>0, SetConditionType, SetConditionSame DEF ConditionTypes, Reasons
<1>2. Same(SetCondition(done, "Completed", "ReconciliationCompleted"), done)
  BY <1>1, SetConditionSame DEF ConditionTypes, Reasons
<1> QED
  BY <1>0, <1>1, <1>2, SameTransitive DEF CheckCompletion

--------------------------------------------------------------------------------
(***************************************************************************)
(* The lists.                                                              *)
(***************************************************************************)
Locals(l) ==
    /\ l.targets \in Seq(Targets) /\ l.primers \in Seq(Targets) /\ l.next \in Seq(Targets)
    /\ l.version \in {NoVersion, desired}

LEMMA LocalsListed ==
    ASSUME NEW l \in LocalVariables, Locals(l), NEW k, NEW b, NEW next \in Seq(Targets), NEW scan
    PROVE  /\ Locals([l EXCEPT !.i = k])
           /\ Locals([l EXCEPT !.i = k, !.stillRunning = b])
           /\ Locals([l EXCEPT !.i = k, !.scheduled = TRUE, !.stillRunning = b])
           /\ Locals([l EXCEPT !.i = k, !.next = next])
           /\ Locals([l EXCEPT !.next = next, !.i = k])
           /\ Locals([l EXCEPT !.scan = scan])
BY DEF Locals, LocalVariables

LEMMA NoLocalsListed ==
    ASSUME Return
    PROVE  OnTarget(obj') /\ Locals(local')
<1>1. obj' = Blank /\ local' = NoLocals
  BY DEF Return
<1>2. <<>> \in Seq(Targets)
  OBVIOUS
<1>3. Blank.selected = <<>> /\ Blank.waiting = <<>> /\ Blank.warming = <<>>
  BY DEF Blank, NewObject
<1>4. /\ NoLocals.targets = <<>> /\ NoLocals.primers = <<>> /\ NoLocals.next = <<>>
      /\ NoLocals.version = NoVersion
  BY DEF NoLocals
<1>5. OnTarget(Blank)
  BY <1>2, <1>3 DEF OnTarget
<1>6. Locals(NoLocals)
  BY <1>2, <1>4 DEF Locals
<1> QED
  BY <1>1, <1>5, <1>6

LEMMA ResetListed ==
    ASSUME NEW p, NEW o, Reset(p, o)
    PROVE  OnTarget(p)
<1>1. <<>> \in Seq(Targets)
  OBVIOUS
<1> QED
  BY <1>1 DEF Reset, OnTarget

(* A step that starts no job and ends none.                                 *)
LEMMA ListsStay ==
    ASSUME ListInv, UNCHANGED <<nodes, desired, jobs, pulled>>,
           \A u \in UA : OnTarget(api'[u]) /\ OnTarget(cache'[u]),
           OnTarget(obj'), Locals(local')
    PROVE  ListInv'
<1>1. Targets' = Targets /\ Everywhere' = Everywhere
  BY TargetsFixed
<1> QED
  BY <1>1 DEF ListInv, OnTarget, Locals

(* The same of a step that only the worker sees.                            *)
LEMMA ListsStayInMemory ==
    ASSUME ListInv, UNCHANGED <<nodes, desired, jobs, pulled, api, cache>>,
           OnTarget(obj'), Locals(local')
    PROVE  ListInv'
BY ListsStay DEF ListInv

LEMMA CalmLists ==
    ASSUME TypeOK, ListInv, UNCHANGED <<nodes, desired>>, Calm \/ CheckCompletion
    PROVE  ListInv'
<1>0. obj \in Objects /\ local \in LocalVariables /\ OnTarget(obj) /\ Locals(local)
  BY DEF TypeOK, ListInv, Locals
<1>1. UNCHANGED <<api, cache, jobs, pulled>>
  BY DEF Calm, CheckCompletion, CheckInfrastructure, SetupResources, SkipPriming, PassPrimer,
     EndPriming, ClosedGate, TakeAll, PassNode, EndSchedule, EndScan, ReportFailure,
     CheckAllDone, JobRefused, Recover, Crash, CallFails, OnlyWorker, objects, pulls
<1>2. CASE Return
  BY <1>1, <1>2, NoLocalsListed, ListsStayInMemory
<1>3. CASE ~Return
  <2>1. Same(obj', obj)
    BY <1>3, CalmAlike, CheckCompletionSame DEF Alike
  <2>2. OnTarget(obj')
    BY <1>0, <2>1 DEF OnTarget, Same
  <2>3. Locals(local')
    <3>1. CASE PassPrimer
      <4>1. PICK b : local' = [local EXCEPT !.i = local.i + 1, !.stillRunning = b]
        BY <3>1 DEF PassPrimer
      <4> QED
        BY <1>0, <4>1, LocalsListed DEF OnTarget
    <3>2. CASE TakeAll
      BY <1>0, <3>2, LocalsListed DEF TakeAll, OnTarget
    <3>3. CASE PassNode
      BY <1>0, <3>3, LocalsListed DEF PassNode, OnTarget
    <3>4. CASE ~(PassPrimer \/ TakeAll \/ PassNode)
      <4>1. local' = local
        BY <1>3, <3>4 DEF Calm, CheckCompletion, CheckInfrastructure, SetupResources,
           SkipPriming, EndPriming, ClosedGate, EndSchedule, EndScan, ReportFailure,
           CheckAllDone, JobRefused, Recover, Crash, CallFails
      <4> QED
        BY <1>0, <4>1
    <3> QED
      BY <3>1, <3>2, <3>3, <3>4
  <2> QED
    BY <1>1, <2>2, <2>3, ListsStayInMemory
<1> QED
  BY <1>2, <1>3

LEMMA CallsList ==
    ASSUME TypeOK, ListInv, UNCHANGED <<nodes, desired>>,
           Save \/ SaveFails \/ Refetch \/ \E u \in UA : Begin(u)
    PROVE  ListInv'
<1>0. /\ OnTarget(obj) /\ Locals(local) /\ UNCHANGED <<cache, jobs, pulled>>
      /\ \A u \in UA : OnTarget(api[u]) /\ OnTarget(cache[u]) /\ OnTarget(View[u])
  BY DEF ListInv, Locals, View, Save, SaveFails, Refetch, Begin, objects, pulls
<1>1. \A u \in UA : OnTarget(api'[u])
  <2>1. api' = api \/ api' = [api EXCEPT ![self] = obj]
    BY DEF Save, SaveFails, Refetch, Begin, objects
  <2> QED
    BY <1>0, <2>1 DEF TypeOK
<1>2. OnTarget(obj') /\ Locals(local')
  <2>1. CASE Return
    BY <2>1, NoLocalsListed
  <2>2. CASE UNCHANGED <<obj, local>>
    BY <1>0, <2>2
  <2>3. CASE Refetch
    BY <1>0, <2>3 DEF Refetch, TypeOK
  <2>4. CASE \E u \in UA : Begin(u)
    <3>1. PICK u \in UA : local' = local /\ (obj' = View[u] \/ obj' = Disable(View[u]))
      BY <2>4 DEF Begin
    <3>2. Reset(Disable(View[u]), View[u])
      BY <3>1, ViewType, ClearedReset
    <3>3. OnTarget(Disable(View[u]))
      BY <3>2, ResetListed
    <3> QED
      BY <1>0, <3>1, <3>3
  <2> QED
    BY <2>1, <2>2, <2>3, <2>4 DEF Save, SaveFails, Continue
<1> QED
  BY <1>0, <1>1, <1>2, ListsStay

LEMMA DetermineLists ==
    ASSUME TypeOK, FixedInv, ListInv, UNCHANGED <<nodes, desired>>, DetermineNodes
    PROVE  ListInv'
<1>0. /\ obj \in Objects /\ obj.spec \in Specs /\ local \in LocalVariables
      /\ OnTarget(obj) /\ Locals(local) /\ UNCHANGED <<api, cache, jobs, pulled>>
  BY DEF TypeOK, Objects, ListInv, Locals, DetermineNodes, OnlyWorker, objects, pulls
<1>1. PICK d \in Determinations(nodes, obj.spec) :
        /\ local' = [local EXCEPT !.targets = d.targeted, !.primers = d.primers]
        /\ \/ obj' = NoNodes(obj)
           \/ SetPrimerState([obj EXCEPT !.selected = d.targeted], d.primers)
  BY DEF DetermineNodes
<1>2. d.targeted \in Seq(Targets) /\ d.primers \in Seq(Targets)
  BY <1>0, DeterminedTargets
<1>3. Locals(local')
  BY <1>0, <1>1, <1>2 DEF Locals, LocalVariables
<1>4. OnTarget(obj')
  <2>1. CASE obj' = NoNodes(obj)
    BY <1>0, <2>1, ClearedReset, ResetListed
  <2> DEFINE o == [obj EXCEPT !.selected = d.targeted]
  <2>2. CASE SetPrimerState(o, d.primers)
    <3>1. o \in Objects /\ OnTarget(o)
      <4>1. d.targeted \in Seq(Node)
        BY <1>0, SpecsAssumption, DeterminationsType DEF Objects
      <4> QED
        BY <1>0, <1>2, <4>1 DEF Objects, OnTarget
    <3> HIDE DEF o
    <3>2. Same(obj', o)
      <4>1. /\ Same(o, o) /\ Same(SetCondition(o, "Primer", "PrimingSkipped"), o)
            /\ Same(SetCondition(o, "Primer", "PrimingCompleted"), o)
        BY <3>1, SetConditionSame DEF ConditionTypes, Reasons, Same
      <4> QED
        BY <2>2, <4>1 DEF SetPrimerState
    <3> QED
      BY <3>1, <3>2 DEF Same, OnTarget
  <2> QED
    BY <1>1, <2>1, <2>2
<1> QED
  BY <1>0, <1>3, <1>4, ListsStayInMemory

LEMMA ListStepsListed ==
    ASSUME TypeOK, ListInv, UNCHANGED <<nodes, desired>>,
           \/ SetupClusterVersion \/ FillWaiting \/ TakeBatch \/ ListJobs \/ ScanJob
           \/ RecordCompletion
    PROVE  ListInv'
<1>0. /\ obj \in Objects /\ local \in LocalVariables /\ OnTarget(obj) /\ Locals(local)
      /\ obj.waiting \in Seq(Targets) /\ obj.warming \in Seq(Targets)
  BY DEF TypeOK, ListInv, Locals, OnTarget
<1>00. UNCHANGED <<api, cache, jobs, pulled>>
  BY DEF SetupClusterVersion, FillWaiting, TakeBatch, ListJobs, ScanJob, RecordCompletion,
     OnlyWorker, objects, pulls
<1> SUFFICES OnTarget(obj') /\ Locals(local')
  BY <1>00, ListsStayInMemory
<1>1. CASE SetupClusterVersion
  <2>1. Locals([local EXCEPT !.version = desired])
    BY <1>0 DEF Locals, LocalVariables
  <2>2. OnTarget(SetVersion(obj, desired))
    BY <1>0 DEF SetVersion, Objects, OnTarget
  <2> QED
    BY <1>0, <1>1, <2>1, <2>2 DEF SetupClusterVersion
<1>2. CASE FillWaiting
  <2>1. CASE obj' = obj
    BY <1>0, <1>2, <2>1 DEF FillWaiting
  <2>2. CASE obj' # obj
    <3>1. PICK new \in InOrderOf(local.targets, Unlisted(obj, local.targets)) :
            obj' = [obj EXCEPT !.waiting = obj.waiting \o new]
      BY <1>2, <2>2 DEF FillWaiting
    <3>2. new \in Seq(Targets)
      <4> DEFINE unlisted == Unlisted(obj, local.targets)
      <4>1. unlisted \in SUBSET Targets
        BY <1>0, ElementsType DEF Unlisted, Locals
      <4>2. IsFiniteSet(unlisted)
        BY <4>1, TargetsAreNodes, FS_Subset
      <4> HIDE DEF unlisted
      <4>3. new \in Listings(unlisted)
        BY <3>1 DEF InOrderOf, unlisted
      <4>4. new \in Seq(unlisted)
        BY <4>2, <4>3, ListingsType
      <4> QED
        BY <4>1, <4>4
    <3>3. obj.waiting \o new \in Seq(Targets)
      BY <1>0, <3>2
    <3>4. OnTarget([obj EXCEPT !.waiting = obj.waiting \o new])
      <4> DEFINE waiting == obj.waiting \o new
      <4> HIDE DEF waiting
      <4>1. OnTarget([obj EXCEPT !.waiting = waiting])
        BY <1>0, <3>3 DEF OnTarget, Objects, waiting
      <4> QED
        BY <4>1 DEF waiting
    <3> QED
      BY <1>0, <1>2, <3>1, <3>4 DEF FillWaiting
  <2> QED
    BY <2>1, <2>2
<1>3. CASE TakeBatch
  <2>1. CASE Panic
    BY <1>0, <2>1 DEF Panic
  <2>2. CASE ~Panic
    <3> DEFINE size == Batch(obj.spec.parallelism)
               next == SubSeq(obj.waiting, 1, size)
               waiting == SubSeq(obj.waiting, size + 1, Len(obj.waiting))
    <3>1. size \in Nat
      <4>1. obj.spec.parallelism \in Int
        BY <1>0, SpecsAssumption DEF Objects
      <4> QED
        BY <4>1 DEF Batch
    <3>2. /\ size <= Len(obj.waiting)
          /\ local' = [local EXCEPT !.next = next, !.i = 1]
          /\ obj' = [obj EXCEPT !.waiting = waiting]
      BY <1>3, <2>2 DEF TakeBatch
    <3> HIDE DEF size
    <3>3. next \in Seq(Targets) /\ waiting \in Seq(Targets)
      BY <1>0, <3>1, <3>2
    <3> HIDE DEF next, waiting
    <3>4. OnTarget(obj')
      BY <1>0, <3>2, <3>3 DEF OnTarget, Objects
    <3> QED
      BY <1>0, <3>2, <3>3, <3>4, LocalsListed
  <2> QED
    BY <2>1, <2>2
<1>4. CASE ListJobs
  <2>1. Locals(local')
    <3>1. local' = local \/ \E scan : local' = [local EXCEPT !.scan = scan]
      BY <1>4 DEF ListJobs
    <3> QED
      BY <1>0, <3>1, LocalsListed DEF OnTarget
  <2>2. OnTarget(Rescheduled(obj))
    <3> DEFINE both == obj.waiting \o obj.warming
    <3>1. both \in Seq(Targets)
      BY <1>0
    <3>2. /\ Rescheduled(obj).waiting = both /\ Rescheduled(obj).warming = <<>>
          /\ Rescheduled(obj).selected = obj.selected
      BY <1>0 DEF Rescheduled, Objects
    <3> HIDE DEF both
    <3> QED
      BY <1>0, <3>1, <3>2 DEF OnTarget
  <2> QED
    BY <1>0, <1>4, <2>1, <2>2 DEF ListJobs
<1>5. CASE ScanJob
  <2>1. PICK n \in local.scan : local' = [local EXCEPT !.scan = local.scan \ {n}]
                                /\ obj' = Preheat(obj, n)
    BY <1>5 DEF ScanJob
  <2>2. OnTarget(Preheat(obj, n))
    <3> DEFINE warming == IF n \in Elements(obj.warming) THEN Without(obj.warming, n)
                                                         ELSE obj.warming
               more == obj.preheated \union {n}
    <3>1. warming \in Seq(Targets)
      BY <1>0, WithoutType
    <3>2. Preheat(obj, n) = [obj EXCEPT !.preheated = more, !.warming = warming]
      BY Zenon DEF Preheat
    <3> HIDE DEF warming, more
    <3> QED
      BY <1>0, <3>1, <3>2 DEF OnTarget, Objects
  <2> QED
    BY <1>0, <2>1, <2>2, LocalsListed DEF OnTarget
<1>6. CASE RecordCompletion
  <2>1. OnTarget([obj EXCEPT !.last = obj.version])
    BY <1>0 DEF OnTarget, Objects
  <2> QED
    BY <1>0, <1>6, <2>1 DEF RecordCompletion
<1> QED
  BY <1>1, <1>2, <1>3, <1>4, <1>5, <1>6

(* A job is started for a target, and for the release that is desired.      *)
LEMMA StartsListed ==
    ASSUME TypeOK, CopyInv, ListInv, UNCHANGED <<nodes, desired>>, StartPrimer \/ StartNode
    PROVE  ListInv'
<1>0. /\ obj \in Objects /\ local \in LocalVariables /\ OnTarget(obj) /\ Locals(local)
      /\ obj.waiting \in Seq(Targets) /\ obj.warming \in Seq(Targets)
      /\ local.i \in Nat \ {0} /\ local.primers \in Seq(Targets) /\ local.next \in Seq(Targets)
      /\ Targets \subseteq Node
  BY TargetsAreNodes DEF TypeOK, ListInv, Locals, LocalVariables, OnTarget
<1>1. /\ UNCHANGED <<api, cache, pulled>>
      /\ pc \in Pulling
  BY Zenon DEF StartPrimer, StartNode, CreatePullJob, OnlyWorkerAndJobs, objects, Pulling
<1>2. obj.version = desired
  <2>1. obj.version = local.version /\ local.version \in Version
    BY <1>1 DEF CopyInv, VersionCopied, Versioned
  <2> QED
    BY <1>0, <2>1, VersionAssumption DEF Locals
<1>3. PICK n \in Targets :
        /\ CreatePullJob(n)
        /\ \/ Panic
           \/ /\ obj' = [obj EXCEPT !.warming = Append(obj.warming, n),
                                    !.waiting = AfterPrimer(obj.waiting, n)]
              /\ \E k, b : local' = [local EXCEPT !.i = k, !.scheduled = TRUE,
                                                  !.stillRunning = b]
           \/ /\ obj' = [obj EXCEPT !.warming = Append(obj.warming, n),
                                    !.waiting = Without(obj.waiting, n)]
              /\ \E k : local' = [local EXCEPT !.i = k,
                                    !.next = NextAfter(local.next, obj.waiting, n)]
  <2>1. CASE StartPrimer
    <3> DEFINE n == local.primers[local.i]
    <3>1. n \in Targets
      BY <1>0, <2>1 DEF StartPrimer
    <3>2. /\ CreatePullJob(n)
          /\ \/ Panic
             \/ /\ obj' = [obj EXCEPT !.warming = Append(obj.warming, n),
                                      !.waiting = AfterPrimer(obj.waiting, n)]
                /\ \E k, b : local' = [local EXCEPT !.i = k, !.scheduled = TRUE,
                                                    !.stillRunning = b]
      BY <2>1, Zenon DEF StartPrimer
    <3> HIDE DEF n
    <3> QED
      BY <3>1, <3>2
  <2>2. CASE StartNode
    <3> DEFINE n == local.next[local.i]
    <3>1. n \in Targets
      BY <1>0, <2>2 DEF StartNode
    <3>2. /\ CreatePullJob(n)
          /\ \/ Panic
             \/ /\ obj' = [obj EXCEPT !.warming = Append(obj.warming, n),
                                      !.waiting = Without(obj.waiting, n)]
                /\ \E k : local' = [local EXCEPT !.i = k,
                                      !.next = NextAfter(local.next, obj.waiting, n)]
      BY <2>2, Zenon DEF StartNode
    <3> HIDE DEF n
    <3> QED
      BY <3>1, <3>2
  <2> QED
    BY <2>1, <2>2
<1>4. OnTarget(obj') /\ Locals(local')
  <2>1. CASE Panic
    BY <1>0, <2>1 DEF Panic
  <2> DEFINE more == Append(obj.warming, n)
             next == NextAfter(local.next, obj.waiting, n)
  <2>2. more \in Seq(Targets) /\ next \in Seq(Targets)
    BY <1>0, WithoutType, OverwrittenType DEF NextAfter
  <2>3. Without(obj.waiting, n) \in Seq(Targets) /\ AfterPrimer(obj.waiting, n) \in Seq(Targets)
    BY <1>0, WithoutType DEF AfterPrimer
  <2>4. \A waiting \in Seq(Targets) :
          OnTarget([obj EXCEPT !.warming = more, !.waiting = waiting])
    <3> HIDE DEF more
    <3> QED
      BY <1>0, <2>2 DEF OnTarget, Objects
  <2>5. /\ \A k, b : Locals([local EXCEPT !.i = k, !.scheduled = TRUE, !.stillRunning = b])
        /\ \A k : Locals([local EXCEPT !.i = k, !.next = next])
    <3> HIDE DEF next
    <3> QED
      BY <1>0, <2>2, LocalsListed
  <2> HIDE DEF more, next
  <2>6. CASE /\ obj' = [obj EXCEPT !.warming = more, !.waiting = AfterPrimer(obj.waiting, n)]
             /\ \E k, b : local' = [local EXCEPT !.i = k, !.scheduled = TRUE,
                                                 !.stillRunning = b]
    <3>1. PICK k, b : local' = [local EXCEPT !.i = k, !.scheduled = TRUE, !.stillRunning = b]
      BY <2>6
    <3>2. Locals(local')
      BY <2>5, <3>1
    <3>3. OnTarget(obj')
      BY <2>3, <2>4, <2>6
    <3> QED
      BY <3>2, <3>3
  <2>7. CASE /\ obj' = [obj EXCEPT !.warming = more, !.waiting = Without(obj.waiting, n)]
             /\ \E k : local' = [local EXCEPT !.i = k, !.next = next]
    <3>1. PICK k : local' = [local EXCEPT !.i = k, !.next = next]
      BY <2>7
    <3>2. Locals(local')
      BY <2>5, <3>1
    <3>3. OnTarget(obj')
      BY <2>3, <2>4, <2>7
    <3> QED
      BY <3>2, <3>3
  <2> QED
    BY <1>3, <2>1, <2>6, <2>7 DEF more, next
<1>5. \A m \in Node, v \in Version \union {NoVersion} :
        jobs'[m][v] # "none" => jobs[m][v] # "none" \/ <<m, v>> = <<n, desired>>
  <2>1. jobs' = [jobs EXCEPT ![n][desired] = "active"] /\ jobs \in Jobs
    BY <1>2, <1>3 DEF CreatePullJob, TypeOK
  <2> QED
    BY <2>1 DEF Jobs
<1>6. Targets' = Targets /\ Everywhere' = Everywhere /\ <<n, desired>> \in Everywhere
  BY TargetsFixed DEF Everywhere
<1>7. \A u \in UA : OnTarget(api[u])' /\ OnTarget(cache[u])'
  BY <1>1, <1>6 DEF ListInv, OnTarget
<1>8. OnTarget(obj)' /\ local'.version \in {NoVersion, desired'}
      /\ local'.targets \in Seq(Targets)' /\ local'.primers \in Seq(Targets)'
      /\ local'.next \in Seq(Targets)'
  BY <1>4, <1>6 DEF OnTarget, Locals
<1>9. \A m \in Node, v \in Version \union {NoVersion} :
        jobs'[m][v] # "none" => <<m, v>> \in Everywhere'
  BY <1>5, <1>6 DEF ListInv
<1>10. pulled' \subseteq Everywhere'
  BY <1>1, <1>6 DEF ListInv
<1> QED
  BY <1>7, <1>8, <1>9, <1>10 DEF ListInv

LEMMA OthersListed ==
    ASSUME TypeOK, ListInv, UNCHANGED <<nodes, desired>>,
           \/ \E n \in Node, v \in Version \union {NoVersion} :
                 JobSucceeds(n, v) \/ JobFails(n, v) \/ JobExpires(n, v) \/ JobCollected(n, v)
           \/ SyncObjects \/ SyncJobs
           \/ \E u \in UA, spec \in Specs : EditSpec(u, spec)
           \/ \E n \in Node, state \in NodeState \union {Absent} : ChangeNode(n, state)
           \/ \E v \in Version : ChangeVersion(v)
           \/ UNCHANGED vars
    PROVE  ListInv'
<1>0. /\ OnTarget(obj) /\ Locals(local) /\ UNCHANGED <<obj, local>>
      /\ \A u \in UA : OnTarget(api[u]) /\ OnTarget(cache[u])
  BY DEF ListInv, Locals, JobSucceeds, JobFails, JobExpires, JobCollected, SyncObjects, SyncJobs,
     EditSpec, ChangeNode, ChangeVersion, vars, worker
<1>1. CASE UNCHANGED <<jobs, pulled>>
  <2>1. /\ cache' = cache \/ cache' = api
        /\ \/ api' = api
           \/ \E u \in UA, spec \in Specs : api' = [api EXCEPT ![u].spec = spec]
    BY DEF JobSucceeds, JobFails, JobExpires, JobCollected, SyncObjects, SyncJobs, EditSpec,
       ChangeNode, ChangeVersion, vars, objects
  <2>2. \A w \in UA : OnTarget(api'[w])
    BY <1>0, <2>1 DEF TypeOK, Objects, OnTarget
  <2> QED
    BY <1>0, <1>1, <2>1, <2>2, ListsStay
<1>2. CASE ~UNCHANGED <<jobs, pulled>>
  <2>1. PICK n \in Node, v \in Version \union {NoVersion} :
          JobSucceeds(n, v) \/ JobFails(n, v) \/ JobExpires(n, v) \/ JobCollected(n, v)
    BY <1>2 DEF SyncObjects, SyncJobs, EditSpec, ChangeNode, ChangeVersion, vars, pulls
  <2>2. /\ jobs[n][v] # "none" /\ UNCHANGED <<api, cache>>
        /\ \E state \in JobStates : jobs' = [jobs EXCEPT ![n][v] = state]
        /\ pulled' \subseteq pulled \union {<<n, v>>}
    BY <2>1 DEF JobSucceeds, JobFails, JobExpires, JobCollected, Pulls, Ended, JobStates, objects
  <2>3. Targets' = Targets /\ Everywhere' = Everywhere /\ <<n, v>> \in Everywhere
    BY <2>2, TargetsFixed DEF ListInv
  <2>4. \A m \in Node, w \in Version \union {NoVersion} :
          jobs'[m][w] # "none" => <<m, w>> \in Everywhere
    <3>1. \A m \in Node, w \in Version \union {NoVersion} :
            jobs'[m][w] # "none" => jobs[m][w] # "none" \/ <<m, w>> = <<n, v>>
      BY <2>2 DEF TypeOK, Jobs
    <3> QED
      BY <2>3, <3>1 DEF ListInv
  <2> QED
    BY <1>0, <2>2, <2>3, <2>4 DEF ListInv, OnTarget
<1> QED
  BY <1>1, <1>2

LEMMA NextLists ==
    ASSUME TypeOK, CopyInv, FixedInv, ListInv, [Next]_vars
    PROVE  FixedInv' /\ ListInv'
<1>1. UNCHANGED <<nodes, desired>>
  BY ClusterFixed DEF FixedInv, FixedSelection
<1>2. FixedInv'
  BY <1>1 DEF FixedInv, FixedSelection
<1> SUFFICES ListInv'
  BY <1>2
<1>3. CASE \E u \in UA : Begin(u)
  BY <1>1, <1>3, CallsList
<1>4. CASE Worker
  BY <1>1, <1>4, CallsList, CalmLists, DetermineLists, ListStepsListed, StartsListed
     DEF Worker, Calm
<1>5. CASE Environment
  BY <1>1, <1>5, CallsList, CalmLists, OthersListed DEF Environment, Calm
<1>6. CASE UNCHANGED vars
  BY <1>1, <1>6, OthersListed
<1> QED
  BY <1>3, <1>4, <1>5, <1>6 DEF Next

--------------------------------------------------------------------------------
(***************************************************************************)
(* The declarations.                                                       *)
(***************************************************************************)
LEMMA AlikeSound ==
    ASSUME NEW p, NEW o, Alike(p, o) \/ Reset(p, o), Sound(o)
    PROVE  Sound(p)
BY DEF Alike, Same, Reset, Sound

(* A step of the worker that writes nothing.                                *)
LEMMA SoundStays ==
    ASSUME SoundInv, UNCHANGED <<nodes, desired, pulled, api, cache, self>>,
           fresh' => Sound(obj'), pc' # "refetchSelected",
           pc' \in Chosen => Full(obj'),
           (fresh' /\ pc' \in Selected) => Full(obj') /\ obj'.version = desired
    PROVE  SoundInv'
<1>1. Targets' = Targets /\ Everywhere' = Everywhere
  BY TargetsFixed
<1> QED
  BY <1>1 DEF SoundInv, Sound, Full

LEMMA StepsOfReturn == "idle" \notin Chosen /\ "idle" \notin Selected
BY DEF Chosen, Selected, Pulling, Completing

LEMMA ReturnSound ==
    ASSUME SoundInv, Return, UNCHANGED <<nodes, desired, pulled, api, cache>>
    PROVE  SoundInv'
<1>1. pc' = "idle" /\ fresh' = FALSE /\ self' = self
  BY DEF Return
<1> QED
  BY <1>1, SoundStays, StepsOfReturn

(* A step that leaves the selection and what is declared alone.             *)
LEMMA QuietSound ==
    ASSUME SoundInv, UNCHANGED <<nodes, desired, pulled, api, cache, self, fresh>>,
           obj'.selected = obj.selected, obj'.version = obj.version, obj'.last = obj.last,
           obj'.conditions["Completed"] = obj.conditions["Completed"],
           pc' # "refetchSelected", pc' \notin Chosen,
           pc' \in Selected => pc \in Selected
    PROVE  SoundInv'
<1>1. fresh => Sound(obj')
  BY DEF SoundInv, Sound
<1> QED
  BY <1>1, SoundStays DEF SoundInv, Full

LEMMA CalmSound ==
    ASSUME TypeOK, SoundInv, UNCHANGED <<nodes, desired>>, Calm
    PROVE  SoundInv'
<1>1. UNCHANGED <<api, cache, pulled>>
  BY DEF Calm, CheckInfrastructure, SetupResources, SkipPriming, PassPrimer,
     EndPriming, ClosedGate, TakeAll, PassNode, EndSchedule, EndScan, ReportFailure,
     CheckAllDone, JobRefused, Recover, Crash, CallFails, OnlyWorker, objects, pulls
<1>2. CASE Return
  BY <1>1, <1>2, ReturnSound
<1>3. CASE ~Return
  <2>1. Alike(obj', obj)
    BY <1>3, CalmAlike
  <2>2. UNCHANGED <<self, fresh>>
    BY <1>3 DEF Calm, CheckInfrastructure, SetupResources, SkipPriming, PassPrimer,
       EndPriming, ClosedGate, TakeAll, PassNode, EndSchedule, EndScan, ReportFailure,
       CheckAllDone, JobRefused, Recover, Crash, CallFails, OnlyWorker
  <2>3. /\ pc' # "refetchSelected" /\ pc' \notin Chosen
        /\ pc' \in Selected => pc \in Selected
    BY <1>3 DEF Calm, CheckInfrastructure, SetupResources, SkipPriming, PassPrimer,
       EndPriming, ClosedGate, TakeAll, PassNode, EndSchedule, EndScan, ReportFailure,
       CheckAllDone, JobRefused, Recover, Crash, CallFails, Goto, Chosen, Selected,
       Pulling, Completing
  <2> QED
    BY <1>1, <2>1, <2>2, <2>3, QuietSound DEF Alike, Same
<1> QED
  BY <1>2, <1>3

(* The steps that move nodes between the lists change nothing else.         *)
LEMMA ListStepsKeep ==
    ASSUME obj \in Objects,
           FillWaiting \/ TakeBatch \/ ListJobs \/ ScanJob \/ StartPrimer \/ StartNode
    PROVE  /\ obj'.selected = obj.selected /\ obj'.version = obj.version
           /\ obj'.last = obj.last /\ obj'.conditions = obj.conditions
           /\ obj'.spec = obj.spec
<1>1. \/ obj' = obj
      \/ \E waiting : obj' = [obj EXCEPT !.waiting = waiting]
      \/ \E warming, waiting : obj' = [obj EXCEPT !.warming = warming, !.waiting = waiting]
      \/ \E warming, waiting : obj' = [obj EXCEPT !.waiting = waiting, !.warming = warming]
      \/ \E preheated, warming : obj' = [obj EXCEPT !.preheated = preheated,
                                                    !.warming = warming]
  <2>1. CASE TakeBatch
    BY <2>1, Zenon DEF TakeBatch, Panic
  <2>2. CASE StartPrimer
    BY <2>2, Zenon DEF StartPrimer, Panic
  <2>3. CASE StartNode
    BY <2>3, Zenon DEF StartNode, Panic
  <2>4. CASE FillWaiting
    BY <2>4, Zenon DEF FillWaiting
  <2>5. CASE ListJobs
    BY <2>5, Zenon DEF ListJobs, Rescheduled
  <2>6. CASE ScanJob
    BY <2>6, Zenon DEF ScanJob, Preheat
  <2> QED
    BY <2>1, <2>2, <2>3, <2>4, <2>5, <2>6
<1> QED
  BY <1>1 DEF Objects

(* The steps that change the version, or the lists of waiting nodes.        *)
LEMMA ListStepsSound ==
    ASSUME TypeOK, SoundInv, UNCHANGED <<nodes, desired>>,
           \/ SetupClusterVersion \/ FillWaiting \/ TakeBatch \/ ListJobs \/ ScanJob
           \/ StartPrimer \/ StartNode
    PROVE  SoundInv'
<1>0. obj \in Objects
  BY DEF TypeOK
<1>1. UNCHANGED <<api, cache, pulled, self, fresh>>
  BY Zenon DEF SetupClusterVersion, FillWaiting, TakeBatch, ListJobs, ScanJob, StartPrimer,
     StartNode, CreatePullJob, OnlyWorker, OnlyWorkerAndJobs, objects, pulls
<1>2. CASE SetupClusterVersion
  <2>1. /\ obj'.version = desired /\ obj'.last = obj.last
        /\ obj'.conditions = obj.conditions
    BY <1>0, <1>2 DEF SetupClusterVersion, SetVersion, Objects
  <2>2. pc' \in {"nodes", "saveVersion"}
    BY <1>2 DEF SetupClusterVersion, Goto
  <2>3. fresh => Sound(obj')
    BY <2>1 DEF SoundInv, Sound
  <2> QED
    BY <1>1, <2>2, <2>3, SoundStays DEF Chosen, Selected, Pulling, Completing
<1>3. CASE ~SetupClusterVersion
  <2>1. /\ obj'.selected = obj.selected /\ obj'.version = obj.version /\ obj'.last = obj.last
        /\ obj'.conditions = obj.conditions
    BY <1>0, <1>3, ListStepsKeep
  <2>2. /\ pc \in {"waiting", "gate", "list", "scan", "primers", "schedule"}
        /\ pc' \in {"primers", "saveWaiting", "schedule", "panicked", "scan", "saveReset",
                    "final", "saveScan", "savePrimer", "saveScheduled"}
    <3>1. CASE TakeBatch
      BY <3>1, Zenon DEF TakeBatch, Panic, Goto
    <3>2. CASE StartPrimer
      BY <3>2, Zenon DEF StartPrimer, Panic, Goto
    <3>3. CASE StartNode
      BY <3>3, Zenon DEF StartNode, Panic, Goto
    <3>4. CASE FillWaiting \/ ListJobs \/ ScanJob
      BY <3>4 DEF FillWaiting, ListJobs, ScanJob, Goto
    <3> QED
      BY <1>3, <3>1, <3>2, <3>3, <3>4
  <2> QED
    BY <1>1, <2>1, <2>2, QuietSound DEF Chosen, Selected, Pulling, Completing
<1> QED
  BY <1>2, <1>3

(* The selection is taken from the targets, whole.                          *)
LEMMA DetermineSound ==
    ASSUME TypeOK, FixedInv, SoundInv, UNCHANGED <<nodes, desired>>, DetermineNodes
    PROVE  SoundInv'
<1>0. /\ obj \in Objects /\ obj.spec \in Specs
      /\ UNCHANGED <<api, cache, pulled, self, fresh>>
  BY DEF TypeOK, Objects, DetermineNodes, OnlyWorker, objects, pulls
<1>1. PICK d \in Determinations(nodes, obj.spec) :
        \/ obj' = NoNodes(obj) /\ Goto("saveNoNodes")
        \/ SetPrimerState([obj EXCEPT !.selected = d.targeted], d.primers)
  BY DEF DetermineNodes
<1>2. CASE obj' = NoNodes(obj) /\ Goto("saveNoNodes")
  <2>1. fresh => Sound(obj')
    BY <1>0, <1>2, ClearedReset, AlikeSound DEF SoundInv
  <2> QED
    BY <1>0, <1>2, <2>1, SoundStays DEF Goto, Chosen, Selected, Pulling, Completing
<1> DEFINE o == [obj EXCEPT !.selected = d.targeted]
<1>3. CASE SetPrimerState(o, d.primers)
  <2>1. /\ d.targeted \in Seq(Node) /\ Len(d.targeted) = Cardinality(Targets)
    BY <1>0, SpecsAssumption, DeterminationsType, DeterminedTargets
  <2>2. o \in Objects /\ Full(o)
    BY <1>0, <2>1 DEF Objects, Full
  <2>3. fresh => Sound(o)
    BY <1>0 DEF SoundInv, Sound, Objects
  <2> HIDE DEF o
  <2>4. Alike(obj', o)
    <3>1. /\ Alike(SetCondition(o, "Primer", "PrimingSkipped"), o)
          /\ Alike(SetCondition(o, "Primer", "PrimingCompleted"), o)
      BY <2>2, SetConditionAlike DEF ConditionTypes, Reasons
    <3>2. Alike(o, o)
      BY DEF Alike, Same
    <3> QED
      BY <1>3, <3>1, <3>2 DEF SetPrimerState
  <2>5. pc' \in {"savePrimerState", "completion"}
    BY <1>3 DEF SetPrimerState, Goto
  <2>6. Full(obj')
    BY <2>2, <2>4 DEF Full, Alike, Same
  <2> QED
    BY <1>0, <2>3, <2>4, <2>5, <2>6, AlikeSound, SoundStays DEF Selected, Pulling, Completing
<1> QED
  BY <1>1, <1>2, <1>3

(* The two places where completion is declared.                             *)
LEMMA DeclareSound ==
    ASSUME TypeOK, PulledInv, CopyInv, FixedInv, ListInv, SoundInv,
           UNCHANGED <<nodes, desired>>, CheckCompletion \/ RecordCompletion
    PROVE  SoundInv'
<1>0. /\ obj \in Objects /\ obj.preheated \subseteq PulledOnce
      /\ UNCHANGED <<api, cache, pulled, self, fresh>>
  BY DEF TypeOK, PulledInv, CheckCompletion, RecordCompletion, OnlyWorker, objects, pulls
<1>1. CASE CheckCompletion
  <2>1. /\ pc = "completion"
        /\ \/ pc' = "saveSelected" /\ obj' = obj
           \/ /\ pc' = "saveCompletion" /\ NothingLeft(obj)
    BY <1>1 DEF CheckCompletion, Goto
  <2>2. Full(obj)
    BY <2>1 DEF SoundInv, Chosen
  <2>3. CASE pc' = "saveSelected" /\ obj' = obj
    BY <1>0, <2>2, <2>3, SoundStays DEF SoundInv, Chosen, Selected, Pulling, Completing
  <2>4. CASE pc' = "saveCompletion" /\ NothingLeft(obj)
    <3>1. Everywhere \subseteq pulled
      BY <1>0, <2>2, <2>4, AllWerePulled DEF NothingLeft
    <3>2. fresh => obj.version = desired
      <4>1. fresh => obj.version = local.version /\ local.version \in Version
        BY <2>1 DEF CopyInv, VersionCopied, Selecting, Versioned
      <4> QED
        BY <4>1, VersionAssumption DEF ListInv
    <3>3. obj'.version = obj.version /\ obj'.last = obj.last
      BY <1>1, CheckCompletionSame DEF Same
    <3>4. fresh => Sound(obj')
      BY <3>1, <3>2, <3>3 DEF SoundInv, Sound
    <3> QED
      BY <1>0, <2>4, <3>4, SoundStays DEF Chosen, Selected, Pulling, Completing
  <2> QED
    BY <2>1, <2>3, <2>4
<1>2. CASE RecordCompletion
  <2>1. pc = "record" /\ pc' = "saveLast" /\ obj' = [obj EXCEPT !.last = obj.version]
    BY <1>2 DEF RecordCompletion, Goto
  <2>2. /\ obj'.version = obj.version /\ obj'.last = obj.version
        /\ obj'.selected = obj.selected /\ obj'.conditions = obj.conditions
    BY <1>0, <2>1 DEF Objects
  <2>3. fresh => Full(obj) /\ obj.version = desired /\ Everywhere \subseteq pulled
    <3>1. fresh => Full(obj) /\ obj.version = desired
      BY <2>1 DEF SoundInv, Selected, Completing
    <3>2. AllPreheated(obj)
      BY <2>1 DEF CopyInv, CompletionCopied, Completing
    <3>3. Full(obj) => Everywhere \subseteq pulled
      BY <1>0, <3>2, AllWerePulled
    <3> QED
      BY <3>1, <3>3
  <2>4. fresh => Sound(obj')
    BY <2>2, <2>3 DEF SoundInv, Sound
  <2>5. fresh => Full(obj') /\ obj'.version = desired
    BY <2>2, <2>3 DEF Full
  <2> QED
    BY <1>0, <2>1, <2>4, <2>5, SoundStays DEF Chosen
<1> QED
  BY <1>1, <1>2

(* Where an update leads, by what has been selected.                        *)
LEMMA SavesSelected ==
    ASSUME NEW step \in DOMAIN Saves
    PROVE  LET next == Saves[step].accepted
               other == Saves[step].refused
           IN  /\ next \in Chosen => step \in Chosen
               /\ next = "refetchSelected" => step \in Chosen
               /\ next \in Selected => step \in Selected
               /\ other \in Chosen => step \in Chosen
               /\ other # "refetchSelected"
               /\ other \in Selected => step \in Selected
BY DEF Saves, Checked, Ignored, Chosen, Selected, Pulling, Completing

LEMMA SaveSound ==
    ASSUME TypeOK, SoundInv, UNCHANGED <<nodes, desired>>, Save \/ SaveFails
    PROVE  SoundInv'
<1>0. pc \in DOMAIN Saves /\ UNCHANGED <<cache, pulled, self>> /\ self \in UA
  BY DEF Save, SaveFails, Continue, Return, pulls, TypeOK
<1>1. Targets' = Targets /\ Everywhere' = Everywhere
  BY TargetsFixed
<1>2. \A u \in UA : Sound(api'[u]) /\ Sound(cache'[u])
  <2>1. UNCHANGED api \/ (fresh /\ api' = [api EXCEPT ![self] = obj])
    BY DEF Save, SaveFails, Accepted
  <2> QED
    BY <1>0, <2>1 DEF SoundInv, TypeOK
<1>3. /\ fresh' => Sound(obj')
      /\ pc' \in Chosen => Full(obj')
      /\ pc' = "refetchSelected" => Full(api'[self'])
      /\ (fresh' /\ pc' \in Selected) => Full(obj') /\ obj'.version = desired
  <2>1. CASE Return
    BY <2>1, StepsOfReturn DEF Return
  <2>2. CASE ~Return
    <3>1. \/ /\ pc' = Saves[pc].accepted /\ api' = [api EXCEPT ![self] = obj]
             /\ UNCHANGED <<obj, fresh>>
          \/ pc' = Saves[pc].refused /\ obj' = obj /\ (fresh' => fresh)
      BY <2>2 DEF Save, SaveFails, Continue, Goto
    <3>2. /\ pc' \in Chosen \union {"refetchSelected"} => pc \in Chosen
          /\ pc' \in Selected => pc \in Selected
          /\ obj' = obj /\ (fresh' => fresh)
      BY <1>0, <3>1, SavesSelected
    <3>3. pc' = "refetchSelected" => api'[self] = obj
      BY <1>0, <3>1, SavesSelected DEF TypeOK
    <3> QED
      BY <1>0, <3>2, <3>3 DEF SoundInv, Full
  <2> QED
    BY <2>1, <2>2
<1> QED
  BY <1>0, <1>1, <1>2, <1>3 DEF SoundInv, Sound, Full

LEMMA ReadSound ==
    ASSUME TypeOK, CopyInv, ListInv, SoundInv, UNCHANGED <<nodes, desired>>,
           Refetch \/ \E u \in UA : Begin(u)
    PROVE  SoundInv'
<1>0. /\ UNCHANGED <<api, cache, pulled>>
      /\ \A u \in UA : View[u] \in Objects /\ Sound(View[u])
  BY ViewType DEF SoundInv, View, Refetch, Begin, objects, pulls
<1>1. Targets' = Targets /\ Everywhere' = Everywhere
  BY TargetsFixed
<1>2. Sound(obj')
  <2>1. CASE Refetch
    BY <1>0, <2>1 DEF Refetch, TypeOK
  <2>2. CASE \E u \in UA : Begin(u)
    <3>1. PICK u \in UA : obj' = View[u] \/ obj' = Disable(View[u])
      BY <2>2 DEF Begin
    <3>2. Reset(Disable(View[u]), View[u])
      BY <1>0, ClearedReset
    <3> QED
      BY <1>0, <3>1, <3>2, AlikeSound
  <2> QED
    BY <2>1, <2>2
<1>3. /\ pc' # "refetchSelected" /\ pc' \notin Chosen
      /\ (fresh' /\ pc' \in Selected) => Full(obj') /\ obj'.version = desired
  <2>1. CASE Refetch /\ pc = "refetchSelected"
    <3>1. /\ pc' = "setup" /\ obj' = View[self] /\ fresh' = (View[self] = api[self])
      BY <2>1 DEF Refetch, Refetches, Goto
    <3>2. Full(api[self])
      BY <2>1 DEF SoundInv
    <3>3. api[self].version = desired
      <4>1. api[self].version = local.version /\ local.version \in Version
        BY <2>1 DEF CopyInv, VersionCopied, Versioned
      <4> QED
        BY <4>1, VersionAssumption DEF ListInv
    <3> QED
      BY <3>1, <3>2, <3>3 DEF Chosen
  <2>2. CASE ~(Refetch /\ pc = "refetchSelected")
    <3>1. pc' \in {"version", "nodes", "saveDisabled", "infrastructure"}
      BY <2>2 DEF Refetch, Refetches, Begin, Goto
    <3> QED
      BY <3>1 DEF Chosen, Selected, Pulling, Completing
  <2> QED
    BY <2>1, <2>2
<1> QED
  BY <1>0, <1>1, <1>2, <1>3 DEF SoundInv, Sound, Full

LEMMA OthersSound ==
    ASSUME TypeOK, SoundInv, UNCHANGED <<nodes, desired>>,
           \/ \E n \in Node, v \in Version \union {NoVersion} :
                 JobSucceeds(n, v) \/ JobFails(n, v) \/ JobExpires(n, v) \/ JobCollected(n, v)
           \/ SyncObjects \/ SyncJobs
           \/ \E u \in UA, spec \in Specs : EditSpec(u, spec)
           \/ \E n \in Node, state \in NodeState \union {Absent} : ChangeNode(n, state)
           \/ \E v \in Version : ChangeVersion(v)
           \/ UNCHANGED vars
    PROVE  SoundInv'
<1>0. /\ UNCHANGED <<pc, self, obj>>
      /\ UNCHANGED fresh \/ \E u \in UA : fresh' = (fresh /\ self # u)
      /\ UNCHANGED pulled \/ \E pull : pulled' = pulled \union {pull}
      /\ cache' = cache \/ cache' = api
      /\ \/ api' = api
         \/ \E u \in UA, spec \in Specs : api' = [api EXCEPT ![u].spec = spec]
  <2>1. CASE \E u \in UA, spec \in Specs : EditSpec(u, spec)
    BY <2>1 DEF EditSpec, pulls
  <2>2. CASE \E n \in Node, v \in Version \union {NoVersion} :
               JobSucceeds(n, v) \/ JobFails(n, v) \/ JobExpires(n, v) \/ JobCollected(n, v)
    BY <2>2 DEF JobSucceeds, JobFails, JobExpires, JobCollected, objects, worker
  <2>3. CASE \/ SyncObjects \/ SyncJobs
             \/ \E n \in Node, state \in NodeState \union {Absent} : ChangeNode(n, state)
             \/ \E v \in Version : ChangeVersion(v)
             \/ UNCHANGED vars
    BY <2>3 DEF SyncObjects, SyncJobs, ChangeNode, ChangeVersion, vars, objects, pulls, worker
  <2> QED
    BY <2>1, <2>2, <2>3
<1>00. (fresh' => fresh) /\ pulled \subseteq pulled'
  <2>1. fresh' => fresh
    BY <1>0 DEF TypeOK
  <2>2. pulled \subseteq pulled'
    BY <1>0
  <2> QED
    BY <2>1, <2>2
<1>1. Targets' = Targets /\ Everywhere' = Everywhere
  BY TargetsFixed
<1>2. \A u \in UA : /\ api'[u].version = api[u].version /\ api'[u].last = api[u].last
                   /\ api'[u].conditions = api[u].conditions
                   /\ api'[u].selected = api[u].selected
  <2>1. CASE api' = api
    BY <2>1
  <2>2. CASE \E u \in UA, spec \in Specs : api' = [api EXCEPT ![u].spec = spec]
    <3>1. PICK u \in UA, spec \in Specs : api' = [api EXCEPT ![u].spec = spec]
      BY <2>2
    <3> QED
      BY <3>1 DEF TypeOK, Objects
  <2> QED
    BY <1>0, <2>1, <2>2
<1>3. \A o, p : (/\ Sound(o) /\ p.version = o.version /\ p.last = o.last
                 /\ p.conditions = o.conditions) =>
        /\ p.version \in {NoVersion, desired}
        /\ p.last # NoVersion => p.last = desired /\ Everywhere \subseteq pulled'
        /\ p.conditions["Completed"] # "" => p.version = desired /\ Everywhere \subseteq pulled'
  BY <1>00 DEF Sound
<1>4. \A u \in UA : Sound(api[u])' /\ Sound(cache[u])'
  <2>1. \A u \in UA : Sound(api[u]) /\ Sound(cache[u])
    BY DEF SoundInv
  <2>2. \A u \in UA : Sound(api[u])'
    <3> SUFFICES ASSUME NEW u \in UA PROVE Sound(api[u])'
      OBVIOUS
    <3>1. /\ Sound(api[u]) /\ api'[u].version = api[u].version
          /\ api'[u].last = api[u].last /\ api'[u].conditions = api[u].conditions
      BY <1>2, <2>1
    <3> QED
      BY <1>00, <1>1, <3>1 DEF Sound
  <2>3. \A u \in UA : Sound(cache[u])'
    BY <1>0, <1>1, <1>3, <2>1 DEF Sound
  <2> QED
    BY <2>2, <2>3
<1>5. fresh' => Sound(obj)'
  BY <1>0, <1>00, <1>1, <1>3 DEF SoundInv, Sound
<1>6. /\ pc' \in Chosen => Full(obj)'
      /\ pc' = "refetchSelected" => Full(api[self])'
      /\ (fresh' /\ pc' \in Selected) => Full(obj)' /\ obj'.version = desired'
  BY <1>0, <1>00, <1>1, <1>2 DEF SoundInv, Full, TypeOK
<1> QED
  BY <1>4, <1>5, <1>6 DEF SoundInv

LEMMA NextSound ==
    ASSUME TypeOK, PulledInv, CopyInv, CompletionInv, [Next]_vars
    PROVE  SoundInv'
<1>0. FixedInv /\ ListInv /\ SoundInv
  BY DEF CompletionInv
<1>1. UNCHANGED <<nodes, desired>>
  BY <1>0, ClusterFixed DEF FixedInv, FixedSelection
<1>2. CASE \E u \in UA : Begin(u)
  BY <1>0, <1>1, <1>2, ReadSound
<1>3. CASE Worker
  BY <1>0, <1>1, <1>3, SaveSound, ReadSound, CalmSound, ListStepsSound, DetermineSound,
     DeclareSound DEF Worker, Calm
<1>4. CASE Environment
  BY <1>0, <1>1, <1>4, SaveSound, CalmSound, OthersSound DEF Environment, Calm
<1>5. CASE UNCHANGED vars
  BY <1>0, <1>1, <1>5, OthersSound
<1> QED
  BY <1>2, <1>3, <1>4, <1>5 DEF Next

LEMMA InitCompletion ==
    ASSUME FixedSelection, Init
    PROVE  CompletionInv
<1>1. FixedInv
  BY DEF FixedInv, Init
<1>2. <<>> \in Seq(Targets)
  OBVIOUS
<1>3. \A spec : OnTarget(NewObject(spec)) /\ Sound(NewObject(spec))
  <2>1. \A spec : /\ NewObject(spec).selected = <<>> /\ NewObject(spec).waiting = <<>>
                  /\ NewObject(spec).warming = <<>> /\ NewObject(spec).version = NoVersion
                  /\ NewObject(spec).last = NoVersion
                  /\ NewObject(spec).conditions["Completed"] = ""
    BY DEF NewObject, ConditionTypes
  <2> QED
    BY <1>2, <2>1 DEF OnTarget, Sound
<1>4. \A u \in UA : /\ OnTarget(api[u]) /\ Sound(api[u])
                   /\ OnTarget(cache[u]) /\ Sound(cache[u])
  <2>1. cache = api /\ \A u \in UA : \E spec \in Specs : api[u] = NewObject(spec)
    BY DEF Init
  <2> QED
    BY <1>3, <2>1
<1>5. OnTarget(obj)
  BY <1>3 DEF Init, Blank
<1>6. /\ local.targets = <<>> /\ local.primers = <<>> /\ local.next = <<>>
      /\ local.version = NoVersion
  BY DEF Init, NoLocals
<1>7. ListInv
  <2>1. /\ \A n \in Node, v \in Version \union {NoVersion} : jobs[n][v] = "none"
        /\ pulled = {}
    BY DEF Init
  <2> QED
    BY <1>2, <1>4, <1>5, <1>6, <2>1 DEF ListInv
<1>8. SoundInv
  BY <1>4 DEF Init, SoundInv, Chosen, Selected, Pulling, Completing
<1> QED
  BY <1>1, <1>7, <1>8 DEF CompletionInv

(* Under a fixed selection, lastCompletedVersion and the Completed          *)
(* condition never speak of a release that a selected node has not pulled:  *)
(* the lengths that lines 200 and 436 compare are then those of the same    *)
(* set of nodes, in whichever copy of the object they are compared.         *)
THEOREM CompletionIsSound == FixedSelection /\ Spec => []CompletionSound
<1>1. FixedSelection /\ Init => TypeOK /\ PulledInv /\ CopyInv /\ CompletionInv
  BY InitType, InitPulled, InitCopy, InitCompletion
<1>2. TypeOK /\ PulledInv /\ CopyInv /\ CompletionInv /\ [Next]_vars
        => (TypeOK /\ PulledInv /\ CopyInv /\ CompletionInv)'
  <2> SUFFICES ASSUME TypeOK, PulledInv, CopyInv, CompletionInv, [Next]_vars
               PROVE  (TypeOK /\ PulledInv /\ CopyInv /\ CompletionInv)'
    OBVIOUS
  <2>1. FixedInv' /\ ListInv'
    BY NextLists DEF CompletionInv
  <2>2. SoundInv'
    BY NextSound
  <2> QED
    BY <2>1, <2>2, NextType, NextPulled, NextCopy DEF CompletionInv
<1>3. CompletionInv => CompletionSound
  <2> SUFFICES ASSUME CompletionInv, NEW u \in UA
               PROVE  /\ api[u].last # NoVersion => HavePulled(api[u], api[u].last)
                      /\ api[u].conditions["Completed"] # "" => HavePulled(api[u], api[u].version)
    BY DEF CompletionSound
  <2>1. Elements(api[u].selected) \subseteq Targets
    BY ElementsType DEF CompletionInv, ListInv, OnTarget
  <2>2. Sound(api[u])
    BY DEF CompletionInv, SoundInv
  <2> QED
    BY <2>1, <2>2 DEF Sound, Everywhere, HavePulled
<1> QED
  BY <1>1, <1>2, <1>3, PTL DEF Spec
================================================================================
