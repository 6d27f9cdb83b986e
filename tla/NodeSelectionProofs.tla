-------------------------- MODULE NodeSelectionProofs --------------------------
(* What determineTargetedNodes guarantees for every cluster and selector.   *)
EXTENDS NodeSelection, NodeDeterminationProofs

(* Every path but the one through pools filters prohibited nodes.           *)
LEMMA SelectedNotProhibited ==
    ASSUME NEW c, NEW selector, ~UsesPools(selector)
    PROVE  SelectedNodes(c, selector) \cap ProhibitedNodes(c) = {}
<1>1. CASE selector.nodeSelector = NoSelector /\ selector.machineConfigPools = {}
  BY <1>1 DEF SelectedNodes
<1>2. CASE selector.nodeSelector = NoSelector /\ selector.machineConfigPools # {}
  BY <1>2 DEF SelectedNodes
<1>3. CASE selector.nodeSelector # NoSelector
  BY <1>3 DEF SelectedNodes, SelectorMatches
<1> QED
  BY <1>1, <1>2, <1>3

(* No primer is prohibited.                                                 *)
LEMMA PrimersNotProhibited ==
    ASSUME NEW c, NEW prime, NEW selected
    PROVE  PrimerNodes(c, prime, selected) \cap ProhibitedNodes(c) = {}
BY DEF PrimerNodes, LabeledPrimerNodes, FirstEligible

(* Outside the path through pools no target is prohibited.                  *)
LEMMA TargetsNotProhibited ==
    ASSUME NEW c, NEW s, ~UsesPools(s.selector)
    PROVE  TargetSet(c, s) \cap ProhibitedNodes(c) = {}
BY SelectedNotProhibited, PrimersNotProhibited DEF TargetSet, BaseTargets, AppendedPrimers

(* The target set: the selection and, when priming, the labelled primers.   *)
LEMMA TargetSetShape ==
    ASSUME NEW c, NEW s, s.prime \in BOOLEAN
    PROVE  TargetSet(c, s) = SelectedNodes(c, s.selector)
                               \union (IF s.prime THEN LabeledPrimerNodes(c) ELSE {})
<1> DEFINE selected == SelectedNodes(c, s.selector)
<1>1. CASE ~s.prime
  BY <1>1 DEF TargetSet, BaseTargets, AppendedPrimers, PrimerNodes
<1>2. CASE s.prime
  <2>1. FirstEligible(c, selected) \subseteq selected
    BY DEF FirstEligible
  <2>2. PrimerNodes(c, s.prime, selected) \union selected
          = LabeledPrimerNodes(c) \union selected
    BY <1>2, <2>1 DEF PrimerNodes
  <2>3. TargetSet(c, s) = PrimerNodes(c, s.prime, selected) \union selected
    BY DEF TargetSet, BaseTargets, AppendedPrimers
  <2> QED
    BY <1>2, <2>2, <2>3
<1> QED
  BY <1>1, <1>2

--------------------------------------------------------------------------------
(* The result is a pair of lists of nodes, or there is none.                *)
THEOREM TypeCorrect == Spec => []TypeOK
<1>1. Init => TypeOK
  BY DEF Init, TypeOK
<1>2. TypeOK /\ [Next]_vars => TypeOK'
  <2> SUFFICES ASSUME TypeOK, [Next]_vars PROVE TypeOK'
    OBVIOUS
  <2> USE DEF TypeOK
  <2>1. CASE DetermineTargetedNodes
    <3>1. result' \in [targeted : Seq(Node), primers : Seq(Node)]
      <4>1. spec.prime \in BOOLEAN
        OBVIOUS
      <4>2. result'.targeted \in Seq(Node) /\ result'.primers \in Seq(Node)
        BY <2>1, <4>1, DeterminationsType DEF DetermineTargetedNodes
      <4>3. result' = [targeted |-> result'.targeted, primers |-> result'.primers]
        BY <2>1 DEF DetermineTargetedNodes, Determinations
      <4> QED
        BY <4>2, <4>3
    <3> QED
      BY <2>1, <3>1 DEF DetermineTargetedNodes
  <2>2. CASE \E n \in Node, state \in NodeState \union {Absent} : ChangeNode(n, state)
    BY <2>2 DEF ChangeNode, Clusters
  <2>3. CASE \E new \in [prime : BOOLEAN, selector : Selectors] : EditSpec(new)
    BY <2>3 DEF EditSpec
  <2>4. CASE UNCHANGED vars
    BY <2>4 DEF vars
  <2> QED
    BY <2>1, <2>2, <2>3, <2>4 DEF Next
<1> QED
  BY <1>1, <1>2, PTL DEF Spec

(* Outside the path through pools, a node labelled disable-preheat is       *)
(* neither target nor primer, in every cluster and for every selector.      *)
THEOREM ExclusionIsHonoured == Spec => []ExclusionHonoured
<1>1. Init => ExclusionHonoured
  BY DEF Init, ExclusionHonoured
<1>2. TypeOK /\ ExclusionHonoured /\ [Next]_vars => ExclusionHonoured'
  <2> SUFFICES ASSUME TypeOK, ExclusionHonoured, [Next]_vars,
                      result' # NotYet, ~UsesPools(spec'.selector)
               PROVE  (Elements(result'.targeted) \union Elements(result'.primers))
                          \cap ProhibitedNodes(nodes') = {}
    BY DEF ExclusionHonoured, UsesPools, ValidMachineConfigPools, ProhibitedNodes, Present
  <2>1. CASE DetermineTargetedNodes
    <3>1. spec' = spec /\ nodes' = nodes /\ result' \in Determinations(nodes, spec)
      BY <2>1 DEF DetermineTargetedNodes
    <3>2. spec.prime \in BOOLEAN
      BY DEF TypeOK
    <3>3. Elements(result'.targeted) \cap ProhibitedNodes(nodes) = {}
      BY <3>1, <3>2, DeterminationLists, TargetsNotProhibited
    <3>4. Elements(result'.primers) \cap ProhibitedNodes(nodes) = {}
      BY <3>1, <3>2, DeterminationLists, PrimersNotProhibited
    <3> QED
      BY <3>1, <3>3, <3>4
  <2>2. CASE \E n \in Node, state \in NodeState \union {Absent} : ChangeNode(n, state)
    BY <2>2 DEF ChangeNode
  <2>3. CASE \E new \in [prime : BOOLEAN, selector : Selectors] : EditSpec(new)
    BY <2>3 DEF EditSpec
  <2>4. CASE UNCHANGED vars
    BY <2>4 DEF vars, ExclusionHonoured
  <2> QED
    BY <2>1, <2>2, <2>3, <2>4 DEF Next
<1> QED
  BY <1>1, <1>2, TypeCorrect, PTL DEF Spec

(* The lists never name a node twice, and every primer is a target.         *)
THEOREM TargetsAreListedOnce == Spec => []TargetsListPrimersOnce
<1>1. Init => TargetsListPrimersOnce
  BY DEF Init, TargetsListPrimersOnce
<1>2. TypeOK /\ TargetsListPrimersOnce /\ [Next]_vars => TargetsListPrimersOnce'
  <2> SUFFICES ASSUME TypeOK, TargetsListPrimersOnce, [Next]_vars, result' # NotYet
               PROVE  /\ IsInjective(result'.targeted)
                      /\ IsInjective(result'.primers)
                      /\ Elements(result'.primers) \subseteq Elements(result'.targeted)
    BY DEF TargetsListPrimersOnce, IsInjective, Elements
  <2>1. CASE DetermineTargetedNodes
    <3>1. result' \in Determinations(nodes, spec) /\ spec.prime \in BOOLEAN
      BY <2>1 DEF DetermineTargetedNodes, TypeOK
    <3> QED
      BY <3>1, DeterminationLists
  <2>2. CASE \E n \in Node, state \in NodeState \union {Absent} : ChangeNode(n, state)
    BY <2>2 DEF ChangeNode
  <2>3. CASE \E new \in [prime : BOOLEAN, selector : Selectors] : EditSpec(new)
    BY <2>3 DEF EditSpec
  <2>4. CASE UNCHANGED vars
    BY <2>4 DEF vars, TargetsListPrimersOnce
  <2> QED
    BY <2>1, <2>2, <2>3, <2>4 DEF Next
<1> QED
  BY <1>1, <1>2, TypeCorrect, PTL DEF Spec

(* A node the merged selector matches has the keys of both, with the pool's *)
(* value unless that is empty and the nodeSelector has one.                 *)
LEMMA MergedMatch ==
    ASSUME NEW c, NEW pool, NEW selector, NEW n \in Matching(c, MergedSelector(pool, selector))
    PROVE  MatchesBoth(c[n].labels, Pools[pool], selector)
<1> DEFINE merged == MergedSelector(pool, selector)
<1>1. \A key \in DOMAIN merged : key \in DOMAIN c[n].labels
                                /\ c[n].labels[key] = merged[key]
  BY DEF Matching
<1>2. DOMAIN merged = DOMAIN Pools[pool] \union DOMAIN selector
  BY DEF MergedSelector
<1>3. \A key \in DOMAIN Pools[pool] :
         Pools[pool][key] # "" \/ key \notin DOMAIN selector => merged[key] = Pools[pool][key]
  BY DEF MergedSelector, PoolDecides
<1>4. \A key \in DOMAIN selector :
         key \notin DOMAIN Pools[pool] \/ Pools[pool][key] = "" => merged[key] = selector[key]
  BY DEF MergedSelector, PoolDecides
<1> HIDE DEF merged
<1> QED
  BY <1>1, <1>2, <1>3, <1>4 DEF MatchesBoth

(* A target of the path through pools that is no primer has the labels of   *)
(* a valid pool and of the nodeSelector, but for values that only one of    *)
(* the two can have.                                                        *)
THEOREM PoolTargetsAreMatched == Spec => []PoolTargetsMatchBoth
<1>1. Init => PoolTargetsMatchBoth
  BY DEF Init, PoolTargetsMatchBoth
<1>2. TypeOK /\ PoolTargetsMatchBoth /\ [Next]_vars => PoolTargetsMatchBoth'
  <2> SUFFICES ASSUME TypeOK, PoolTargetsMatchBoth, [Next]_vars PROVE PoolTargetsMatchBoth'
    OBVIOUS
  <2>1. CASE DetermineTargetedNodes
    <3>0. nodes' = nodes /\ spec' = spec
      BY <2>1 DEF DetermineTargetedNodes
    <3> SUFFICES ASSUME UsesPools(spec.selector),
                        NEW n \in Elements(result'.targeted) \ Elements(result'.primers)
                 PROVE  \E pool \in ValidMachineConfigPools(spec.selector.machineConfigPools) :
                          MatchesBoth(nodes[n].labels, Pools[pool], spec.selector.nodeSelector)
      BY <3>0 DEF PoolTargetsMatchBoth, UsesPools, ValidMachineConfigPools, Elements
    <3>1. result' \in Determinations(nodes, spec) /\ spec.prime \in BOOLEAN
      BY <2>1 DEF DetermineTargetedNodes, TypeOK
    <3>2. n \in SelectedNodes(nodes, spec.selector)
      BY <3>1, DeterminationLists
    <3>3. n \in PoolMatches(nodes, spec.selector)
      BY <3>2 DEF SelectedNodes, UsesPools
    <3>4. PICK pool \in ValidMachineConfigPools(spec.selector.machineConfigPools) :
             n \in Matching(nodes, MergedSelector(pool, spec.selector.nodeSelector))
      BY <3>3 DEF PoolMatches
    <3> QED
      BY <3>4, MergedMatch
  <2>2. CASE \E n \in Node, state \in NodeState \union {Absent} : ChangeNode(n, state)
    BY <2>2 DEF ChangeNode, PoolTargetsMatchBoth
  <2>3. CASE \E new \in [prime : BOOLEAN, selector : Selectors] : EditSpec(new)
    BY <2>3 DEF EditSpec, PoolTargetsMatchBoth
  <2>4. CASE UNCHANGED vars
    BY <2>4 DEF vars, PoolTargetsMatchBoth, UsesPools, ValidMachineConfigPools, Elements
  <2> QED
    BY <2>1, <2>2, <2>3, <2>4 DEF Next
<1> QED
  BY <1>1, <1>2, TypeCorrect, PTL DEF Spec

(* Excluding one more node takes that node, and no other, out of the        *)
(* targets: a choice of other primers never adds or drops a target.         *)
THEOREM ExclusionRemovesOne == Spec => ExclusionOnlyRemoves
<1>1. ASSUME TypeOK, NEW n \in Node, Excludes(n), ~UsesPools(spec.selector), UNCHANGED spec
      PROVE  TargetSet(nodes', spec') = TargetSet(nodes, spec) \ {n}
  <2>1. spec.prime \in BOOLEAN /\ spec' = spec /\ nodes \in Clusters
    BY <1>1 DEF TypeOK
  <2>2. nodes[n] \in NodeState /\ n \in Present(nodes)
    BY <1>1, <2>1 DEF Excludes, Clusters, Present
  <2>3. /\ nodes'[n].labels = nodes[n].labels
        /\ nodes'[n].primerFalse = nodes[n].primerFalse
        /\ nodes'[n].disablePreheat
    BY <1>1, <2>1, <2>2, NodeStateAssumption DEF Excludes, Clusters
  <2>4. \A m \in Node \ {n} : nodes'[m] = nodes[m]
    BY <1>1, <2>1 DEF Excludes, Clusters
  <2>5. Present(nodes') = Present(nodes)
    BY <1>1, <2>2, <2>4 DEF Excludes, Present
  <2>6. ProhibitedNodes(nodes') = ProhibitedNodes(nodes) \union {n}
    BY <2>2, <2>3, <2>4, <2>5 DEF ProhibitedNodes, Present
  <2>7. LabeledPrimerNodes(nodes') = LabeledPrimerNodes(nodes) \ {n}
    <3>1. PrimingProhibitedNodes(nodes') = PrimingProhibitedNodes(nodes)
      BY <2>3, <2>4, <2>5 DEF PrimingProhibitedNodes, Present
    <3> QED
      BY <3>1, <2>5, <2>6 DEF LabeledPrimerNodes
  <2>8. SelectedNodes(nodes', spec.selector) = SelectedNodes(nodes, spec.selector) \ {n}
    <3>1. Matching(nodes', spec.selector.nodeSelector)
            = Matching(nodes, spec.selector.nodeSelector)
      BY <2>3, <2>4, <2>5 DEF Matching, Present
    <3>2. CASE spec.selector.nodeSelector = NoSelector /\ spec.selector.machineConfigPools = {}
      BY <3>2, <1>1, <2>5, <2>6 DEF SelectedNodes
    <3>3. CASE spec.selector.nodeSelector = NoSelector /\ spec.selector.machineConfigPools # {}
      BY <3>3, <1>1 DEF SelectedNodes
    <3>4. CASE spec.selector.nodeSelector # NoSelector
      BY <3>1, <3>4, <1>1, <2>6 DEF SelectedNodes, SelectorMatches
    <3> QED
      BY <3>2, <3>3, <3>4
  <2>9. /\ TargetSet(nodes, spec) = SelectedNodes(nodes, spec.selector)
             \union (IF spec.prime THEN LabeledPrimerNodes(nodes) ELSE {})
        /\ TargetSet(nodes', spec) = SelectedNodes(nodes', spec.selector)
             \union (IF spec.prime THEN LabeledPrimerNodes(nodes') ELSE {})
    BY <2>1, TargetSetShape
  <2> QED
    BY <2>1, <2>7, <2>8, <2>9
<1>2. TypeOK => [ \A n \in Node :
                    (Excludes(n) /\ ~UsesPools(spec.selector) /\ UNCHANGED spec) =>
                        TargetSet(nodes, spec)' = TargetSet(nodes, spec) \ {n} ]_vars
  <2> SUFFICES ASSUME TypeOK, NEW n \in Node, Excludes(n), ~UsesPools(spec.selector),
                      UNCHANGED spec
               PROVE  TargetSet(nodes, spec)' = TargetSet(nodes, spec) \ {n}
    OBVIOUS
  <2>1. TargetSet(nodes', spec') = TargetSet(nodes, spec) \ {n}
    BY <1>1
  <2> QED
    BY <2>1 DEF TargetSet
<1> QED
  BY <1>2, TypeCorrect, PTL DEF ExclusionOnlyRemoves
================================================================================
