--------------------------- MODULE NodeDetermination ---------------------------
(***************************************************************************)
(* Which nodes an UpgradeAccelerator warms, and which of them first:       *)
(* internal/controller/upgradeaccelerator_nodeDetermination.go.            *)
(*                                                                         *)
(* Nodes are natural numbers in the order of their names, so that sorting  *)
(* names is sorting numbers.  A cluster is a function from Node to the     *)
(* state of the node, or Absent; the state of a node is a record           *)
(*   labels         - its ordinary labels, a function from keys to values, *)
(*   disablePreheat - openshift.kemo.dev/disable-preheat is "true",        *)
(*   primerFalse    - openshift.kemo.dev/primer-node is "false".           *)
(* A selector is a record                                                  *)
(*   nodeSelector       - the matchLabels of the selector, or NoSelector,  *)
(*   machineConfigPools - the pool names it lists.                         *)
(***************************************************************************)
EXTENDS Naturals, Sequences, FiniteSets, Functions

CONSTANTS
    Node,        \* the nodes a cluster may hold
    NodeState,   \* the states a present node may be in
    Absent,      \* the state of a node that is not in the cluster
    Pools,       \* name of a MachineConfigPool of the cluster |-> its node selector
    NoSelector   \* a nodeSelector that is nil

ASSUME NodeAssumption == Node \subseteq Nat /\ IsFiniteSet(Node)
ASSUME NodeStateAssumption ==
    \A state \in NodeState :
        /\ state = [labels |-> state.labels, disablePreheat |-> state.disablePreheat,
                    primerFalse |-> state.primerFalse]
        /\ state.disablePreheat \in BOOLEAN /\ state.primerFalse \in BOOLEAN
ASSUME AbsentAssumption == Absent \notin NodeState

Clusters == [Node -> NodeState \union {Absent}]

Present(nodes) == {n \in Node : nodes[n] # Absent}

(* The three lists of determineLabeledNodes.                               *)
ProhibitedNodes(nodes) == {n \in Present(nodes) : nodes[n].disablePreheat}
PrimingProhibitedNodes(nodes) == {n \in Present(nodes) : nodes[n].primerFalse}
LabeledPrimerNodes(nodes) ==
    Present(nodes) \ (ProhibitedNodes(nodes) \union PrimingProhibitedNodes(nodes))

(* client.MatchingLabels *)
Matching(nodes, selector) ==
    {n \in Present(nodes) : \A key \in DOMAIN selector :
        /\ key \in DOMAIN nodes[n].labels
        /\ nodes[n].labels[key] = selector[key]}

ValidMachineConfigPools(defined) ==
    {pool \in defined \cap DOMAIN Pools : Pools[pool] # NoSelector}

(* mergo.Merge into the pool's selector, without override: the nodeSelector *)
(* gives the value of a key that the pool has not got, or has with an      *)
(* empty value, as the role labels of nodes are.                           *)
PoolDecides(pool, key) == key \in DOMAIN Pools[pool] /\ Pools[pool][key] # ""

MergedSelector(pool, nodeSelector) ==
    [key \in DOMAIN Pools[pool] \union DOMAIN nodeSelector |->
        IF PoolDecides(pool, key) \/ key \notin DOMAIN nodeSelector
        THEN Pools[pool][key] ELSE nodeSelector[key]]

UsesPools(selector) ==
    /\ selector.nodeSelector # NoSelector
    /\ ValidMachineConfigPools(selector.machineConfigPools) # {}

(* A mutant: a pool's nodes are not filtered by the nodeSelector.          *)
PoolMatchesUnmerged(nodes, selector) ==
    UNION {Matching(nodes, Pools[pool]) :
             pool \in ValidMachineConfigPools(selector.machineConfigPools)}

PoolMatches(nodes, selector) ==
    UNION {Matching(nodes, MergedSelector(pool, selector.nodeSelector)) :
             pool \in ValidMachineConfigPools(selector.machineConfigPools)}

(* A mutant: the nodeSelector path does not look at the disable label.     *)
SelectorMatchesProhibited(nodes, selector) == Matching(nodes, selector.nodeSelector)

SelectorMatches(nodes, selector) ==
    Matching(nodes, selector.nodeSelector) \ ProhibitedNodes(nodes)

(* What determineTargetedNodes collects before it looks at primers.  With  *)
(* pools and no nodeSelector it collects nothing, and only the path        *)
(* without a pool looks at the disable-preheat label.                      *)
SelectedNodes(nodes, selector) ==
    CASE /\ selector.nodeSelector = NoSelector
         /\ selector.machineConfigPools = {} -> Present(nodes) \ ProhibitedNodes(nodes)
      [] /\ selector.nodeSelector = NoSelector
         /\ selector.machineConfigPools # {} -> {}
      [] UsesPools(selector) -> PoolMatches(nodes, selector)
      [] OTHER -> SelectorMatches(nodes, selector)

(* The orders in which a loop may list a set, and the sorted one.          *)
Listings(S) == {list \in [1 .. Cardinality(S) -> S] : IsInjective(list)}
SortedListings(S) ==
    {list \in Listings(S) : \A i, j \in DOMAIN list : i < j => list[i] < list[j]}

Elements(list) == {list[i] : i \in DOMAIN list}

(* Line 248: the first target, in sorted order, that may be a primer.      *)
FirstEligible(nodes, selected) ==
    LET eligible == selected \ (PrimingProhibitedNodes(nodes) \union ProhibitedNodes(nodes))
    IN  {n \in eligible : \A m \in eligible : n <= m}

PrimerNodes(nodes, prime, selected) ==
    IF prime
    THEN IF LabeledPrimerNodes(nodes) # {} THEN LabeledPrimerNodes(nodes)
                                           ELSE FirstEligible(nodes, selected)
    ELSE {}

(* A mutant: an empty selection falls back to all nodes, primed or not.     *)
BaseTargetsOrAll(nodes, prime, selected) ==
    IF selected = {} THEN Present(nodes) \ ProhibitedNodes(nodes) ELSE selected

(* Primers outside the selection are appended to it, in the order of the   *)
(* node list, unless there is no selection: then they are the targets.     *)
BaseTargets(nodes, prime, selected) ==
    IF prime /\ selected = {} THEN PrimerNodes(nodes, prime, selected) ELSE selected

(* A mutant: the membership check before a primer is appended is missing.  *)
AppendedAlways(nodes, prime, selected) == PrimerNodes(nodes, prime, selected)

AppendedPrimers(nodes, prime, selected) ==
    PrimerNodes(nodes, prime, selected) \ BaseTargets(nodes, prime, selected)

(* A mutant: the list is made with one zero value, no node's name (nodes   *)
(* count from 1), and then appended to.                                    *)
DeterminationsPadded(nodes, spec) ==
    {[targeted |-> <<0>> \o base, primers |-> <<>>] :
        base \in SortedListings(SelectedNodes(nodes, spec.selector))}

(* determineTargetedNodes: every pair of lists one call may return.  The   *)
(* cluster's nodes come from the informer cache in no fixed order.         *)
Determinations(nodes, spec) ==
    LET selected == SelectedNodes(nodes, spec.selector)
    IN  {[targeted |-> base \o appended, primers |-> primers] :
            base     \in SortedListings(BaseTargets(nodes, spec.prime, selected)),
            appended \in Listings(AppendedPrimers(nodes, spec.prime, selected)),
            primers  \in SortedListings(PrimerNodes(nodes, spec.prime, selected))}

(* The nodes of the target list, without their order.                      *)
TargetSet(nodes, spec) ==
    LET selected == SelectedNodes(nodes, spec.selector)
    IN  BaseTargets(nodes, spec.prime, selected)
          \union AppendedPrimers(nodes, spec.prime, selected)
================================================================================
