----------------------------- MODULE NodeSelection -----------------------------
(***************************************************************************)
(* determineTargetedNodes called again and again while an administrator    *)
(* labels, adds and removes nodes and edits the UpgradeAccelerator.  The   *)
(* state keeps the result of the last call until an input changes.         *)
(***************************************************************************)
EXTENDS NodeDetermination

CONSTANTS
    Selectors,   \* the selectors an administrator may write
    NotYet       \* there is no result for the present inputs

VARIABLES
    nodes,       \* the cluster: node |-> its state, or Absent
    spec,        \* the fields of the UpgradeAccelerator that matter here
    result       \* what the last call returned

vars == <<nodes, spec, result>>

TypeOK ==
    /\ nodes \in Clusters
    /\ spec \in [prime : BOOLEAN, selector : Selectors]
    /\ result \in [targeted : Seq(Node), primers : Seq(Node)] \union {NotYet}

Init ==
    /\ nodes \in Clusters
    /\ spec \in [prime : BOOLEAN, selector : Selectors]
    /\ result = NotYet

DetermineTargetedNodes ==
    /\ result' \in Determinations(nodes, spec)
    /\ UNCHANGED <<nodes, spec>>

(* An administrator, or the cluster, changes one node.                     *)
ChangeNode(n, state) ==
    /\ nodes' = [nodes EXCEPT ![n] = state]
    /\ result' = NotYet
    /\ UNCHANGED spec

EditSpec(new) ==
    /\ spec' = new
    /\ result' = NotYet
    /\ UNCHANGED nodes

Next ==
    \/ DetermineTargetedNodes
    \/ \E n \in Node, state \in NodeState \union {Absent} : ChangeNode(n, state)
    \/ \E new \in [prime : BOOLEAN, selector : Selectors] : EditSpec(new)

Spec == Init /\ [][Next]_vars

--------------------------------------------------------------------------------
(***************************************************************************)
(* What the callers of determineTargetedNodes rely on.                     *)
(***************************************************************************)

(* The Reconciler loops once over each target and adds up the length of    *)
(* the list, so no node may be listed twice, and every primer must be a    *)
(* target or the gate could wait for a node nobody warms (lines 253-260).  *)
TargetsListPrimersOnce ==
    result # NotYet =>
        /\ IsInjective(result.targeted)
        /\ IsInjective(result.primers)
        /\ Elements(result.primers) \subseteq Elements(result.targeted)

(* The labels that a pool and the nodeSelector want together.  Where both   *)
(* name a key, the nodeSelector has its way if the value in the pool is    *)
(* empty, and the pool if it is not.                                       *)
MatchesBoth(labels, inPool, wanted) ==
    /\ \A key \in DOMAIN inPool :
          /\ key \in DOMAIN labels
          /\ inPool[key] # "" \/ key \notin DOMAIN wanted => labels[key] = inPool[key]
    /\ \A key \in DOMAIN wanted :
          /\ key \in DOMAIN labels
          /\ key \notin DOMAIN inPool \/ inPool[key] = "" => labels[key] = wanted[key]

(* "A new list of nodes that match both selector sets" (line 140): on the   *)
(* path through pools a target, unless it is an appended primer, has the   *)
(* labels of a valid pool and of the nodeSelector (lines 143-176, 257).    *)
PoolTargetsMatchBoth ==
    (result # NotYet /\ UsesPools(spec.selector)) =>
        \A n \in Elements(result.targeted) \ Elements(result.primers) :
            \E pool \in ValidMachineConfigPools(spec.selector.machineConfigPools) :
                MatchesBoth(nodes[n].labels, Pools[pool], spec.selector.nodeSelector)

(* A node labelled disable-preheat is neither target nor primer when no    *)
(* valid pool is involved (lines 112, 195, 257 each check it on their own  *)
(* path).                                                                  *)
ExclusionHonoured ==
    (result # NotYet /\ ~UsesPools(spec.selector)) =>
        (Elements(result.targeted) \union Elements(result.primers))
            \cap ProhibitedNodes(nodes) = {}

(* Labelling one more node disable-preheat takes that node out of the      *)
(* targets and changes nothing for the others, whatever path and whatever  *)
(* choice of primers: the fall-back of lines 262-271 must not make other   *)
(* nodes targets.                                                          *)
Excludes(n) ==
    /\ n \in Present(nodes) /\ n \in Present(nodes')
    /\ ~nodes[n].disablePreheat
    /\ nodes' = [nodes EXCEPT ![n].disablePreheat = TRUE]

ExclusionOnlyRemoves ==
    [][ \A n \in Node :
          (Excludes(n) /\ ~UsesPools(spec.selector) /\ UNCHANGED spec) =>
              TargetSet(nodes, spec)' = TargetSet(nodes, spec) \ {n} ]_vars

(* README.md:59: the operator excludes a labelled node "no matter what     *)
(* other selectors include it".  The path through pools does not.          *)
ExclusionAlways ==
    result # NotYet => Elements(result.targeted) \cap ProhibitedNodes(nodes) = {}
================================================================================
