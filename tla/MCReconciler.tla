----------------------------- MODULE MCReconciler -----------------------------
(* The clusters, specs and disruptions of the runs of the Reconciler.       *)
EXTENDS Reconciler, TLC

Plain == [labels |-> "zone" :> "east", disablePreheat |-> FALSE, primerFalse |-> FALSE]
NotPrimer == [Plain EXCEPT !.primerFalse = TRUE]
West == [NotPrimer EXCEPT !.labels = "zone" :> "west"]
Excluded == [NotPrimer EXCEPT !.disablePreheat = TRUE]

MCNode2 == 1 .. 2
MCNode3 == 1 .. 3
MCNode4 == 1 .. 4
MCPools == "workers" :> ("zone" :> "east")
MCNodeState == {Plain, NotPrimer, West, Excluded}
ChangingNodeState == {Plain, NotPrimer, West}

(* No version is treated differently from another.                          *)
Symmetry == Permutations(Version)

Everything == [nodeSelector |-> NoSelector, machineConfigPools |-> {}]
East == [nodeSelector |-> "zone" :> "east", machineConfigPools |-> {}]

NewSpec(state, prime, parallelism, selector) ==
    [state |-> state, prime |-> prime, parallelism |-> parallelism, selector |-> selector]

SpecsOf(states, parallelisms, selector) ==
    {NewSpec(state, prime, parallelism, selector) :
        state \in states, prime \in BOOLEAN, parallelism \in parallelisms}

AllAtOnce == SpecsOf({"enabled"}, {0}, Everything)
PrimedEast == {NewSpec("enabled", TRUE, 0, East)}
Primed == {NewSpec("enabled", TRUE, 0, Everything)}
InBatches == SpecsOf({"enabled"}, {-1, 0, 1, 2}, Everything)
LargeBatch == {NewSpec("enabled", FALSE, 2, Everything)}
Editable == {NewSpec("enabled", TRUE, 0, East), NewSpec("disabled", FALSE, 0, East)}

Clusters4 == {<<Plain, NotPrimer, NotPrimer, NotPrimer>>, <<Plain, Plain, NotPrimer, West>>,
              <<Plain, Plain, Excluded, Absent>>}
Clusters3 == {<<Plain, NotPrimer, NotPrimer>>, <<Plain, Plain, NotPrimer>>}
Clusters2 == {<<Plain, NotPrimer>>}
================================================================================
