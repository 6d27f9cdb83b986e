---------------------------- MODULE MCNodeSelection ----------------------------
(* Two roles, one with an empty label, one zone label, one pool per role,  *)
(* one pool without selector.                                               *)
EXTENDS NodeSelection, TLC

MCNode == 1 .. 3

WithRole(role) == "role" :> role
InZone == "zone" :> "east"

MCNodeState ==
    {[labels |-> l, disablePreheat |-> d, primerFalse |-> p] :
        l \in {WithRole(""), WithRole("") @@ InZone, WithRole("master")},
        d \in BOOLEAN, p \in BOOLEAN}

MCPools == "workers" :> WithRole("") @@ "masters" :> WithRole("master")
           @@ "bare" :> NoSelector

(* No selector; a label; pools alone; valid pools with a nodeSelector, one  *)
(* of whose keys a pool has too, empty or not; invalid pools.               *)
MCSelectors ==
    {[nodeSelector |-> NoSelector, machineConfigPools |-> {}],
     [nodeSelector |-> InZone, machineConfigPools |-> {}],
     [nodeSelector |-> NoSelector, machineConfigPools |-> {"workers"}],
     [nodeSelector |-> InZone, machineConfigPools |-> {"workers", "masters"}],
     [nodeSelector |-> WithRole("master"), machineConfigPools |-> {"workers"}],
     [nodeSelector |-> WithRole(""), machineConfigPools |-> {"masters"}],
     [nodeSelector |-> InZone, machineConfigPools |-> {"bare", "unknown"}]}
================================================================================
