------------------------------- MODULE MCWatches -------------------------------
(* Two UpgradeAccelerators, one of which may own a Job.                     *)
EXTENDS Watches, TLC

MCOwner == CHOOSE f \in [Owned -> UA] : TRUE

(* At the start there is its owner, which gets a Job later.                 *)
MCInitialObjects == {{MCOwner[o] : o \in Owned}}

(* All that may exist is there.                                             *)
WithAll == {UA \union Owned}
================================================================================
