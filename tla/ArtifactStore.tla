---------------------------- MODULE ArtifactStore ----------------------------
(***************************************************************************)
(* What the model hub promises about the weights it keeps: a deployment    *)
(* that can be loaded always has a whole, sealed snapshot behind it, and a *)
(* loaded one is never taken away.  Snapshots are sealed one at a time,    *)
(* deployments are published only over sealed snapshots, and a snapshot is *)
(* given up only when no deployment uses it.  How downloads, crashes,      *)
(* cancels and deletions interleave is left to ModelHub, which implements  *)
(* this specification.                                                     *)
(***************************************************************************)
CONSTANT Plans

VARIABLES
    sealed,        \* plans whose snapshot is complete and verified
    deployed,      \* plans whose deployment is published
    loaded         \* plans whose deployment is in use

vars == <<sealed, deployed, loaded>>

Init == sealed = {} /\ deployed = {} /\ loaded = {}

Seal(p) ==
    /\ p \notin sealed
    /\ sealed' = sealed \cup {p}
    /\ UNCHANGED <<deployed, loaded>>

Discard(p) ==
    /\ p \in sealed \ deployed
    /\ sealed' = sealed \ {p}
    /\ UNCHANGED <<deployed, loaded>>

(* One deployment is published, or all that are registered, at a start.    *)
Publish(S) ==
    /\ S \subseteq sealed
    /\ deployed' = deployed \cup S
    /\ UNCHANGED <<sealed, loaded>>

Withdraw(p) ==
    /\ p \notin loaded
    /\ deployed' = deployed \ {p}
    /\ UNCHANGED <<sealed, loaded>>

Load(p) ==
    /\ p \in deployed
    /\ loaded' = loaded \cup {p}
    /\ UNCHANGED <<sealed, deployed>>

Unload(p) ==
    /\ loaded' = loaded \ {p}
    /\ UNCHANGED <<sealed, deployed>>

(* The process ends: deployments go with it, snapshots stay.               *)
Stop ==
    /\ deployed' = {} /\ loaded' = {}
    /\ UNCHANGED sealed

Next ==
    \/ \E p \in Plans : Seal(p) \/ Discard(p) \/ Withdraw(p) \/ Load(p) \/ Unload(p)
    \/ \E S \in SUBSET Plans : Publish(S)
    \/ Stop

Spec == Init /\ [][Next]_vars
=============================================================================
