------------------------- MODULE MCApplicationEngine -------------------------
(***************************************************************************)
(* Instance of ApplicationEngine for TLC.  One policy makes max_replicas   *)
(* bind and lets idle replicas go to none, the other warms one up and      *)
(* scales between one and two.                                             *)
(***************************************************************************)
EXTENDS ApplicationEngine

MCPolicies == {[min |-> 0, max |-> 1], [min |-> 1, max |-> 2]}
=============================================================================
