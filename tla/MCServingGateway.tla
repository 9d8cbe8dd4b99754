-------------------------- MODULE MCServingGateway --------------------------
(***************************************************************************)
(* Instances of ServingGateway for TLC.  The threads of the transport are  *)
(* interchangeable.                                                        *)
(***************************************************************************)
EXTENDS ServingGateway, TLC

ThreadSymmetry == Permutations(Requests)
=============================================================================
