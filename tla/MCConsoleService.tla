------------------------- MODULE MCConsoleService -------------------------
(***************************************************************************)
(* Instances of ConsoleService for TLC, with two reductions.  Runs are     *)
(* interchangeable: either they are model values under RunSymmetry, or     *)
(* they are numbers that RunsInOrder makes TLC use in order.  Deployments  *)
(* are interchangeable where all are configured and of one provider.  How  *)
(* a run ended decides nothing that happens later, so EndedView does not   *)
(* tell terminal states apart (only where the properties do not either).   *)
(***************************************************************************)
EXTENDS ConsoleService, TLC

RunSymmetry == Permutations(Runs)
DeploymentSymmetry == Permutations(Deployments)

Used(r) == state[r] # "absent" \/ pc[r] # "none"
RunsInOrder == \A q, r \in Runs : q < r /\ Used(r) => Used(q)

EndedView ==
    <<phase, volatile,
      [r \in Runs |-> IF state[r] \in TERMINAL THEN "ended" ELSE state[r]]>>
=============================================================================
