--------------------------- MODULE MCGuardedRuns ---------------------------
(***************************************************************************)
(* Instances of GuardedRuns for TLC.                                       *)
(***************************************************************************)
EXTENDS GuardedRuns, TLC

Symmetry == Permutations(Proc)
=============================================================================
