----------------------------- MODULE MCBatchRun -----------------------------
(***************************************************************************)
(* Instances of BatchRun for TLC.                                          *)
(***************************************************************************)
EXTENDS BatchRun, TLC

Symmetry == Permutations(Worker)
=============================================================================
