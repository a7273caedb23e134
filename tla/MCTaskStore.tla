---------------------------- MODULE MCTaskStore ----------------------------
(***************************************************************************)
(* Instances of TaskStore for TLC.                                         *)
(***************************************************************************)
EXTENDS TaskStore, TLC

Symmetry == Permutations(Submitter) \cup Permutations(Runner)
            \cup Permutations(Clearer)
=============================================================================
