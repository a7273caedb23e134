----------------------------- MODULE MCTaskRun -----------------------------
(***************************************************************************)
(* Instances of TaskRun for TLC.                                           *)
(***************************************************************************)
EXTENDS TLC, TaskRun

CONSTANTS t1, t2, t3, c1, c2

\* t1 and t2 share an entry, t3 has one of its own.
MixedCommands == (t1 :> c1) @@ (t2 :> c1) @@ (t3 :> c2)

\* Processes are interchangeable, and so are the tasks with the same command.
Symmetry == Permutations(Proc) \cup Permutations({t1, t2})
=============================================================================
