---------------------------- MODULE MCStoreFile ----------------------------
(***************************************************************************)
(* TLC instance of StoreFile: interchangeable processes, documents and     *)
(* inodes.                                                                 *)
(***************************************************************************)
EXTENDS StoreFile, TLC

Symmetry == Permutations(Proc) \cup Permutations(Value) \cup Permutations(Inode)
=============================================================================
