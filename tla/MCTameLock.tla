----------------------------- MODULE MCTameLock -----------------------------
(* TameLock for TLC; the constants are given in the .cfg files. *)
EXTENDS TameLock, TLC

Symmetry == Permutations(Procs)
=============================================================================
