--------------------------- MODULE MCResumableRpc ---------------------------
(* ResumableRpc for TLC; the constants are given in the .cfg files. *)
EXTENDS ResumableRpc

Symmetry == Permutations(Calls)
=============================================================================
