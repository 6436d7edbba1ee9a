-------------------------- MODULE MCUnreliableRpc --------------------------
(* UnreliableRpc for TLC; the constants are given in the .cfg files. *)
EXTENDS UnreliableRpc

\* The calls without timedcall () may be interchanged.
Symmetry == Permutations(Xids \ Timed)
=============================================================================
