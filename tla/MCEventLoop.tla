---------------------------- MODULE MCEventLoop ----------------------------
(***************************************************************************)
(* EventLoop for TLC: the constants are given in the .cfg files; addresses *)
(* of one kind are interchangeable.                                        *)
(***************************************************************************)
EXTENDS EventLoop, TLC

Symmetry == Permutations(Timers) \cup Permutations(Lazies)
                \cup Permutations(Yields)
=============================================================================
