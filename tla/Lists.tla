------------------------------- MODULE Lists --------------------------------
(***************************************************************************)
(* The linked lists of async/list.h (list, tailq) as sequences.  Elements  *)
(* are taken out from anywhere; those that stay keep their order.          *)
(***************************************************************************)
EXTENDS Naturals, Sequences, FiniteSets, SequencesExt

\* The position of k among the positions K.
Rank(K, k) == Cardinality({j \in K : j <= k})

\* The elements of s that are in S, in the order of s.
Keep(s, S) ==
    LET K == {k \in DOMAIN s : s[k] \in S}
    IN  [i \in 1..Cardinality(K) |-> s[CHOOSE k \in K : Rank(K, k) = i]]

\* tailq::remove () and list::remove ().
Without(s, x) == Keep(s, ToSet(s) \ {x})
=============================================================================
