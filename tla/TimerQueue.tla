----------------------------- MODULE TimerQueue -----------------------------
(***************************************************************************)
(* The ordered container timecbs of async/core.C: an itree (red-black      *)
(* tree, async/itree.[hC]) keyed by the expiry timespec.  What the event   *)
(* loop uses of it is the order alone: an element of the set `queued' is   *)
(* placed by its expiry ts[t], and itree_insert goes right on equal keys,  *)
(* so elements with the same expiry stay in the order ins[t] in which they *)
(* were inserted.                                                          *)
(***************************************************************************)
EXTENDS Naturals

\* Mutant: an element is inserted before those with an equal key.
BeforeLifo(ts, ins, t, u) ==
    \/ ts[t] < ts[u]
    \/ ts[t] = ts[u] /\ ins[t] > ins[u]

\* In-order position in the tree: by key, then by time of insertion.
Before(ts, ins, t, u) ==
    \/ ts[t] < ts[u]
    \/ ts[t] = ts[u] /\ ins[t] < ins[u]

\* The elements of S that no other element of S precedes (at most one).
Leftmost(ts, ins, S) ==
    {t \in S : \A u \in S : ~Before(ts, ins, u, t)}

\* itree_core::first (): NULL when the tree is empty.
FirstIn(ts, ins, S, null) ==
    IF S = {} THEN null ELSE CHOOSE t \in Leftmost(ts, ins, S) : TRUE

\* itree_core::next () / itree_successor (): NULL after the last element.
NextIn(ts, ins, S, t, null) ==
    FirstIn(ts, ins, {u \in S : Before(ts, ins, t, u)}, null)
=============================================================================
