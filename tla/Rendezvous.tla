----------------------------- MODULE Rendezvous -----------------------------
(***************************************************************************)
(* rendezvous_t of libtame/tame_rendezvous.h as operators on records: the  *)
(* events that are out, their count _n_events (an unsigned integer), the   *)
(* pending values, whether a closure waits (JOIN_EVENTS), and the flag     *)
(* that weak references look at.                                           *)
(***************************************************************************)
EXTENDS Naturals, Sequences, FiniteSets

CONSTANT UintMod    \* modulus of u_int

ASSUME UintAssumption == UintMod \in Nat /\ UintMod >= 256

NewRv ==
    [evs |-> {}, n |-> 0, pending |-> <<>>, waiting |-> FALSE, flag |-> "alive"]

\* _n_events -= k, for k < UintMod.
Minus(n, k) == (n + UintMod - k) % UintMod

\* _ti_mkevent () of a rendezvous that is alive; no other is given an event.
MkEvent(r, e) == [r EXCEPT !.evs = @ \cup {e}, !.n = @ + 1]

\* remove (), also from the destructor of an event.
RemoveEvent(r, e) == [r EXCEPT !.evs = @ \ {e}, !.n = Minus(@, 1)]

\* Mutant: the closure that waits is not resumed.
JoinNoReenter(r, e, v) == [RemoveEvent(r, e) EXCEPT !.pending = Append(@, v)]

\* _ti_join () of an event that is not reusable; the closure that waits, if
\* there is one, is the caller's to resume.
Join(r, e, v) ==
    [RemoveEvent(r, e) EXCEPT !.pending = Append(@, v), !.waiting = FALSE]

\* _ti_next_trigger () when a value is pending.
Consume(r) == [r EXCEPT !.pending = Tail(@)]

\* n_triggers_left ().
TriggersLeft(r) == (r.n + Len(r.pending)) % UintMod

\* Mutant: cancel () does not set the flag.
CancelRvNoFlag(r) == [r EXCEPT !.n = Minus(@, 2 * Cardinality(r.evs)), !.evs = {}]

\* cancel (): cancel_all_events () removes each event, and the event's own
\* clear () removes it again, for the flag still says the rendezvous is
\* alive: the list does not mind, but the count is decremented twice.
CancelRv(r) ==
    [r EXCEPT !.n = Minus(@, 2 * Cardinality(r.evs)), !.evs = {}, !.flag = "cancelled"]

\* cleanup () complains of a rendezvous that goes out of scope.
OutOfScopeError(r) == TriggersLeft(r) > 0 /\ r.flag # "cancelled"
=============================================================================
