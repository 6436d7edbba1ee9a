--------------------------- MODULE AtMostOnceRpc ---------------------------
(***************************************************************************)
(* What a resumable RPC session promises to its user (the comment on       *)
(* asrv_resumable in arpc/asrv.C, the code of aclnt_resumable in           *)
(* arpc/aclnt.C): a call is executed at most once by the server, and its   *)
(* callback runs once, after that execution, whatever happens to the       *)
(* connections underneath.                                                 *)
(***************************************************************************)
CONSTANT Calls

\* Each call: not made, outstanding, executed by the server, answered.
VARIABLE phase

Init == phase = [c \in Calls |-> "new"]

Advance(c, from, to) ==
    /\ phase[c] = from
    /\ phase' = [phase EXCEPT ![c] = to]

Issue(c) == Advance(c, "new", "out")
Execute(c) == Advance(c, "out", "executed")
Complete(c) == Advance(c, "executed", "done")

Next == \E c \in Calls : Issue(c) \/ Execute(c) \/ Complete(c)

Spec == Init /\ [][Next]_phase
=============================================================================
