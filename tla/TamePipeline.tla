---------------------------- MODULE TamePipeline ----------------------------
(***************************************************************************)
(* do_pipeline of libtame/pipeline.T: pipeliner_t keeps at most Wsz of     *)
(* NOps operations going, each started by pipeliner_cb_t::pipeline_op with *)
(* an event that connector::timeout (libtame/tame_connectors.Th) guards.   *)
(* The connector has a rendezvous of its own with three events: the one it *)
(* hands out, a timer's, and the notifier that tells it when the operation *)
(* cancels its event.                                                      *)
(*                                                                         *)
(* Closures run when they are resumed, in the stack of the trigger, until  *)
(* they wait again.  An operation may trigger its event at once, later,    *)
(* after the timer, or a second time; cancel it; or drop it.               *)
(***************************************************************************)
EXTENDS Rendezvous

CONSTANTS
    NOps,       \* number of operations
    Wsz         \* size of the window, _wsz

ASSUME PipelineAssumption ==
    NOps \in Nat /\ Wsz \in Nat \ {0} /\ NOps + Wsz < UintMod

Ops == 0..(NOps - 1)

VARIABLES
    rv,         \* _rv of the pipeliner
    pc, i,      \* run (): where it is, and its index
    cancelled,  \* _cancelled
    conn,       \* each operation: the rendezvous of its connector
    op,         \* each operation: "none", the flag of the event it holds
                \* ("alive", "cancelled" or "cleared"), or "gone"
    timers,     \* connectors whose timer is set
    fired,      \* how often each operation's event of _rv was triggered
    after,      \* operations started after cancel ()
    expired,    \* operations whose timer expired
    strict,     \* tame_strict_mode ()
    errors      \* messages of tame_error (), each with its operation; NOps
                \* stands for the pipeliner itself

vars == <<rv, pc, i, cancelled, conn, op, timers, fired, after, expired, strict, errors>>

\* The operation still has its event.
Holds(o) == op[o] \in {"alive", "cancelled", "cleared"}

\* run () waits or is over: control is with the event loop.  It is with an
\* operation that is just being started, too.
Idle == rv.waiting \/ pc \in {"done", "gone"}
OpsActive == Idle \/ pc = "launched"

-----------------------------------------------------------------------------
\* Mutant: the loop does not look at _cancelled.
KeepGoingAnyway == i < NOps

KeepGoing == i < NOps /\ ~cancelled

\* run (): the head of the loop.
RunFor ==
    /\ pc = "for"
    /\ pc' = IF KeepGoing THEN "win" ELSE "all"
    /\ UNCHANGED <<rv, i, cancelled, conn, op, timers, fired, after, expired, strict, errors>>

\* Mutant: the window is one too large.
LimitOneMore == IF pc = "win" THEN Wsz ELSE 0

\* The argument of wait_n (), from launch () and from run ().
Limit == IF pc = "win" THEN Wsz - 1 ELSE 0

\* wait_n ().
WaitN ==
    /\ pc \in {"win", "all"} /\ ~rv.waiting
    /\ IF TriggersLeft(rv) > Limit
       THEN /\ rv' = IF rv.pending # <<>> THEN Consume(rv) ELSE [rv EXCEPT !.waiting = TRUE]
            /\ pc' = pc
       ELSE /\ rv' = rv
            /\ pc' = IF pc = "win" THEN "op" ELSE "done"
    /\ UNCHANGED <<i, cancelled, conn, op, timers, fired, after, expired, strict, errors>>

\* launch () calls pipeline_op () with an event of _rv; __cnc () makes its
\* three events and waits.
Launch ==
    /\ pc = "op"
    /\ rv' = MkEvent(rv, i)
    /\ conn' = [conn EXCEPT ![i] = [MkEvent(MkEvent(MkEvent(NewRv, "timer"), "out"), "notifier")
                                    EXCEPT !.waiting = TRUE]]
    /\ timers' = timers \cup {i}
    /\ op' = [op EXCEPT ![i] = "alive"]
    /\ after' = IF cancelled THEN after + 1 ELSE after
    /\ pc' = "launched"
    /\ UNCHANGED <<i, cancelled, fired, expired, strict, errors>>

LaunchReturn ==
    /\ pc = "launched"
    /\ i' = i + 1
    /\ pc' = "for"
    /\ UNCHANGED <<rv, cancelled, conn, op, timers, fired, after, expired, strict, errors>>

\* do_pipeline () returns and the pipeliner goes out of scope.
Destroy ==
    /\ pc = "done"
    /\ pc' = "gone"
    /\ errors' = IF OutOfScopeError(rv) THEN errors \cup {<<"out of scope", NOps>>} ELSE errors
    /\ UNCHANGED <<rv, i, cancelled, conn, op, timers, fired, after, expired, strict>>

-----------------------------------------------------------------------------
\* timecb_remove () destroys the timer's event, unless it is the one that
\* was triggered.
DropTimer(r) == IF "timer" \in r.evs THEN RemoveEvent(r, "timer") ELSE r

\* Mutant: an event is triggered whatever became of it.
CanTriggerAlways(flag) == TRUE

\* can_trigger (): the event was neither cancelled nor triggered.
CanTrigger(flag) == flag = "alive"

\* can_trigger () complains of an event that was cancelled in strict mode
\* only, of one that was cleared, or is being triggered, always.
TriggerErrors(o, flag) ==
    IF CanTrigger(flag) \/ (flag = "cancelled" /\ ~strict) THEN {} ELSE {<<flag, o>>}

\* The connector of operation o is resumed with r as its rendezvous: it takes
\* the outcome, removes the timer, cancels the rendezvous and triggers the
\* event of pipeline_op (), which goes on with ok.
Resume(o, r, ok) ==
    LET over  == CancelRv(DropTimer(Consume(r)))
        inner == IF fired[o] = 0 THEN "alive" ELSE "inner"
    IN  /\ conn' = [conn EXCEPT ![o] = over]
        /\ timers' = timers \ {o}
        /\ errors' = errors
             \cup (IF OutOfScopeError(over) THEN {<<"out of scope", o>>} ELSE {})
             \cup (IF pc = "gone" THEN {<<"deallocated", o>>} ELSE {})
             \cup TriggerErrors(o, inner)
        /\ IF CanTrigger(inner)
           THEN /\ cancelled' = (cancelled \/ ~ok)
                /\ fired' = [fired EXCEPT ![o] = @ + 1]
                /\ rv' = IF pc = "gone" THEN rv ELSE Join(rv, o, "nil")
           ELSE UNCHANGED <<cancelled, fired, rv>>

\* The operation triggers its event, and may keep it and trigger it again.
Trigger(o) ==
    /\ OpsActive /\ Holds(o)
    /\ IF CanTrigger(op[o])
       THEN /\ op' \in {[op EXCEPT ![o] = "cleared"], [op EXCEPT ![o] = "gone"]}
            /\ \E ok \in BOOLEAN : Resume(o, Join(conn[o], "out", "succ"), ok)
       ELSE /\ op' = [op EXCEPT ![o] = "gone"]
            /\ errors' = errors \cup TriggerErrors(o, op[o])
            /\ UNCHANGED <<rv, conn, timers, cancelled, fired>>
    /\ UNCHANGED <<pc, i, after, expired, strict>>

\* The operation cancels its event: the event leaves the rendezvous and its
\* notifier is triggered, unless that was cancelled.  The slot of ok is not
\* assigned.
CancelEvent(o) ==
    /\ OpsActive /\ Holds(o)
    /\ op' = [op EXCEPT ![o] = "gone"]
    /\ IF "notifier" \in conn[o].evs
       THEN \E ok \in BOOLEAN :
               Resume(o, Join(RemoveEvent(conn[o], "out"), "notifier", "discarded"), ok)
       ELSE UNCHANGED <<rv, conn, timers, cancelled, fired, errors>>
    /\ UNCHANGED <<pc, i, after, expired, strict>>

\* The operation drops the last reference: the event and its notifier are
\* destroyed, and only the timer is left.
DropEvent(o) ==
    /\ OpsActive /\ Holds(o)
    /\ op' = [op EXCEPT ![o] = "gone"]
    /\ conn' = IF op[o] = "alive"
               THEN [conn EXCEPT ![o] = RemoveEvent(RemoveEvent(@, "out"), "notifier")]
               ELSE conn
    /\ UNCHANGED <<rv, pc, i, cancelled, timers, fired, after, expired, strict, errors>>

\* The timer of a connector expires.  The event the operation holds, if it
\* does, is cancelled with the rendezvous.
Timeout(o) ==
    /\ Idle /\ o \in timers
    /\ \E ok \in BOOLEAN : Resume(o, Join(conn[o], "timer", "timedout"), ok)
    /\ op' = IF op[o] = "alive" THEN [op EXCEPT ![o] = "cancelled"] ELSE op
    /\ expired' = expired \cup {o}
    /\ UNCHANGED <<pc, i, after, strict>>

\* The program calls cancel () of the pipeliner.
CancelPipeline ==
    /\ rv.waiting
    /\ cancelled' = TRUE
    /\ UNCHANGED <<rv, pc, i, conn, op, timers, fired, after, expired, strict, errors>>

-----------------------------------------------------------------------------
Init ==
    /\ rv = NewRv /\ pc = "for" /\ i = 0 /\ cancelled = FALSE
    /\ conn = [o \in Ops |-> NewRv] /\ op = [o \in Ops |-> "none"]
    /\ timers = {} /\ fired = [o \in Ops |-> 0] /\ after = 0
    /\ expired = {} /\ strict \in BOOLEAN /\ errors = {}

RunStep == RunFor \/ WaitN \/ Launch \/ LaunchReturn \/ Destroy

Next ==
    \/ RunStep \/ CancelPipeline
    \/ \E o \in Ops : Trigger(o) \/ CancelEvent(o) \/ DropEvent(o) \/ Timeout(o)

Spec == Init /\ [][Next]_vars

\* Closures that are resumed run, and the event loop fires timers; operations
\* may never answer.
FairSpec == Spec /\ WF_vars(RunStep) /\ \A o \in Ops : WF_vars(Timeout(o))

-----------------------------------------------------------------------------
\* At most _wsz operations are going on, although operations end while run ()
\* is at work and their events wait to be consumed.
WindowKept == Cardinality({o \in Ops : op[o] # "none" /\ fired[o] = 0}) <= Wsz

\* The event of an operation is triggered once, although the operation and
\* the timer race and operations may trigger twice, and do_pipeline () is done only when every operation that
\* was started has answered or timed out.
DoneExact ==
    \A o \in Ops :
        /\ fired[o] <= 1
        /\ pc \in {"done", "gone"} /\ op[o] # "none" => fired[o] = 1

\* After cancel (), by the program or because an operation failed, at most one
\* more operation is started: the one that was waiting for the window.
OneAfterCancel == after <= 1

\* tame_error () complains of nothing but what an operation did: in strict
\* mode, a trigger that came after the timer expired, and a second trigger of
\* an event that was in time.  No rendezvous goes out of scope with triggers to
\* come, although cancel () leaves its count wrong, no connector triggers the
\* pipeliner's event twice, and none does when the pipeliner is gone.
TameErrorsJustified ==
    \A x \in errors :
        \/ x[1] = "cancelled" /\ strict /\ x[2] \in expired
        \/ x[1] = "cleared" /\ x[2] \in Ops \ expired /\ fired[x[2]] = 1

\* The pipeline ends, though operations may never answer.
PipelineEnds == <>(pc = "gone")
=============================================================================
