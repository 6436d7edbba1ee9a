------------------------------ MODULE TameLock ------------------------------
(***************************************************************************)
(* The reader/writer lock of libtame: lock_t of libtame/lock.T, and one    *)
(* entry of the table of named locks of libtame/tame_nlock.Th, with the    *)
(* handles through which clients hold it.                                  *)
(*                                                                         *)
(* A client is a tamed function.  It asks for the lock in a mode and is    *)
(* resumed by an event: at once if the lock is free; from inside release   *)
(* () if it waited for EXCLUSIVE; and, if it waited for SHARED, by a timer *)
(* with delay zero (dtrigger), because release () grants the lock to many  *)
(* waiters in one loop.  A client may also wait with a timeout.            *)
(*                                                                         *)
(* Both kinds of timer are run by timecb_check () of the event loop, whose *)
(* order matters here: zero-delay timers stand first in the tree, but one  *)
(* that is queued while a pass is under way is behind the saved successor  *)
(* and waits for the next pass, unless a removal restarts the pass (module *)
(* EventLoop).  The tree is kept as zeros \o tmos, in order of expiry.     *)
(***************************************************************************)
EXTENDS Lists

CONSTANTS
    Procs,      \* clients, one request each at a time
    Modes,      \* the modes they ask for, among SHARED and EXCLUSIVE
    CancelModes,  \* the modes of the requests that may be cancelled
    Cancels,    \* which cancellations they use, among "user" and "timeout"
    Nil

ASSUME LockAssumption ==
    /\ IsFiniteSet(Procs)
    /\ Modes \subseteq {"SHARED", "EXCLUSIVE"} /\ CancelModes \subseteq Modes
    /\ Cancels \subseteq {"user", "timeout"}

VARIABLES
    exists,     \* the named lock is in the table
    mode,       \* _mode
    sharers,    \* _sharers
    waiters,    \* _waiters, as the sequence of the waiting clients
    want,       \* the mode each client asked for
    st,         \* what each client has of the lock (below)
    timed,      \* clients that asked with a timeout still queued
    stale,      \* history: cancel () calls on a waiter_t already deleted
    bad,        \* history: assertions of the code that failed
    zeros, tmos,  \* queued timers: delayed triggers, then timeouts
    expired,    \* timeouts that the pass under way finds expired
    pc, tp, ntp, altered   \* timecb_check ()

\* A client has no handle, waits in the queue, was granted the lock but not
\* yet resumed, holds it, or has a handle that is released.
States == {"none", "wait", "grant", "hold", "done"}

lock   == <<exists, mode, sharers, waiters, want, st, stale, bad>>
timers == <<timed, zeros, tmos, altered>>
pass   == <<expired, pc, tp, ntp>>
vars   == <<lock, timers, pass>>

\* Client code runs in a callback: of a descriptor, or of a timer.
InCallback == pc \in {"idle", "cb"}

HandleCount == Cardinality({p \in Procs : st[p] # "none"})

-----------------------------------------------------------------------------
\* The timer tree.

Tree == [k \in 1..Len(zeros) |-> <<"zero", zeros[k]>>]
          \o [k \in 1..Len(tmos) |-> <<"tmo", tmos[k]>>]
FirstTimer == IF Tree = <<>> THEN Nil ELSE Head(Tree)
NextTimer(t) ==
    LET k == CHOOSE k \in DOMAIN Tree : Tree[k] = t
    IN  IF k = Len(Tree) THEN Nil ELSE Tree[k + 1]

\* timecb_remove () of the timeout of p, if it is still queued.
DropTimeout(p) ==
    /\ timed' = timed \ {p}
    /\ tmos' = Without(tmos, p)
    /\ altered' = (altered \/ p \in ToSet(tmos))

-----------------------------------------------------------------------------
\* Mutant: a reader is let in whatever the mode.
CanAcquireReader(m) == m = "SHARED" \/ mode = "OPEN"

\* lock_t::acquire () succeeds at once.
CanAcquire(m) ==
    IF m = "SHARED" THEN mode \in {"OPEN", "SHARED"} ELSE mode = "OPEN"

\* lock_table_t::acquire () and timed_acquire (): the lock is made in the
\* mode asked for if it is not in the table.  The timeout goes into the tree
\* before acquire () is called, at position k according to its length, and
\* is removed again if the lock is free.  acquire () asserts that _sharers
\* agrees with the mode it finds.
Acquire(p, m, withtimeout, k) ==
    /\ InCallback
    /\ st[p] = "none" /\ p \notin ToSet(zeros)
    /\ withtimeout => "timeout" \in Cancels /\ m \in CancelModes
    /\ ~withtimeout => k = 1
    /\ want' = [want EXCEPT ![p] = m]
    /\ exists' = TRUE
    /\ IF ~exists \/ CanAcquire(m)
         THEN /\ st' = [st EXCEPT ![p] = "hold"]
              /\ mode' = m
              /\ sharers' = IF m = "SHARED" THEN sharers + 1 ELSE sharers
              /\ bad' = bad \cup (IF exists /\ (sharers > 0 <=> mode = "OPEN")
                                  THEN {"acquire"} ELSE {})
              /\ altered' = (altered \/ (exists /\ withtimeout))
              /\ UNCHANGED <<waiters, timed, tmos>>
         ELSE /\ st' = [st EXCEPT ![p] = "wait"]
              /\ waiters' = Append(waiters, p)
              /\ timed' = IF withtimeout THEN timed \cup {p} ELSE timed
              /\ tmos' = IF withtimeout THEN InsertAt(tmos, k, p) ELSE tmos
              /\ UNCHANGED <<mode, sharers, bad, altered>>
    /\ UNCHANGED <<stale, zeros, pass>>

IsSharedWaiter(p) == want[p] = "SHARED"

\* Mutant: only the first reader is taken off the queue.
GrantedOne(open) ==
    IF ~open \/ waiters = <<>> THEN {} ELSE {Head(waiters)}

\* Mutant: a writer in the queue goes before the readers.
GrantedWritersFirst(open) ==
    LET writers == Keep(waiters, {p \in Procs : ~IsSharedWaiter(p)})
    IN  IF ~open THEN {}
        ELSE IF writers = <<>> THEN ToSet(waiters) ELSE {Head(writers)}

\* The clients that a release which opens the lock grants it to.
Granted(open) ==
    IF ~open \/ waiters = <<>> THEN {}
    ELSE IF IsSharedWaiter(Head(waiters))
         THEN {p \in ToSet(waiters) : IsSharedWaiter(p)}
         ELSE {Head(waiters)}

\* lock_t::release (), called by the holder p whose handle becomes h.  Shared
\* waiters are taken off the queue together and triggered by timers; an
\* exclusive waiter is triggered on the spot, and drops its timeout.
ReleaseTo(p, h) ==
    LET left == IF mode = "SHARED" THEN sharers - 1 ELSE sharers
        open == mode = "EXCLUSIVE" \/ left = 0
        got  == Granted(open)
        shar == \E q \in got : IsSharedWaiter(q)
    IN  /\ sharers' = IF shar THEN left + Cardinality(got) ELSE left
        /\ mode' = IF got = {} THEN IF open THEN "OPEN" ELSE mode
                   ELSE IF shar THEN "SHARED" ELSE "EXCLUSIVE"
        /\ bad' = bad \cup (IF \/ mode = "OPEN"
                               \/ mode = "SHARED" /\ (sharers = 0 \/ shar)
                               \/ mode = "EXCLUSIVE" /\ sharers # 0
                            THEN {"release"} ELSE {})
        /\ waiters' = Keep(waiters, Procs \ got)
        /\ st' = [q \in Procs |-> IF q = p THEN h
                                  ELSE IF q \notin got \/ st[q] # "wait" THEN st[q]
                                  ELSE IF shar THEN "grant" ELSE "hold"]
        /\ IF shar
             THEN /\ zeros' = zeros \o Keep(waiters, got)
                  /\ UNCHANGED <<timed, tmos, altered>>
             ELSE /\ UNCHANGED zeros
                  /\ IF got = {} THEN UNCHANGED <<timed, tmos, altered>>
                     ELSE DropTimeout(CHOOSE q \in got : TRUE)

\* lock_handle_t::release ().
Release(p) ==
    /\ InCallback
    /\ st[p] = "hold"
    /\ ReleaseTo(p, "done")
    /\ UNCHANGED <<exists, want, stale, pass>>

\* ~lock_handle_t () of a released or cancelled handle: decref () deletes
\* the lock with its last handle and asserts that it is open.
Drop(p) ==
    /\ InCallback
    /\ st[p] = "done"
    /\ st' = [st EXCEPT ![p] = "none"]
    /\ IF HandleCount = 1
         THEN /\ exists' = FALSE
              /\ bad' = bad \cup (IF mode # "OPEN" THEN {"decref"} ELSE {})
              /\ mode' = "OPEN" /\ sharers' = 0
         ELSE UNCHANGED <<exists, bad, mode, sharers>>
    /\ UNCHANGED <<waiters, want, stale, timers, pass>>

\* Mutant: a cancelled waiter stays in the queue.
CancelWaiterStays(p) ==
    /\ st' = [st EXCEPT ![p] = "done"]
    /\ stale' = (stale \/ st[p] = "grant")
    /\ UNCHANGED waiters

\* lock_t::cancel (w): the waiter leaves the queue.  If release () deleted
\* it before, the call works on freed memory; the outcome modelled is the
\* mildest one, that nothing in the lock changes.
CancelWaiter(p) ==
    /\ st' = [st EXCEPT ![p] = "done"]
    /\ waiters' = Without(waiters, p)
    /\ stale' = (stale \/ st[p] = "grant")

\* lock_handle_t::cancel (): _waiter stays set until the client is resumed.
UserCancel(p) ==
    /\ InCallback
    /\ "user" \in Cancels /\ want[p] \in CancelModes
    /\ st[p] \in {"wait", "grant"} /\ p \notin timed
    /\ CancelWaiter(p)
    /\ UNCHANGED <<exists, mode, sharers, want, bad, timers, pass>>

-----------------------------------------------------------------------------
\* timecb_check ().  The timeouts found expired are a prefix of the queue.
PassStart(n) ==
    /\ pc = "idle"
    /\ Tree # <<>>
    /\ pc' = "loop"
    /\ tp' = FirstTimer
    /\ expired' = {tmos[k] : k \in 1..n}
    /\ UNCHANGED <<lock, timers, ntp>>

TimerDue == tp # Nil /\ (tp[1] = "zero" \/ tp[2] \in expired)

\* A delayed trigger fires: the client is resumed and holds the lock.  If it
\* gave up in the meantime, its event is dead and nothing happens.
RunZero ==
    /\ pc = "loop" /\ TimerDue
    /\ tp[1] = "zero"
    /\ ntp' = NextTimer(tp)
    /\ pc' = "cb"
    /\ LET p == tp[2]
       IN  /\ zeros' = Without(zeros, p)
           /\ IF st[p] = "grant"
                THEN /\ st' = [st EXCEPT ![p] = "hold"]
                     /\ timed' = timed \ {p}
                     /\ tmos' = Without(tmos, p)
                     /\ altered' = (p \in ToSet(tmos))
                ELSE UNCHANGED <<st, timed, tmos>> /\ altered' = FALSE
    /\ UNCHANGED <<exists, mode, sharers, waiters, want, stale, bad, expired, tp>>

\* A timeout fires: lock_t::timed_acquire () cancels its waiter.
RunTimeout ==
    /\ pc = "loop" /\ TimerDue
    /\ tp[1] = "tmo"
    /\ ntp' = NextTimer(tp)
    /\ pc' = "cb"
    /\ altered' = FALSE
    /\ LET p == tp[2]
       IN  /\ tmos' = Without(tmos, p)
           /\ timed' = timed \ {p}
           /\ CancelWaiter(p)
    /\ UNCHANGED <<exists, mode, sharers, want, bad, zeros, expired, tp>>

CallbackReturn ==
    /\ pc = "cb"
    /\ tp' = IF altered THEN FirstTimer ELSE ntp
    /\ pc' = "loop"
    /\ UNCHANGED <<lock, timers, expired, ntp>>

PassDone ==
    /\ pc = "loop"
    /\ ~TimerDue
    /\ pc' = "idle"
    /\ tp' = Nil /\ ntp' = Nil /\ expired' = {}
    /\ UNCHANGED <<lock, timers>>

-----------------------------------------------------------------------------
Init ==
    /\ exists = FALSE /\ mode = "OPEN" /\ sharers = 0 /\ waiters = <<>>
    /\ want = [p \in Procs |-> "EXCLUSIVE"] /\ st = [p \in Procs |-> "none"]
    /\ timed = {} /\ stale = FALSE /\ bad = {}
    /\ zeros = <<>> /\ tmos = <<>> /\ altered = FALSE
    /\ expired = {} /\ pc = "idle" /\ tp = Nil /\ ntp = Nil

Next ==
    \/ \E p \in Procs, m \in Modes, w \in BOOLEAN, k \in 1..(Len(tmos) + 1) :
         Acquire(p, m, w, k)
    \/ \E p \in Procs : Release(p) \/ Drop(p) \/ UserCancel(p)
    \/ \E n \in 0..Len(tmos) : PassStart(n)
    \/ RunZero \/ RunTimeout \/ CallbackReturn \/ PassDone

Spec == Init /\ [][Next]_vars

\* A holder releases in the end, whatever the loop does meanwhile (a promise
\* of the clients, hence strong fairness), and the loop runs its timers.
Fairness ==
    /\ \A p \in Procs : SF_vars(Release(p))
    /\ WF_vars(\E n \in 0..Len(tmos) : PassStart(n))
    /\ WF_vars(RunZero \/ RunTimeout \/ CallbackReturn \/ PassDone)
FairSpec == Spec /\ Fairness

-----------------------------------------------------------------------------
Has(p) == st[p] \in {"grant", "hold"}

\* Every variable keeps its type.
TypeOK ==
    /\ exists \in BOOLEAN /\ mode \in {"OPEN", "SHARED", "EXCLUSIVE"}
    /\ sharers \in Nat /\ waiters \in Seq(Procs)
    /\ want \in [Procs -> {"SHARED", "EXCLUSIVE"}] /\ st \in [Procs -> States]
    /\ timed \subseteq Procs /\ stale \in BOOLEAN
    /\ bad \subseteq {"acquire", "release", "decref"}
    /\ zeros \in Seq(Procs) /\ tmos \in Seq(Procs) /\ altered \in BOOLEAN
    /\ expired \subseteq Procs /\ pc \in {"idle", "loop", "cb"}

\* Readers exclude writers and a writer excludes everyone, the clients that
\* were granted the lock and are still to be resumed included.
Exclusion ==
    \A p, q \in Procs :
        p # q /\ Has(p) /\ Has(q) => want[p] = "SHARED" /\ want[q] = "SHARED"

\* _sharers counts the readers exactly, and the lock is open if and only if
\* nobody has it, and then nobody waits: release () loses no grant, gives
\* none to a client that gave up, and leaves no waiter behind.
CountExact ==
    /\ sharers = Cardinality({p \in Procs : Has(p) /\ want[p] = "SHARED"})
    /\ mode = "OPEN" <=> \A p \in Procs : ~Has(p)
    /\ mode = "OPEN" => waiters = <<>>

\* No assertion of acquire (), release () or decref () fails; in particular no reader is
\* in the queue when the last reader releases, and the lock is open when its
\* last handle goes away.
AssertionsHold == bad = {}

\* A waiting reader gets the lock, however many writers keep asking for it.
ReadersServed ==
    \A p \in Procs :
        st[p] = "wait" /\ want[p] = "SHARED" ~> st[p] = "hold"
=============================================================================
