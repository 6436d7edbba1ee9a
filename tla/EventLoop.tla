----------------------------- MODULE EventLoop -----------------------------
(***************************************************************************)
(* The event loop of libasync: amain () / _acheck () of async/core.C with  *)
(* its timers (timecb, delaycb, timecb_remove, timecb_check), its lazy     *)
(* callbacks (lazycb, lazycb_remove, lazycb_check), its yield callbacks    *)
(* (yieldcb, yieldcb_remove, yieldcb_check), the wait in select (), and    *)
(* the cached clock of async/litetime.C through which the loop reads time. *)
(*                                                                         *)
(* The process is single threaded: callbacks run to completion, but from   *)
(* inside a callback the program may register and remove callbacks of all  *)
(* three kinds, the ones the interrupted scan is about to visit included.  *)
(* Time passes while a callback runs and while the loop waits in select.   *)
(*                                                                         *)
(* Callback objects are heap objects: Timers, Lazies and Yields are the    *)
(* addresses the allocator hands out, and an address may be reused after   *)
(* it was freed.  Scans of file descriptors and signals are another        *)
(* module's business: here a return of select is followed by `nready'      *)
(* callbacks.                                                              *)
(***************************************************************************)
EXTENDS Naturals, Sequences, SequencesExt, TimerQueue

CONSTANTS
    Timers, Lazies, Yields,  \* addresses of timecb_t, lazycb_t, yieldcb_t
    Nil,                     \* NULL
    Delays,                  \* arguments of delaycb; 0 is delaycb (0, 0)
    Interval,                \* the interval of every lazycb; ifchg.C asks for 60
    Day,                     \* 86400: the wait when no timer is queued
    MaxTime,                 \* bound: the clock stops there
    MaxIns,                  \* bound: number of timers ever queued
    MaxReady                 \* bound: callbacks after one select

ASSUME NilAssumption == Nil \notin Timers \cup Lazies \cup Yields
ASSUME NumAssumption ==
    /\ Delays \subseteq Nat
    /\ {Interval, Day, MaxTime, MaxIns, MaxReady} \subseteq Nat
    /\ MaxTime > 0 /\ Interval > 0

VARIABLES
    now,        \* the time of day; 0 is before every real time
    tsnow,      \* _tsnow: the cached time of day
    need,       \* _need_refresh
    left,       \* _left_sel_loop
    pc,         \* where the loop is
    booted,     \* the loop of amain () has been entered
    queued,     \* the elements of timecbs
    ts, ins,    \* expiry and order of insertion of each timer
    nins,       \* insertions so far
    altered,    \* timecbs_altered
    my_ts, tp, ntp,   \* locals of timecb_check
    due,        \* history: timers this pass of timecb_check has to run
    selwait, deadline, nready,   \* select: wait computed, end, callbacks due
    woke,       \* history: when select last returned
    lazylist, next, \* list of lazycbs, and the time each is due next
    removed,    \* lazycb_removed
    my_timenow, lazy, \* locals of lazycb_check
    spent,      \* history: lazycbs this pass of lazycb_check has called, and
                \* the ones registered by the callbacks it called
    yieldnow, yieldnext   \* the lists yieldcbs_now and yieldcbs_next

clock  == <<tsnow, need, left>>
tree   == <<queued, ts, ins, nins, altered>>
tpass  == <<my_ts, tp, ntp, due>>
sel    == <<selwait, deadline, nready, woke>>
lazies == <<lazylist, next, removed>>
lpass  == <<my_timenow, lazy, spent>>
yields == <<yieldnow, yieldnext>>
vars   == <<now, clock, pc, booted, tree, tpass, sel, lazies, lpass, yields>>

-----------------------------------------------------------------------------
\* The cached clock.

\* sfs_get_tsnow (&ts, true): a forced read goes to the system clock.
ForcedRead ==
    /\ tsnow' = now
    /\ need' = FALSE
    /\ left' = FALSE

\* sfs_set_global_timestamp () and then sfs_get_tsnow (): the clock is read
\* only if some callback ran since the last read; the value is tsnow'.
BarrierRead ==
    IF left THEN ForcedRead
    ELSE /\ need' = TRUE
         /\ UNCHANGED <<tsnow, left>>

\* sfs_leave_sel_loop (), called before every callback.
LeaveSelLoop ==
    /\ left' = TRUE
    /\ UNCHANGED <<tsnow, need>>

FirstTimer == FirstIn(ts, ins, queued, Nil)
NextTimer(t) == NextIn(ts, ins, queued, t, Nil)

-----------------------------------------------------------------------------
\* The calls a callback (or main () before amain ()) may make.

CallbackPcs == {"main", "lazycb", "fdcb", "timecb", "yieldcb"}

\* timecb (ts, cb): a new element of the tree.
QueueTimer(t, expiry) ==
    /\ queued' = queued \cup {t}
    /\ ts' = [ts EXCEPT ![t] = expiry]
    /\ ins' = [ins EXCEPT ![t] = nins]
    /\ nins' = nins + 1

\* delaycb (sec, nsec, cb): a forced clock read unless the delay is zero.
\* The object of the running timer is deleted only after its callback.
Delaycb(t, d) ==
    /\ pc \in CallbackPcs
    /\ nins < MaxIns /\ now + d <= MaxTime
    /\ t \notin queued
    /\ pc = "timecb" => t # tp
    /\ IF d = 0
         THEN QueueTimer(t, 0) /\ UNCHANGED clock
         ELSE QueueTimer(t, now + d) /\ ForcedRead
    /\ UNCHANGED <<now, pc, booted, altered, tpass, sel, lazies, lpass, yields>>

\* Mutant: the removal does not tell timecb_check ().
TimecbRemoveSilent(t) ==
    /\ pc \in CallbackPcs
    /\ t \in queued
    /\ queued' = queued \ {t}
    /\ due' = due \ {t}
    /\ UNCHANGED <<now, clock, pc, booted, ts, ins, nins, altered, my_ts, tp,
                   ntp, sel, lazies, lpass, yields>>

\* timecb_remove (to): the caller passes a timer that has not fired.
TimecbRemove(t) ==
    /\ pc \in CallbackPcs
    /\ t \in queued
    /\ altered' = TRUE
    /\ queued' = queued \ {t}
    /\ due' = due \ {t}
    /\ UNCHANGED <<now, clock, pc, booted, ts, ins, nins, my_ts, tp, ntp, sel,
                   lazies, lpass, yields>>

\* lazycb (interval, cb): a forced clock read; the new one goes to the head.
Lazycb(l) ==
    /\ pc \in CallbackPcs
    /\ l \notin ToSet(lazylist)
    /\ ForcedRead
    /\ next' = [next EXCEPT ![l] = now + Interval]
    /\ lazylist' = <<l>> \o lazylist
    /\ spent' = IF pc = "lazycb" THEN spent \cup {l} ELSE spent
    /\ UNCHANGED <<now, pc, booted, tree, tpass, sel, removed, my_timenow, lazy,
                   yields>>

\* Mutant: the removal does not tell lazycb_check ().
LazycbRemoveSilent(i) ==
    /\ pc \in CallbackPcs
    /\ lazylist' = RemoveAt(lazylist, i)
    /\ UNCHANGED <<now, clock, pc, booted, tree, tpass, sel, next, removed,
                   lpass, yields>>

\* lazycb_remove (lazy), possibly of the one whose callback is running.
LazycbRemove(i) ==
    /\ pc \in CallbackPcs
    /\ removed' = TRUE
    /\ lazylist' = RemoveAt(lazylist, i)
    /\ UNCHANGED <<now, clock, pc, booted, tree, tpass, sel, next, lpass,
                   yields>>

\* Mutant: the new one goes to the list that is being run.
YieldcbSameList(y) ==
    /\ pc \in CallbackPcs
    /\ y \notin ToSet(yieldnow) \cup ToSet(yieldnext)
    /\ yieldnext' = Append(yieldnext, y)
    /\ UNCHANGED <<now, clock, pc, booted, tree, tpass, sel, lazies, lpass,
                   yieldnow>>

\* yieldcb (cb): appended to the list yieldcbs_now.
Yieldcb(y) ==
    /\ pc \in CallbackPcs
    /\ y \notin ToSet(yieldnow) \cup ToSet(yieldnext)
    /\ yieldnow' = Append(yieldnow, y)
    /\ UNCHANGED <<now, clock, pc, booted, tree, tpass, sel, lazies, lpass,
                   yieldnext>>

\* yieldcb_remove (y): y has not run and is in one of the two lists.
YieldcbRemove(y) ==
    /\ pc \in CallbackPcs
    /\ \/ /\ \E i \in DOMAIN yieldnow :
                /\ yieldnow[i] = y
                /\ yieldnow' = RemoveAt(yieldnow, i)
          /\ UNCHANGED yieldnext
       \/ /\ \E i \in DOMAIN yieldnext :
                /\ yieldnext[i] = y
                /\ yieldnext' = RemoveAt(yieldnext, i)
          /\ UNCHANGED yieldnow
    /\ UNCHANGED <<now, clock, pc, booted, tree, tpass, sel, lazies, lpass>>

\* Time passes while user code runs and while the process sleeps.
Tick ==
    /\ pc \in CallbackPcs \cup {"wait"}
    /\ now < MaxTime
    /\ now' = now + 1
    /\ UNCHANGED <<clock, pc, booted, tree, tpass, sel, lazies, lpass, yields>>

-----------------------------------------------------------------------------
\* amain () and _acheck ().

\* main () has set up its callbacks and calls amain ().
Amain ==
    /\ pc = "main"
    /\ pc' = "time"
    /\ UNCHANGED <<now, clock, booted, tree, tpass, sel, lazies, lpass, yields>>

\* Mutant: _acheck () does not call sfs_leave_sel_loop ().
AcheckStaysInLoop ==
    /\ pc = "acheck"
    /\ pc' = "lazy"
    /\ booted' = TRUE
    /\ my_timenow' = 0
    /\ removed' = FALSE
    /\ lazy' = IF lazylist = <<>> THEN Nil ELSE Head(lazylist)
    /\ UNCHANGED <<now, clock, tree, tpass, sel, lazylist, next, spent, yields>>

\* The top of _acheck (), and lazycb_check () up to its first iteration.
Acheck ==
    /\ pc = "acheck"
    /\ pc' = "lazy"
    /\ booted' = TRUE
    /\ LeaveSelLoop
    /\ my_timenow' = 0
    /\ removed' = FALSE
    /\ lazy' = IF lazylist = <<>> THEN Nil ELSE Head(lazylist)
    /\ UNCHANGED <<now, tree, tpass, sel, lazylist, next, spent, yields>>

\* lazylist->next (l): NULL after the last.
NextLazy(l) ==
    LET i == CHOOSE i \in DOMAIN lazylist : lazylist[i] = l
    IN  IF i = Len(lazylist) THEN Nil ELSE lazylist[i + 1]

\* lazycb_check () reads the clock in its first iteration only.
LazyClock ==
    /\ pc = "lazy"
    /\ lazy # Nil /\ my_timenow = 0
    /\ BarrierRead
    /\ my_timenow' = tsnow'
    /\ UNCHANGED <<now, pc, booted, tree, tpass, sel, lazies, lazy, spent, yields>>

\* An iteration that finds the callback not yet due.
LazySkip ==
    /\ pc = "lazy"
    /\ lazy # Nil /\ my_timenow # 0
    /\ my_timenow < next[lazy]
    /\ lazy' = NextLazy(lazy)
    /\ UNCHANGED <<now, clock, pc, booted, tree, tpass, sel, lazies,
                   my_timenow, spent, yields>>

\* Mutant: it is left to the end of the iteration to reschedule it, which a
\* restart never reaches.
RescheduleAfter == next

\* lazy->next of the one that is about to be called.
Reschedule == [next EXCEPT ![lazy] = my_timenow + Interval]

\* The test of an iteration that has the time.
LazyDue == lazy # Nil /\ my_timenow # 0 /\ my_timenow >= next[lazy]

\* An iteration that finds it due: it is rescheduled, then called.
LazyRun ==
    /\ pc = "lazy"
    /\ LazyDue
    /\ next' = Reschedule
    /\ spent' = spent \cup {lazy}
    /\ LeaveSelLoop
    /\ pc' = "lazycb"
    /\ UNCHANGED <<now, booted, tree, tpass, sel, lazylist, removed, my_timenow,
                   lazy, yields>>

\* The callback returns: a removal restarts the scan from the head.
LazyReturn ==
    /\ pc = "lazycb"
    /\ pc' = "lazy"
    /\ removed' = FALSE
    /\ lazy' = IF removed
                  THEN IF lazylist = <<>> THEN Nil ELSE Head(lazylist)
                  ELSE NextLazy(lazy)
    /\ UNCHANGED <<now, clock, booted, tree, tpass, sel, lazylist, next,
                   my_timenow, spent, yields>>

\* lazycb_check () is done; fdcb_check () calls select with the wait that
\* the last timecb_check () computed.
SelectCall ==
    /\ pc = "lazy"
    /\ lazy = Nil
    /\ pc' = "wait"
    /\ deadline' = now + selwait
    /\ spent' = {}
    /\ UNCHANGED <<now, clock, booted, tree, tpass, selwait, nready, woke,
                   lazies, my_timenow, lazy, yields>>

\* select returns: some descriptors (or caught signals) have callbacks to
\* run, or the wait is over.  The end of the modelled time also ends it.
SelectReturn(n) ==
    /\ pc = "wait"
    /\ n > 0 \/ now >= deadline \/ now = MaxTime
    /\ nready' = n
    /\ woke' = now
    /\ need' = TRUE
    /\ pc' = "fd"
    /\ UNCHANGED <<now, tsnow, left, booted, tree, tpass, selwait, deadline,
                   lazies, lpass, yields>>

\* fdcb_check () and sigcb_check () run a callback.
FdRun ==
    /\ pc = "fd"
    /\ nready > 0
    /\ LeaveSelLoop
    /\ nready' = nready - 1
    /\ pc' = "fdcb"
    /\ UNCHANGED <<now, booted, tree, tpass, selwait, deadline, woke, lazies,
                   lpass, yields>>

FdReturn ==
    /\ pc = "fdcb"
    /\ pc' = "fd"
    /\ UNCHANGED <<now, clock, booted, tree, tpass, sel, lazies, lpass, yields>>

FdDone ==
    /\ pc = "fd"
    /\ nready = 0
    /\ pc' = "time"
    /\ UNCHANGED <<now, clock, booted, tree, tpass, sel, lazies, lpass, yields>>

\* timecb_check () reads the clock once, if any timer is queued.
TimeStart ==
    /\ pc = "time"
    /\ IF queued = {}
         THEN /\ pc' = "selwait"
              /\ due' = {}
              /\ UNCHANGED <<clock, my_ts, tp>>
         ELSE /\ pc' = "timeloop"
              /\ BarrierRead
              /\ my_ts' = tsnow'
              /\ tp' = FirstTimer
              /\ due' = {t \in queued : ts[t] <= tsnow'}
    /\ UNCHANGED <<now, booted, tree, ntp, sel, lazies, lpass, yields>>

\* Mutant: a timer that expires exactly now is not yet due.
TimerDueStrict == tp # Nil /\ ts[tp] < my_ts

\* The loop condition of timecb_check ().
TimerDue == tp # Nil /\ ts[tp] <= my_ts

\* An iteration: the successor is saved, then tp leaves the tree and runs.
TimeRun ==
    /\ pc = "timeloop"
    /\ TimerDue
    /\ ntp' = NextTimer(tp)
    /\ queued' = queued \ {tp}
    /\ altered' = FALSE
    /\ due' = due \ {tp}
    /\ LeaveSelLoop
    /\ pc' = "timecb"
    /\ UNCHANGED <<now, booted, ts, ins, nins, my_ts, tp, sel, lazies,
                   lpass, yields>>

\* Mutant: a removal ends the pass.
TimeReturnStops ==
    /\ pc = "timecb"
    /\ tp' = IF altered THEN Nil ELSE ntp
    /\ pc' = "timeloop"
    /\ UNCHANGED <<now, clock, booted, tree, my_ts, ntp, due, sel, lazies,
                   lpass, yields>>

\* The callback returns: the saved successor is used unless a timer was
\* removed in the meantime.
TimeReturn ==
    /\ pc = "timecb"
    /\ tp' = IF altered THEN FirstTimer ELSE ntp
    /\ pc' = "timeloop"
    /\ UNCHANGED <<now, clock, booted, tree, my_ts, ntp, due, sel, lazies,
                   lpass, yields>>

TimeDone ==
    /\ pc = "timeloop"
    /\ ~TimerDue
    /\ pc' = "selwait"
    /\ UNCHANGED <<now, clock, booted, tree, tpass, sel, lazies, lpass, yields>>

\* The end of timecb_check (): how long the next select may wait.
Selwait ==
    /\ pc = "selwait"
    /\ pc' = IF booted THEN "yield" ELSE "acheck"
    /\ IF queued = {}
         THEN selwait' = Day /\ UNCHANGED clock
         ELSE IF ts[FirstTimer] = 0
         THEN selwait' = 0 /\ UNCHANGED clock
         ELSE /\ BarrierRead
              /\ selwait' = IF ts[FirstTimer] < tsnow' THEN 0
                            ELSE ts[FirstTimer] - tsnow'
    /\ UNCHANGED <<now, booted, tree, tpass, deadline, nready, woke, lazies,
                   lpass, yields>>

\* yieldcb_check () swaps the two lists and runs the one that was current.
YieldStart ==
    /\ pc = "yield"
    /\ yieldnow' = yieldnext
    /\ yieldnext' = yieldnow
    /\ need' = TRUE
    /\ pc' = "yieldloop"
    /\ UNCHANGED <<now, tsnow, left, booted, tree, tpass, sel, lazies, lpass>>

YieldRun ==
    /\ pc = "yieldloop"
    /\ yieldnext # <<>>
    /\ yieldnext' = Tail(yieldnext)
    /\ LeaveSelLoop
    /\ pc' = "yieldcb"
    /\ UNCHANGED <<now, booted, tree, tpass, sel, lazies, lpass, yieldnow>>

YieldReturn ==
    /\ pc = "yieldcb"
    /\ pc' = "yieldloop"
    /\ UNCHANGED <<now, clock, booted, tree, tpass, sel, lazies, lpass, yields>>

YieldDone ==
    /\ pc = "yieldloop"
    /\ yieldnext = <<>>
    /\ pc' = "acheck"
    /\ UNCHANGED <<now, clock, booted, tree, tpass, sel, lazies, lpass, yields>>

-----------------------------------------------------------------------------
Init ==
    /\ now = 1 /\ tsnow = 0 /\ need = TRUE /\ left = TRUE
    /\ pc = "main" /\ booted = FALSE
    /\ queued = {} /\ nins = 0 /\ altered = FALSE
    /\ ts = [t \in Timers |-> 0] /\ ins = [t \in Timers |-> 0]
    /\ my_ts = 0 /\ tp = Nil /\ ntp = Nil /\ due = {}
    /\ selwait = 0 /\ deadline = 0 /\ nready = 0 /\ woke = 0
    /\ lazylist = <<>> /\ next = [l \in Lazies |-> 0] /\ removed = FALSE
    /\ my_timenow = 0 /\ lazy = Nil /\ spent = {}
    /\ yieldnow = <<>> /\ yieldnext = <<>>

\* The calls made by user code.
UserCall ==
    \/ \E t \in Timers : \E d \in Delays : Delaycb(t, d)
    \/ \E t \in Timers : TimecbRemove(t)
    \/ \E l \in Lazies : Lazycb(l)
    \/ \E i \in DOMAIN lazylist : LazycbRemove(i)
    \/ \E y \in Yields : Yieldcb(y) \/ YieldcbRemove(y)

\* The steps of the loop itself.
LoopStep ==
    \/ Amain \/ Acheck
    \/ LazyClock \/ LazySkip \/ LazyRun \/ LazyReturn
    \/ SelectCall \/ (\E n \in 0..MaxReady : SelectReturn(n))
    \/ FdRun \/ FdReturn \/ FdDone
    \/ TimeStart \/ TimeRun \/ TimeReturn \/ TimeDone \/ Selwait
    \/ YieldStart \/ YieldRun \/ YieldReturn \/ YieldDone

Next == UserCall \/ LoopStep \/ Tick

Spec == Init /\ [][Next]_vars

\* Callbacks return, the loop goes on, and time passes: it does so even if
\* descriptors are ready each time the loop calls select.
Fairness == WF_vars(LoopStep) /\ SF_vars(Tick)
FairSpec == Spec /\ Fairness

-----------------------------------------------------------------------------
ClockOK ==
    now \in Nat /\ tsnow \in Nat /\ need \in BOOLEAN /\ left \in BOOLEAN
TimerOK ==
    /\ queued \subseteq Timers /\ due \subseteq Timers
    /\ ts \in [Timers -> Nat] /\ ins \in [Timers -> Nat] /\ nins \in Nat
    /\ altered \in BOOLEAN /\ my_ts \in Nat
    /\ tp \in Timers \cup {Nil} /\ ntp \in Timers \cup {Nil}
SelectOK ==
    /\ pc \in CallbackPcs \cup {"acheck", "lazy", "wait", "fd", "time",
                              "timeloop", "selwait", "yield", "yieldloop"}
    /\ booted \in BOOLEAN
    /\ selwait \in Nat /\ deadline \in Nat /\ nready \in Nat /\ woke \in Nat
LazyOK ==
    /\ lazylist \in Seq(Lazies) /\ next \in [Lazies -> Nat]
    /\ removed \in BOOLEAN
    /\ my_timenow \in Nat /\ lazy \in Lazies \cup {Nil} /\ spent \subseteq Lazies
YieldOK ==
    yieldnow \in Seq(Yields) /\ yieldnext \in Seq(Yields)

\* Every variable of the loop keeps its type.
TypeOK == ClockOK /\ TimerOK /\ SelectOK /\ LazyOK /\ YieldOK

\* timecb_check () never dereferences a timer that was deleted: the
\* successor it saved before the callback is still in the tree whenever
\* timecbs_altered says it may be used, and so is the timer the loop
\* examines next.
CursorLive ==
    /\ pc = "timecb" /\ ~altered => ntp \in queued \cup {Nil}
    /\ pc = "timeloop" => tp \in queued \cup {Nil}

\* A pass of timecb_check () skips no timer: each one that was queued and
\* expired when the pass began has run or been removed when the pass ends,
\* whatever the callbacks in between queued or removed.
PassComplete == pc = "selwait" => due \cap queued = {}

\* Timers with the same expiry run in the order in which they were queued.
FifoAmongEquals ==
    pc = "timeloop" /\ TimerDue =>
        \A t \in queued : ts[t] = ts[tp] => ins[tp] <= ins[t]

\* The cursor c is in the tree or NULL, no timer this pass still owes a run
\* lies before it, and it is the oldest of the timers with its expiry.
CursorAt(c) ==
    /\ c \in queued \cup {Nil}
    /\ \A t \in due : c # Nil /\ (t = c \/ Before(ts, ins, c, t))
    /\ c # Nil => \A t \in queued : ts[t] = ts[c] => ins[c] <= ins[t]

\* Why timecb_check () is right, as an inductive invariant: insertion order
\* is a total order on the tree, and the cursor (tp at the loop test, the
\* saved ntp during a callback that removed nothing) has skipped nothing.
TimerInv ==
    /\ \A t \in queued : ins[t] < nins
    /\ \A t, u \in queued : ins[t] = ins[u] => t = u
    /\ pc \in {"timeloop", "timecb"} =>
         due \subseteq queued /\ \A t \in due : ts[t] <= my_ts
    /\ pc = "timeloop" => CursorAt(tp)
    /\ pc = "timecb" /\ ~altered => CursorAt(ntp)
    /\ PassComplete

\* lazycb_check () never follows a deleted lazycb_t: when it goes on
\* without a restart, the element it stands on is still in the list.
LazyCursorLive ==
    /\ pc = "lazy" => lazy \in ToSet(lazylist) \cup {Nil}
    /\ pc = "lazycb" /\ ~removed => lazy \in ToSet(lazylist)

\* A pass of lazycb_check () ends, although every removal sends it back to
\* the head of the list: it calls no lazycb a second time and none that was
\* registered while it ran, also not one that takes the address of another,
\* so that a callback which removes and registers itself again does not keep
\* the loop from the next select.
LazyPassBounded == pc = "lazy" /\ LazyDue => lazy \notin spent

\* A pass of yieldcb_check () runs only what was registered before it: a
\* callback that yields again does not keep the loop from the next select.
YieldPassBounded ==
    [][(pc \in {"yieldloop", "yieldcb"}) =>
          ToSet(yieldnext') \subseteq ToSet(yieldnext)]_vars

\* fdcb_check () calls sfs_set_global_timestamp () when select returns; the
\* comment on that function promises that every later read of the clock is
\* at least as recent, so timecb_check () must not work with an older time.
BarrierHonoured == pc = "timeloop" => my_ts >= woke

\* Every queued timer eventually runs or is removed.
TimersServed == \A t \in Timers : t \in queued ~> t \notin queued
=============================================================================
