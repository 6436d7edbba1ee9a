---------------------------- MODULE CoreProofs -----------------------------
(***************************************************************************)
(* The loop of async/core.C.  What timecb_check () relies on, for every    *)
(* number of timers, lazy and yield callbacks and every value of the       *)
(* bounds.  No signal is lost and none is slept on, for any number of      *)
(* signals, any capacity of the pipe and any number of deliveries; and,    *)
(* with children, for any number of processes, no exit status is lost or   *)
(* misdirected.                                                            *)
(***************************************************************************)
EXTENDS EventLoop, Children, ListsProofs

-----------------------------------------------------------------------------
(***************************************************************************)
(* The ordered tree.                                                       *)
(***************************************************************************)

\* A nonempty set of queued timers has a leftmost one.
LEMMA LeftmostExists ==
    ASSUME NEW D, NEW f \in [D -> Nat], NEW g \in [D -> Nat],
           NEW S, S \subseteq D, S # {}
    PROVE  Leftmost(f, g, S) # {}
<1> DEFINE K == {f[t] : t \in S}
<1>1. PICK k \in K : \A y \in K : k <= y
  <2>1. K \subseteq Nat /\ K # {}
    OBVIOUS
  <2> HIDE DEF K
  <2> QED  BY <2>1, LeastNat
<1> DEFINE M == {t \in S : f[t] = k}
<1> DEFINE I == {g[t] : t \in M}
<1>2. PICK i \in I : \A y \in I : i <= y
  <2>1. M # {} /\ M \subseteq D
    BY <1>1
  <2>2. I \subseteq Nat /\ I # {}
    BY <2>1
  <2> HIDE DEF I
  <2> QED  BY <2>2, LeastNat
<1>3. PICK t \in M : g[t] = i
    BY <1>2
<1>4. \A u \in S : ~Before(f, g, u, t)
  <2> TAKE u \in S
  <2>1. f[u] \in Nat /\ g[u] \in Nat /\ f[t] = k /\ k \in Nat /\ i \in Nat
    BY <1>1, <1>2, <1>3
  <2>2. k <= f[u]
    BY <1>1
  <2>3. f[u] = k => i <= g[u]
    BY <1>2
  <2> QED  BY <1>3, <2>1, <2>2, <2>3 DEF Before
<1> QED  BY <1>3, <1>4 DEF Leftmost

\* first () returns an element of the set that nothing precedes.
LEMMA FirstInProp ==
    ASSUME NEW D, NEW f \in [D -> Nat], NEW g \in [D -> Nat],
           NEW S, S \subseteq D, NEW null
    PROVE  /\ S = {} => FirstIn(f, g, S, null) = null
           /\ S # {} => /\ FirstIn(f, g, S, null) \in S
                        /\ \A u \in S : ~Before(f, g, u, FirstIn(f, g, S, null))
BY LeftmostExists DEF FirstIn, Leftmost

\* next () returns NULL or an element of the set.
LEMMA NextInType ==
    ASSUME NEW D, NEW f \in [D -> Nat], NEW g \in [D -> Nat],
           NEW S, S \subseteq D, NEW t, NEW null
    PROVE  NextIn(f, g, S, t, null) \in S \cup {null}
BY FirstInProp DEF NextIn

\* Removing an element of a sequence leaves a sequence over the same set.
LEMMA RemoveAtType ==
    ASSUME NEW A, NEW s \in Seq(A), NEW i \in DOMAIN s
    PROVE  RemoveAt(s, i) \in Seq(A)
BY DEF RemoveAt

\* The successor of a member of the list is a member, or NULL at the end.
LEMMA NextLazyType ==
    ASSUME LazyOK, lazy \in ToSet(lazylist)
    PROVE  NextLazy(lazy) \in ToSet(lazylist) \cup {Nil}
<1> DEFINE i == CHOOSE j \in DOMAIN lazylist : lazylist[j] = lazy
<1>1. i \in DOMAIN lazylist
    BY DEF ToSet
<1>2. DOMAIN lazylist = 1..Len(lazylist) /\ Len(lazylist) \in Nat
    BY DEF LazyOK
<1>3. i # Len(lazylist) => i + 1 \in DOMAIN lazylist
    BY <1>1, <1>2
<1>4. NextLazy(lazy) = IF i = Len(lazylist) THEN Nil ELSE lazylist[i + 1]
    BY DEF NextLazy
<1> HIDE DEF i
<1> QED  BY <1>3, <1>4 DEF ToSet

\* The members of the list are lazy callbacks, its head is a member.
LEMMA LazyMembers ==
    ASSUME LazyOK
    PROVE  /\ ToSet(lazylist) \subseteq Lazies
           /\ lazylist # <<>> => Head(lazylist) \in ToSet(lazylist)
BY DEF ToSet, LazyOK

-----------------------------------------------------------------------------
(***************************************************************************)
(* Type correctness, one lemma per part of TypeOK.                         *)
(***************************************************************************)

\* Every step keeps the types of the clock.
LEMMA ClockStep == ClockOK /\ [Next]_vars => ClockOK'
<1> SUFFICES ASSUME ClockOK, [Next]_vars PROVE ClockOK'
    OBVIOUS
<1>1. \/ UNCHANGED <<now, tsnow, need, left>>
      \/ now' = now /\ (ForcedRead \/ BarrierRead \/ LeaveSelLoop)
      \/ now' = now + 1 /\ UNCHANGED <<tsnow, need, left>>
      \/ need' = TRUE /\ UNCHANGED <<now, tsnow, left>>
    BY DEF Next, UserCall, LoopStep, Delaycb, TimecbRemove, Lazycb, LazycbRemove,
       Yieldcb, YieldcbRemove, Tick, Amain, Acheck, LazyClock, LazySkip,
       LazyRun, LazyReturn, SelectCall, SelectReturn, FdRun, FdReturn, FdDone,
       TimeStart, TimeRun, TimeReturn, TimeDone, Selwait, YieldStart, YieldRun,
       YieldReturn, YieldDone, vars, clock
<1>2. now' \in Nat /\ tsnow' \in Nat
    BY <1>1 DEF ClockOK, ForcedRead, BarrierRead, LeaveSelLoop
<1>3. need' \in BOOLEAN /\ left' \in BOOLEAN
    BY <1>1, Zenon DEF ClockOK, ForcedRead, BarrierRead, LeaveSelLoop
<1> QED  BY <1>2, <1>3, Zenon DEF ClockOK

\* Every step keeps the two lists of yield callbacks.
LEMMA YieldStep == YieldOK /\ [Next]_vars => YieldOK'
<1> SUFFICES ASSUME YieldOK, [Next]_vars PROVE YieldOK'
    OBVIOUS
<1>1. CASE \E y \in Yields : Yieldcb(y)
    BY <1>1 DEF Yieldcb, YieldOK
<1>2. CASE \E y \in Yields : YieldcbRemove(y)
    BY <1>2, RemoveAtType DEF YieldcbRemove, YieldOK
<1>3. CASE YieldStart \/ YieldRun
    BY <1>3 DEF YieldStart, YieldRun, YieldOK
<1>4. CASE UNCHANGED yields
    BY <1>4 DEF yields, YieldOK
<1> QED
    BY <1>1, <1>2, <1>3, <1>4
    DEF Next, UserCall, LoopStep, Delaycb, TimecbRemove, Lazycb, LazycbRemove,
       Tick, Amain, Acheck, LazyClock, LazySkip,
       LazyRun, LazyReturn, SelectCall, SelectReturn, FdRun, FdReturn, FdDone,
       TimeStart, TimeRun, TimeReturn, TimeDone, Selwait,
       YieldReturn, YieldDone, vars

\* Every step keeps selwait and the other values around select.
LEMMA SelectStep ==
    ClockOK /\ TimerOK /\ SelectOK /\ [Next]_vars => SelectOK'
<1> SUFFICES ASSUME ClockOK, TimerOK, SelectOK, [Next]_vars PROVE SelectOK'
    OBVIOUS
<1> DEFINE Pcs == CallbackPcs \cup {"acheck", "lazy", "wait", "fd", "time",
                              "timeloop", "selwait", "yield", "yieldloop"}
<1>1. /\ pc' \in Pcs
      /\ booted' \in {booted, TRUE}
      /\ \/ UNCHANGED <<selwait, deadline, nready, woke>>
         \/ SelectCall \/ FdRun \/ Selwait
         \/ \E n \in 0..MaxReady : SelectReturn(n)
    BY DEF SelectOK, CallbackPcs, sel,
       Next, UserCall, LoopStep, Delaycb, TimecbRemove, Lazycb, LazycbRemove,
       Yieldcb, YieldcbRemove, Tick, Amain, Acheck, LazyClock, LazySkip,
       LazyRun, LazyReturn, SelectCall, SelectReturn, FdRun, FdReturn, FdDone,
       TimeStart, TimeRun, TimeReturn, TimeDone, Selwait, YieldStart, YieldRun,
       YieldReturn, YieldDone, vars
<1>2. booted' \in BOOLEAN
    BY <1>1, Zenon DEF SelectOK
<1>3. ASSUME Selwait PROVE selwait' \in Nat
  <2>1. queued # {} => ts[FirstTimer] \in Nat
    BY FirstInProp DEF FirstTimer, TimerOK
  <2>2. tsnow' \in Nat
    BY ClockStep DEF ClockOK
  <2> QED  BY <1>3, <2>1, <2>2, NumAssumption DEF Selwait
<1>4. selwait' \in Nat /\ deadline' \in Nat /\ nready' \in Nat /\ woke' \in Nat
    BY <1>1, <1>3 DEF SelectOK, ClockOK, SelectCall, FdRun, Selwait, SelectReturn
<1> QED  BY <1>1, <1>2, <1>4, Zenon DEF SelectOK

\* LazyCursorLive is proved with LazyOK: lazycb_check () computes its next
\* position from the current one.
LEMMA LazyStep ==
    /\ ClockOK /\ LazyOK /\ LazyCursorLive /\ [Next]_vars
    => LazyOK' /\ LazyCursorLive'
<1> SUFFICES ASSUME ClockOK, LazyOK, LazyCursorLive, [Next]_vars
             PROVE  LazyOK' /\ LazyCursorLive'
    OBVIOUS
<1> USE NumAssumption
<1>0. removed' \in {removed, TRUE, FALSE}
    BY DEF Next, UserCall, LoopStep, Delaycb, TimecbRemove, Lazycb, LazycbRemove,
       Yieldcb, YieldcbRemove, Tick, Amain, Acheck, LazyClock, LazySkip,
       LazyRun, LazyReturn, SelectCall, SelectReturn, FdRun, FdReturn, FdDone,
       TimeStart, TimeRun, TimeReturn, TimeDone, Selwait, YieldStart, YieldRun,
       YieldReturn, YieldDone, vars, lazies
<1>b. removed' \in BOOLEAN
    BY <1>0, Zenon DEF LazyOK
<1>1. CASE \E l \in Lazies : Lazycb(l)
  <2> PICK l \in Lazies : Lazycb(l)
    BY <1>1
  <2>1. ToSet(lazylist) \subseteq ToSet(lazylist')
    <3>1. ASSUME NEW i \in DOMAIN lazylist
          PROVE  i + 1 \in DOMAIN lazylist' /\ lazylist'[i + 1] = lazylist[i]
      BY DEF Lazycb, LazyOK
    <3> QED  BY <3>1 DEF ToSet
  <2>2. LazyOK'
    BY <1>b DEF Lazycb, LazyOK, ClockOK
  <2> QED  BY <2>1, <2>2 DEF Lazycb, LazyCursorLive
<1>2. CASE \E i \in DOMAIN lazylist : LazycbRemove(i)
  <2>1. LazyOK'
    BY <1>2, <1>b, RemoveAtType DEF LazycbRemove, LazyOK, lpass
  <2>2. pc' # "lazy" /\ removed'
    BY <1>2 DEF LazycbRemove, CallbackPcs
  <2> QED  BY <2>1, <2>2 DEF LazyCursorLive
<1>3. CASE Acheck
  <2>1. lazy' \in ToSet(lazylist) \cup {Nil}
    BY <1>3, LazyMembers DEF Acheck
  <2> QED  BY <1>3, <1>b, <2>1, LazyMembers DEF Acheck, LazyOK, LazyCursorLive
<1>4. CASE LazyClock
  <2>1. tsnow' \in Nat
    BY ClockStep DEF ClockOK
  <2> QED  BY <1>4, <1>b, <2>1 DEF LazyClock, LazyOK, LazyCursorLive, lazies
<1>5. CASE LazySkip
  <2>1. lazy \in ToSet(lazylist)
    BY <1>5 DEF LazySkip, LazyCursorLive
  <2>2. lazy' \in ToSet(lazylist) \cup {Nil}
    BY <1>5, <2>1, NextLazyType DEF LazySkip
  <2> QED  BY <1>5, <1>b, <2>2, LazyMembers DEF LazySkip, LazyOK, LazyCursorLive,
              lazies
<1>6. CASE LazyRun
    BY <1>6, <1>b DEF LazyRun, LazyDue, Reschedule, LazyOK, LazyCursorLive
<1>7. CASE LazyReturn
  <2>1. removed => lazy' \in ToSet(lazylist) \cup {Nil}
    BY <1>7, LazyMembers DEF LazyReturn
  <2>2. ~removed => lazy' = NextLazy(lazy) /\ lazy \in ToSet(lazylist)
    BY <1>7 DEF LazyReturn, LazyCursorLive
  <2>3. lazy' \in ToSet(lazylist) \cup {Nil}
    BY <2>1, <2>2, NextLazyType
  <2> QED  BY <1>7, <1>b, <2>3, LazyMembers DEF LazyReturn, LazyOK, LazyCursorLive
<1>8. CASE UNCHANGED <<lazies, lpass>> /\ (pc' = pc \/ pc' \notin {"lazy", "lazycb"})
    BY <1>8, <1>b DEF lazies, lpass, LazyOK, LazyCursorLive
<1>9. CASE SelectCall
    BY <1>9, <1>b DEF SelectCall, lazies, LazyOK, LazyCursorLive
<1> QED
    BY <1>1, <1>2, <1>3, <1>4, <1>5, <1>6, <1>7, <1>8, <1>9
    DEF Next, UserCall, LoopStep, Delaycb, TimecbRemove,
       Yieldcb, YieldcbRemove, Tick, Amain,
       SelectReturn, FdRun, FdReturn, FdDone,
       TimeStart, TimeRun, TimeReturn, TimeDone, Selwait, YieldStart, YieldRun,
       YieldReturn, YieldDone, vars

-----------------------------------------------------------------------------
(***************************************************************************)
(* The pass of timecb_check ().                                            *)
(***************************************************************************)

\* Every step of the loop, and every call of a user, keeps what a pass relies on.
LEMMA TimerStep ==
    TimerOK /\ ClockOK /\ TimerInv /\ [Next]_vars => TimerOK' /\ TimerInv'
<1> SUFFICES ASSUME TimerOK, ClockOK, TimerInv, [Next]_vars
             PROVE  TimerOK' /\ TimerInv'
    OBVIOUS
<1> USE NilAssumption, NumAssumption
<1>0. altered' \in {altered, TRUE, FALSE}
    BY DEF Next, UserCall, LoopStep, Delaycb, TimecbRemove, Lazycb, LazycbRemove,
       Yieldcb, YieldcbRemove, Tick, Amain, Acheck, LazyClock, LazySkip,
       LazyRun, LazyReturn, SelectCall, SelectReturn, FdRun, FdReturn, FdDone,
       TimeStart, TimeRun, TimeReturn, TimeDone, Selwait, YieldStart, YieldRun,
       YieldReturn, YieldDone, vars, tree
<1>b. altered' \in BOOLEAN
    BY <1>0, Zenon DEF TimerOK
<1>1. CASE \E t \in Timers : \E d \in Delays : Delaycb(t, d)
  <2> PICK t \in Timers, d \in Delays : Delaycb(t, d)
    BY <1>1
  <2>1. PICK e \in Nat : QueueTimer(t, e)
    <3>1. d \in Nat /\ now + d \in Nat /\ 0 \in Nat
      BY DEF ClockOK
    <3> QED  BY <3>1, Zenon DEF Delaycb
  <2>2. TimerOK'
    BY <1>b, <2>1 DEF Delaycb, QueueTimer, TimerOK, tpass
  <2>3. UNCHANGED <<pc, altered, my_ts, tp, ntp, due>> /\ pc # "selwait"
    BY DEF Delaycb, tpass, CallbackPcs
  <2>4. \A u \in queued : u # t /\ ts'[u] = ts[u] /\ ins'[u] = ins[u]
    BY <2>1 DEF Delaycb, QueueTimer, TimerOK
  <2>5. queued' = queued \cup {t} /\ ins'[t] = nins /\ nins' = nins + 1
    BY <2>1 DEF QueueTimer, TimerOK
  <2>6. ASSUME NEW c, CursorAt(c), due \subseteq queued
        PROVE  CursorAt(c)'
    <3>1. c \in queued' \cup {Nil}
      BY <2>5, <2>6 DEF CursorAt
    <3>2. \A u \in due : c # Nil /\ (u = c \/ Before(ts', ins', c, u))
      BY <2>4, <2>6 DEF CursorAt, Before
    <3>3. ASSUME c # Nil, NEW u \in queued', ts'[u] = ts'[c]
          PROVE  ins'[c] <= ins'[u]
      <4>1. c \in queued /\ ins[c] < nins /\ ins[c] \in Nat /\ nins \in Nat
        BY <2>6, <3>3 DEF CursorAt, TimerInv, TimerOK
      <4> QED  BY <2>4, <2>5, <2>6, <3>3, <4>1 DEF CursorAt
    <3> QED  BY <2>3, <3>1, <3>2, <3>3 DEF CursorAt
  <2>7. pc = "timecb" => due \subseteq queued /\ \A u \in due : ts[u] <= my_ts
    BY DEF TimerInv
  <2>8. \A u \in queued' : ins'[u] < nins'
    BY <2>4, <2>5 DEF TimerInv, TimerOK
  <2>9. \A u, v \in queued' : ins'[u] = ins'[v] => u = v
    BY <2>4, <2>5 DEF TimerInv, TimerOK
  <2>10. pc # "timeloop"
    BY DEF Delaycb, CallbackPcs
  <2>11. TimerInv'
    BY <2>3, <2>4, <2>5, <2>6, <2>7, <2>8, <2>9, <2>10 DEF TimerInv, PassComplete
  <2> QED  BY <2>2, <2>11
<1>2. CASE \E t \in Timers : TimecbRemove(t)
  <2> PICK t \in Timers : TimecbRemove(t)
    BY <1>2
  <2>1. TimerOK'
    BY <1>b DEF TimecbRemove, TimerOK
  <2>2. pc' \notin {"timeloop", "selwait"} /\ altered'
    BY DEF TimecbRemove, CallbackPcs
  <2> QED  BY <2>1, <2>2 DEF TimecbRemove, TimerInv, PassComplete, TimerOK
<1>3. CASE TimeStart
  <2>1. tsnow' \in Nat
    BY ClockStep DEF ClockOK
  <2>2. CASE queued = {}
    BY <1>3, <1>b, <2>2 DEF TimeStart, TimerInv, TimerOK, PassComplete, tree
  <2>3. CASE queued # {}
    <3>1. /\ FirstTimer \in queued
          /\ \A u \in queued : ~Before(ts, ins, u, FirstTimer)
      BY <2>3, FirstInProp DEF FirstTimer, TimerOK
    <3>2. TimerOK'
      BY <1>3, <1>b, <2>1, <2>3, <3>1 DEF TimeStart, TimerOK, tree
    <3>3. \A u \in queued : u = tp' \/ Before(ts, ins, tp', u)
      BY <1>3, <2>3, <3>1 DEF TimeStart, TimerInv, TimerOK, Before
    <3>4. \A u \in queued : ts[u] = ts[tp'] => ins[tp'] <= ins[u]
      BY <1>3, <2>3, <3>1 DEF TimeStart, TimerInv, TimerOK, Before
    <3>5. CursorAt(tp)'
      BY <1>3, <2>3, <3>1, <3>3, <3>4 DEF TimeStart, CursorAt, TimerOK, tree
    <3>6. TimerInv'
      BY <1>3, <2>3, <3>5 DEF TimeStart, TimerInv, PassComplete, tree
    <3> QED  BY <3>2, <3>6
  <2> QED  BY <2>2, <2>3
<1>4. CASE TimeRun
  <2> DEFINE R == {u \in queued : Before(ts, ins, tp, u)}
  <2>1. tp \in queued /\ CursorAt(tp) /\ tp # Nil
    BY <1>4 DEF TimeRun, TimerDue, TimerInv, CursorAt
  <2>2. /\ R = {} => ntp' = Nil
        /\ R # {} => ntp' \in R /\ \A u \in R : ~Before(ts, ins, u, ntp')
    <3>1. ntp' = FirstIn(ts, ins, R, Nil)
      BY <1>4, Zenon DEF TimeRun, NextTimer, NextIn
    <3>2. R \subseteq Timers /\ ts \in [Timers -> Nat] /\ ins \in [Timers -> Nat]
      BY DEF TimerOK
    <3> HIDE DEF R
    <3> QED  BY <3>1, <3>2, FirstInProp
  <2>3. ~Before(ts, ins, tp, tp)
    BY <2>1 DEF Before, TimerOK
  <2>4. TimerOK'
    BY <1>4, <1>b, <2>2 DEF TimeRun, TimerOK
  <2>5. \A u \in due' : u \in R /\ u # tp
    BY <1>4, <2>1 DEF TimeRun, CursorAt, TimerInv
  <2>6. ntp' \in queued' \cup {Nil}
    BY <1>4, <2>2, <2>3 DEF TimeRun
  <2>7. \A u \in due' : ntp' # Nil /\ (u = ntp' \/ Before(ts, ins, ntp', u))
    BY <2>2, <2>5 DEF Before, TimerInv, TimerOK
  <2>8. ASSUME ntp' # Nil, NEW u \in queued', ts[u] = ts[ntp']
        PROVE  ins[ntp'] <= ins[u]
    <3>1. ntp' \in R /\ u \in queued /\ u # tp
      BY <1>4, <2>2, <2>8 DEF TimeRun
    <3>2. CASE u \in R
      BY <2>2, <2>8, <3>1, <3>2 DEF Before, TimerOK
    <3>3. CASE u \notin R
      <4>1. Before(ts, ins, u, tp)
        BY <2>1, <3>1, <3>3 DEF Before, TimerInv, TimerOK
      <4>2. ts[u] = ts[tp]
        BY <2>1, <2>8, <3>1, <4>1 DEF Before, TimerOK
      <4> QED  BY <2>1, <3>1, <4>1, <4>2 DEF Before, CursorAt, TimerOK
    <3> QED  BY <3>2, <3>3
  <2>9. CursorAt(ntp)'
    BY <1>4, <2>6, <2>7, <2>8 DEF CursorAt, TimeRun
  <2>10. TimerInv'
    BY <1>4, <2>9 DEF TimeRun, TimerInv, PassComplete
  <2> QED  BY <2>4, <2>10
<1>5. CASE TimeReturn
  <2>1. due \subseteq queued /\ \A u \in due : ts[u] <= my_ts
    BY <1>5 DEF TimeReturn, TimerInv
  <2>2. CASE altered /\ queued # {}
    <3>1. /\ FirstTimer \in queued
          /\ \A u \in queued : ~Before(ts, ins, u, FirstTimer)
      BY <2>2, FirstInProp DEF FirstTimer, TimerOK
    <3>2. \A u \in queued : u = tp' \/ Before(ts, ins, tp', u)
      BY <1>5, <2>2, <3>1 DEF TimeReturn, TimerInv, TimerOK, Before
    <3>3. \A u \in queued : ts[u] = ts[tp'] => ins[tp'] <= ins[u]
      BY <1>5, <2>2, <3>1 DEF TimeReturn, TimerInv, TimerOK, Before
    <3>4. CursorAt(tp)'
      BY <1>5, <2>1, <2>2, <3>1, <3>2, <3>3 DEF TimeReturn, CursorAt, TimerOK,
         tree
    <3> QED  BY <1>5, <1>b, <2>1, <2>2, <3>1, <3>4 DEF TimeReturn, TimerOK,
                TimerInv, PassComplete, tree
  <2>3. CASE altered /\ queued = {}
    <3>1. FirstTimer = Nil
      BY <2>3, FirstInProp DEF FirstTimer, TimerOK
    <3>2. CursorAt(tp)'
      BY <1>5, <2>1, <2>3, <3>1 DEF TimeReturn, CursorAt, tree
    <3> QED  BY <1>5, <1>b, <2>1, <2>3, <3>1, <3>2 DEF TimeReturn, TimerOK,
                TimerInv, PassComplete, tree
  <2>4. CASE ~altered
    <3>1. CursorAt(ntp)
      BY <1>5, <2>4 DEF TimeReturn, TimerInv
    <3>2. CursorAt(tp)'
      BY <1>5, <2>4, <3>1 DEF TimeReturn, CursorAt, tree
    <3> QED  BY <1>5, <1>b, <2>1, <2>4, <3>2 DEF TimeReturn, TimerOK,
                TimerInv, PassComplete, tree
  <2> QED  BY <2>2, <2>3, <2>4
<1>6. CASE TimeDone
  <2>1. CursorAt(tp) /\ due \subseteq queued /\ \A u \in due : ts[u] <= my_ts
    BY <1>6 DEF TimeDone, TimerInv
  <2>2. ASSUME NEW u \in due PROVE FALSE
    <3>1. tp # Nil /\ tp \in queued /\ ts[tp] <= ts[u] /\ ts[u] <= my_ts
      BY <2>1 DEF CursorAt, Before, TimerOK
    <3> QED  BY <1>6, <3>1, <2>1 DEF TimeDone, TimerDue, TimerOK
  <2> QED  BY <1>6, <1>b, <2>2 DEF TimeDone, TimerOK, TimerInv, PassComplete, tree,
              tpass
<1>7. CASE UNCHANGED <<tree, tpass>>
           /\ (pc' = pc \/ pc' \notin {"timeloop", "timecb", "selwait"})
    BY <1>7, <1>b DEF tree, tpass, TimerOK, TimerInv, CursorAt, PassComplete
<1> QED
    BY <1>1, <1>2, <1>3, <1>4, <1>5, <1>6, <1>7
    DEF Next, UserCall, LoopStep, Lazycb, LazycbRemove,
       Yieldcb, YieldcbRemove, Tick, Amain, Acheck, LazyClock, LazySkip,
       LazyRun, LazyReturn, SelectCall, SelectReturn, FdRun, FdReturn, FdDone,
       Selwait, YieldStart, YieldRun, YieldReturn, YieldDone, vars

\* Everything the two scans rely on is invariant.
LEMMA Invariance == Spec => [](TypeOK /\ LazyCursorLive /\ TimerInv)
<1> DEFINE Inv == TypeOK /\ LazyCursorLive /\ TimerInv
<1>1. Init => Inv
  <2> SUFFICES ASSUME Init PROVE Inv
    OBVIOUS
  <2>1. need \in BOOLEAN /\ left \in BOOLEAN /\ booted \in BOOLEAN
        /\ altered \in BOOLEAN /\ removed \in BOOLEAN
    BY Zenon DEF Init
  <2>2. ClockOK /\ TimerOK
    BY <2>1 DEF Init, ClockOK, TimerOK
  <2>3. SelectOK /\ LazyOK /\ YieldOK
    BY <2>1 DEF Init, SelectOK, LazyOK, YieldOK, CallbackPcs
  <2>4. LazyCursorLive /\ TimerInv
    BY DEF Init, LazyCursorLive, TimerInv, PassComplete
  <2> QED  BY <2>2, <2>3, <2>4 DEF TypeOK
<1>2. Inv /\ [Next]_vars => Inv'
    BY ClockStep, SelectStep, TimerStep, LazyStep, YieldStep DEF TypeOK
<1> QED  BY <1>1, <1>2, PTL DEF Spec

\* The variables of the loop keep their types, in every behaviour of amain ().
THEOREM TypeCorrect == Spec => []TypeOK
BY Invariance, PTL

\* timecb_check () never dereferences a deleted timer, whatever its
\* callbacks queue and remove.
THEOREM CursorLiveHolds == Spec => []CursorLive
<1>1. TypeOK /\ TimerInv => CursorLive
    BY DEF TimerInv, CursorAt, CursorLive
<1> QED  BY <1>1, Invariance, PTL

\* A pass of timecb_check () runs every timer that was queued and expired
\* when it began and was not removed before its turn.
THEOREM PassCompleteHolds == Spec => []PassComplete
<1>1. TimerInv => PassComplete
    BY DEF TimerInv
<1> QED  BY <1>1, Invariance, PTL

\* Timers with equal expiry run in the order in which they were queued.
THEOREM FifoHolds == Spec => []FifoAmongEquals
<1>1. TypeOK /\ TimerInv => FifoAmongEquals
    BY DEF TimerInv, CursorAt, FifoAmongEquals, TimerDue
<1> QED  BY <1>1, Invariance, PTL

\* lazycb_check () never follows a lazycb_t that was deleted.
THEOREM LazyCursorLiveHolds == Spec => []LazyCursorLive
BY Invariance, PTL

-----------------------------------------------------------------------------
(***************************************************************************)
(* The clock, and the passes of lazy and yield callbacks.                  *)
(***************************************************************************)

\* Between the moment at which select returns and the pass of timecb_check ()
\* the clock has been read, or will be read, since.  Without lazy callbacks
\* nothing reads it between the top of _acheck () and select.
BarrierInv ==
    /\ woke <= now /\ pc # "lazycb"
    /\ pc = "main" => woke = 0
    /\ pc \in {"lazy", "wait"} => left
    /\ pc \in {"fd", "fdcb", "time"} => left \/ tsnow >= woke
    /\ pc \in {"timeloop", "timecb"} => my_ts >= woke

\* The time lazycb_check () works with is not ahead of the clock, and what its
\* pass has called, or its callbacks have registered, is due after it.
SpentInv ==
    /\ tsnow <= now /\ my_timenow <= now
    /\ pc = "lazycb" => my_timenow # 0
    /\ pc \notin {"lazy", "lazycb"} \/ my_timenow = 0 => spent = {}
    /\ \A l \in spent : my_timenow < next[l]

\* Nothing but a lazy callback reads the clock between the barrier and select.
LEMMA BarrierStep ==
    ASSUME Lazies = {}, TypeOK, BarrierInv, [Next]_vars
    PROVE  BarrierInv'
<1>1. now \in Nat /\ tsnow \in Nat /\ woke \in Nat /\ my_ts \in Nat /\ lazy = Nil
    BY DEF TypeOK, ClockOK, TimerOK, SelectOK, LazyOK
<1>2. /\ woke <= now /\ pc # "lazycb"
      /\ pc = "main" => woke = 0
      /\ pc \in {"lazy", "wait"} => left
      /\ pc \in {"fd", "fdcb", "time"} => left \/ tsnow >= woke
      /\ pc \in {"timeloop", "timecb"} => my_ts >= woke
    BY DEF BarrierInv
<1>3. ASSUME UNCHANGED <<now, clock, woke, my_ts>>,
             \/ pc' = pc \/ pc' \in {"acheck", "selwait", "yield", "yieldloop", "yieldcb"}
             \/ pc = "lazy" /\ pc' = "wait"
             \/ pc \in {"fd", "fdcb"} /\ pc' \in {"fd", "fdcb", "time"}
             \/ pc = "timecb" /\ pc' = "timeloop"
             \/ pc = "main" /\ pc' = "time"
      PROVE  BarrierInv'
    BY <1>1, <1>2, <1>3 DEF BarrierInv, clock
<1>4. CASE UNCHANGED vars
    BY <1>3, <1>4 DEF vars, sel, tpass
<1>5. ASSUME NEW t \in Timers, NEW d \in Delays, Delaycb(t, d) PROVE BarrierInv'
  <2>1. pc \in CallbackPcs /\ UNCHANGED <<now, pc, woke, my_ts>> /\ (UNCHANGED clock \/ ForcedRead)
    BY <1>5 DEF Delaycb, sel, tpass
  <2>2. CASE UNCHANGED clock
    BY <1>3, <2>1, <2>2
  <2>3. CASE ForcedRead
    BY <1>1, <1>2, <2>1, <2>3 DEF ForcedRead, BarrierInv, CallbackPcs
  <2> QED  BY <2>1, <2>2, <2>3
<1>6. ASSUME NEW t \in Timers, TimecbRemove(t) PROVE BarrierInv'
    BY <1>3, <1>6 DEF TimecbRemove, sel
<1>7. ASSUME NEW l \in Lazies PROVE FALSE
    BY <1>7
<1>8. ASSUME NEW i \in DOMAIN lazylist, LazycbRemove(i) PROVE BarrierInv'
    BY <1>3, <1>8 DEF LazycbRemove, sel, tpass
<1>9. ASSUME NEW y \in Yields, Yieldcb(y) \/ YieldcbRemove(y) PROVE BarrierInv'
    BY <1>3, <1>9 DEF Yieldcb, YieldcbRemove, sel, tpass
<1>10. ASSUME Tick PROVE BarrierInv'
  <2>1. now' = now + 1 /\ UNCHANGED <<tsnow, left, pc, woke, my_ts>>
    BY <1>10 DEF Tick, clock, sel, tpass
  <2> QED  BY <1>1, <1>2, <2>1 DEF BarrierInv
<1>11. ASSUME Amain \/ FdReturn \/ FdDone \/ TimeReturn \/ TimeDone \/ YieldReturn \/ YieldDone
              \/ SelectCall
       PROVE  BarrierInv'
    BY <1>3, <1>11 DEF Amain, FdReturn, FdDone, TimeReturn, TimeDone, YieldReturn, YieldDone,
                       SelectCall, sel, tpass
<1>12. ASSUME Acheck \/ FdRun \/ TimeRun \/ YieldRun PROVE BarrierInv'
  <2>1. /\ left' /\ UNCHANGED <<now, tsnow, woke, my_ts>>
        /\ pc = "timeloop" \/ pc' \notin {"timeloop", "timecb"}
        /\ pc' # "main" /\ pc' # "lazycb"
    BY <1>12 DEF Acheck, FdRun, TimeRun, YieldRun, LeaveSelLoop, sel, tpass
  <2> QED  BY <1>1, <1>2, <2>1 DEF BarrierInv
<1>13. ASSUME LazyClock \/ LazySkip \/ LazyRun \/ LazyReturn PROVE FALSE
    BY <1>1, <1>2, <1>13 DEF LazyClock, LazySkip, LazyRun, LazyDue, LazyReturn
<1>14. ASSUME NEW n \in 0..MaxReady, SelectReturn(n) PROVE BarrierInv'
  <2>1. left' = left /\ left /\ woke' = now /\ now' = now /\ pc' = "fd"
    BY <1>2, <1>14 DEF SelectReturn
  <2> QED  BY <1>1, <2>1 DEF BarrierInv
<1>15. ASSUME TimeStart PROVE BarrierInv'
  <2>1. CASE queued = {}
    <3>1. pc' = "selwait" /\ UNCHANGED <<now, woke>>
        BY <1>15, <2>1 DEF TimeStart, sel
    <3> QED  BY <1>1, <1>2, <3>1 DEF BarrierInv
  <2>2. CASE queued # {}
    <3>1. pc = "time" /\ pc' = "timeloop" /\ my_ts' = tsnow' /\ UNCHANGED <<now, woke>> /\ BarrierRead
        BY <1>15, <2>2 DEF TimeStart, sel
    <3>2. tsnow' = now \/ (~left /\ tsnow' = tsnow)
        BY <3>1 DEF BarrierRead, ForcedRead
    <3>3. tsnow' >= woke
        BY <1>1, <1>2, <3>1, <3>2
    <3> QED  BY <1>1, <1>2, <3>1, <3>3 DEF BarrierInv
  <2> QED  BY <2>1, <2>2
<1>16. ASSUME Selwait \/ YieldStart PROVE BarrierInv'
  <2>1. pc' \in {"yield", "acheck", "yieldloop"} /\ UNCHANGED <<now, woke>>
    BY <1>16 DEF Selwait, YieldStart, sel
  <2> QED  BY <1>1, <1>2, <2>1 DEF BarrierInv
<1> QED
    BY <1>4, <1>5, <1>6, <1>7, <1>8, <1>9, <1>10, <1>11, <1>12, <1>13, <1>14, <1>15, <1>16
       DEF Next, UserCall, LoopStep

\* A lazycb that was called, or registered by a callback, is not due again in
\* the same pass, since lazycb_check () reads the clock once.
LEMMA SpentStep ==
    ASSUME TypeOK, SpentInv, [Next]_vars
    PROVE  SpentInv'
<1>1. /\ now \in Nat /\ tsnow \in Nat /\ my_timenow \in Nat
      /\ next \in [Lazies -> Nat] /\ spent \subseteq Lazies
      /\ Interval \in Nat /\ Interval > 0
    BY NumAssumption DEF TypeOK, ClockOK, LazyOK
<1>2. tsnow' <= now' /\ now <= now'
  <2>1. tsnow' = tsnow \/ (tsnow' = now /\ now' = now)
    BY Zenon DEF Next, UserCall, LoopStep, Delaycb, TimecbRemove, Lazycb, LazycbRemove,
       Yieldcb, YieldcbRemove, Tick, Amain, Acheck, LazyClock, LazySkip,
       LazyRun, LazyReturn, SelectCall, SelectReturn, FdRun, FdReturn, FdDone,
       TimeStart, TimeRun, TimeReturn, TimeDone, Selwait, YieldStart, YieldRun,
       YieldReturn, YieldDone, ForcedRead, BarrierRead, LeaveSelLoop, clock, vars
  <2>2. now' = now \/ now' = now + 1
    BY Zenon DEF Next, UserCall, LoopStep, Delaycb, TimecbRemove, Lazycb, LazycbRemove,
       Yieldcb, YieldcbRemove, Tick, Amain, Acheck, LazyClock, LazySkip,
       LazyRun, LazyReturn, SelectCall, SelectReturn, FdRun, FdReturn, FdDone,
       TimeStart, TimeRun, TimeReturn, TimeDone, Selwait, YieldStart, YieldRun,
       YieldReturn, YieldDone, vars
  <2> QED  BY <1>1, <2>1, <2>2 DEF SpentInv
<1>3. now' \in Nat
    BY ClockStep DEF TypeOK, ClockOK
<1> USE DEF SpentInv
<1>4. ASSUME NEW l \in Lazies, Lazycb(l) PROVE SpentInv'
  <2>1. /\ pc' = pc /\ now' = now /\ my_timenow' = my_timenow
        /\ next' = [next EXCEPT ![l] = now + Interval]
        /\ spent' = IF pc = "lazycb" THEN spent \cup {l} ELSE spent
    BY <1>4 DEF Lazycb
  <2> QED  BY <1>1, <1>2, <2>1
<1>5. ASSUME Acheck PROVE SpentInv'
    BY <1>1, <1>2, <1>3, <1>5 DEF Acheck
<1>6. ASSUME LazyClock PROVE SpentInv'
    BY <1>1, <1>2, <1>3, <1>6 DEF LazyClock
<1>7. ASSUME LazySkip \/ LazyReturn PROVE SpentInv'
    BY <1>1, <1>2, <1>3, <1>7 DEF LazySkip, LazyReturn, lazies
<1>8. ASSUME LazyRun PROVE SpentInv'
  <2>1. lazy \in Lazies
    BY <1>8 DEF LazyRun, LazyDue, TypeOK, LazyOK
  <2> QED  BY <1>1, <1>2, <1>3, <1>8, <2>1 DEF LazyRun, LazyDue, Reschedule
<1>9. ASSUME SelectCall PROVE SpentInv'
    BY <1>1, <1>2, <1>3, <1>9 DEF SelectCall
<1>10. ASSUME UNCHANGED <<my_timenow, spent, next>>,
              pc' = pc \/ (pc \notin {"lazy", "lazycb"} /\ pc' # "lazycb")
       PROVE  SpentInv'
    BY <1>1, <1>2, <1>3, <1>10
<1>11. ASSUME NEW i \in DOMAIN lazylist, LazycbRemove(i) PROVE SpentInv'
    BY <1>10, <1>11 DEF LazycbRemove, lpass
<1> HIDE DEF SpentInv
<1> QED
    BY <1>4, <1>5, <1>6, <1>7, <1>8, <1>9, <1>10, <1>11
    DEF Next, UserCall, LoopStep, Delaycb, TimecbRemove, CallbackPcs,
       Yieldcb, YieldcbRemove, Tick, Amain,
       SelectReturn, FdRun, FdReturn, FdDone,
       TimeStart, TimeRun, TimeReturn, TimeDone, Selwait, YieldStart, YieldRun,
       YieldReturn, YieldDone, vars, lazies, lpass

\* BarrierHonoured, in programs without lazy callbacks: timecb_check () works
\* with a time no older than the return of select, although the clock is read
\* only when a callback ran since the last read (sfs_get_tsnow ()).
THEOREM BarrierHonouredHolds ==
    ASSUME Lazies = {}
    PROVE  Spec => []BarrierHonoured
<1>1. Init => BarrierInv
    BY DEF Init, BarrierInv
<1>2. TypeOK /\ BarrierInv /\ [Next]_vars => BarrierInv'
    BY BarrierStep
<1>3. BarrierInv => BarrierHonoured
    BY DEF BarrierInv, BarrierHonoured
<1> QED  BY <1>1, <1>2, <1>3, TypeCorrect, PTL DEF Spec

\* A pass of lazycb_check () calls no lazycb twice and none that its own
\* callbacks registered, however often a removal sends it back to the head.
THEOREM LazyPassBoundedHolds == Spec => []LazyPassBounded
<1>1. Init => SpentInv
    BY DEF Init, SpentInv
<1>2. TypeOK /\ SpentInv /\ [Next]_vars => SpentInv'
    BY SpentStep
<1>3. TypeOK /\ SpentInv => LazyPassBounded
    BY DEF SpentInv, LazyPassBounded, LazyDue, TypeOK, LazyOK
<1> QED  BY <1>1, <1>2, <1>3, TypeCorrect, PTL DEF Spec

\* What is taken out of a list was in it.
LEMMA RemoveAtMembers ==
    ASSUME NEW A, NEW s \in Seq(A), NEW i \in DOMAIN s
    PROVE  ToSet(RemoveAt(s, i)) \subseteq ToSet(s)
<1> DEFINE a == SubSeq(s, 1, i - 1)
           b == SubSeq(s, i + 1, Len(s))
<1>1. Len(s) \in Nat /\ i \in 1..Len(s) /\ DOMAIN s = 1..Len(s)
    OBVIOUS
<1>2. a \in Seq(A) /\ Len(a) = i - 1 /\ \A k \in 1..(i - 1) : a[k] = s[k]
    BY <1>1
<1>3. b \in Seq(A) /\ Len(b) = Len(s) - i /\ \A k \in 1..(Len(s) - i) : b[k] = s[i + k]
    BY <1>1
<1>4. RemoveAt(s, i) = a \o b
    BY DEF RemoveAt
<1> HIDE DEF a, b
<1>5. /\ DOMAIN (a \o b) = 1..(Len(a) + Len(b))
      /\ \A k \in 1..(Len(a) + Len(b)) : (a \o b)[k] = IF k <= Len(a) THEN a[k] ELSE b[k - Len(a)]
  <2>1. a \in Seq(A) /\ b \in Seq(A)
    BY <1>2, <1>3
  <2> QED  BY <2>1
<1>6. ASSUME NEW k \in 1..(Len(a) + Len(b)) PROVE \E j \in 1..Len(s) : (a \o b)[k] = s[j]
  <2>1. CASE k <= Len(a)
    <3>1. k \in 1..(i - 1) /\ k \in 1..Len(s) /\ (a \o b)[k] = a[k]
        BY <1>1, <1>2, <1>3, <1>5, <2>1
    <3> QED  BY <1>2, <3>1
  <2>2. CASE ~(k <= Len(a))
    <3> DEFINE m == k - Len(a)
    <3>1. m \in 1..(Len(s) - i) /\ i + m \in 1..Len(s)
        BY <1>1, <1>2, <1>3, <2>2
    <3>2. (a \o b)[k] = b[m]
        BY <1>5, <2>2
    <3> QED  BY <1>3, <3>1, <3>2
  <2> QED  BY <2>1, <2>2
<1>7. ASSUME NEW x \in ToSet(a \o b) PROVE x \in ToSet(s)
  <2>1. PICK k \in 1..(Len(a) + Len(b)) : (a \o b)[k] = x
    BY <1>5 DEF ToSet
  <2>2. PICK j \in 1..Len(s) : (a \o b)[k] = s[j]
    BY <1>6
  <2> QED  BY <1>1, <2>1, <2>2 DEF ToSet
<1> QED  BY <1>4, <1>7

\* YieldPassBounded: a callback that yields again waits for the next pass of
\* yieldcb_check (), and removals only shorten this one.
THEOREM YieldPassBoundedHolds == Spec => YieldPassBounded
<1>1. ASSUME TypeOK, [Next]_vars, pc \in {"yieldloop", "yieldcb"}
      PROVE  ToSet(yieldnext') \subseteq ToSet(yieldnext)
  <2>1. yieldnext \in Seq(Yields)
    BY <1>1 DEF TypeOK, YieldOK
  <2>2. ASSUME NEW i \in DOMAIN yieldnext, yieldnext' = RemoveAt(yieldnext, i)
        PROVE  ToSet(yieldnext') \subseteq ToSet(yieldnext)
    BY <2>1, <2>2, RemoveAtMembers
  <2>3. ASSUME yieldnext # <<>>, yieldnext' = Tail(yieldnext)
        PROVE  ToSet(yieldnext') \subseteq ToSet(yieldnext)
    <3>1. \A k \in 1..Len(yieldnext') : k + 1 \in 1..Len(yieldnext) /\ yieldnext'[k] = yieldnext[k + 1]
        BY <2>1, <2>3
    <3>2. DOMAIN yieldnext = 1..Len(yieldnext) /\ DOMAIN yieldnext' = 1..Len(yieldnext')
        BY <2>1, <2>3
    <3> QED  BY <3>1, <3>2 DEF ToSet
  <2>4. ASSUME NEW y \in Yields, YieldcbRemove(y)
        PROVE  \/ yieldnext' = yieldnext
               \/ \E i \in DOMAIN yieldnext : yieldnext' = RemoveAt(yieldnext, i)
    BY <2>4 DEF YieldcbRemove
  <2>5. \/ yieldnext' = yieldnext
        \/ \E i \in DOMAIN yieldnext : yieldnext' = RemoveAt(yieldnext, i)
        \/ yieldnext # <<>> /\ yieldnext' = Tail(yieldnext)
    BY <1>1, <2>4
    DEF Next, UserCall, LoopStep, Delaycb, TimecbRemove, Lazycb, LazycbRemove,
       Yieldcb, Tick, Amain, Acheck, LazyClock, LazySkip,
       LazyRun, LazyReturn, SelectCall, SelectReturn, FdRun, FdReturn, FdDone,
       TimeStart, TimeRun, TimeReturn, TimeDone, Selwait, YieldStart, YieldRun,
       YieldReturn, YieldDone, vars, yields
  <2> QED  BY <2>2, <2>3, <2>5
<1>2. TypeOK /\ [Next]_vars =>
        [(pc \in {"yieldloop", "yieldcb"}) => ToSet(yieldnext') \subseteq ToSet(yieldnext)]_vars
    BY <1>1
<1> QED  BY <1>2, TypeCorrect, PTL DEF Spec, YieldPassBounded

-----------------------------------------------------------------------------
(***************************************************************************)
(* Signals.                                                                *)
(***************************************************************************)

\* The counters and sets of the model keep their types.
NumOK ==
    /\ sigcaught \subseteq Sigs /\ handler \subseteq Sigs
    /\ pipe \in 0..PipeCap /\ sigpc \in SigPcs
    /\ sig \in 1..(NSig + 1) /\ ncatch \in 0..MaxCatch
    /\ sigpc \in {"ack", "run"} => sig \in Sigs

\* The flags are Boolean.
FlagOK ==
    /\ sigdocheck \in BOOLEAN /\ selzero \in BOOLEAN /\ second \in BOOLEAN
    /\ arg \in BOOLEAN /\ ready \in BOOLEAN

SigIInv == NumOK /\ NoLostSignal /\ WakeInv

\* Every step keeps the flags Boolean.
LEMMA FlagStep == FlagOK /\ [SigNext]_sigVars => FlagOK'
<1> SUFFICES ASSUME FlagOK, [SigNext]_sigVars PROVE FlagOK'
    OBVIOUS
<1>1. (pipe > 0) \in BOOLEAN
    BY SMT
<1> QED
    BY <1>1, Zenon DEF FlagOK, SigNext, MainStep, Sigcatch, Deliver, Sigcb, SelectEnter,
       SelectReady, SelectOther, SelectEintr, CheckTest, Drain, Clear,
       ScanTest, Ack, RunReturn, FdCallbacks, Checkbit, SelwaitZero,
       SelwaitTest, SelwaitSet, sigVars

\* Every step preserves the invariant, the handler's included.
LEMMA SigIInvStep == SigIInv /\ [SigNext]_sigVars => SigIInv'
<1> SUFFICES ASSUME SigIInv, [SigNext]_sigVars PROVE SigIInv'
    OBVIOUS
<1> USE SigAssumption DEF SigIInv, NumOK, NoLostSignal, WakeInv, Sigs, SigPcs
<1>1. CASE \E s \in Sigs : Sigcatch(s)
    BY <1>1 DEF Sigcatch, Deliver, PipeWrite
<1>2. CASE \E s \in Sigs : Sigcb(s)
    BY <1>2 DEF Sigcb
<1>3. CASE SelectEnter
    BY <1>3 DEF SelectEnter
<1>4. CASE SelectReady \/ SelectOther \/ SelectEintr
  <2>1. sigpc = "select" /\ sigpc' = "check"
        /\ UNCHANGED <<sigdocheck, sigcaught, handler, pipe, sig, ncatch>>
    BY <1>4, Zenon DEF SelectReady, SelectOther, SelectEintr
  <2> QED  BY <2>1
<1>5. CASE CheckTest
    BY <1>5 DEF CheckTest, AfterCheck
<1>6. CASE Drain
    BY <1>6 DEF Drain
<1>7. CASE Clear
    BY <1>7 DEF Clear, FirstSig
<1>8. CASE ScanTest
    BY <1>8 DEF ScanTest, AfterCheck
<1>9. CASE Ack
    BY <1>9 DEF Ack, Acked
<1>13. CASE RunReturn
    BY <1>13 DEF RunReturn
<1>10. CASE FdCallbacks
    BY <1>10 DEF FdCallbacks, Checkbit
<1>11. CASE SelwaitZero
    BY <1>11 DEF SelwaitZero
<1>14. CASE SelwaitTest
    BY <1>14 DEF SelwaitTest
<1>15. CASE SelwaitSet
    BY <1>15 DEF SelwaitSet
<1>12. CASE UNCHANGED sigVars
    BY <1>12 DEF sigVars
<1> QED
    BY <1>1, <1>2, <1>3, <1>4, <1>5, <1>6, <1>7, <1>8, <1>9, <1>10, <1>11, <1>12,
       <1>13, <1>14, <1>15
    DEF SigNext, MainStep

\* The invariant of the loop and its handler.
LEMMA SigInvariance == SigSpec => [](FlagOK /\ SigIInv)
<1>1. SigInit => FlagOK
    BY Zenon DEF SigInit, FlagOK
<1>2. SigInit => SigIInv
    BY SigAssumption DEF SigInit, SigIInv, NumOK, NoLostSignal, WakeInv, Sigs, SigPcs
<1> QED  BY <1>1, <1>2, FlagStep, SigIInvStep, PTL DEF SigSpec

\* The variables shared with the handler, and the loop's own, keep their types.
THEOREM SigTypeCorrect == SigSpec => []SigTypeOK
<1>1. FlagOK /\ SigIInv => SigTypeOK
    BY Zenon DEF FlagOK, SigIInv, NumOK, SigTypeOK
<1> QED  BY <1>1, SigInvariance, PTL

\* sigcb_check () never forgets a signal that sigcatch () recorded.
THEOREM NoLostSignalHolds == SigSpec => []NoLostSignal
<1>1. SigIInv => NoLostSignal
    BY DEF SigIInv
<1> QED  BY <1>1, SigInvariance, PTL

\* select never sleeps on a recorded signal, however sigcatch () races with
\* the computation of selwait and with the call of select.
THEOREM NoSleepHolds == SigSpec => []NoSleepOnSignal
<1>1. SigIInv => NoSleepOnSignal
    BY DEF SigIInv, NoLostSignal, WakeInv, NoSleepOnSignal
<1> QED  BY <1>1, SigInvariance, PTL

-----------------------------------------------------------------------------
(***************************************************************************)
(* Child processes.  Their steps are steps of the signal loop, stutters of *)
(* it, or the SIGCHLD of an exit, which is not bounded by ncatch.          *)
(***************************************************************************)

\* What the loop sees of a step with children.
LEMMA ChildStepIsSignalStep ==
    ChildNext => [SigNext]_sigVars \/ (Deliver(SIGCHLD) /\ UNCHANGED ncatch)
<1> SUFFICES ASSUME ChildNext
             PROVE  [SigNext]_sigVars \/ (Deliver(SIGCHLD) /\ UNCHANGED ncatch)
    OBVIOUS
<1>1. CASE ChildLoopStep
    BY <1>1 DEF ChildLoopStep, SigNext
<1>2. CASE ReapStep
    BY <1>2, Zenon DEF ReapStep, Waitpid
<1>3. CASE ProgramStep
  <2>1. (\E s \in Sigs : Sigcb(s)) \/ UNCHANGED sigVars
    BY <1>3, Zenon DEF ProgramStep, Spawn, SpawnLate, SpawnUnregistered, Afork, Register,
       ChldcbNull
  <2> QED  BY <2>1, Zenon DEF SigNext
<1>4. CASE SystemStep
    BY <1>4, Zenon DEF SystemStep, Exit, SigNext
<1> QED  BY <1>1, <1>2, <1>3, <1>4 DEF ChildNext

\* The SIGCHLD of an exit preserves the invariant.
LEMMA DeliverStep ==
    ASSUME FlagOK, SigIInv, Deliver(SIGCHLD), UNCHANGED ncatch
    PROVE  FlagOK' /\ SigIInv'
<1>1. FlagOK'
    BY Zenon DEF FlagOK, Deliver
<1>2. SigIInv'
    BY SigAssumption
    DEF Deliver, PipeWrite, SIGCHLD, SigIInv, NumOK, NoLostSignal, WakeInv, Sigs, SigPcs
<1> QED  BY <1>1, <1>2

\* The tables of children keep their types.
TableOK ==
    /\ kernel \in [Pids -> {"free", "running", "exited"}]
    /\ gen \in [Pids -> Nat] /\ late \in [Pids -> SUBSET (Nat \ {0})]
    /\ chldcbs \in [Pids -> Nat] /\ zombies \in [Pids -> Nat]
    /\ collect \in BOOLEAN
    /\ \A t \in got : t[1] \in Pids /\ t[3] \in Nat \ {0}

\* A status that has reached a callback is no longer in zombies, nor is it
\* that of a child the system still knows.
GoneInv ==
    \A t \in got :
        /\ t[3] <= gen[t[1]]
        /\ kernel[t[1]] # "free" => t[3] < gen[t[1]]
        /\ zombies[t[1]] # t[3]

\* A status in zombies is of an earlier child, or of the latest if that one
\* is gone.  Unless the number was used again too early it is the latest, and
\* a chldcb that is still to come is the only one.  Without g_zombie_collect
\* no status is kept and no chldcb comes late.
TableInv ==
    /\ \A p \in Pids :
        /\ zombies[p] <= gen[p]
        /\ kernel[p] # "free" => zombies[p] < gen[p]
        /\ ~collect => zombies[p] = 0 /\ late[p] = {}
    /\ \A p \in Pids \ mixed :
        /\ zombies[p] # 0 => kernel[p] = "free" /\ zombies[p] = gen[p]
        /\ late[p] # {} => chldcbs[p] = 0

ChildInv == TableOK /\ GoneInv /\ TableInv /\ StatusExact

\* Every step keeps the tables of children exact.
LEMMA ChildStep == ChildInv /\ [ChildNext]_allVars => ChildInv'
<1> SUFFICES ASSUME ChildInv, [ChildNext]_allVars PROVE ChildInv'
    OBVIOUS
<1>0. TableOK /\ GoneInv /\ TableInv /\ StatusExact
    BY DEF ChildInv
<1>1. CASE UNCHANGED childVars
  <2>1. TableOK'
    BY <1>0, <1>1 DEF TableOK, childVars
  <2>2. GoneInv'
    BY <1>0, <1>1 DEF TableOK, GoneInv, TableInv, childVars
  <2>3. TableInv'
    BY <1>0, <1>1 DEF TableOK, TableInv, StatusExact, childVars
  <2>4. StatusExact'
    BY <1>0, <1>1 DEF TableOK, GoneInv, TableInv, StatusExact, childVars
  <2> QED  BY <2>1, <2>2, <2>3, <2>4 DEF ChildInv
<1>2. ASSUME NEW p \in Pids, Waitpid(p) PROVE ChildInv'
  <2>1. TableOK'
    BY <1>0, <1>2 DEF TableOK, TableInv, Waitpid, Collect
  <2>2. GoneInv'
    BY <1>0, <1>2 DEF TableOK, GoneInv, TableInv, Waitpid, Collect
  <2>3. TableInv'
    BY <1>0, <1>2 DEF TableOK, TableInv, StatusExact, Waitpid, Collect
  <2>4. StatusExact'
    <3>1. CASE chldcbs[p] # 0
      <4>1. \A t \in got : t[1] = p => t[3] # gen[p]
        BY <1>0, <1>2 DEF TableOK, GoneInv, Waitpid
      <4> QED  BY <1>0, <1>2, <3>1, <4>1 DEF TableOK, TableInv, StatusExact, Waitpid
    <3>2. CASE chldcbs[p] = 0
        BY <1>0, <1>2, <3>2 DEF TableOK, TableInv, StatusExact, Waitpid, Collect
    <3> QED  BY <3>1, <3>2
  <2> QED  BY <2>1, <2>2, <2>3, <2>4 DEF ChildInv
<1>3. ASSUME NEW p \in Pids, Spawn(p) PROVE ChildInv'
  <2>1. TableOK'
    BY <1>0, <1>3 DEF TableOK, Spawn, Afork, Chldcb, TakeZombie
  <2>2. GoneInv'
    BY <1>0, <1>3 DEF TableOK, GoneInv, TableInv, Spawn, Afork, Chldcb, TakeZombie
  <2>3. TableInv'
    BY <1>0, <1>3 DEF TableOK, TableInv, StatusExact, Spawn, Afork, Chldcb, TakeZombie
  <2>4. StatusExact'
    BY <1>0, <1>3 DEF TableOK, GoneInv, TableInv, StatusExact, Spawn, Afork, Chldcb, TakeZombie
  <2> QED  BY <2>1, <2>2, <2>3, <2>4 DEF ChildInv
<1>4. ASSUME NEW p \in Pids, SpawnLate(p) PROVE ChildInv'
  <2>1. TableOK'
    BY <1>0, <1>4 DEF TableOK, SpawnLate, Afork
  <2>2. GoneInv'
    BY <1>0, <1>4 DEF TableOK, GoneInv, TableInv, SpawnLate, Afork
  <2>3. TableInv'
    BY <1>0, <1>4 DEF TableOK, TableInv, StatusExact, SpawnLate, Afork
  <2>4. StatusExact'
    BY <1>0, <1>4 DEF TableOK, GoneInv, TableInv, StatusExact, SpawnLate, Afork
  <2> QED  BY <2>1, <2>2, <2>3, <2>4 DEF ChildInv
<1>5. ASSUME NEW p \in Pids, SpawnUnregistered(p) PROVE ChildInv'
  <2>1. TableOK'
    BY <1>0, <1>5 DEF TableOK, SpawnUnregistered, Afork
  <2>2. GoneInv'
    BY <1>0, <1>5 DEF TableOK, GoneInv, TableInv, SpawnUnregistered, Afork
  <2>3. TableInv'
    BY <1>0, <1>5 DEF TableOK, TableInv, StatusExact, SpawnUnregistered, Afork
  <2>4. StatusExact'
    BY <1>0, <1>5 DEF TableOK, GoneInv, TableInv, StatusExact, SpawnUnregistered, Afork
  <2> QED  BY <2>1, <2>2, <2>3, <2>4 DEF ChildInv
<1>6. ASSUME NEW p \in Pids, Register(p) PROVE ChildInv'
  <2>1. TableOK'
    BY <1>0, <1>6 DEF TableOK, Register, Chldcb, TakeZombie
  <2>2. GoneInv'
    BY <1>0, <1>6 DEF TableOK, GoneInv, TableInv, Register, Chldcb, TakeZombie
  <2>3. TableInv'
    BY <1>0, <1>6 DEF TableOK, TableInv, StatusExact, Register, Chldcb, TakeZombie
  <2>4. StatusExact'
    BY <1>0, <1>6 DEF TableOK, GoneInv, TableInv, StatusExact, Register, Chldcb, TakeZombie
  <2> QED  BY <2>1, <2>2, <2>3, <2>4 DEF ChildInv
<1>7. ASSUME NEW p \in Pids, ChldcbNull(p) PROVE ChildInv'
  <2>1. TableOK'
    BY <1>0, <1>7 DEF TableOK, ChldcbNull, TakeZombie
  <2>2. GoneInv'
    BY <1>0, <1>7 DEF TableOK, GoneInv, TableInv, ChldcbNull, TakeZombie
  <2>3. TableInv'
    BY <1>0, <1>7 DEF TableOK, TableInv, StatusExact, ChldcbNull, TakeZombie
  <2>4. StatusExact'
    BY <1>0, <1>7 DEF TableOK, GoneInv, TableInv, StatusExact, ChldcbNull, TakeZombie
  <2> QED  BY <2>1, <2>2, <2>3, <2>4 DEF ChildInv
<1>8. ASSUME NEW p \in Pids, Exit(p) PROVE ChildInv'
  <2>1. TableOK'
    BY <1>0, <1>8 DEF TableOK, Exit
  <2>2. GoneInv'
    BY <1>0, <1>8 DEF TableOK, GoneInv, TableInv, Exit
  <2>3. TableInv'
    BY <1>0, <1>8 DEF TableOK, TableInv, StatusExact, Exit
  <2>4. StatusExact'
    BY <1>0, <1>8 DEF TableOK, GoneInv, TableInv, StatusExact, Exit
  <2> QED  BY <2>1, <2>2, <2>3, <2>4 DEF ChildInv
<1> QED
    BY <1>1, <1>2, <1>3, <1>4, <1>5, <1>6, <1>7, <1>8
    DEF ChildNext, ChildLoopStep, ReapStep, ProgramStep, SystemStep, allVars

\* The invariant of the signal loop holds with children, too.
LEMMA ChildInvariance == ChildSpec => [](FlagOK /\ SigIInv)
<1>1. ChildInit => FlagOK
    BY Zenon DEF ChildInit, SigInit, FlagOK
<1>2. ChildInit => SigIInv
    BY SigAssumption DEF ChildInit, SigInit, SigIInv, NumOK, NoLostSignal, WakeInv, Sigs, SigPcs
<1>3. FlagOK /\ SigIInv /\ [ChildNext]_allVars => FlagOK' /\ SigIInv'
    BY ChildStepIsSignalStep, DeliverStep, FlagStep, SigIInvStep DEF allVars
<1> QED  BY <1>1, <1>2, <1>3, PTL DEF ChildSpec

\* With children the loop still forgets no signal: exits come as SIGCHLDs of
\* their own, at any step.
THEOREM ChildNoLostSignalHolds == ChildSpec => []NoLostSignal
<1>1. SigIInv => NoLostSignal
    BY DEF SigIInv
<1> QED  BY <1>1, ChildInvariance, PTL

\* Nor does select sleep while a child that exited, or any other signal, is
\* recorded and not served.
THEOREM ChildNoSleepHolds == ChildSpec => []NoSleepOnSignal
<1>1. SigIInv => NoSleepOnSignal
    BY DEF SigIInv, NoLostSignal, WakeInv, NoSleepOnSignal
<1> QED  BY <1>1, ChildInvariance, PTL

\* A callback of chldcb gets the status of its own child and no other's, and
\* no status that a callback is still to come for is lost, although numbers
\* are used again and exits merge into one SIGCHLD.
THEOREM StatusExactHolds == ChildSpec => []StatusExact
<1>1. ChildInit => ChildInv
    BY DEF ChildInit, ChildInv, TableOK, GoneInv, TableInv, StatusExact
<1>2. ChildInv => StatusExact
    BY DEF ChildInv
<1> QED  BY <1>1, <1>2, ChildStep, PTL DEF ChildSpec
=============================================================================
