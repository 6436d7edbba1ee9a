--------------------------- MODULE TameLockProofs ---------------------------
(***************************************************************************)
(* Theorems about the lock of module TameLock, for any number of clients.  *)
(***************************************************************************)
EXTENDS TameLock, ListsProofs

Readers == {p \in Procs : Has(p) /\ want[p] = "SHARED"}

\* What makes readers and writers exclude each other, whatever is cancelled:
\* the queue holds only clients that wait, _mode says who may have the lock,
\* and _sharers never counts too few readers.
ModeInv ==
    /\ \A p \in ToSet(waiters) : st[p] = "wait"
    /\ ~exists => \A p \in Procs : ~Has(p)
    /\ mode = "OPEN" => \A p \in Procs : ~Has(p)
    /\ mode = "SHARED" => \A p \in Procs : Has(p) => want[p] = "SHARED"
    /\ mode = "EXCLUSIVE" => \A p \in Procs : Has(p) => want[p] = "EXCLUSIVE"
    /\ mode = "EXCLUSIVE" => \A p, q \in Procs : Has(p) /\ Has(q) => p = q
    /\ sharers >= Cardinality(Readers)
ExclInv == TypeOK /\ ModeInv

\* With no cancellation of readers, the queues of waiters and timers agree
\* with what each client waits for.
TimerInv ==
    /\ IsInjective(waiters) /\ IsInjective(zeros) /\ IsInjective(tmos)
    /\ \A p \in Procs : p \in ToSet(zeros) <=> st[p] = "grant"
    /\ \A p \in Procs : st[p] = "grant" => want[p] = "SHARED"
    /\ \A p \in ToSet(tmos) : want[p] \in CancelModes /\ st[p] = "wait" /\ p \in timed

InTree(t) ==
    \/ t = Nil
    \/ \E p \in ToSet(zeros) : t = <<"zero", p>>
    \/ \E p \in ToSet(tmos) : t = <<"tmo", p>>

\* The cursor of timecb_check () never stands on a timer that is gone.
CursorInv ==
    /\ pc = "loop" => InTree(tp)
    /\ pc = "cb" /\ ~altered => InTree(ntp)

\* No reader queues behind readers, and nobody at an open lock.
QueueInv ==
    /\ mode = "SHARED" => \A p \in ToSet(waiters) : want[p] = "EXCLUSIVE"
    /\ mode = "OPEN" => waiters = <<>>

CountInv ==
    /\ sharers = Cardinality(Readers)
    /\ mode = "OPEN" <=> \A p \in Procs : ~Has(p)

LockInv == ExclInv /\ TimerInv /\ CursorInv /\ QueueInv /\ CountInv /\ AssertionsHold

-----------------------------------------------------------------------------
\* Facts used for every action.

\* Sets of clients are finite.
LEMMA ReadersFinite ==
    ASSUME NEW S, \A x \in S : x \in Procs
    PROVE  IsFiniteSet(S) /\ Cardinality(S) \in Nat
<1>1. S \subseteq Procs
    BY Zenon
<1> QED  BY <1>1, LockAssumption, FS_Subset, FS_CardinalityType

\* Fewer clients are no more readers.
LEMMA FewerReaders ==
    ASSUME NEW S, NEW T, \A x \in T : x \in Procs, \A x \in S : x \in T
    PROVE  Cardinality(S) <= Cardinality(T)
<1>1. S \subseteq T /\ IsFiniteSet(T)
    BY ReadersFinite, Zenon
<1> QED  BY <1>1, FS_Subset

\* If the readers do not grow and _sharers stays, it still counts enough.
LEMMA SharersEnough ==
    ASSUME TypeOK, sharers \in Nat, sharers >= Cardinality(Readers), sharers' = sharers,
           \A p \in Procs : Has(p)' /\ want'[p] = "SHARED" => Has(p) /\ want[p] = "SHARED"
    PROVE  sharers' >= Cardinality(Readers')
<1>1. \A x \in Readers : x \in Procs
    BY DEF Readers
<1>2. \A x \in Readers' : x \in Readers
    BY DEF Readers
<1>3. Cardinality(Readers') <= Cardinality(Readers)
    BY <1>1, <1>2, FewerReaders
<1>4. Cardinality(Readers) \in Nat /\ Cardinality(Readers') \in Nat
    BY <1>1, <1>2, ReadersFinite
<1> QED  BY <1>3, <1>4

\* No lock exists at first.
LEMMA ExclInit == Init => ExclInv
<1> SUFFICES ASSUME Init PROVE ExclInv
    OBVIOUS
<1>1. TypeOK
  <2>1. /\ exists \in BOOLEAN /\ stale \in BOOLEAN /\ altered \in BOOLEAN
        /\ timed \subseteq Procs /\ expired \subseteq Procs
        /\ bad \subseteq {"acquire", "release", "decref"}
    BY Zenon DEF Init
  <2>2. waiters \in Seq(Procs) /\ zeros \in Seq(Procs) /\ tmos \in Seq(Procs)
    BY DEF Init
  <2> QED  BY <2>1, <2>2 DEF Init, TypeOK, States
<1>2. \A p \in Procs : ~Has(p)
    BY DEF Init, Has
<1>3. Readers = {}
    BY <1>2 DEF Readers
<1>4. \A p \in ToSet(waiters) : st[p] = "wait"
    BY DEF Init, ToSet
<1>5. sharers >= Cardinality(Readers)
    BY <1>3, FS_EmptySet DEF Init
<1> QED  BY <1>1, <1>2, <1>4, <1>5 DEF ExclInv, ModeInv, Init

\* A client is granted the lock, or waits.
LEMMA AcquireExcl ==
    ASSUME ExclInv, NEW p \in Procs, NEW m \in Modes, NEW w \in BOOLEAN,
           NEW k \in 1..(Len(tmos) + 1), Acquire(p, m, w, k)
    PROVE  ExclInv'
<1> USE DEF ExclInv
<1>1. m \in {"SHARED", "EXCLUSIVE"}
    BY LockAssumption
<1>2. st[p] = "none" /\ p \notin ToSet(waiters)
    BY DEF Acquire, ModeInv
<1>3. want' = [want EXCEPT ![p] = m] /\ exists'
    BY DEF Acquire
<1>4. CASE ~exists \/ CanAcquire(m)
  <2>1. /\ st' = [st EXCEPT ![p] = "hold"] /\ mode' = m
        /\ sharers' = IF m = "SHARED" THEN sharers + 1 ELSE sharers
        /\ waiters' = waiters
    BY <1>4 DEF Acquire
  <2>2. TypeOK'
    <3>1. /\ exists' \in BOOLEAN /\ stale' \in BOOLEAN /\ altered' \in BOOLEAN
          /\ UNCHANGED <<timed, expired, pc, zeros, tmos>>
        BY <1>4, Zenon DEF Acquire, TypeOK, pass
    <3>2. bad' \subseteq {"acquire", "release", "decref"}
        BY <1>4 DEF Acquire, TypeOK
    <3>3. /\ mode' \in {"OPEN", "SHARED", "EXCLUSIVE"} /\ sharers' \in Nat
          /\ waiters' \in Seq(Procs)
          /\ want' \in [Procs -> {"SHARED", "EXCLUSIVE"}] /\ st' \in [Procs -> States]
        BY <1>1, <1>3, <2>1 DEF TypeOK, States
    <3> QED  BY <3>1, <3>2, <3>3 DEF TypeOK
  <2>3. \A q \in Procs : Has(q)' <=> Has(q) \/ q = p
    BY <2>1 DEF Has, TypeOK
  <2>4. \A q \in Procs : Has(q) => m = "SHARED" /\ want[q] = "SHARED"
    BY <1>4 DEF CanAcquire, ModeInv, Has
  <2>5. \A q \in ToSet(waiters)' : st'[q] = "wait"
    BY <1>2, <2>1 DEF ModeInv, TypeOK
  <2>6. \A q \in Procs : Has(q)' => want'[q] = m
    BY <1>3, <2>3, <2>4 DEF TypeOK
  <2>7. m = "EXCLUSIVE" => \A q, r \in Procs : Has(q)' /\ Has(r)' => q = r
    BY <2>3, <2>4
  <2>8. sharers' >= Cardinality(Readers')
    <3>1. \A x \in Readers : x \in Procs
        BY DEF Readers
    <3>2. IsFiniteSet(Readers) /\ Cardinality(Readers) \in Nat
        BY <3>1, ReadersFinite
    <3>3. CASE m = "SHARED"
      <4>1. Readers' = Readers \cup {p}
        BY <1>3, <2>3, <2>4, <2>6, <3>3 DEF Readers, TypeOK
      <4>2. Cardinality(Readers \cup {p}) = IF p \in Readers THEN Cardinality(Readers)
                                            ELSE Cardinality(Readers) + 1
        BY <3>2, FS_AddElement, Zenon
      <4>3. Cardinality(Readers \cup {p}) \in Nat
        BY <3>2, <4>2
      <4> QED  BY <2>1, <3>2, <3>3, <4>1, <4>2, <4>3 DEF ModeInv, TypeOK
    <3>4. CASE m # "SHARED"
      <4>1. Readers' = {}
        BY <2>6, <3>4 DEF Readers
      <4> QED  BY <2>1, <3>4, <4>1, FS_EmptySet DEF TypeOK
    <3> QED  BY <3>3, <3>4
  <2> QED  BY <1>1, <1>3, <2>1, <2>2, <2>5, <2>6, <2>7, <2>8 DEF ModeInv
<1>5. CASE ~(~exists \/ CanAcquire(m))
  <2>1. /\ st' = [st EXCEPT ![p] = "wait"] /\ mode' = mode /\ sharers' = sharers
        /\ waiters' = Append(waiters, p)
    BY <1>5 DEF Acquire
  <2>2. tmos' \in Seq(Procs)
    BY <1>5, InsertFacts DEF Acquire, TypeOK
  <2>3. TypeOK'
    <3>1. exists' \in BOOLEAN /\ UNCHANGED <<stale, altered, expired, pc, zeros, bad>>
        BY <1>5, Zenon DEF Acquire, pass
    <3>2. timed' \subseteq Procs
        BY <1>5 DEF Acquire, TypeOK
    <3>3. /\ waiters' \in Seq(Procs)
          /\ want' \in [Procs -> {"SHARED", "EXCLUSIVE"}] /\ st' \in [Procs -> States]
        BY <1>1, <1>3, <2>1 DEF TypeOK, States
    <3> QED  BY <2>1, <2>2, <3>1, <3>2, <3>3 DEF TypeOK
  <2>4. \A q \in Procs : (Has(q)' <=> Has(q)) /\ (Has(q) => want'[q] = want[q])
    BY <1>2, <1>3, <2>1 DEF Has, TypeOK
  <2>5. \A q \in ToSet(waiters)' : st'[q] = "wait"
    <3>1. waiters \in Seq(Procs)
        BY DEF TypeOK
    <3>2. ToSet(waiters)' = ToSet(waiters) \cup {p}
        BY <2>1, <3>1, AppendFacts
    <3> QED  BY <2>1, <3>1, <3>2, ToSetIndex DEF ModeInv, TypeOK
  <2>6. sharers' >= Cardinality(Readers')
    BY <2>1, <2>4, SharersEnough DEF ModeInv, TypeOK
  <2> QED  BY <1>3, <2>1, <2>3, <2>4, <2>5, <2>6 DEF ModeInv
<1> QED  BY <1>4, <1>5

\* What Granted picks from the queue.
LEMMA GrantedFacts ==
    ASSUME ExclInv, NEW open \in BOOLEAN
    PROVE  /\ \A q \in Granted(open) : open /\ q \in ToSet(waiters) /\ q \in Procs /\ st[q] = "wait"
           /\ (\E q \in Granted(open) : IsSharedWaiter(q))
                => \A q \in Granted(open) : want[q] = "SHARED"
           /\ ~(\E q \in Granted(open) : IsSharedWaiter(q))
                => /\ \A q \in Granted(open) : want[q] = "EXCLUSIVE"
                   /\ \A q, r \in Granted(open) : q = r
           /\ (\E q \in Granted(open) : IsSharedWaiter(q))
                => \A q \in ToSet(waiters) : want[q] = "SHARED" => q \in Granted(open)
           /\ Granted(open) = {} /\ open => waiters = <<>>
<1>1. waiters \in Seq(Procs)
    BY DEF ExclInv, TypeOK
<1>2. \A q \in ToSet(waiters) : q \in Procs /\ st[q] = "wait" /\ want[q] \in {"SHARED", "EXCLUSIVE"}
    BY <1>1, ToSetIndex DEF ExclInv, ModeInv, TypeOK
<1>3. waiters # <<>> => Head(waiters) \in ToSet(waiters)
    BY <1>1, TailFacts
<1> QED  BY <1>2, <1>3, Zenon DEF Granted, IsSharedWaiter

\* The names of lock_t::release (): _sharers after the decrement, whether the
\* lock opens, and whom it is given to.
Left == IF mode = "SHARED" THEN sharers - 1 ELSE sharers
Open == mode = "EXCLUSIVE" \/ Left = 0
Got  == Granted(Open)
Shar == \E q \in Got : IsSharedWaiter(q)

\* The client that releases has the lock, and is counted.
LEMMA ReleaseFacts ==
    ASSUME ExclInv, NEW p \in Procs, Release(p)
    PROVE  /\ st[p] = "hold" /\ Has(p) /\ exists
           /\ IsFiniteSet(Readers) /\ Cardinality(Readers) \in Nat
           /\ mode = "SHARED" => /\ p \in Readers
                                 /\ Cardinality(Readers \ {p}) = Cardinality(Readers) - 1
                                 /\ sharers >= 1
           /\ Left \in Nat /\ Open \in BOOLEAN
           /\ sharers' = IF Shar THEN Left + Cardinality(Got) ELSE Left
           /\ mode' = IF Got = {} THEN IF Open THEN "OPEN" ELSE mode
                      ELSE IF Shar THEN "SHARED" ELSE "EXCLUSIVE"
           /\ waiters' = Keep(waiters, Procs \ Got) /\ waiters' \in Seq(Procs)
           /\ \A q \in ToSet(waiters)' : q \in ToSet(waiters) /\ q \notin Got
           /\ st' = [q \in Procs |-> IF q = p THEN "done"
                                     ELSE IF q \notin Got \/ st[q] # "wait" THEN st[q]
                                     ELSE IF Shar THEN "grant" ELSE "hold"]
           /\ UNCHANGED <<exists, want>>
           /\ Open => \A q \in Procs : Has(q) => q = p
           /\ \A q \in Got : Open /\ q \in ToSet(waiters) /\ q \in Procs /\ st[q] = "wait"
           /\ Shar => Got # {} /\ \A q \in Got : want[q] = "SHARED"
           /\ ~Shar => (\A q \in Got : want[q] = "EXCLUSIVE") /\ (\A q, r \in Got : q = r)
           /\ IsFiniteSet(Got) /\ Cardinality(Got) \in Nat
           /\ \A q \in Procs : Has(q)' <=> (Has(q) /\ q # p) \/ q \in Got
<1> USE DEF ExclInv
<1>1. st[p] = "hold" /\ Has(p) /\ exists
    BY DEF Release, Has, ModeInv
<1>2. \A x \in Readers : x \in Procs
    BY DEF Readers
<1>3. IsFiniteSet(Readers) /\ Cardinality(Readers) \in Nat
    BY <1>2, ReadersFinite
<1>4. mode = "SHARED" => /\ p \in Readers
                         /\ Cardinality(Readers \ {p}) = Cardinality(Readers) - 1
                         /\ sharers >= 1 /\ Left \in Nat
  <2>1. HAVE mode = "SHARED"
  <2>2. p \in Readers
    BY <1>1, <2>1 DEF ModeInv, Readers
  <2>3. Cardinality(Readers \ {p}) = Cardinality(Readers) - 1
    BY <1>3, <2>2, FS_RemoveElement
  <2>4. Cardinality(Readers \ {p}) \in Nat
    BY <1>2, ReadersFinite
  <2> QED  BY <1>3, <2>1, <2>2, <2>3, <2>4 DEF ModeInv, TypeOK, Left
<1>5. Left \in Nat /\ Open \in BOOLEAN
    BY <1>4 DEF TypeOK, Left, Open
<1>6. /\ sharers' = IF Shar THEN Left + Cardinality(Got) ELSE Left
      /\ mode' = IF Got = {} THEN IF Open THEN "OPEN" ELSE mode
                 ELSE IF Shar THEN "SHARED" ELSE "EXCLUSIVE"
      /\ bad' = bad \/ bad' = bad \cup {"release"}
      /\ waiters' = Keep(waiters, Procs \ Got)
      /\ st' = [q \in Procs |-> IF q = p THEN "done"
                                ELSE IF q \notin Got \/ st[q] # "wait" THEN st[q]
                                ELSE IF Shar THEN "grant" ELSE "hold"]
      /\ UNCHANGED <<exists, want>>
    BY Zenon DEF Release, ReleaseTo, Left, Open, Got, Shar
<1>7. Open => \A q \in Procs : Has(q) => q = p
  <2>1. CASE mode = "EXCLUSIVE"
    BY <1>1, <2>1 DEF ModeInv
  <2>2. CASE mode = "SHARED" /\ Left = 0
    <3>1. Cardinality(Readers \ {p}) = 0 /\ IsFiniteSet(Readers \ {p})
      <4>1. IsFiniteSet(Readers \ {p}) /\ Cardinality(Readers \ {p}) \in Nat
        BY <1>3, FS_Subset, FS_CardinalityType
      <4> QED  BY <1>3, <1>4, <2>2, <4>1 DEF ModeInv, TypeOK, Left
    <3>2. Readers \ {p} = {}
        BY <3>1, FS_EmptySet
    <3> QED  BY <2>2, <3>2 DEF ModeInv, Readers
  <2>3. mode # "OPEN"
    BY <1>1 DEF ModeInv
  <2> QED  BY <2>1, <2>2, <2>3 DEF TypeOK, Open
<1>8. /\ \A q \in Got : Open /\ q \in ToSet(waiters) /\ q \in Procs /\ st[q] = "wait"
      /\ Shar => \A q \in Got : want[q] = "SHARED"
      /\ ~Shar => (\A q \in Got : want[q] = "EXCLUSIVE") /\ (\A q, r \in Got : q = r)
    BY <1>5, GrantedFacts DEF Got, Shar
<1>9. IsFiniteSet(Got) /\ Cardinality(Got) \in Nat
    BY <1>8, ReadersFinite
<1>10. Shar \in BOOLEAN /\ (Shar => Got # {})
    BY DEF Shar
<1>11. waiters' \in Seq(Procs) /\ \A q \in ToSet(waiters)' : q \in ToSet(waiters) /\ q \notin Got
    BY <1>6, KeepType, KeepMembers DEF TypeOK
<1>12. \A q \in Procs : Has(q)' <=> (Has(q) /\ q # p) \/ q \in Got
    BY <1>1, <1>6, <1>8, <1>10 DEF Has, TypeOK
<1> QED  BY <1>1, <1>3, <1>4, <1>5, <1>6, <1>7, <1>8, <1>9, <1>10, <1>11, <1>12

\* lock_t::release () keeps the types.
LEMMA ReleaseTypes ==
    ASSUME ExclInv, NEW p \in Procs, Release(p)
    PROVE  TypeOK'
<1> USE DEF ExclInv
<1>1. /\ sharers' = IF Shar THEN Left + Cardinality(Got) ELSE Left
      /\ mode' = IF Got = {} THEN IF Open THEN "OPEN" ELSE mode
                 ELSE IF Shar THEN "SHARED" ELSE "EXCLUSIVE"
      /\ Left \in Nat /\ Cardinality(Got) \in Nat
      /\ waiters' \in Seq(Procs) /\ UNCHANGED <<exists, want>>
    BY ReleaseFacts, Zenon
<1>2. st' = [q \in Procs |-> IF q = p THEN "done"
                             ELSE IF q \notin Got \/ st[q] # "wait" THEN st[q]
                             ELSE IF Shar THEN "grant" ELSE "hold"]
    BY ReleaseFacts, Zenon
<1>3. UNCHANGED <<stale, expired, pc>>
    BY DEF Release, pass
<1>4. bad' = bad \/ bad' = bad \cup {"release"}
    BY DEF Release, ReleaseTo
<1>5. /\ zeros' \in Seq(Procs) /\ tmos' \in Seq(Procs)
      /\ timed' \subseteq Procs /\ altered' \in BOOLEAN
  <2>1. /\ Shar => zeros' = zeros \o Keep(waiters, Got) /\ UNCHANGED <<timed, tmos, altered>>
        /\ ~Shar => /\ zeros' = zeros
                    /\ \/ UNCHANGED <<timed, tmos, altered>>
                       \/ DropTimeout(CHOOSE q \in Got : TRUE)
    BY Zenon DEF Release, ReleaseTo, Left, Open, Got, Shar
  <2>2. Keep(waiters, Got) \in Seq(Procs)
    BY KeepType DEF TypeOK
  <2>3. zeros \o Keep(waiters, Got) \in Seq(Procs)
    BY <2>2 DEF TypeOK
  <2>4. CASE UNCHANGED <<timed, tmos, altered>>
    BY <2>1, <2>3, <2>4 DEF TypeOK
  <2>5. CASE ~Shar /\ DropTimeout(CHOOSE q \in Got : TRUE)
    <3>1. tmos' \in Seq(Procs)
        BY <2>5, WithoutFacts DEF DropTimeout, TypeOK
    <3> QED  BY <2>1, <2>5, <3>1 DEF DropTimeout, TypeOK
  <2> QED  BY <2>1, <2>4, <2>5
<1>6. sharers' \in Nat /\ mode' \in {"OPEN", "SHARED", "EXCLUSIVE"}
    BY <1>1 DEF TypeOK
<1>7. st' \in [Procs -> States]
    BY <1>2 DEF TypeOK, States
<1>8. bad' \subseteq {"acquire", "release", "decref"}
    BY <1>4 DEF TypeOK
<1> QED  BY <1>1, <1>3, <1>5, <1>6, <1>7, <1>8 DEF TypeOK

\* lock_t::release () grants to one writer, or to readers only.
LEMMA ReleaseExcl ==
    ASSUME ExclInv, NEW p \in Procs, Release(p)
    PROVE  ExclInv'
<1> USE DEF ExclInv
<1>1. /\ st[p] = "hold" /\ Has(p) /\ exists
      /\ sharers' = IF Shar THEN Left + Cardinality(Got) ELSE Left
      /\ mode' = IF Got = {} THEN IF Open THEN "OPEN" ELSE mode
                 ELSE IF Shar THEN "SHARED" ELSE "EXCLUSIVE"
      /\ Left \in Nat /\ Cardinality(Got) \in Nat /\ UNCHANGED <<exists, want>>
    BY ReleaseFacts, Zenon
<1>2. st' = [q \in Procs |-> IF q = p THEN "done"
                             ELSE IF q \notin Got \/ st[q] # "wait" THEN st[q]
                             ELSE IF Shar THEN "grant" ELSE "hold"]
    BY ReleaseFacts, Zenon
<1>3. /\ \A q \in Got : Open /\ q \in Procs /\ st[q] = "wait"
      /\ Shar => Got # {} /\ \A q \in Got : want[q] = "SHARED"
      /\ ~Shar => (\A q \in Got : want[q] = "EXCLUSIVE") /\ (\A q, r \in Got : q = r)
    BY ReleaseFacts, Zenon
<1>4. \A q \in Procs : Has(q)' <=> (Has(q) /\ q # p) \/ q \in Got
    BY ReleaseFacts, Zenon
<1>5. \A q \in ToSet(waiters)' : st'[q] = "wait"
  <2>1. TAKE q \in ToSet(waiters)'
  <2>2. q \in ToSet(waiters) /\ q \notin Got
    BY ReleaseFacts, Zenon
  <2>3. q \in Procs /\ st[q] = "wait" /\ q # p
    BY <1>1, <2>2, ToSetIndex DEF ModeInv, TypeOK
  <2> QED  BY <1>2, <2>2, <2>3
<1>6. CASE ~Open
  <2>1. Got = {} /\ ~Shar
    BY <1>3, <1>6
  <2>2. mode = "SHARED" /\ mode' = "SHARED" /\ sharers' = Left
    BY <1>1, <1>6, <2>1 DEF Open, ModeInv, TypeOK
  <2>3. Readers' = Readers \ {p}
    BY <1>1, <1>4, <2>1 DEF Readers
  <2>4. /\ Cardinality(Readers) \in Nat
        /\ Cardinality(Readers \ {p}) = Cardinality(Readers) - 1
    BY <2>2, ReleaseFacts, Zenon
  <2>5. sharers' >= Cardinality(Readers')
    BY <2>2, <2>3, <2>4 DEF Left, ModeInv, TypeOK
  <2> QED  BY <1>1, <1>4, <1>5, <2>1, <2>2, <2>5, ReleaseTypes DEF ModeInv
<1>7. CASE Open
  <2>1. \A q \in Procs : Has(q)' <=> q \in Got
    <3>1. \A q \in Procs : Has(q) => q = p
        BY <1>7, ReleaseFacts, Zenon
    <3> QED  BY <1>4, <3>1
  <2>2. CASE Shar
    <3>1. Readers' = Got
        BY <1>1, <1>3, <2>1, <2>2 DEF Readers
    <3>2. sharers' >= Cardinality(Readers')
        BY <1>1, <2>2, <3>1
    <3>3. mode' = "SHARED" /\ Got # {}
        BY <1>1, <1>3, <2>2
    <3> QED  BY <1>1, <1>3, <1>5, <2>1, <2>2, <3>2, <3>3, ReleaseTypes DEF ModeInv
  <2>3. CASE ~Shar
    <3>1. Readers' = {}
        BY <1>1, <1>3, <2>1, <2>3 DEF Readers
    <3>2. sharers' >= Cardinality(Readers')
        BY <1>1, <2>3, <3>1, FS_EmptySet
    <3>3. mode' = IF Got = {} THEN "OPEN" ELSE "EXCLUSIVE"
        BY <1>1, <1>7, <2>3
    <3> QED  BY <1>1, <1>3, <1>5, <2>1, <2>3, <3>2, <3>3, ReleaseTypes DEF ModeInv
  <2> QED  BY <2>2, <2>3
<1> QED  BY <1>6, <1>7

\* A step that gives the lock to nobody and leaves _mode and _sharers alone.
LEMMA QuietExcl ==
    ASSUME ExclInv, TypeOK', UNCHANGED <<exists, mode, sharers, want>>,
           \A q \in Procs : Has(q)' => Has(q),
           \A q \in ToSet(waiters)' : st'[q] = "wait"
    PROVE  ExclInv'
<1>1. sharers' >= Cardinality(Readers')
    BY SharersEnough DEF ExclInv, ModeInv, TypeOK
<1> QED  BY <1>1 DEF ExclInv, ModeInv

\* A handle is deleted.
LEMMA DropExcl ==
    ASSUME ExclInv, NEW p \in Procs, Drop(p)
    PROVE  ExclInv'
<1> USE DEF ExclInv
<1>1. st[p] = "done" /\ st' = [st EXCEPT ![p] = "none"] /\ UNCHANGED <<waiters, want>>
    BY DEF Drop
<1>2. \A q \in Procs : (Has(q)' <=> Has(q)) /\ want'[q] = want[q]
    BY <1>1 DEF Has, TypeOK
<1>3. \A q \in ToSet(waiters)' : st'[q] = "wait"
    BY <1>1 DEF ModeInv, TypeOK
<1>4. TypeOK'
  <2>1. exists' \in BOOLEAN /\ UNCHANGED <<stale, timed, zeros, tmos, altered, expired, pc>>
    BY Zenon DEF Drop, TypeOK, timers, pass
  <2>2. st' \in [Procs -> States]
    BY <1>1 DEF TypeOK, States
  <2>3. bad' \subseteq {"acquire", "release", "decref"}
    BY DEF Drop, TypeOK
  <2>4. sharers' \in Nat /\ mode' \in {"OPEN", "SHARED", "EXCLUSIVE"}
    BY DEF Drop, TypeOK
  <2> QED  BY <1>1, <2>1, <2>2, <2>3, <2>4 DEF TypeOK
<1>5. CASE HandleCount = 1
  <2>1. ~exists' /\ mode' = "OPEN" /\ sharers' = 0
    BY <1>5 DEF Drop
  <2>2. \A q \in Procs : ~Has(q)
    <3> DEFINE H == {q \in Procs : st[q] # "none"}
    <3>1. \A x \in H : x \in Procs
        OBVIOUS
    <3>2. IsFiniteSet(H) /\ Cardinality(H) = 1 /\ p \in H
        BY <1>1, <1>5, <3>1, ReadersFinite DEF HandleCount
    <3> HIDE DEF H
    <3>3. \E x : H = {x}
        BY <3>2, FS_Singleton, Zenon
    <3>4. H = {p}
        BY <3>2, <3>3
    <3> QED  BY <1>1, <3>4 DEF H, Has
  <2>3. Readers' = {}
    BY <1>2, <2>2 DEF Readers
  <2>4. sharers' >= Cardinality(Readers')
    BY <2>1, <2>3, FS_EmptySet
  <2> QED  BY <1>2, <1>3, <1>4, <2>1, <2>2, <2>4 DEF ModeInv
<1>6. CASE HandleCount # 1
    BY <1>1, <1>2, <1>3, <1>4, <1>6, QuietExcl DEF Drop
<1> QED  BY <1>5, <1>6

\* lock_t::cancel () takes p off the queue and gives nothing to anybody.
LEMMA CancelFacts ==
    ASSUME ExclInv, NEW p, CancelWaiter(p)
    PROVE  /\ waiters' \in Seq(Procs) /\ st' \in [Procs -> States] /\ stale' \in BOOLEAN
           /\ ToSet(waiters)' = ToSet(waiters) \ {p}
           /\ \A q \in ToSet(waiters)' : st'[q] = "wait"
           /\ \A q \in Procs : Has(q)' => Has(q)
<1>1. waiters \in Seq(Procs) /\ st \in [Procs -> States]
    BY DEF ExclInv, TypeOK
<1>2. waiters' \in Seq(Procs) /\ ToSet(waiters)' = ToSet(waiters) \ {p}
    BY <1>1, WithoutFacts DEF CancelWaiter
<1>3. st' \in [Procs -> States] /\ st' = [st EXCEPT ![p] = "done"]
    BY <1>1 DEF CancelWaiter, States
<1>4. stale' \in BOOLEAN
    BY Zenon DEF CancelWaiter, ExclInv, TypeOK
<1>5. \A q \in Procs : Has(q)' => Has(q)
    BY <1>1, <1>3 DEF Has
<1>6. \A q \in ToSet(waiters)' : st'[q] = "wait"
  <2>1. TAKE q \in ToSet(waiters)'
  <2>2. q \in ToSet(waiters) /\ q # p /\ q \in Procs
    BY <1>1, <1>2, ToSetIndex
  <2> QED  BY <1>1, <1>3, <2>2 DEF ExclInv, ModeInv
<1> QED  BY <1>2, <1>3, <1>4, <1>5, <1>6

\* A cancellation takes a waiter out of the queue, or changes nothing.
LEMMA UserCancelExcl ==
    ASSUME ExclInv, NEW p \in Procs, UserCancel(p)
    PROVE  ExclInv'
<1>1. CancelWaiter(p) /\ UNCHANGED <<exists, mode, sharers, want, bad, timers, pass>>
    BY DEF UserCancel
<1>2. TypeOK'
    BY <1>1, CancelFacts DEF ExclInv, TypeOK, timers, pass
<1> QED  BY <1>1, <1>2, CancelFacts, QuietExcl

\* A timeout, stale or not, grants nothing.
LEMMA RunTimeoutExcl ==
    ASSUME ExclInv, RunTimeout
    PROVE  ExclInv'
<1> DEFINE p == tp[2]
<1>1. CancelWaiter(p) /\ UNCHANGED <<exists, mode, sharers, want, bad, zeros, expired>>
    BY DEF RunTimeout
<1>2. tmos' \in Seq(Procs)
    BY WithoutFacts DEF RunTimeout, ExclInv, TypeOK
<1>3. timed' \subseteq Procs /\ altered' \in BOOLEAN /\ pc' \in {"idle", "loop", "cb"}
    BY DEF RunTimeout, ExclInv, TypeOK
<1> HIDE DEF p
<1>4. TypeOK'
    BY <1>1, <1>2, <1>3, CancelFacts DEF ExclInv, TypeOK
<1> QED  BY <1>1, <1>4, CancelFacts, QuietExcl

\* A delayed trigger reaches its reader.
LEMMA RunZeroExcl ==
    ASSUME ExclInv, RunZero
    PROVE  ExclInv'
<1> USE DEF ExclInv
<1> DEFINE p == tp[2]
<1>1. /\ UNCHANGED <<exists, mode, sharers, waiters, want, stale, bad, expired>>
      /\ st' = st \/ (st[p] = "grant" /\ st' = [st EXCEPT ![p] = "hold"])
      /\ zeros' = Without(zeros, p) /\ (tmos' = tmos \/ tmos' = Without(tmos, p))
      /\ timed' \subseteq timed /\ pc' = "cb"
    BY DEF RunZero
<1>2. altered' \in BOOLEAN
  <2>1. CASE st[p] = "grant"
    BY <2>1 DEF RunZero
  <2>2. CASE st[p] # "grant"
    BY <2>2 DEF RunZero
  <2> QED  BY <2>1, <2>2
<1>3. zeros' \in Seq(Procs) /\ tmos' \in Seq(Procs)
    BY <1>1, WithoutFacts DEF TypeOK
<1> HIDE DEF p
<1>4. st' \in [Procs -> States]
    BY <1>1 DEF TypeOK, States
<1>5. TypeOK'
    BY <1>1, <1>2, <1>3, <1>4 DEF TypeOK
<1>6. \A q \in Procs : Has(q)' => Has(q)
    BY <1>1 DEF Has, TypeOK
<1>7. \A q \in ToSet(waiters)' : st'[q] = "wait"
  <2>1. \A q \in ToSet(waiters) : q \in Procs /\ st[q] = "wait"
    BY ToSetIndex DEF TypeOK, ModeInv
  <2> QED  BY <1>1, <2>1 DEF TypeOK
<1> QED  BY <1>1, <1>5, <1>6, <1>7, QuietExcl

\* Every step preserves the invariant of exclusion.
LEMMA ExclStep == ExclInv /\ [Next]_vars => ExclInv'
<1> SUFFICES ASSUME ExclInv, [Next]_vars PROVE ExclInv'
    OBVIOUS
<1>1. CASE UNCHANGED <<lock, timers>> /\ pc' \in {"idle", "loop", "cb"} /\ expired' \subseteq Procs
  <2>1. UNCHANGED <<exists, mode, sharers, want, st, waiters, stale, bad, timed, zeros, tmos, altered>>
    BY <1>1 DEF lock, timers
  <2>2. TypeOK'
    BY <1>1, <2>1 DEF ExclInv, TypeOK
  <2>3. (\A q \in Procs : Has(q)' => Has(q)) /\ (\A q \in ToSet(waiters)' : st'[q] = "wait")
    BY <2>1 DEF Has, ExclInv, ModeInv
  <2> QED  BY <2>1, <2>2, <2>3, QuietExcl
<1>2. ASSUME NEW n \in 0..Len(tmos), PassStart(n) PROVE ExclInv'
  <2>1. \A k \in 1..n : k \in 1..Len(tmos) /\ tmos[k] \in Procs
    BY DEF ExclInv, TypeOK
  <2>2. expired' \subseteq Procs
    BY <1>2, <2>1 DEF PassStart
  <2> QED  BY <1>1, <1>2, <2>2 DEF PassStart
<1>3. CASE CallbackReturn
    BY <1>1, <1>3 DEF CallbackReturn, ExclInv, TypeOK
<1>4. CASE PassDone
    BY <1>1, <1>4 DEF PassDone
<1>5. CASE UNCHANGED vars
    BY <1>1, <1>5 DEF vars, pass, ExclInv, TypeOK
<1> QED  BY <1>2, <1>3, <1>4, <1>5, AcquireExcl, ReleaseExcl, DropExcl, UserCancelExcl,
            RunZeroExcl, RunTimeoutExcl DEF Next

\* Readers exclude writers and a writer excludes everyone: lock_t::acquire ()
\* and release () keep the exclusion for any number of clients, whichever of
\* them wait with a timeout or cancel, and even past the point where a late
\* timeout leaves _sharers too large (run tamelock_timeout).
THEOREM ExclusionHolds == Spec => []Exclusion
<1>1. ExclInv => Exclusion
    BY DEF ExclInv, ModeInv, Exclusion, TypeOK
<1> QED  BY <1>1, ExclInit, ExclStep, PTL DEF Spec

-----------------------------------------------------------------------------
\* The timer tree and the cursor of timecb_check ().

\* The tree of timers holds those of zero delay before the timeouts.
LEMMA TreeFacts ==
    ASSUME TypeOK
    PROVE  /\ Tree \in Seq({"zero", "tmo"} \X Procs)
           /\ Len(Tree) = Len(zeros) + Len(tmos)
           /\ \A k \in 1..Len(Tree) :
                Tree[k] = IF k <= Len(zeros) THEN <<"zero", zeros[k]>>
                          ELSE <<"tmo", tmos[k - Len(zeros)]>>
<1> DEFINE z == [k \in 1..Len(zeros) |-> <<"zero", zeros[k]>>]
           t == [k \in 1..Len(tmos) |-> <<"tmo", tmos[k]>>]
           P == {"zero", "tmo"} \X Procs
<1>1. Len(zeros) \in Nat /\ Len(tmos) \in Nat
    BY DEF TypeOK
<1>2. z \in Seq(P) /\ Len(z) = Len(zeros)
    BY <1>1 DEF TypeOK
<1>3. t \in Seq(P) /\ Len(t) = Len(tmos)
    BY <1>1 DEF TypeOK
<1>4. \A k \in 1..Len(zeros) : z[k] = <<"zero", zeros[k]>>
    OBVIOUS
<1>5. \A k \in 1..Len(tmos) : t[k] = <<"tmo", tmos[k]>>
    OBVIOUS
<1>6. Tree = z \o t
    BY DEF Tree
<1> HIDE DEF z, t, P
<1>7. Tree \in Seq(P) /\ Len(Tree) = Len(zeros) + Len(tmos)
  <2>1. z \in Seq(P) /\ t \in Seq(P)
    BY <1>2, <1>3
  <2>2. z \o t \in Seq(P) /\ Len(z \o t) = Len(z) + Len(t)
    BY <2>1
  <2> QED  BY <1>2, <1>3, <1>6, <2>2
<1>8. ASSUME NEW k \in 1..Len(Tree)
      PROVE  Tree[k] = IF k <= Len(zeros) THEN <<"zero", zeros[k]>>
                       ELSE <<"tmo", tmos[k - Len(zeros)]>>
  <2>1. Tree[k] = IF k <= Len(z) THEN z[k] ELSE t[k - Len(z)]
    BY <1>2, <1>3, <1>6, <1>7
  <2>2. k <= Len(zeros) => k \in 1..Len(zeros)
    BY <1>1, <1>7
  <2>3. ~(k <= Len(zeros)) => k - Len(zeros) \in 1..Len(tmos)
    BY <1>1, <1>7
  <2> QED  BY <1>2, <1>4, <1>5, <2>1, <2>2, <2>3
<1> QED  BY <1>7, <1>8 DEF P

\* What is in the tree of timers.
LEMMA InTreeIndex ==
    ASSUME TypeOK, NEW x
    PROVE  (\E k \in 1..Len(Tree) : Tree[k] = x)
             <=> \/ \E p \in ToSet(zeros) : x = <<"zero", p>>
                 \/ \E p \in ToSet(tmos) : x = <<"tmo", p>>
<1>1. Len(zeros) \in Nat /\ Len(tmos) \in Nat /\ zeros \in Seq(Procs) /\ tmos \in Seq(Procs)
    BY DEF TypeOK
<1>2. \A p : p \in ToSet(zeros) <=> \E k \in 1..Len(zeros) : zeros[k] = p
    BY <1>1, ToSetIndex, Zenon
<1>3. \A p : p \in ToSet(tmos) <=> \E k \in 1..Len(tmos) : tmos[k] = p
    BY <1>1, ToSetIndex, Zenon
<1>a. Len(Tree) = Len(zeros) + Len(tmos)
    BY TreeFacts
<1>b. \A k \in 1..Len(Tree) : k <= Len(zeros) => Tree[k] = <<"zero", zeros[k]>>
    BY TreeFacts
<1>c. \A k \in 1..Len(Tree) : ~(k <= Len(zeros)) => Tree[k] = <<"tmo", tmos[k - Len(zeros)]>>
    BY TreeFacts
<1>4. ASSUME NEW k \in 1..Len(Tree), Tree[k] = x
      PROVE  \/ \E p \in ToSet(zeros) : x = <<"zero", p>>
             \/ \E p \in ToSet(tmos) : x = <<"tmo", p>>
  <2>1. CASE k <= Len(zeros)
    <3>1. k \in 1..Len(zeros)
        BY <1>1, <1>a, <2>1
    <3>2. x = <<"zero", zeros[k]>>
        BY <1>b, <1>4, <2>1, Zenon
    <3> QED  BY <1>2, <3>1, <3>2
  <2>2. CASE ~(k <= Len(zeros))
    <3>1. k - Len(zeros) \in 1..Len(tmos)
        BY <1>1, <1>a, <2>2
    <3>2. x = <<"tmo", tmos[k - Len(zeros)]>>
        BY <1>c, <1>4, <2>2, Zenon
    <3> QED  BY <1>3, <3>1, <3>2
  <2> QED  BY <2>1, <2>2
<1>5. ASSUME NEW p \in ToSet(zeros), x = <<"zero", p>> PROVE \E k \in 1..Len(Tree) : Tree[k] = x
  <2>1. PICK k \in 1..Len(zeros) : zeros[k] = p
    BY <1>2
  <2>2. k \in 1..Len(Tree) /\ Tree[k] = x
    BY <1>1, <1>a, <1>b, <1>5, <2>1
  <2> QED  BY <2>2
<1>6. ASSUME NEW p \in ToSet(tmos), x = <<"tmo", p>> PROVE \E k \in 1..Len(Tree) : Tree[k] = x
  <2>1. PICK k \in 1..Len(tmos) : tmos[k] = p
    BY <1>3
  <2>2. Len(zeros) + k \in 1..Len(Tree) /\ ~(Len(zeros) + k <= Len(zeros))
        /\ (Len(zeros) + k) - Len(zeros) = k
    BY <1>1, TreeFacts
  <2>3. Tree[Len(zeros) + k] = x
    BY <1>6, <2>1, <2>2, TreeFacts
  <2> QED  BY <2>2, <2>3
<1> QED  BY <1>4, <1>5, <1>6, Zenon

\* itree::first () is in the tree, or there is none.
LEMMA FirstInTree ==
    ASSUME TypeOK
    PROVE  InTree(FirstTimer)
<1>1. Tree # <<>> => Len(Tree) \in Nat /\ 1 \in 1..Len(Tree) /\ Head(Tree) = Tree[1]
    BY TreeFacts
<1> QED  BY <1>1, InTreeIndex, Zenon DEF FirstTimer, InTree

\* The saved successor is another timer of the tree.
LEMMA NextInTree ==
    ASSUME TypeOK, IsInjective(zeros), IsInjective(tmos), NEW x, InTree(x), x # Nil
    PROVE  InTree(NextTimer(x)) /\ (NextTimer(x) # Nil => NextTimer(x) # x)
<1> DEFINE k == CHOOSE i \in DOMAIN Tree : Tree[i] = x
<1>1. Len(Tree) \in Nat /\ DOMAIN Tree = 1..Len(Tree)
    BY TreeFacts
<1>2. \E i \in DOMAIN Tree : Tree[i] = x
    BY <1>1, InTreeIndex DEF InTree
<1>3. k \in DOMAIN Tree /\ Tree[k] = x
    BY <1>2
<1>4. NextTimer(x) = IF k = Len(Tree) THEN Nil ELSE Tree[k + 1]
    BY DEF NextTimer
<1> HIDE DEF k
<1>5. CASE k = Len(Tree)
    BY <1>4, <1>5 DEF InTree
<1>6. CASE k # Len(Tree)
  <2>1. k + 1 \in 1..Len(Tree) /\ k \in 1..Len(Tree) /\ k \in Nat
    BY <1>1, <1>3, <1>6
  <2>2. InTree(Tree[k + 1])
    BY <2>1, InTreeIndex, Zenon DEF InTree
  <2>3. Tree[k + 1] # Tree[k]
    <3>1. Len(zeros) \in Nat /\ Len(tmos) \in Nat /\ DOMAIN zeros = 1..Len(zeros)
          /\ DOMAIN tmos = 1..Len(tmos) /\ Len(Tree) = Len(zeros) + Len(tmos)
        BY TreeFacts DEF TypeOK
    <3>2. /\ Tree[k] = IF k <= Len(zeros) THEN <<"zero", zeros[k]>>
                       ELSE <<"tmo", tmos[k - Len(zeros)]>>
          /\ Tree[k + 1] = IF k + 1 <= Len(zeros) THEN <<"zero", zeros[k + 1]>>
                           ELSE <<"tmo", tmos[k + 1 - Len(zeros)]>>
        BY <2>1, TreeFacts
    <3>3. CASE k + 1 <= Len(zeros)
      <4>1. zeros[k] # zeros[k + 1]
        BY <2>1, <3>1, <3>3 DEF IsInjective
      <4> QED  BY <2>1, <3>1, <3>2, <3>3, <4>1
    <3>4. CASE ~(k <= Len(zeros))
      <4> DEFINE j == k - Len(zeros)
                 l == k + 1 - Len(zeros)
      <4>1. j \in 1..Len(tmos) /\ l \in 1..Len(tmos) /\ j # l
        BY <2>1, <3>1, <3>4
      <4> HIDE DEF j, l
      <4>2. tmos[j] # tmos[l]
        BY <3>1, <4>1 DEF IsInjective
      <4>3. tmos[k - Len(zeros)] # tmos[k + 1 - Len(zeros)]
        BY <4>2 DEF j, l
      <4> QED  BY <2>1, <3>1, <3>2, <3>4, <4>3
    <3>5. CASE k <= Len(zeros) /\ ~(k + 1 <= Len(zeros))
        BY <3>2, <3>5
    <3> QED  BY <2>1, <3>1, <3>3, <3>4, <3>5
  <2> QED  BY <1>3, <1>4, <1>6, <2>2, <2>3
<1> QED  BY <1>5, <1>6

\* A timer that was in the tree is in a tree that has lost nothing.
LEMMA InTreeGrows ==
    ASSUME NEW x, InTree(x), \A p \in ToSet(zeros) : p \in ToSet(zeros)',
           \A p \in ToSet(tmos) : p \in ToSet(tmos)'
    PROVE  InTree(x)'
BY Zenon DEF InTree

-----------------------------------------------------------------------------
\* The exact lock: what holds besides ExclInv if no reader is cancelled.
ExactInv == TimerInv /\ CursorInv /\ QueueInv /\ CountInv /\ AssertionsHold

\* Nothing is queued at first.
LEMMA ExactInit == Init => ExactInv
<1> SUFFICES ASSUME Init PROVE ExactInv
    OBVIOUS
<1>1. \A p \in Procs : ~Has(p) /\ st[p] # "grant"
    BY DEF Init, Has
<1>2. ToSet(<<>>) = {} /\ IsInjective(<<>>)
    BY DEF ToSet, IsInjective
<1>3. TimerInv
    BY <1>1, <1>2 DEF Init, TimerInv
<1>4. Readers = {}
    BY <1>1 DEF Readers
<1>5. CountInv
    BY <1>1, <1>4, FS_EmptySet DEF CountInv, Init
<1> QED  BY <1>3, <1>5 DEF ExactInv, CursorInv, QueueInv, AssertionsHold, Init

\* The queues hold clients.
LEMMA WaitersAreProcs ==
    ASSUME TypeOK
    PROVE  /\ \A p \in ToSet(waiters) : p \in Procs
           /\ \A p \in ToSet(zeros) : p \in Procs
           /\ \A p \in ToSet(tmos) : p \in Procs
BY ToSetIndex DEF TypeOK

\* A client that waits is queued once.
LEMMA AcquireExact ==
    ASSUME ExclInv, ExactInv, NEW p \in Procs, NEW m \in Modes, NEW w \in BOOLEAN,
           NEW k \in 1..(Len(tmos) + 1), Acquire(p, m, w, k)
    PROVE  ExactInv'
<1> USE DEF ExclInv, ExactInv
<1>1. m \in {"SHARED", "EXCLUSIVE"}
    BY LockAssumption
<1>2. st[p] = "none" /\ p \notin ToSet(waiters) /\ p \notin ToSet(zeros) /\ p \notin ToSet(tmos)
    BY DEF Acquire, ModeInv, TimerInv
<1>3. want' = [want EXCEPT ![p] = m] /\ exists' /\ UNCHANGED <<zeros, pc, tp, ntp>>
    BY DEF Acquire, pass
<1>4. IsFiniteSet(Readers) /\ Cardinality(Readers) \in Nat
  <2>1. \A x \in Readers : x \in Procs
    BY DEF Readers
  <2> QED  BY <2>1, ReadersFinite
<1>5. ~exists => mode = "OPEN"
    BY DEF ModeInv, CountInv
<1>6. CASE ~exists \/ CanAcquire(m)
  <2>1. /\ st' = [st EXCEPT ![p] = "hold"] /\ mode' = m
        /\ sharers' = IF m = "SHARED" THEN sharers + 1 ELSE sharers
        /\ UNCHANGED <<waiters, timed, tmos>>
        /\ altered => altered'
    BY <1>6 DEF Acquire
  <2>2. \A q \in Procs : Has(q)' <=> Has(q) \/ q = p
    BY <2>1 DEF Has, TypeOK
  <2>3. mode = "OPEN" \/ (mode = "SHARED" /\ m = "SHARED")
    BY <1>5, <1>6 DEF CanAcquire
  <2>4. TimerInv'
    <3>1. \A q \in Procs : q # p => st'[q] = st[q] /\ want'[q] = want[q]
        BY <1>3, <2>1 DEF TypeOK
    <3>2. st'[p] = "hold"
        BY <2>1 DEF TypeOK
    <3>3. IsInjective(waiters)' /\ IsInjective(zeros)' /\ IsInjective(tmos)'
        BY <1>3, <2>1 DEF TimerInv
    <3>4. \A q \in Procs : q \in ToSet(zeros)' <=> st'[q] = "grant"
        BY <1>2, <1>3, <3>1, <3>2 DEF TimerInv
    <3>5. \A q \in Procs : st'[q] = "grant" => want'[q] = "SHARED"
        BY <3>1, <3>2 DEF TimerInv
    <3>6. \A q \in ToSet(tmos)' : want'[q] \in CancelModes /\ st'[q] = "wait" /\ q \in timed'
        BY <1>2, <2>1, <3>1, WaitersAreProcs DEF TimerInv
    <3> QED  BY <3>3, <3>4, <3>5, <3>6 DEF TimerInv
  <2>5. CursorInv'
    <3>1. InTree(ntp) => InTree(ntp)'
        BY <1>3, <2>1 DEF InTree
    <3> QED  BY <1>3, <2>1, <3>1 DEF CursorInv, Acquire, InCallback
  <2>6. QueueInv'
    <3>1. mode = "OPEN" => ToSet(waiters) = {}
        BY ToSetIndex DEF QueueInv, TypeOK
    <3>2. mode = "SHARED" => \A q \in ToSet(waiters) : want'[q] = "EXCLUSIVE"
        BY <1>2, <1>3, WaitersAreProcs DEF QueueInv, TypeOK
    <3> QED  BY <1>1, <2>1, <2>3, <3>1, <3>2 DEF QueueInv
  <2>7. CountInv'
    <3>1. \A q \in Readers : want[q] = "SHARED" /\ q # p /\ Has(q)
        BY <1>2 DEF Readers, Has
    <3>2. CASE m = "SHARED"
      <4>1. Readers' = Readers \cup {p}
        BY <1>2, <1>3, <2>2, <3>2 DEF Readers, TypeOK
      <4>2. Cardinality(Readers \cup {p}) = Cardinality(Readers) + 1
        BY <1>4, <3>1, FS_AddElement
      <4> QED  BY <2>1, <2>2, <3>2, <4>1, <4>2 DEF CountInv
    <3>3. CASE m = "EXCLUSIVE"
      <4>1. \A q \in Procs : ~Has(q)
        BY <2>3, <3>3 DEF CountInv
      <4>2. Readers = {} /\ Readers' = {}
        BY <1>3, <2>2, <3>3, <4>1 DEF Readers, TypeOK
      <4> QED  BY <2>1, <2>2, <3>3, <4>2 DEF CountInv
    <3> QED  BY <1>1, <3>2, <3>3
  <2>8. AssertionsHold'
    <3>1. mode = "OPEN" => sharers = 0
      <4>1. HAVE mode = "OPEN"
      <4>2. Readers = {}
        BY <4>1 DEF CountInv, Readers
      <4> QED  BY <4>2, FS_EmptySet DEF CountInv
    <3>2. mode = "SHARED" => sharers > 0
      <4>1. HAVE mode = "SHARED"
      <4>2. PICK q \in Procs : Has(q)
        BY <4>1 DEF CountInv
      <4>3. q \in Readers
        BY <4>1, <4>2 DEF ModeInv, Readers
      <4>4. Cardinality(Readers) # 0
        BY <1>4, <4>3, FS_EmptySet
      <4> QED  BY <1>4, <4>4 DEF CountInv
    <3>3. ~(sharers > 0 <=> mode = "OPEN")
        BY <2>3, <3>1, <3>2
    <3>4. bad' = bad \cup {}
        BY <1>6, <3>3, Zenon DEF Acquire
    <3> QED  BY <3>4 DEF AssertionsHold
  <2> QED  BY <2>4, <2>5, <2>6, <2>7, <2>8
<1>7. CASE ~(~exists \/ CanAcquire(m))
  <2>1. /\ st' = [st EXCEPT ![p] = "wait"] /\ UNCHANGED <<mode, sharers, bad, altered>>
        /\ waiters' = Append(waiters, p)
        /\ timed' = IF w THEN timed \cup {p} ELSE timed
        /\ tmos' = IF w THEN InsertAt(tmos, k, p) ELSE tmos
        /\ w => m \in CancelModes
    BY <1>7 DEF Acquire
  <2>2. \A q \in Procs : (Has(q)' <=> Has(q)) /\ (Has(q) => want'[q] = want[q])
    BY <1>2, <1>3, <2>1 DEF Has, TypeOK
  <2>3. \A q \in Procs : q # p => st'[q] = st[q] /\ want'[q] = want[q]
    BY <1>3, <2>1 DEF TypeOK
  <2>4. st'[p] = "wait" /\ want'[p] = m
    BY <1>3, <2>1 DEF TypeOK
  <2>5. IsInjective(waiters)' /\ ToSet(waiters)' = ToSet(waiters) \cup {p}
    BY <1>2, <2>1, AppendFacts DEF TimerInv, TypeOK
  <2>6. /\ IsInjective(tmos)'
        /\ ToSet(tmos)' = IF w THEN ToSet(tmos) \cup {p} ELSE ToSet(tmos)
    <3>1. tmos \in Seq(Procs) /\ IsInjective(tmos)
        BY DEF TimerInv, TypeOK
    <3>2. CASE w
        BY <1>2, <2>1, <3>1, <3>2, InsertFacts
    <3>3. CASE ~w
        BY <2>1, <3>1, <3>3
    <3> QED  BY <3>2, <3>3
  <2>7. TimerInv'
    <3>1. IsInjective(zeros)'
        BY <1>3 DEF TimerInv
    <3>2. \A q \in Procs : q \in ToSet(zeros)' <=> st'[q] = "grant"
        BY <1>2, <1>3, <2>3, <2>4 DEF TimerInv
    <3>3. \A q \in Procs : st'[q] = "grant" => want'[q] = "SHARED"
        BY <2>3, <2>4 DEF TimerInv
    <3>4. \A q \in ToSet(tmos)' : want'[q] \in CancelModes /\ st'[q] = "wait" /\ q \in timed'
        BY <1>2, <2>1, <2>3, <2>4, <2>6, WaitersAreProcs DEF TimerInv
    <3> QED  BY <2>5, <2>6, <3>1, <3>2, <3>3, <3>4 DEF TimerInv
  <2>8. CursorInv'
    <3>1. InTree(ntp) => InTree(ntp)'
        BY <1>3, <2>6 DEF InTree
    <3> QED  BY <1>3, <2>1, <3>1 DEF CursorInv, Acquire, InCallback
  <2>9. QueueInv'
    <3>1. mode # "OPEN" /\ (mode = "SHARED" => m = "EXCLUSIVE")
        BY <1>1, <1>7 DEF CanAcquire
    <3> QED  BY <2>1, <2>3, <2>4, <2>5, <3>1, WaitersAreProcs DEF QueueInv
  <2>10. CountInv'
    <3>1. Readers' = Readers
        BY <2>2 DEF Readers
    <3> QED  BY <2>1, <2>2, <3>1 DEF CountInv
  <2> QED  BY <2>1, <2>7, <2>8, <2>9, <2>10 DEF AssertionsHold
<1> QED  BY <1>6, <1>7

\* The readers that lock_t::release () resumes are counted and triggered once.
LEMMA ReleaseExact ==
    ASSUME "SHARED" \notin CancelModes, ExclInv, ExactInv, NEW p \in Procs, Release(p)
    PROVE  ExactInv'
<1> USE DEF ExclInv, ExactInv
<1>1. /\ st[p] = "hold" /\ Has(p)
      /\ sharers' = IF Shar THEN Left + Cardinality(Got) ELSE Left
      /\ mode' = IF Got = {} THEN IF Open THEN "OPEN" ELSE mode
                 ELSE IF Shar THEN "SHARED" ELSE "EXCLUSIVE"
      /\ Left \in Nat /\ Cardinality(Got) \in Nat /\ UNCHANGED <<exists, want>>
    BY ReleaseFacts, Zenon
<1>2. st' = [q \in Procs |-> IF q = p THEN "done"
                             ELSE IF q \notin Got \/ st[q] # "wait" THEN st[q]
                             ELSE IF Shar THEN "grant" ELSE "hold"]
    BY ReleaseFacts, Zenon
<1>3. /\ \A q \in Got : Open /\ q \in Procs /\ st[q] = "wait" /\ q \in ToSet(waiters)
      /\ Shar => Got # {} /\ \A q \in Got : want[q] = "SHARED"
      /\ ~Shar => (\A q \in Got : want[q] = "EXCLUSIVE") /\ (\A q, r \in Got : q = r)
    BY ReleaseFacts, Zenon
<1>4. \A q \in Procs : Has(q)' <=> (Has(q) /\ q # p) \/ q \in Got
    BY ReleaseFacts, Zenon
<1>5. /\ Shar => \A q \in ToSet(waiters) : want[q] = "SHARED" => q \in Got
      /\ Got = {} /\ Open => waiters = <<>>
  <2>1. Open \in BOOLEAN
    BY ReleaseFacts, Zenon
  <2> QED  BY <2>1, GrantedFacts, Zenon DEF Got, Shar
<1>6. /\ waiters' = Keep(waiters, Procs \ Got)
      /\ \A q \in ToSet(waiters)' : q \in ToSet(waiters) /\ q \notin Got
    BY ReleaseFacts, Zenon
<1>7. /\ Shar => zeros' = zeros \o Keep(waiters, Got) /\ UNCHANGED <<timed, tmos, altered>>
      /\ ~Shar => /\ zeros' = zeros
                  /\ IF Got = {} THEN UNCHANGED <<timed, tmos, altered>>
                     ELSE DropTimeout(CHOOSE q \in Got : TRUE)
      /\ UNCHANGED <<pc, tp, ntp>> /\ InCallback
    BY Zenon DEF Release, ReleaseTo, Left, Open, Got, Shar, pass
<1>8. /\ IsFiniteSet(Readers) /\ Cardinality(Readers) \in Nat
      /\ mode = "SHARED" => /\ p \in Readers
                            /\ Cardinality(Readers \ {p}) = Cardinality(Readers) - 1
      /\ Open => \A q \in Procs : Has(q) => q = p
    BY ReleaseFacts, Zenon
<1>9. mode = "EXCLUSIVE" => sharers = 0
  <2>1. HAVE mode = "EXCLUSIVE"
  <2>2. Readers = {}
    BY <2>1 DEF Readers, ModeInv
  <2> QED  BY <2>2, FS_EmptySet DEF CountInv
<1>10. mode # "OPEN"
    BY <1>1 DEF ModeInv
\* The queues of timers as sets.
<1>11. /\ IsInjective(zeros)'
       /\ ToSet(zeros)' = IF Shar THEN ToSet(zeros) \cup Got ELSE ToSet(zeros)
  <2>1. zeros \in Seq(Procs) /\ waiters \in Seq(Procs)
    BY DEF TypeOK
  <2>2. CASE Shar
    <3> DEFINE g == Keep(waiters, Got)
    <3>1. g \in Seq(Procs) /\ ToSet(g) = Got /\ IsInjective(g)
      <4>1. ToSet(waiters) \cap Got = Got
        BY <1>3
      <4> QED  BY <2>1, <4>1, KeepType, KeepMembers, KeepInjective DEF TimerInv
    <3>2. zeros' = zeros \o g
        BY <1>7, <2>2
    <3> HIDE DEF g
    <3>3. ToSet(zeros) \cap ToSet(g) = {}
        BY <1>3, <3>1 DEF TimerInv
    <3>4. ToSet(zeros \o g) = ToSet(zeros) \cup ToSet(g) /\ IsInjective(zeros \o g)
        BY <2>1, <3>1, <3>3, ConcatFacts DEF TimerInv
    <3> QED  BY <2>2, <3>1, <3>2, <3>4
  <2>3. CASE ~Shar
    BY <1>7, <2>3 DEF TimerInv
  <2> QED  BY <2>2, <2>3
<1>12. /\ IsInjective(tmos)'
       /\ ToSet(tmos)' = IF Shar THEN ToSet(tmos) ELSE ToSet(tmos) \ Got
       /\ timed' = IF Shar THEN timed ELSE timed \ Got
       /\ ~altered' => ToSet(tmos)' = ToSet(tmos)
       /\ altered => altered'
  <2>1. tmos \in Seq(Procs)
    BY DEF TypeOK
  <2>2. CASE Shar \/ Got = {}
    BY <1>7, <2>2 DEF TimerInv
  <2>3. CASE ~Shar /\ Got # {}
    <3>1. PICK g : g \in Got
        BY <2>3
    <3>2. Got = {g} /\ (CHOOSE q \in Got : TRUE) = g
        BY <1>3, <2>3, <3>1
    <3>3. DropTimeout(g)
        BY <1>7, <2>3, <3>2
    <3>4. IsInjective(tmos)' /\ ToSet(tmos)' = ToSet(tmos) \ {g} /\ timed' = timed \ {g}
        BY <2>1, <3>3, WithoutFacts DEF DropTimeout, TimerInv
    <3>5. (~altered' => g \notin ToSet(tmos)) /\ (altered => altered')
        BY <3>3 DEF DropTimeout
    <3> QED  BY <2>3, <3>2, <3>4, <3>5
  <2> QED  BY <2>2, <2>3
<1>13. TimerInv'
  <2>1. IsInjective(waiters)'
    BY <1>6, KeepInjective DEF TimerInv, TypeOK
  <2>2. \A q \in Procs : q \in ToSet(zeros)' <=> st'[q] = "grant"
    BY <1>1, <1>2, <1>3, <1>11 DEF TimerInv, TypeOK
  <2>3. \A q \in Procs : st'[q] = "grant" => want'[q] = "SHARED"
    BY <1>1, <1>2, <1>3 DEF TimerInv, TypeOK
  <2>4. \A q \in ToSet(tmos)' : want'[q] \in CancelModes /\ st'[q] = "wait" /\ q \in timed'
    <3>1. TAKE q \in ToSet(tmos)'
    <3>2. q \in ToSet(tmos)
        BY <1>12
    <3>3. want[q] \in CancelModes /\ st[q] = "wait" /\ q \in timed /\ q \in Procs
        BY <3>2, WaitersAreProcs DEF TimerInv
    <3>4. q \notin Got
        BY <1>3, <1>12, <3>3
    <3> QED  BY <1>1, <1>2, <1>12, <3>3, <3>4
  <2> QED  BY <1>11, <1>12, <2>1, <2>2, <2>3, <2>4 DEF TimerInv
<1>14. CursorInv'
  <2>1. ~altered' /\ InTree(ntp) => InTree(ntp)'
    BY <1>7, <1>11, <1>12 DEF InTree
  <2> QED  BY <1>7, <1>12, <2>1 DEF CursorInv, InCallback
<1>15. CASE ~Open
  <2>1. Got = {} /\ ~Shar
    BY <1>3, <1>15
  <2>2. mode = "SHARED" /\ mode' = "SHARED" /\ sharers' = Left /\ Left = sharers - 1 /\ Left # 0
    BY <1>1, <1>10, <1>15, <2>1 DEF Open, Left, TypeOK
  <2>3. Readers' = Readers \ {p}
    BY <1>1, <1>4, <2>1 DEF Readers
  <2>4. sharers' = Cardinality(Readers') /\ Cardinality(Readers') # 0
    BY <1>8, <2>2, <2>3 DEF CountInv
  <2>5. Readers' # {}
    BY <2>4, FS_EmptySet
  <2>6. CountInv'
    BY <2>2, <2>4, <2>5 DEF CountInv, Readers
  <2>7. QueueInv'
    BY <1>1, <1>6, <2>2 DEF QueueInv
  <2>8. AssertionsHold'
    <3>1. sharers # 0
        BY <2>2, <1>1 DEF TypeOK
    <3>2. bad' = bad \cup {}
        BY <2>1, <2>2, <3>1, Zenon DEF Release, ReleaseTo, Left, Open, Got, Shar
    <3> QED  BY <3>2 DEF AssertionsHold
  <2> QED  BY <1>13, <1>14, <2>6, <2>7, <2>8
<1>16. CASE Open
  <2>1. \A q \in Procs : Has(q)' <=> q \in Got
    BY <1>4, <1>8, <1>16
  <2>2. Left = 0
    BY <1>9, <1>10, <1>16 DEF Open, Left, TypeOK
  <2>3. Shar => mode = "EXCLUSIVE"
    BY <1>3, <1>10 DEF QueueInv, TypeOK
  <2>4. CountInv'
    <3>1. Readers' = IF Shar THEN Got ELSE {}
        BY <1>1, <1>3, <2>1 DEF Readers
    <3>2. sharers' = Cardinality(Readers')
        BY <1>1, <2>2, <3>1, FS_EmptySet
    <3>3. mode' = "OPEN" <=> Got = {}
        BY <1>1, <1>16
    <3>4. (\A q \in Procs : ~Has(q)') <=> Got = {}
        BY <1>3, <2>1
    <3> QED  BY <3>2, <3>3, <3>4 DEF CountInv
  <2>5. QueueInv'
    <3>1. mode' = "OPEN" => waiters' = <<>>
      <4>1. HAVE mode' = "OPEN"
      <4>2. waiters = <<>>
        BY <1>1, <1>5, <1>16, <4>1
      <4>3. ToSet(waiters) = {}
        BY <4>2, ToSetIndex DEF TypeOK
      <4>4. ToSet(waiters)' = {}
        BY <1>6, <4>3, Zenon
      <4>5. waiters' \in Seq(Procs)
        BY ReleaseTypes DEF TypeOK
      <4> QED  BY <4>4, <4>5, ToSetIndex
    <3>2. mode' = "SHARED" => \A q \in ToSet(waiters)' : want'[q] = "EXCLUSIVE"
      <4>1. HAVE mode' = "SHARED"
      <4>2. Shar
        BY <1>1, <1>10, <1>16, <4>1
      <4> QED  BY <1>1, <1>5, <1>6, <4>2, WaitersAreProcs DEF TypeOK
    <3> QED  BY <3>1, <3>2 DEF QueueInv
  <2>6. AssertionsHold'
    <3>1. mode = "SHARED" => sharers # 0
        BY <2>2 DEF Left, TypeOK
    <3>2. ~(\/ mode = "OPEN"
            \/ mode = "SHARED" /\ (sharers = 0 \/ Shar)
            \/ mode = "EXCLUSIVE" /\ sharers # 0)
        BY <1>9, <1>10, <2>3, <3>1
    <3>3. bad' = bad \cup {}
        BY <3>2, Zenon DEF Release, ReleaseTo, Left, Open, Got, Shar
    <3> QED  BY <3>3 DEF AssertionsHold
  <2> QED  BY <1>13, <1>14, <2>4, <2>5, <2>6
<1> QED  BY <1>15, <1>16

\* A lock whose last handle goes is open.
LEMMA DropExact ==
    ASSUME ExclInv, ExactInv, NEW p \in Procs, Drop(p)
    PROVE  ExactInv'
<1> USE DEF ExclInv, ExactInv
<1>1. /\ st[p] = "done" /\ st' = [st EXCEPT ![p] = "none"]
      /\ UNCHANGED <<waiters, want, timed, zeros, tmos, altered, pc, tp, ntp>>
    BY DEF Drop, timers, pass
<1>2. \A q \in Procs : (Has(q)' <=> Has(q)) /\ want'[q] = want[q]
    BY <1>1 DEF Has, TypeOK
<1>3. TimerInv'
  <2>1. \A q \in Procs : q # p => st'[q] = st[q]
    BY <1>1 DEF TypeOK
  <2>2. st'[p] = "none"
    BY <1>1 DEF TypeOK
  <2> QED  BY <1>1, <2>1, <2>2, WaitersAreProcs DEF TimerInv
<1>4. CursorInv'
    BY <1>1 DEF CursorInv, InTree
<1>5. CASE HandleCount = 1
  <2>1. mode' = "OPEN" /\ sharers' = 0
    BY <1>5 DEF Drop
  <2>2. ASSUME NEW q \in Procs PROVE ~Has(q)
    <3> DEFINE H == {r \in Procs : st[r] # "none"}
    <3>1. \A x \in H : x \in Procs
        OBVIOUS
    <3>2. IsFiniteSet(H) /\ Cardinality(H) = 1 /\ p \in H
        BY <1>1, <1>5, <3>1, ReadersFinite DEF HandleCount
    <3> HIDE DEF H
    <3>3. \E x : H = {x}
        BY <3>2, FS_Singleton, Zenon
    <3>4. H = {p}
        BY <3>2, <3>3
    <3> QED  BY <1>1, <3>4 DEF H, Has
  <2>3. mode = "OPEN"
    BY <2>2 DEF CountInv
  <2>4. Readers' = {}
    BY <1>2, <2>2 DEF Readers
  <2>5. CountInv'
    BY <1>2, <2>1, <2>2, <2>4, FS_EmptySet DEF CountInv
  <2>6. QueueInv'
    BY <1>1, <2>1, <2>3 DEF QueueInv
  <2>7. AssertionsHold'
    BY <1>5, <2>3 DEF Drop, AssertionsHold
  <2> QED  BY <1>3, <1>4, <2>5, <2>6, <2>7
<1>6. CASE HandleCount # 1
  <2>1. UNCHANGED <<bad, mode, sharers>>
    BY <1>6 DEF Drop
  <2>2. Readers' = Readers
    BY <1>2 DEF Readers
  <2>3. CountInv' /\ QueueInv'
    BY <1>1, <1>2, <2>1, <2>2 DEF CountInv, QueueInv
  <2> QED  BY <1>3, <1>4, <2>1, <2>3 DEF AssertionsHold
<1> QED  BY <1>5, <1>6

\* lock_t::cancel () of a client that still waits changes only the queue.
LEMMA CancelExact ==
    ASSUME ExclInv, ExactInv, NEW p \in Procs, CancelWaiter(p), st[p] = "wait",
           UNCHANGED <<mode, sharers, want, bad>>
    PROVE  /\ QueueInv' /\ CountInv' /\ AssertionsHold' /\ IsInjective(waiters)'
           /\ \A q \in Procs : q # p => st'[q] = st[q]
           /\ st'[p] = "done"
<1> USE DEF ExclInv, ExactInv
<1>1. st' = [st EXCEPT ![p] = "done"] /\ waiters' = Without(waiters, p)
    BY DEF CancelWaiter
<1>2. st'[p] = "done" /\ \A q \in Procs : q # p => st'[q] = st[q]
    BY <1>1 DEF TypeOK
<1>3. \A q \in Procs : Has(q)' <=> Has(q)
    BY <1>2 DEF Has
<1>4. Readers' = Readers
    BY <1>3 DEF Readers
<1>5. CountInv'
    BY <1>3, <1>4 DEF CountInv
<1>6. waiters' \in Seq(Procs) /\ ToSet(waiters)' = ToSet(waiters) \ {p} /\ IsInjective(waiters)'
    BY <1>1, WithoutFacts DEF TimerInv, TypeOK
<1>7. QueueInv'
  <2>1. mode = "OPEN" => ToSet(waiters) = {}
    BY ToSetIndex DEF QueueInv, TypeOK
  <2>2. mode' = "OPEN" => waiters' = <<>>
    BY <1>6, <2>1, ToSetIndex
  <2> QED  BY <1>6, <2>2 DEF QueueInv
<1> QED  BY <1>2, <1>5, <1>6, <1>7 DEF AssertionsHold

\* A writer that cancels is still queued.
LEMMA UserCancelExact ==
    ASSUME "SHARED" \notin CancelModes, ExclInv, ExactInv, NEW p \in Procs, UserCancel(p)
    PROVE  ExactInv'
<1>1. /\ CancelWaiter(p) /\ st[p] \in {"wait", "grant"} /\ p \notin timed /\ want[p] \in CancelModes
      /\ UNCHANGED <<mode, sharers, want, bad, timed, zeros, tmos, altered, pc, tp, ntp>>
    BY DEF UserCancel, timers, pass
<1>2. st[p] = "wait"
    BY <1>1 DEF ExactInv, TimerInv
<1>3. /\ QueueInv' /\ CountInv' /\ AssertionsHold' /\ IsInjective(waiters)'
      /\ \A q \in Procs : q # p => st'[q] = st[q]
      /\ st'[p] = "done"
    BY <1>1, <1>2, CancelExact
<1>4. p \notin ToSet(tmos) /\ p \notin ToSet(zeros)
    BY <1>1, <1>2 DEF ExactInv, TimerInv
<1>5. \A q \in ToSet(tmos) : q \in Procs
    BY WaitersAreProcs DEF ExclInv
<1>6. TimerInv'
  <2>1. IsInjective(zeros)' /\ IsInjective(tmos)'
    BY <1>1 DEF ExactInv, TimerInv
  <2>2. \A q \in Procs : q \in ToSet(zeros)' <=> st'[q] = "grant"
    BY <1>1, <1>3, <1>4 DEF ExactInv, TimerInv
  <2>3. \A q \in Procs : st'[q] = "grant" => want'[q] = "SHARED"
    BY <1>1, <1>3 DEF ExactInv, TimerInv
  <2>4. \A q \in ToSet(tmos)' : want'[q] \in CancelModes /\ st'[q] = "wait" /\ q \in timed'
    BY <1>1, <1>3, <1>4, <1>5 DEF ExactInv, TimerInv
  <2> QED  BY <1>3, <2>1, <2>2, <2>3, <2>4 DEF TimerInv
<1>7. CursorInv'
    BY <1>1 DEF ExactInv, CursorInv, InTree
<1> QED  BY <1>3, <1>6, <1>7 DEF ExactInv

\* A writer that times out is still queued.
LEMMA RunTimeoutExact ==
    ASSUME ExclInv, ExactInv, RunTimeout
    PROVE  ExactInv'
<1> DEFINE p == tp[2]
<1>1. tp # Nil /\ InTree(tp) /\ tp[1] = "tmo"
    BY DEF RunTimeout, TimerDue, ExactInv, CursorInv
<1>2. tp = <<"tmo", p>> /\ p \in ToSet(tmos)
    BY <1>1 DEF InTree
<1>3. /\ ntp' = NextTimer(tp) /\ pc' = "cb" /\ ~altered'
      /\ tmos' = Without(tmos, p) /\ timed' = timed \ {p} /\ CancelWaiter(p)
      /\ UNCHANGED <<mode, sharers, want, bad, zeros>>
    BY DEF RunTimeout
<1> HIDE DEF p
<1>4. p \in Procs /\ st[p] = "wait"
    BY <1>2, WaitersAreProcs DEF ExclInv, ExactInv, TimerInv
<1>5. /\ QueueInv' /\ CountInv' /\ AssertionsHold' /\ IsInjective(waiters)'
      /\ \A q \in Procs : q # p => st'[q] = st[q]
      /\ st'[p] = "done"
    BY <1>3, <1>4, CancelExact
<1>6. ToSet(tmos)' = ToSet(tmos) \ {p} /\ IsInjective(tmos)'
    BY <1>3, WithoutFacts DEF ExclInv, TypeOK, ExactInv, TimerInv
<1>7. \A q \in ToSet(tmos) : q \in Procs
    BY WaitersAreProcs DEF ExclInv
<1>8. TimerInv'
  <2>1. IsInjective(zeros)'
    BY <1>3 DEF ExactInv, TimerInv
  <2>2. \A q \in Procs : q \in ToSet(zeros)' <=> st'[q] = "grant"
    BY <1>3, <1>4, <1>5 DEF ExactInv, TimerInv
  <2>3. \A q \in Procs : st'[q] = "grant" => want'[q] = "SHARED"
    BY <1>3, <1>5 DEF ExactInv, TimerInv
  <2>4. \A q \in ToSet(tmos)' : want'[q] \in CancelModes /\ st'[q] = "wait" /\ q \in timed'
    BY <1>3, <1>5, <1>6, <1>7 DEF ExactInv, TimerInv
  <2> QED  BY <1>5, <1>6, <2>1, <2>2, <2>3, <2>4 DEF TimerInv
<1>9. CursorInv'
  <2>1. InTree(NextTimer(tp)) /\ (NextTimer(tp) # Nil => NextTimer(tp) # tp)
    BY <1>1, NextInTree DEF ExclInv, ExactInv, TimerInv
  <2>2. InTree(ntp)'
    BY <1>2, <1>3, <1>6, <2>1 DEF InTree
  <2> QED  BY <1>3, <2>2 DEF CursorInv
<1> QED  BY <1>5, <1>8, <1>9 DEF ExactInv

\* A delayed trigger is run once.
LEMMA RunZeroExact ==
    ASSUME ExclInv, ExactInv, RunZero
    PROVE  ExactInv'
<1> DEFINE p == tp[2]
<1>1. tp # Nil /\ InTree(tp) /\ tp[1] = "zero"
    BY DEF RunZero, TimerDue, ExactInv, CursorInv
<1>2. tp = <<"zero", p>> /\ p \in ToSet(zeros)
    BY <1>1 DEF InTree
<1>3. p \in Procs /\ st[p] = "grant"
    BY <1>2, WaitersAreProcs DEF ExclInv, ExactInv, TimerInv
<1>4. /\ ntp' = NextTimer(tp) /\ pc' = "cb" /\ zeros' = Without(zeros, p)
      /\ st' = [st EXCEPT ![p] = "hold"] /\ timed' = timed \ {p} /\ tmos' = Without(tmos, p)
      /\ UNCHANGED <<mode, sharers, waiters, want, bad>>
    BY <1>3 DEF RunZero
<1>5. ~altered' => p \notin ToSet(tmos)
    BY <1>3 DEF RunZero
<1> HIDE DEF p
<1>6. st'[p] = "hold" /\ \A q \in Procs : q # p => st'[q] = st[q]
    BY <1>3, <1>4 DEF ExclInv, TypeOK
<1>7. \A q \in Procs : Has(q)' <=> Has(q)
    BY <1>3, <1>6 DEF Has
<1>8. Readers' = Readers
    BY <1>4, <1>7 DEF Readers
<1>9. CountInv' /\ QueueInv' /\ AssertionsHold'
    BY <1>4, <1>7, <1>8 DEF CountInv, QueueInv, AssertionsHold, ExactInv
<1>10. ToSet(tmos)' = ToSet(tmos) \ {p} /\ IsInjective(tmos)'
    BY <1>4, WithoutFacts DEF ExclInv, TypeOK, ExactInv, TimerInv
<1>11. ToSet(zeros)' = ToSet(zeros) \ {p} /\ IsInjective(zeros)'
    BY <1>4, WithoutFacts DEF ExclInv, TypeOK, ExactInv, TimerInv
<1>12. \A q \in ToSet(tmos) : q \in Procs
    BY WaitersAreProcs DEF ExclInv
<1>13. TimerInv'
  <2>1. IsInjective(waiters)'
    BY <1>4 DEF ExactInv, TimerInv
  <2>2. \A q \in Procs : q \in ToSet(zeros)' <=> st'[q] = "grant"
    BY <1>6, <1>11 DEF ExactInv, TimerInv
  <2>3. \A q \in Procs : st'[q] = "grant" => want'[q] = "SHARED"
    BY <1>4, <1>6 DEF ExactInv, TimerInv
  <2>4. \A q \in ToSet(tmos)' : want'[q] \in CancelModes /\ st'[q] = "wait" /\ q \in timed'
    BY <1>4, <1>6, <1>10, <1>12 DEF ExactInv, TimerInv
  <2> QED  BY <1>10, <1>11, <2>1, <2>2, <2>3, <2>4 DEF TimerInv
<1>14. CursorInv'
  <2>1. InTree(NextTimer(tp)) /\ (NextTimer(tp) # Nil => NextTimer(tp) # tp)
    BY <1>1, NextInTree DEF ExclInv, ExactInv, TimerInv
  <2>2. ~altered' => InTree(ntp)'
    BY <1>2, <1>4, <1>5, <1>10, <1>11, <2>1 DEF InTree
  <2> QED  BY <1>4, <2>2 DEF CursorInv
<1> QED  BY <1>9, <1>13, <1>14 DEF ExactInv

\* Every step preserves the invariant.
LEMMA ExactStep ==
    ASSUME "SHARED" \notin CancelModes
    PROVE  LockInv /\ [Next]_vars => LockInv'
<1> SUFFICES ASSUME ExclInv, ExactInv, [Next]_vars PROVE ExclInv' /\ ExactInv'
    BY Zenon DEF LockInv, ExactInv
<1>1. ExclInv'
    BY ExclStep
<1>2. CASE UNCHANGED <<lock, timers>> /\ CursorInv'
  <2>1. UNCHANGED <<exists, mode, sharers, want, st, waiters, stale, bad, timed, zeros, tmos, altered>>
    BY <1>2 DEF lock, timers
  <2>2. TimerInv' /\ QueueInv' /\ AssertionsHold'
    BY <2>1 DEF ExactInv, TimerInv, QueueInv, AssertionsHold
  <2>3. CountInv'
    <3>1. \A q \in Procs : Has(q)' <=> Has(q)
        BY <2>1 DEF Has
    <3>2. Readers' = Readers
        BY <2>1, <3>1 DEF Readers
    <3> QED  BY <2>1, <3>1, <3>2 DEF ExactInv, CountInv
  <2> QED  BY <1>1, <1>2, <2>2, <2>3 DEF ExactInv
<1>3. \A x : UNCHANGED <<lock, timers>> /\ InTree(x) => InTree(x)'
    BY DEF lock, timers, InTree
<1>4. ASSUME NEW n \in 0..Len(tmos), PassStart(n) PROVE ExactInv'
  <2>1. InTree(FirstTimer)
    BY FirstInTree DEF ExclInv
  <2>2. InTree(tp)'
    BY <1>3, <1>4, <2>1 DEF PassStart, InTree, lock, timers
  <2> QED  BY <1>2, <1>4, <2>2 DEF PassStart, CursorInv
<1>5. CASE CallbackReturn
  <2>1. InTree(IF altered THEN FirstTimer ELSE ntp)
    BY <1>5, FirstInTree DEF CallbackReturn, ExclInv, ExactInv, CursorInv
  <2>2. InTree(tp)'
    BY <1>3, <1>5, <2>1 DEF CallbackReturn, InTree, lock, timers
  <2> QED  BY <1>2, <1>5, <2>2 DEF CallbackReturn, CursorInv
<1>6. CASE PassDone
    BY <1>2, <1>6 DEF PassDone, CursorInv
<1>7. CASE UNCHANGED vars
  <2>1. CursorInv'
    BY <1>7 DEF vars, lock, timers, pass, ExactInv, CursorInv, InTree
  <2> QED  BY <1>2, <1>7, <2>1 DEF vars
<1> QED  BY <1>1, <1>4, <1>5, <1>6, <1>7, AcquireExact, ReleaseExact, DropExact, UserCancelExact,
            RunZeroExact, RunTimeoutExact DEF Next

\* The invariant of the lock, its queue and its timers.
LEMMA LockInvHolds ==
    ASSUME "SHARED" \notin CancelModes
    PROVE  Spec => []LockInv
<1>1. Init => LockInv
    BY ExclInit, ExactInit, Zenon DEF LockInv, ExactInv
<1> QED  BY <1>1, ExactStep, PTL DEF Spec

\* As long as no request for reading is cancelled or times out, which is the
\* case the code does not handle (run tamelock_timeout), _sharers counts the
\* readers exactly, and the lock is open if and only if nobody has it and
\* then nobody waits: release () loses no grant and leaves no waiter behind.
THEOREM CountExactHolds ==
    ASSUME "SHARED" \notin CancelModes
    PROVE  Spec => []CountExact
<1>1. LockInv => CountExact
    BY Zenon DEF LockInv, CountInv, QueueInv, CountExact, Readers
<1> QED  BY <1>1, LockInvHolds, PTL

\* In the same case no assertion of acquire (), release () or decref () fails:
\* no reader is in the queue when the last reader releases, and the lock is
\* open when its last handle goes away.
THEOREM AssertionsHoldAlways ==
    ASSUME "SHARED" \notin CancelModes
    PROVE  Spec => []AssertionsHold
<1>1. LockInv => AssertionsHold
    BY DEF LockInv
<1> QED  BY <1>1, LockInvHolds, PTL
=============================================================================
