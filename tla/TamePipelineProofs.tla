------------------------- MODULE TamePipelineProofs -------------------------
(***************************************************************************)
(* The pipeline of libtame for any number of operations and any window.    *)
(***************************************************************************)
EXTENDS TamePipeline, FiniteSetTheorems, TLAPS

-----------------------------------------------------------------------------
(***************************************************************************)
(* Rendezvous.                                                             *)
(***************************************************************************)

\* A rendezvous with events from E and pending values from V.
RvType(E, V) ==
    [evs : SUBSET E, n : 0..(UintMod - 1), pending : Seq(V),
     waiting : BOOLEAN, flag : {"alive", "cancelled"}]

\* The unsigned count is exact as long as it does not pass zero.
LEMMA MinusOne ==
    ASSUME NEW n \in 1..(UintMod - 1)
    PROVE  Minus(n, 1) = n - 1
BY UintAssumption DEF Minus

\* Unsigned subtraction wraps.
LEMMA MinusType ==
    ASSUME NEW n \in Nat, NEW k \in Nat
    PROVE  Minus(n, k) \in 0..(UintMod - 1)
BY UintAssumption DEF Minus

\* The number of triggers left is exact as long as it does not wrap.
LEMMA TriggersLeftExact ==
    ASSUME NEW r, r.n + Len(r.pending) \in 0..(UintMod - 1)
    PROVE  TriggersLeft(r) = r.n + Len(r.pending)
BY UintAssumption DEF TriggersLeft

\* What an event that goes without a trigger changes.
LEMMA RemoveEventProp ==
    ASSUME NEW E, NEW V, NEW r \in RvType(E, V), NEW e
    PROVE  /\ RemoveEvent(r, e) \in RvType(E, V)
           /\ RemoveEvent(r, e).evs = r.evs \ {e}
           /\ RemoveEvent(r, e).n = Minus(r.n, 1)
           /\ RemoveEvent(r, e).pending = r.pending
           /\ RemoveEvent(r, e).flag = r.flag
<1>1. Minus(r.n, 1) \in 0..(UintMod - 1)
    BY MinusType, UintAssumption DEF RvType
<1> QED  BY <1>1 DEF RemoveEvent, RvType

\* What a trigger changes.
LEMMA JoinProp ==
    ASSUME NEW E, NEW V, NEW r \in RvType(E, V), NEW e, NEW v \in V
    PROVE  /\ Join(r, e, v) \in RvType(E, V)
           /\ Join(r, e, v).evs = r.evs \ {e}
           /\ Join(r, e, v).n = Minus(r.n, 1)
           /\ Join(r, e, v).pending = Append(r.pending, v)
           /\ ~Join(r, e, v).waiting
<1> DEFINE t == RemoveEvent(r, e)
<1>1. /\ t \in RvType(E, V)
      /\ t.evs = r.evs \ {e} /\ t.n = Minus(r.n, 1) /\ t.pending = r.pending
    BY RemoveEventProp
<1>2. Join(r, e, v) = [t EXCEPT !.pending = Append(@, v), !.waiting = FALSE]
    BY DEF Join
<1> HIDE DEF t
<1>3. Append(t.pending, v) \in Seq(V)
    BY <1>1 DEF RvType
<1> QED  BY <1>1, <1>2, <1>3 DEF RvType

\* What a wait that finds a value changes.
LEMMA ConsumeProp ==
    ASSUME NEW E, NEW V, NEW r \in RvType(E, V), r.pending # <<>>
    PROVE  /\ Consume(r) \in RvType(E, V)
           /\ Consume(r).evs = r.evs /\ Consume(r).n = r.n
           /\ Len(Consume(r).pending) = Len(r.pending) - 1
           /\ Consume(r).waiting <=> r.waiting
<1>1. Tail(r.pending) \in Seq(V) /\ Len(Tail(r.pending)) = Len(r.pending) - 1
    BY DEF RvType
<1> QED  BY <1>1 DEF Consume, RvType

\* What a new event changes.
LEMMA MkEventProp ==
    ASSUME NEW E, NEW V, NEW r \in RvType(E, V), NEW e \in E, r.n + 1 < UintMod
    PROVE  /\ MkEvent(r, e) \in RvType(E, V)
           /\ MkEvent(r, e).evs = r.evs \cup {e}
           /\ MkEvent(r, e).n = r.n + 1
           /\ MkEvent(r, e).pending = r.pending
           /\ MkEvent(r, e).waiting <=> r.waiting
<1>1. r.n + 1 \in 0..(UintMod - 1)
    BY UintAssumption DEF RvType
<1> QED  BY <1>1 DEF MkEvent, RvType

\* A cancelled rendezvous has no events and is never complained of, whatever
\* its count.
LEMMA CancelRvProp ==
    ASSUME NEW E, IsFiniteSet(E), NEW V, NEW r \in RvType(E, V)
    PROVE  /\ CancelRv(r) \in RvType(E, V)
           /\ CancelRv(r).evs = {}
           /\ ~OutOfScopeError(CancelRv(r))
<1>1. 2 * Cardinality(r.evs) \in Nat
    BY FS_Subset, FS_CardinalityType DEF RvType
<1>2. Minus(r.n, 2 * Cardinality(r.evs)) \in 0..(UintMod - 1)
    BY <1>1, MinusType DEF RvType
<1> QED  BY <1>2 DEF CancelRv, RvType, OutOfScopeError

-----------------------------------------------------------------------------
(***************************************************************************)
(* The inductive invariant.                                                *)
(***************************************************************************)

PipeVals == {"nil"}
ConnEvs == {"timer", "out", "notifier"}
ConnVals == {"succ", "discarded", "timedout"}
ConnType == RvType(ConnEvs, ConnVals)

TypeInv ==
    /\ rv \in RvType(Ops, PipeVals) /\ conn \in [Ops -> ConnType]
    /\ pc \in {"for", "win", "op", "launched", "all", "done", "gone"}
    /\ i \in 0..NOps /\ after \in Nat
    /\ op \in [Ops -> {"none", "alive", "cancelled", "cleared", "gone"}]
    /\ fired \in [Ops -> Nat]
    /\ timers \subseteq Ops /\ expired \subseteq Ops

\* The rendezvous of the pipeline has an event for each operation that goes
\* on, counts them exactly, and together with the values to be consumed they
\* stay within the window; run () leaves only when there is nothing left.
RvInv ==
    /\ rv.evs = {o \in Ops : op[o] # "none" /\ fired[o] = 0}
    /\ rv.n = Cardinality(rv.evs)
    /\ rv.n + Len(rv.pending) <= Wsz
    /\ pc = "op" => rv.n + Len(rv.pending) < Wsz
    /\ pc \in {"done", "gone"} => rv.n + Len(rv.pending) = 0
    /\ rv.waiting => pc \in {"win", "all"}

\* The operations before the index were started, each once; what can still
\* trigger belongs to an operation that has not answered.
OpInv ==
    /\ \A o \in Ops :
          /\ op[o] # "none" <=> o < i \/ (pc = "launched" /\ o = i)
          /\ op[o] = "none" => fired[o] = 0
          /\ fired[o] <= 1
          /\ conn[o].evs # {} \/ o \in timers => op[o] # "none" /\ fired[o] = 0
    /\ pc \in {"win", "op", "launched"} => i < NOps

\* An operation is started after cancel () only by the launch () that was
\* waiting for the window, and run () leaves the loop after it.
AfterInv == after = 0 \/ (after = 1 /\ cancelled /\ pc \notin {"win", "op"})

\* An event that is alive was not answered; one that is cancelled belongs to
\* an operation whose timer expired, one that is cleared to one that was in
\* time.
FlagInv ==
    \A o \in Ops :
        /\ op[o] = "alive" => fired[o] = 0
        /\ op[o] = "cancelled" => o \in expired
        /\ op[o] = "cleared" => o \notin expired /\ fired[o] = 1
        /\ o \in expired => fired[o] = 1

IInv == TypeInv /\ RvInv /\ OpInv /\ FlagInv /\ AfterInv /\ TameErrorsJustified

\* There are finitely many events.
LEMMA OpsFinite == IsFiniteSet(Ops) /\ IsFiniteSet(ConnEvs)
<1>1. IsFiniteSet(Ops)
    BY FS_Interval, PipelineAssumption DEF Ops
<1>2. IsFiniteSet(ConnEvs)
  <2>1. IsFiniteSet({"timer"}) /\ IsFiniteSet({"timer"} \cup {"out"})
    BY FS_Singleton, FS_AddElement
  <2>2. IsFiniteSet(({"timer"} \cup {"out"}) \cup {"notifier"})
    BY <2>1, FS_AddElement
  <2>3. ({"timer"} \cup {"out"}) \cup {"notifier"} = ConnEvs
    BY DEF ConnEvs
  <2> QED  BY <2>2, <2>3
<1> QED  BY <1>1, <1>2

\* The events of the pipeline, and their count, are those of finite sets.
LEMMA EvsFinite ==
    ASSUME TypeInv
    PROVE  IsFiniteSet(rv.evs) /\ Cardinality(rv.evs) \in Nat
BY OpsFinite, FS_Subset, FS_CardinalityType DEF TypeInv, RvType

\* The count of triggers left is exact, as the window is smaller than an
\* unsigned integer.
LEMMA LeftExact ==
    ASSUME TypeInv, RvInv
    PROVE  TriggersLeft(rv) = rv.n + Len(rv.pending)
<1>1. rv.n + Len(rv.pending) \in 0..(UintMod - 1)
    BY PipelineAssumption, UintAssumption DEF TypeInv, RvInv, RvType
<1> QED  BY <1>1, TriggersLeftExact

\* A connector that is resumed, by its operation or its timer, ends that
\* operation and nothing else.
LEMMA ResumeStep ==
    ASSUME IInv, NEW o \in Ops, NEW r \in ConnType, r.pending # <<>>,
           NEW ok \in BOOLEAN, op[o] # "none", fired[o] = 0,
           Resume(o, r, ok), UNCHANGED <<pc, i, after, strict>>,
           NEW f \in {"cancelled", "cleared", "gone"}, op' = [op EXCEPT ![o] = f],
           expired' = expired \/ (expired' = expired \cup {o} /\ f # "cleared"),
           f = "cancelled" => o \in expired'
    PROVE  IInv'
<1> USE DEF IInv
<1> DEFINE s == DropTimer(Consume(r))
           over == CancelRv(s)
<1>1. over \in ConnType /\ over.evs = {} /\ ~OutOfScopeError(over)
  <2>1. Consume(r) \in ConnType
    BY ConsumeProp DEF ConnType
  <2>2. s \in ConnType
    BY <2>1, RemoveEventProp DEF ConnType, DropTimer
  <2> HIDE DEF s
  <2> QED  BY <2>2, OpsFinite, CancelRvProp DEF ConnType
<1>2. o \in rv.evs
    BY DEF RvInv
<1>3. rv.n \in 1..(UintMod - 1) /\ pc \notin {"done", "gone"}
  <2>1. rv.n # 0
    BY <1>2, EvsFinite, FS_EmptySet DEF RvInv
  <2>2. rv.n \in 0..(UintMod - 1) /\ Len(rv.pending) \in Nat
    BY DEF TypeInv, RvType
  <2> QED  BY <2>1, <2>2 DEF RvInv
<1>4. /\ conn' = [conn EXCEPT ![o] = over]
      /\ timers' = timers \ {o} /\ fired' = [fired EXCEPT ![o] = 1]
      /\ errors' = errors /\ rv' = Join(rv, o, "nil")
      /\ cancelled => cancelled'
  <2> HIDE DEF over
  <2>1. Resume(o, r, ok) => /\ conn' = [conn EXCEPT ![o] = over]
                            /\ timers' = timers \ {o}
                            /\ fired' = [fired EXCEPT ![o] = @ + 1]
                            /\ errors' = errors
                                 \cup (IF OutOfScopeError(over) THEN {<<"out of scope", o>>} ELSE {})
                                 \cup (IF pc = "gone" THEN {<<"deallocated", o>>} ELSE {})
                                 \cup {}
                            /\ cancelled' = (cancelled \/ ~ok)
                            /\ rv' = IF pc = "gone" THEN rv ELSE Join(rv, o, "nil")
    <3>1. CanTrigger(IF fired[o] = 0 THEN "alive" ELSE "inner")
        BY DEF CanTrigger
    <3>2. TriggerErrors(o, IF fired[o] = 0 THEN "alive" ELSE "inner") = {}
        BY <3>1, Zenon DEF TriggerErrors
    <3> QED  BY <3>1, <3>2, Zenon DEF Resume, over, s
  <2>2. cancelled => cancelled'
    BY <2>1, Zenon
  <2>3. fired'[o] = 1 /\ fired' = [fired EXCEPT ![o] = 1]
    <3>1. fired' = [fired EXCEPT ![o] = @ + 1]
        BY <2>1, Zenon
    <3> QED  BY <3>1 DEF TypeInv
  <2>4. errors' = errors /\ rv' = Join(rv, o, "nil")
    BY <1>1, <1>3, <2>1
  <2> QED  BY <2>1, <2>2, <2>3, <2>4, Zenon
<1> HIDE DEF over
<1>5. /\ rv' \in RvType(Ops, PipeVals)
      /\ rv'.evs = rv.evs \ {o} /\ rv'.n = rv.n - 1 /\ ~rv'.waiting
      /\ rv'.pending = Append(rv.pending, "nil")
  <2>1. "nil" \in PipeVals /\ rv \in RvType(Ops, PipeVals)
    BY DEF TypeInv, PipeVals
  <2>2. /\ Join(rv, o, "nil") \in RvType(Ops, PipeVals)
        /\ Join(rv, o, "nil").evs = rv.evs \ {o}
        /\ Join(rv, o, "nil").n = Minus(rv.n, 1)
        /\ Join(rv, o, "nil").pending = Append(rv.pending, "nil")
        /\ ~Join(rv, o, "nil").waiting
    BY <2>1, JoinProp
  <2>3. Minus(rv.n, 1) = rv.n - 1
    BY <1>3, MinusOne
  <2> QED  BY <1>4, <2>2, <2>3, Zenon
<1>6. Len(rv'.pending) = Len(rv.pending) + 1 /\ Len(rv.pending) \in Nat
    BY <1>5 DEF TypeInv, RvType
<1>7. TypeInv'
    BY <1>1, <1>4, <1>5 DEF TypeInv
<1>8. RvInv'
  <2>1. rv'.evs = {q \in Ops : op'[q] # "none" /\ fired'[q] = 0}
    BY <1>4, <1>5 DEF RvInv, TypeInv
  <2>2. rv'.n = Cardinality(rv'.evs)
    <3>1. IsFiniteSet(rv.evs)
        BY EvsFinite
    <3>2. Cardinality(rv.evs \ {o}) = Cardinality(rv.evs) - 1
        BY <3>1, <1>2, FS_RemoveElement
    <3> QED  BY <3>2, <1>5 DEF RvInv
  <2>3. /\ rv'.n + Len(rv'.pending) <= Wsz
        /\ pc' = "op" => rv'.n + Len(rv'.pending) < Wsz
        /\ pc' \notin {"done", "gone"}
    BY <1>3, <1>5, <1>6, PipelineAssumption DEF RvInv
  <2>4. rv'.waiting => pc' \in {"win", "all"}
    BY <1>5, Zenon
  <2> QED  BY <2>1, <2>2, <2>3, <2>4, Zenon DEF RvInv
<1>9. OpInv'
    BY <1>1, <1>4 DEF OpInv, TypeInv
<1>10. AfterInv'
    BY <1>4 DEF AfterInv
<1>11. o \notin expired
    BY DEF FlagInv
<1>12. FlagInv'
    BY <1>4, <1>11 DEF FlagInv, TypeInv
<1>13. TameErrorsJustified'
    BY <1>4, <1>11 DEF TameErrorsJustified, TypeInv
<1> QED  BY <1>7, <1>8, <1>9, <1>10, <1>12, <1>13

\* A triggered event leaves its value in the connector's rendezvous.
LEMMA ConnJoin ==
    ASSUME NEW c \in ConnType, NEW e, NEW v \in ConnVals
    PROVE  Join(c, e, v) \in ConnType /\ Join(c, e, v).pending # <<>>
<1>1. /\ Join(c, e, v) \in ConnType
      /\ Join(c, e, v).pending = Append(c.pending, v)
    BY JoinProp DEF ConnType
<1>2. c.pending \in Seq(ConnVals)
    BY DEF ConnType, RvType
<1> QED  BY <1>1, <1>2

\* launch () adds one event to the window.
LEMMA LaunchStep ==
    ASSUME IInv, Launch
    PROVE  IInv'
<1> USE DEF IInv
<1> DEFINE c == [MkEvent(MkEvent(MkEvent(NewRv, "timer"), "out"), "notifier")
                   EXCEPT !.waiting = TRUE]
<1>1. i \in Ops /\ op[i] = "none" /\ fired[i] = 0 /\ i \notin rv.evs
    BY PipelineAssumption DEF Launch, OpInv, RvInv, TypeInv, Ops
<1>2. c \in ConnType
  <2> DEFINE c1 == MkEvent(NewRv, "timer")
             c2 == MkEvent(c1, "out")
             c3 == MkEvent(c2, "notifier")
  <2>1. NewRv \in ConnType /\ NewRv.n = 0
    BY UintAssumption DEF NewRv, RvType, ConnType
  <2>2. "timer" \in ConnEvs /\ "out" \in ConnEvs /\ "notifier" \in ConnEvs
    BY DEF ConnEvs
  <2>3. c1 \in ConnType /\ c1.n = 1
    BY <2>1, <2>2, MkEventProp, UintAssumption DEF ConnType
  <2> HIDE DEF c1
  <2>4. c2 \in ConnType /\ c2.n = 2
    BY <2>2, <2>3, MkEventProp, UintAssumption DEF ConnType
  <2> HIDE DEF c2
  <2>5. c3 \in ConnType
    BY <2>2, <2>4, MkEventProp, UintAssumption DEF ConnType
  <2>6. c = [c3 EXCEPT !.waiting = TRUE]
    BY DEF c1, c2
  <2> HIDE DEF c, c3
  <2> QED  BY <2>5, <2>6 DEF ConnType, RvType
<1> HIDE DEF c
<1>3. /\ rv' = MkEvent(rv, i) /\ conn' = [conn EXCEPT ![i] = c]
      /\ timers' = timers \cup {i} /\ op' = [op EXCEPT ![i] = "alive"]
      /\ after' = IF cancelled THEN after + 1 ELSE after
      /\ pc = "op" /\ pc' = "launched"
      /\ UNCHANGED <<i, cancelled, fired, expired, strict, errors>>
    BY DEF Launch, c
<1>4. rv.n \in Nat /\ Len(rv.pending) \in Nat /\ rv.n + Len(rv.pending) < Wsz /\ ~rv.waiting
    BY <1>3 DEF TypeInv, RvType, RvInv
<1>5. /\ rv' \in RvType(Ops, PipeVals)
      /\ rv'.evs = rv.evs \cup {i} /\ rv'.n = rv.n + 1 /\ rv'.pending = rv.pending
      /\ ~rv'.waiting
  <2>1. rv.n + 1 < UintMod
    BY <1>4, PipelineAssumption, UintAssumption
  <2>2. rv \in RvType(Ops, PipeVals)
    BY DEF TypeInv
  <2> QED  BY <1>1, <1>3, <1>4, <2>1, <2>2, MkEventProp
<1>6. TypeInv'
    BY <1>1, <1>2, <1>3, <1>5 DEF TypeInv
<1>7. RvInv'
  <2>1. rv'.evs = {q \in Ops : op'[q] # "none" /\ fired'[q] = 0}
    BY <1>1, <1>3, <1>5 DEF RvInv, TypeInv
  <2>2. rv'.n = Cardinality(rv'.evs)
    <3>1. IsFiniteSet(rv.evs)
        BY EvsFinite
    <3>2. Cardinality(rv.evs \cup {i}) = Cardinality(rv.evs) + 1
        BY <3>1, <1>1, FS_AddElement
    <3> QED  BY <3>2, <1>5 DEF RvInv
  <2>3. rv'.n + Len(rv'.pending) <= Wsz
    BY <1>4, <1>5, PipelineAssumption
  <2> QED  BY <1>3, <1>5, <2>1, <2>2, <2>3 DEF RvInv
<1>8. OpInv'
    BY <1>1, <1>3 DEF OpInv, TypeInv
<1>9. AfterInv' /\ FlagInv' /\ TameErrorsJustified'
  <2>1. AfterInv'
    BY <1>3 DEF AfterInv
  <2>2. FlagInv'
    BY <1>1, <1>3 DEF FlagInv, TypeInv
  <2>3. TameErrorsJustified'
    BY <1>3 DEF TameErrorsJustified
  <2> QED  BY <2>1, <2>2, <2>3
<1> QED  BY <1>6, <1>7, <1>8, <1>9

\* wait_n () waits only for events that are out.
LEMMA WaitNStep ==
    ASSUME IInv, WaitN
    PROVE  IInv'
<1> USE DEF IInv
<1>1. /\ pc \in {"win", "all"} /\ ~rv.waiting
      /\ UNCHANGED <<i, cancelled, conn, op, timers, fired, after, expired, strict, errors>>
    BY DEF WaitN
<1>2. rv.n \in Nat /\ Len(rv.pending) \in Nat /\ rv \in RvType(Ops, PipeVals)
    BY DEF TypeInv, RvType
<1>3. CASE TriggersLeft(rv) > Limit /\ rv.pending # <<>>
  <2>1. rv' = Consume(rv) /\ pc' = pc
    BY <1>3 DEF WaitN
  <2>2. /\ rv' \in RvType(Ops, PipeVals) /\ rv'.evs = rv.evs /\ rv'.n = rv.n
        /\ Len(rv'.pending) = Len(rv.pending) - 1 /\ ~rv'.waiting
    BY <1>1, <1>2, <1>3, <2>1, ConsumeProp
  <2>3. TypeInv' /\ OpInv' /\ FlagInv' /\ TameErrorsJustified'
    BY <1>1, <2>1, <2>2 DEF TypeInv, OpInv, FlagInv, TameErrorsJustified
  <2>4. RvInv' /\ AfterInv'
    BY <1>1, <1>2, <2>1, <2>2, PipelineAssumption DEF RvInv, AfterInv
  <2> QED  BY <2>3, <2>4
<1>4. CASE TriggersLeft(rv) > Limit /\ rv.pending = <<>>
  <2>1. rv' = [rv EXCEPT !.waiting = TRUE] /\ pc' = pc
    BY <1>4 DEF WaitN
  <2>2. /\ rv' \in RvType(Ops, PipeVals) /\ rv'.evs = rv.evs /\ rv'.n = rv.n
        /\ rv'.pending = rv.pending
    BY <1>2, <2>1 DEF RvType
  <2>3. TypeInv' /\ OpInv' /\ FlagInv' /\ TameErrorsJustified'
    BY <1>1, <2>1, <2>2 DEF TypeInv, OpInv, FlagInv, TameErrorsJustified
  <2>4. RvInv' /\ AfterInv'
    BY <1>1, <1>2, <2>1, <2>2 DEF RvInv, AfterInv
  <2> QED  BY <2>3, <2>4
<1>5. CASE ~(TriggersLeft(rv) > Limit)
  <2>1. rv' = rv /\ pc' = IF pc = "win" THEN "op" ELSE "done"
    BY <1>5 DEF WaitN
  <2>2. rv.n + Len(rv.pending) <= Limit
    BY <1>2, <1>5, LeftExact, PipelineAssumption DEF Limit
  <2>3. TypeInv' /\ OpInv' /\ FlagInv' /\ TameErrorsJustified'
    BY <1>1, <2>1 DEF TypeInv, OpInv, FlagInv, TameErrorsJustified
  <2>4. RvInv'
    <3>1. pc' = "op" => rv.n + Len(rv.pending) < Wsz
        BY <1>1, <1>2, <2>1, <2>2, PipelineAssumption DEF Limit
    <3>2. pc' = "done" => rv.n + Len(rv.pending) = 0
        BY <1>1, <1>2, <2>1, <2>2 DEF Limit
    <3>3. pc' \in {"op", "done"}
        BY <2>1
    <3> QED  BY <1>1, <2>1, <3>1, <3>2, <3>3 DEF RvInv
  <2>5. AfterInv'
    BY <1>1, <2>1 DEF AfterInv
  <2> QED  BY <2>3, <2>4, <2>5
<1> QED  BY <1>3, <1>4, <1>5

\* Every step preserves the invariant.
LEMMA IInvStep == IInv /\ [Next]_vars => IInv'
<1> SUFFICES ASSUME IInv, [Next]_vars PROVE IInv'
    OBVIOUS
<1> USE DEF IInv
<1>1. CASE RunFor
  <2>1. TypeInv' /\ OpInv'
    BY <1>1 DEF RunFor, KeepGoing, TypeInv, OpInv
  <2>2. RvInv' /\ FlagInv'
    BY <1>1 DEF RunFor, KeepGoing, TypeInv, RvInv, FlagInv
  <2>3. AfterInv' /\ TameErrorsJustified'
    BY <1>1 DEF RunFor, KeepGoing, TypeInv, AfterInv, TameErrorsJustified
  <2> QED  BY <2>1, <2>2, <2>3
<1>2. CASE WaitN
    BY <1>2, WaitNStep
<1>3. CASE Launch
    BY <1>3, LaunchStep
<1>4. CASE LaunchReturn
  <2>1. /\ pc = "launched" /\ pc' = "for" /\ i' = i + 1 /\ i < NOps
        /\ UNCHANGED <<rv, cancelled, conn, op, timers, fired, after, expired, strict, errors>>
    BY <1>4 DEF LaunchReturn, OpInv
  <2>2. TypeInv' /\ RvInv' /\ FlagInv' /\ AfterInv' /\ TameErrorsJustified'
    <3>1. TypeInv'
        BY <2>1, PipelineAssumption DEF TypeInv
    <3>2. RvInv'
        BY <2>1 DEF RvInv
    <3>3. AfterInv' /\ FlagInv' /\ TameErrorsJustified'
        BY <2>1 DEF AfterInv, FlagInv, TameErrorsJustified
    <3> QED  BY <3>1, <3>2, <3>3
  <2>3. OpInv'
    <3>1. ASSUME NEW o \in Ops
          PROVE  o < i' \/ (pc' = "launched" /\ o = i') <=> o < i \/ (pc = "launched" /\ o = i)
        BY <2>1, PipelineAssumption DEF TypeInv, Ops
    <3> QED  BY <2>1, <3>1 DEF OpInv
  <2> QED  BY <2>2, <2>3
<1>5. CASE Destroy
  <2>1. TriggersLeft(rv) = 0
    BY <1>5, LeftExact DEF Destroy, RvInv
  <2>2. ~OutOfScopeError(rv)
    BY <2>1 DEF OutOfScopeError
  <2>3. TypeInv' /\ OpInv'
    BY <1>5, <2>2 DEF Destroy, TypeInv, OpInv
  <2>4. RvInv' /\ FlagInv'
    BY <1>5, <2>2 DEF Destroy, TypeInv, RvInv, FlagInv
  <2>5. AfterInv' /\ TameErrorsJustified'
    BY <1>5, <2>2 DEF Destroy, AfterInv, TameErrorsJustified
  <2> QED  BY <2>3, <2>4, <2>5
<1>6. CASE CancelPipeline
  <2>1. TypeInv' /\ OpInv'
    BY <1>6 DEF CancelPipeline, TypeInv, OpInv
  <2>2. RvInv' /\ FlagInv'
    BY <1>6 DEF CancelPipeline, TypeInv, RvInv, FlagInv
  <2>3. AfterInv' /\ TameErrorsJustified'
    BY <1>6 DEF CancelPipeline, TypeInv, AfterInv, TameErrorsJustified
  <2> QED  BY <2>1, <2>2, <2>3
<1>7. ASSUME NEW o \in Ops, Trigger(o) PROVE IInv'
  <2>1. CASE CanTrigger(op[o])
    <3> DEFINE r == Join(conn[o], "out", "succ")
    <3>1. r \in ConnType /\ r.pending # <<>>
        BY ConnJoin DEF TypeInv, ConnVals
    <3>2. op[o] # "none" /\ fired[o] = 0
        BY <2>1 DEF CanTrigger, FlagInv
    <3>3. PICK ok \in BOOLEAN : Resume(o, r, ok)
        BY <1>7, <2>1 DEF Trigger
    <3>4. PICK f \in {"cleared", "gone"} : op' = [op EXCEPT ![o] = f]
        BY <1>7, <2>1 DEF Trigger
    <3>5. UNCHANGED <<pc, i, after, expired, strict>>
        BY <1>7 DEF Trigger
    <3> HIDE DEF r
    <3> QED  BY <3>1, <3>2, <3>3, <3>4, <3>5, ResumeStep
  <2>2. CASE ~CanTrigger(op[o])
    <3>1. /\ op' = [op EXCEPT ![o] = "gone"] /\ op[o] \in {"cancelled", "cleared"}
          /\ errors' = errors \cup TriggerErrors(o, op[o])
          /\ UNCHANGED <<rv, conn, timers, cancelled, fired, pc, i, after, expired, strict>>
        BY <1>7, <2>2 DEF Trigger, Holds, CanTrigger
    <3>2. TypeInv' /\ RvInv' /\ OpInv' /\ FlagInv' /\ AfterInv'
      <4>1. TypeInv' /\ OpInv'
        BY <3>1 DEF TypeInv, OpInv
      <4>2. RvInv' /\ FlagInv' /\ AfterInv'
        BY <3>1 DEF TypeInv, RvInv, FlagInv, AfterInv
      <4> QED  BY <4>1, <4>2
    <3>3. ASSUME NEW x \in errors'
          PROVE  \/ x[1] = "cancelled" /\ strict' /\ x[2] \in expired'
                 \/ x[1] = "cleared" /\ x[2] \in Ops \ expired' /\ fired'[x[2]] = 1
      <4>1. CASE x \in errors
        BY <3>1, <4>1 DEF TameErrorsJustified
      <4>2. CASE x \notin errors
        <5>1. x = <<op[o], o>> /\ (op[o] = "cancelled" => strict)
            BY <2>2, <3>1, <4>2 DEF TriggerErrors
        <5> QED  BY <3>1, <5>1 DEF FlagInv
      <4> QED  BY <4>1, <4>2
    <3>4. TameErrorsJustified'
        BY <3>3 DEF TameErrorsJustified
    <3> QED  BY <3>2, <3>4
  <2> QED  BY <2>1, <2>2
<1>8. ASSUME NEW o \in Ops, CancelEvent(o) PROVE IInv'
  <2>1. CASE "notifier" \in conn[o].evs
    <3> DEFINE r == Join(RemoveEvent(conn[o], "out"), "notifier", "discarded")
    <3>1. r \in ConnType /\ r.pending # <<>>
      <4>1. RemoveEvent(conn[o], "out") \in ConnType
        BY RemoveEventProp DEF TypeInv, ConnType
      <4> QED  BY <4>1, ConnJoin DEF ConnVals
    <3>2. op[o] # "none" /\ fired[o] = 0
        BY <2>1 DEF OpInv
    <3>3. PICK ok \in BOOLEAN : Resume(o, r, ok)
        BY <1>8, <2>1 DEF CancelEvent
    <3>4. op' = [op EXCEPT ![o] = "gone"] /\ UNCHANGED <<pc, i, after, expired, strict>>
        BY <1>8 DEF CancelEvent
    <3> HIDE DEF r
    <3> QED  BY <3>1, <3>2, <3>3, <3>4, ResumeStep
  <2>2. CASE "notifier" \notin conn[o].evs
    <3>1. /\ op' = [op EXCEPT ![o] = "gone"] /\ op[o] # "none"
          /\ UNCHANGED <<rv, conn, timers, cancelled, fired, errors, pc, i, after, expired, strict>>
        BY <1>8, <2>2 DEF CancelEvent, Holds
    <3>2. TypeInv' /\ OpInv'
        BY <3>1 DEF TypeInv, OpInv
    <3>3. RvInv' /\ FlagInv'
        BY <3>1 DEF TypeInv, RvInv, FlagInv
    <3>4. AfterInv' /\ TameErrorsJustified'
        BY <3>1 DEF AfterInv, TameErrorsJustified
    <3> QED  BY <3>2, <3>3, <3>4
  <2> QED  BY <2>1, <2>2
<1>9. ASSUME NEW o \in Ops, DropEvent(o) PROVE IInv'
  <2> DEFINE c == RemoveEvent(RemoveEvent(conn[o], "out"), "notifier")
  <2>1. c \in ConnType /\ c.evs \subseteq conn[o].evs
    BY RemoveEventProp DEF TypeInv, ConnType
  <2>2. conn' = conn \/ conn' = [conn EXCEPT ![o] = c]
    BY <1>9 DEF DropEvent
  <2>3. /\ op' = [op EXCEPT ![o] = "gone"] /\ op[o] # "none"
        /\ UNCHANGED <<rv, pc, i, cancelled, timers, fired, after, expired, strict, errors>>
    BY <1>9 DEF DropEvent, Holds
  <2> HIDE DEF c
  <2>4. TypeInv' /\ OpInv'
    BY <2>1, <2>2, <2>3 DEF TypeInv, OpInv
  <2>5. RvInv' /\ FlagInv'
    BY <2>3 DEF TypeInv, RvInv, FlagInv
  <2>6. AfterInv' /\ TameErrorsJustified'
    BY <2>3 DEF AfterInv, TameErrorsJustified
  <2> QED  BY <2>4, <2>5, <2>6
<1>10. ASSUME NEW o \in Ops, Timeout(o) PROVE IInv'
  <2> DEFINE r == Join(conn[o], "timer", "timedout")
  <2>1. r \in ConnType /\ r.pending # <<>>
    BY ConnJoin DEF TypeInv, ConnVals
  <2>2. op[o] # "none" /\ fired[o] = 0
    BY <1>10 DEF Timeout, OpInv
  <2>3. PICK ok \in BOOLEAN : Resume(o, r, ok)
    BY <1>10 DEF Timeout
  <2>4. PICK f \in {"cancelled", "gone"} : op' = [op EXCEPT ![o] = f]
    <3>1. op[o] \in {"alive", "cancelled", "gone"}
        BY <2>2 DEF TypeInv, FlagInv
    <3>2. op[o] = "alive" => op' = [op EXCEPT ![o] = "cancelled"]
        BY <1>10 DEF Timeout
    <3>3. op[o] # "alive" => op' = [op EXCEPT ![o] = op[o]]
        BY <1>10 DEF Timeout, TypeInv
    <3> QED  BY <3>1, <3>2, <3>3
  <2>5. expired' = expired \cup {o} /\ UNCHANGED <<pc, i, after, strict>>
    BY <1>10 DEF Timeout
  <2> HIDE DEF r
  <2> QED  BY <2>1, <2>2, <2>3, <2>4, <2>5, ResumeStep
<1>11. CASE UNCHANGED vars
  <2>1. TypeInv' /\ OpInv'
    BY <1>11 DEF vars, TypeInv, OpInv
  <2>2. RvInv' /\ FlagInv'
    BY <1>11 DEF vars, RvInv, FlagInv
  <2>3. AfterInv' /\ TameErrorsJustified'
    BY <1>11 DEF vars, AfterInv, TameErrorsJustified
  <2> QED  BY <2>1, <2>2, <2>3
<1> QED
    BY <1>1, <1>2, <1>3, <1>4, <1>5, <1>6, <1>7, <1>8, <1>9, <1>10, <1>11
    DEF Next, RunStep

\* The invariant of a pipeline, its rendezvous and its connectors.
LEMMA Invariance == Spec => []IInv
<1>1. Init => IInv
  <2> SUFFICES ASSUME Init PROVE IInv
    OBVIOUS
  <2>1. NewRv \in RvType(Ops, PipeVals) /\ NewRv \in ConnType
    BY UintAssumption DEF NewRv, RvType, ConnType
  <2>2. Cardinality({}) = 0
    BY FS_EmptySet
  <2>3. NewRv.evs = {} /\ NewRv.n = 0 /\ NewRv.pending = <<>> /\ ~NewRv.waiting
    BY DEF NewRv
  <2> QED  BY <2>1, <2>2, <2>3, PipelineAssumption
           DEF Init, IInv, TypeInv, RvInv, OpInv, FlagInv, AfterInv, TameErrorsJustified, Ops
<1> QED  BY <1>1, IInvStep, PTL DEF Spec

\* do_pipeline () never has more than _wsz operations going.
THEOREM WindowKeptHolds == Spec => []WindowKept
<1>1. IInv => WindowKept
    BY PipelineAssumption DEF IInv, TypeInv, RvType, RvInv, WindowKept
<1> QED  BY <1>1, Invariance, PTL

\* However operations and the timers of their connectors race, each event of
\* the pipeline is triggered once, and do_pipeline () is done only when all
\* operations that it started are.
THEOREM DoneExactHolds == Spec => []DoneExact
<1>1. IInv => DoneExact
  <2> SUFFICES ASSUME IInv, NEW o \in Ops, pc \in {"done", "gone"}, op[o] # "none"
               PROVE  fired[o] = 1
    BY DEF IInv, OpInv, DoneExact
  <2>1. rv.n = 0
    BY DEF IInv, TypeInv, RvType, RvInv
  <2>2. rv.evs = {}
    BY <2>1, EvsFinite, FS_EmptySet DEF IInv, RvInv
  <2> QED  BY <2>2 DEF IInv, RvInv, OpInv, TypeInv
<1> QED  BY <1>1, Invariance, PTL

\* After cancel (), or after an operation that failed, at most one more
\* operation is started.
THEOREM OneAfterCancelHolds == Spec => []OneAfterCancel
<1>1. IInv => OneAfterCancel
    BY DEF IInv, AfterInv, OneAfterCancel
<1> QED  BY <1>1, Invariance, PTL

\* tame_error () complains only of operations that trigger a second time and,
\* in strict mode, of those that trigger after their timer: no rendezvous goes
\* out of scope with events out, and no event is triggered after the pipeline
\* is gone.
THEOREM TameErrorsJustifiedHolds == Spec => []TameErrorsJustified
<1>1. IInv => TameErrorsJustified
    BY DEF IInv
<1> QED  BY <1>1, Invariance, PTL
=============================================================================
