------------------------ MODULE UnreliableRpcProofs -------------------------
(***************************************************************************)
(* The retransmission queues of a client over datagrams are exact, and a   *)
(* server executes no call again while its reply should be in the cache,   *)
(* for any number of calls, queues and cached replies.                     *)
(***************************************************************************)
EXTENDS UnreliableRpc, ListsProofs

\* A call is in one queue at most, and once; a queue is in order of expiry;
\* no call waits longer than its queue's delay, and a pending timer comes
\* before every call of its queue.
Ordered(qs, lf, pend, tim) ==
    /\ \A q \in Queues : IsInjective(qs[q])
    /\ \A q, r \in Queues : \A x \in ToSet(qs[q]) : x \in ToSet(qs[r]) => q = r
    /\ \A q \in Queues : \A i, j \in DOMAIN qs[q] : i < j => lf[qs[q][i]] <= lf[qs[q][j]]
    /\ \A q \in Queues : \A x \in ToSet(qs[q]) : lf[x] <= Delay(q)
    /\ \A q \in Queues : \A x \in ToSet(qs[q]) : pend[q] => tim[q] <= lf[x]

QueueTypes ==
    /\ st \in [Xids -> States]
    /\ \A x \in tmo : x \in Xids /\ st[x] = "out"
    /\ queue \in [Queues -> Seq(Xids)] /\ left \in [Xids -> Nat]
    /\ pending \in [Queues -> BOOLEAN] /\ timer \in [Queues -> Nat]
    /\ pc \in {"loop", "runq", "cb"} /\ qn \in Queues

\* A queue that is not being run has its timer.  A stale timer, made for a
\* call that has left, comes no later than a new call of its queue needs it.
QueueInv ==
    /\ QueueTypes
    /\ Ordered(queue, left, pending, timer)
    /\ \A x \in Xids : st[x] = "out" <=> \E q \in Queues : x \in ToSet(queue[q])
    /\ \A q \in Queues : timer[q] <= Delay(q)
    /\ \A q \in Queues : queue[q] # <<>> /\ (pc = "loop" \/ q # qn) => pending[q]

\* A call is in progress once at most, and not while its reply is cached.  A
\* reply that was sent and cached is still there, with no more replies behind
\* it than were cached since, unless maxrsize of them were.
ReplayInv ==
    /\ working \in [Xids -> {0, 1}] /\ rq \in Seq(Xids) /\ Len(rq) <= MaxRSize
    /\ since \in [Xids -> 0..MaxRSize]
    /\ IsInjective(rq)
    /\ \A x \in Xids : working[x] > 0 => x \notin ToSet(rq)
    /\ \A x \in ToSet(rq) : x \in netreplies
    /\ \A x \in Xids : x \in netreplies /\ x \notin uncached /\ since[x] < MaxRSize =>
          \E k \in DOMAIN rq : rq[k] = x /\ Len(rq) - k <= since[x]

-----------------------------------------------------------------------------
\* The delays are numbers: 2^q is the number of subsets of a set of q.
LEMMA DelayType == \A q \in Queues : Delay(q) \in Nat
<1>1. SUFFICES ASSUME NEW q \in Queues PROVE Delay(q) \in Nat
    OBVIOUS
<1>2. q \in Nat /\ q \in Int /\ MinTo \in Nat
    BY RpcAssumption DEF Queues
<1>3. IsFiniteSet(1..q) /\ Cardinality(1..q) = q
  <2>1. Cardinality(1..q) = (IF 1 > q THEN 0 ELSE q - 1 + 1) /\ IsFiniteSet(1..q)
    BY <1>2, FS_Interval
  <2> QED  BY <1>2, <2>1
<1>4. IsFiniteSet(SUBSET (1..q)) /\ Cardinality(SUBSET (1..q)) = 2^q
    BY <1>3, FS_SUBSET
<1>5. 2^q \in Nat
    BY <1>4, FS_CardinalityType, Zenon
<1>6. ASSUME NEW n \in Nat PROVE MinTo * n \in Nat
    BY <1>2
<1> QED  BY <1>5, <1>6, Zenon DEF Delay

\* tmoq::remove ().
LEMMA RemovedFacts ==
    ASSUME queue \in [Queues -> Seq(Xids)], Ordered(queue, left, pending, timer), NEW x
    PROVE  /\ Removed(x, queue) \in [Queues -> Seq(Xids)]
           /\ \A q \in Queues : ToSet(Removed(x, queue)[q]) = ToSet(queue[q]) \ {x}
           /\ \A q \in Queues : queue[q] = <<>> => Removed(x, queue)[q] = <<>>
           /\ Ordered(Removed(x, queue), left, pending, timer)
<1> DEFINE r == Removed(x, queue)
<1>1. \A q \in Queues : queue[q] \in Seq(Xids) /\ r[q] = Without(queue[q], x)
    BY DEF Removed
<1>2. ASSUME NEW q \in Queues
      PROVE  /\ r[q] \in Seq(Xids) /\ ToSet(r[q]) = ToSet(queue[q]) \ {x} /\ IsInjective(r[q])
             /\ \A i, j \in DOMAIN r[q] : i < j => left[r[q][i]] <= left[r[q][j]]
             /\ queue[q] = <<>> => r[q] = <<>>
  <2> DEFINE s == queue[q]
             S == ToSet(s) \ {x}
  <2>1. s \in Seq(Xids) /\ r[q] = Without(s, x) /\ IsInjective(s)
        /\ \A i, j \in DOMAIN s : i < j => left[s[i]] <= left[s[j]]
    BY <1>1 DEF Ordered
  <2>2. Without(s, x) = Keep(s, S)
    BY DEF Without
  <2> HIDE DEF s, r, S
  <2>3. Without(s, x) \in Seq(Xids) /\ ToSet(Without(s, x)) = ToSet(s) \ {x} /\ IsInjective(Without(s, x))
    BY <2>1, WithoutFacts
  <2>4. DOMAIN s = 1..Len(s) /\ DOMAIN Keep(s, S) = 1..Len(Keep(s, S))
    BY <2>1, <2>2, <2>3
  <2>5. ASSUME NEW i \in DOMAIN r[q], NEW j \in DOMAIN r[q], i < j PROVE left[r[q][i]] <= left[r[q][j]]
    <3>1. i \in 1..Len(Keep(s, S)) /\ j \in 1..Len(Keep(s, S)) /\ r[q] = Keep(s, S)
        BY <2>1, <2>2, <2>4, <2>5
    <3>2. PICK k, l \in 1..Len(s) : k < l /\ Keep(s, S)[i] = s[k] /\ Keep(s, S)[j] = s[l]
        BY <2>1, <2>5, <3>1, KeepOrder
    <3> QED  BY <2>1, <2>4, <3>1, <3>2
  <2>6. s = <<>> => r[q] = <<>>
    <3>1. s = <<>> => ToSet(s) = {}
        BY DEF ToSet
    <3>2. ToSet(Without(s, x)) = {} => Without(s, x) = <<>>
        BY <2>3, ToSetIndex
    <3> QED  BY <2>1, <2>3, <3>1, <3>2
  <2> QED  BY <2>1, <2>3, <2>5, <2>6 DEF s
<1>3. r \in [Queues -> Seq(Xids)]
    BY <1>2 DEF Removed
<1> HIDE DEF r
<1>4. /\ \A q, u \in Queues : \A y \in ToSet(r[q]) : y \in ToSet(r[u]) => q = u
      /\ \A q \in Queues : \A y \in ToSet(r[q]) : left[y] <= Delay(q)
      /\ \A q \in Queues : \A y \in ToSet(r[q]) : pending[q] => timer[q] <= left[y]
  <2>1. \A q \in Queues : \A y \in ToSet(r[q]) : y \in ToSet(queue[q])
    BY <1>2
  <2> QED  BY <2>1, Zenon DEF Ordered
<1>5. Ordered(r, left, pending, timer)
    BY <1>2, <1>4 DEF Ordered
<1> QED  BY <1>2, <1>3, <1>5 DEF r

\* The time of a call that is in no queue is of no concern.
LEMMA OtherTime ==
    ASSUME NEW qs \in [Queues -> Seq(Xids)], NEW lf \in [Xids -> Nat], NEW pend, NEW tim,
           NEW x \in Xids, NEW n \in Nat, Ordered(qs, lf, pend, tim),
           \A q \in Queues : x \notin ToSet(qs[q])
    PROVE  Ordered(qs, [lf EXCEPT ![x] = n], pend, tim)
<1> DEFINE g == [lf EXCEPT ![x] = n]
<1>1. \A q \in Queues : \A y \in ToSet(qs[q]) : g[y] = lf[y]
  <2>1. TAKE q \in Queues
  <2>2. qs[q] \in Seq(Xids)
    OBVIOUS
  <2>3. \A y \in ToSet(qs[q]) : y \in Xids
    BY <2>2, ToSetIndex
  <2> QED  BY <2>3
<1>2. \A q \in Queues : \A k \in DOMAIN qs[q] : g[qs[q][k]] = lf[qs[q][k]]
    BY <1>1 DEF ToSet
<1> HIDE DEF g
<1>3. \A q \in Queues : \A i, j \in DOMAIN qs[q] : i < j => g[qs[q][i]] <= g[qs[q][j]]
    BY <1>2 DEF Ordered
<1>4. \A q \in Queues : \A y \in ToSet(qs[q]) : g[y] <= Delay(q)
    BY <1>1 DEF Ordered
<1>5. \A q \in Queues : \A y \in ToSet(qs[q]) : pend[q] => tim[q] <= g[y]
    BY <1>1 DEF Ordered
<1>6. Ordered(qs, g, pend, tim)
    BY <1>3, <1>4, <1>5 DEF Ordered
<1> QED  BY <1>6 DEF g

\* tmoq::schedq () of a queue with calls: its timer is pending, and comes
\* before every call of the queue.
LEMMA SchedqFacts ==
    ASSUME NEW qs \in [Queues -> Seq(Xids)], NEW lf \in [Xids -> Nat], NEW pend \in [Queues -> BOOLEAN],
           NEW tim \in [Queues -> Nat], NEW q \in Queues, qs[q] # <<>>,
           Ordered(qs, lf, pend, tim), \A r \in Queues : tim[r] <= Delay(r)
    PROVE  /\ Schedq(q, qs, lf, pend, tim)[1] \in [Queues -> BOOLEAN]
           /\ Schedq(q, qs, lf, pend, tim)[2] \in [Queues -> Nat]
           /\ Schedq(q, qs, lf, pend, tim)[1][q]
           /\ \A r \in Queues : r # q => (Schedq(q, qs, lf, pend, tim)[1][r] <=> pend[r])
           /\ \A r \in Queues : Schedq(q, qs, lf, pend, tim)[2][r] <= Delay(r)
           /\ Ordered(qs, lf, Schedq(q, qs, lf, pend, tim)[1], Schedq(q, qs, lf, pend, tim)[2])
<1> DEFINE sc == Schedq(q, qs, lf, pend, tim)
           h == Head(qs[q])
<1>1. CASE pend[q]
  <2>1. sc = <<pend, tim>>
    BY <1>1, Zenon DEF Schedq
  <2>2. sc[1] = pend /\ sc[2] = tim
    BY <2>1
  <2> QED  BY <1>1, <2>2, Zenon
<1>2. CASE ~pend[q]
  <2>1. sc = <<[pend EXCEPT ![q] = TRUE], [tim EXCEPT ![q] = lf[h]]>>
    BY <1>2, Zenon DEF Schedq
  <2>2. sc[1] = [pend EXCEPT ![q] = TRUE] /\ sc[2] = [tim EXCEPT ![q] = lf[h]]
    BY <2>1
  <2> HIDE DEF sc
  <2>3. qs[q] \in Seq(Xids)
    OBVIOUS
  <2>4. h \in ToSet(qs[q]) /\ h \in Xids
    BY <2>3, TailFacts, ToSetIndex
  <2>5. lf[h] \in Nat /\ lf[h] <= Delay(q)
    BY <2>4 DEF Ordered
  <2>6. \A y \in ToSet(qs[q]) : lf[h] <= lf[y]
    <3>1. TAKE y \in ToSet(qs[q])
    <3>2. PICK k \in 1..Len(qs[q]) : qs[q][k] = y
        BY <2>3, ToSetIndex
    <3>3. Len(qs[q]) \in Nat /\ DOMAIN qs[q] = 1..Len(qs[q]) /\ h = qs[q][1] /\ 1 \in DOMAIN qs[q]
        BY <2>3
    <3>4. k = 1 \/ 1 < k
        BY <3>2, <3>3
    <3>5. CASE k = 1
        BY <2>5, <3>2, <3>3, <3>5
    <3>6. CASE 1 < k
      <4>1. k \in DOMAIN qs[q]
        BY <3>2, <3>3
      <4>2. lf[qs[q][1]] <= lf[qs[q][k]]
        BY <3>3, <3>6, <4>1, Zenon DEF Ordered
      <4> QED  BY <3>2, <3>3, <4>2, Zenon
    <3> QED  BY <3>4, <3>5, <3>6
  <2> HIDE DEF h
  <2>7. sc[1] \in [Queues -> BOOLEAN] /\ sc[1][q] /\ \A r \in Queues : r # q => (sc[1][r] <=> pend[r])
    BY <2>2
  <2>8. /\ sc[2] \in [Queues -> Nat] /\ sc[2][q] = lf[h] /\ \A r \in Queues : r # q => sc[2][r] = tim[r]
    BY <2>2, <2>5
  <2>9. \A r \in Queues : sc[2][r] <= Delay(r)
    BY <2>5, <2>8
  <2>10. ASSUME NEW r \in Queues, NEW y \in ToSet(qs[r]), sc[1][r] PROVE sc[2][r] <= lf[y]
    <3>1. CASE r = q
        BY <2>6, <2>8, <2>10, <3>1
    <3>2. CASE r # q
        BY <2>7, <2>8, <2>10, <3>2 DEF Ordered
    <3> QED  BY <3>1, <3>2
  <2>11. Ordered(qs, lf, sc[1], sc[2])
    BY <2>10, Zenon DEF Ordered
  <2> QED  BY <2>7, <2>8, <2>9, <2>11 DEF sc
<1> QED  BY <1>1, <1>2

\* tmoq::insert () of a call that is in no queue.
LEMMA InsertCall ==
    ASSUME NEW qs \in [Queues -> Seq(Xids)], left \in [Xids -> Nat], pending \in [Queues -> BOOLEAN],
           timer \in [Queues -> Nat], NEW x \in Xids, NEW q \in Queues,
           Ordered(qs, left, pending, timer), \A r \in Queues : timer[r] <= Delay(r),
           \A r \in Queues : x \notin ToSet(qs[r]),
           Insert(x, q, qs)
    PROVE  /\ queue' \in [Queues -> Seq(Xids)] /\ left' \in [Xids -> Nat]
           /\ pending' \in [Queues -> BOOLEAN] /\ timer' \in [Queues -> Nat]
           /\ Ordered(queue', left', pending', timer')
           /\ \A r \in Queues : timer'[r] <= Delay(r)
           /\ ToSet(queue'[q]) = ToSet(qs[q]) \cup {x}
           /\ \A r \in Queues : r # q => queue'[r] = qs[r]
           /\ pending'[q] /\ \A r \in Queues : r # q => (pending'[r] <=> pending[r])
<1> DEFINE nq == [qs EXCEPT ![q] = Append(qs[q], x)]
           nl == [left EXCEPT ![x] = Delay(q)]
           sc == Schedq(q, nq, nl, pending, timer)
<1>1. queue' = nq /\ left' = nl /\ pending' = sc[1] /\ timer' = sc[2]
    BY DEF Insert
<1>2. Delay(q) \in Nat
    BY DelayType
<1>3. nl \in [Xids -> Nat] /\ nl[x] = Delay(q) /\ Ordered(qs, nl, pending, timer)
    BY <1>2, OtherTime
<1>4. qs[q] \in Seq(Xids) /\ IsInjective(qs[q])
    BY DEF Ordered
<1>5. /\ Append(qs[q], x) \in Seq(Xids) /\ ToSet(Append(qs[q], x)) = ToSet(qs[q]) \cup {x}
      /\ IsInjective(Append(qs[q], x))
    BY <1>4, AppendFacts
<1>6. /\ nq \in [Queues -> Seq(Xids)] /\ nq[q] = Append(qs[q], x) /\ \A r \in Queues : r # q => nq[r] = qs[r]
    BY <1>5
<1> HIDE DEF nl, nq
<1>7. nq[q] # <<>>
  <2>1. ToSet(<<>>) = {} /\ x \in ToSet(nq[q])
    BY <1>5, <1>6 DEF ToSet
  <2> QED  BY <2>1
<1>8. \A r \in Queues : \A y : y \in ToSet(nq[r]) <=> y \in ToSet(qs[r]) \/ (r = q /\ y = x)
    BY <1>5, <1>6
<1>9. \A r \in Queues : IsInjective(nq[r])
    BY <1>5, <1>6 DEF Ordered
<1>10. \A r, u \in Queues : \A y \in ToSet(nq[r]) : y \in ToSet(nq[u]) => r = u
  <2>1. SUFFICES ASSUME NEW r \in Queues, NEW u \in Queues, NEW y \in ToSet(nq[r]), y \in ToSet(nq[u])
                 PROVE  r = u
    OBVIOUS
  <2>2. CASE y = x
    BY <1>8, <2>1, <2>2
  <2>3. CASE y # x
    <3>1. y \in ToSet(qs[r]) /\ y \in ToSet(qs[u])
        BY <1>8, <2>1, <2>3
    <3> QED  BY <3>1, Zenon DEF Ordered
  <2> QED  BY <2>2, <2>3
<1>11. \A r \in Queues : \A y \in ToSet(nq[r]) : nl[y] <= Delay(r)
    BY <1>2, <1>3, <1>8 DEF Ordered
<1>12. ASSUME NEW r \in Queues, NEW i \in DOMAIN nq[r], NEW j \in DOMAIN nq[r], i < j
       PROVE  nl[nq[r][i]] <= nl[nq[r][j]]
  <2>1. CASE r # q
    BY <1>3, <1>6, <1>12, <2>1 DEF Ordered
  <2>2. CASE r = q
    <3>1. /\ Len(qs[q]) \in Nat /\ DOMAIN qs[q] = 1..Len(qs[q]) /\ DOMAIN nq[q] = 1..(Len(qs[q]) + 1)
          /\ \A k \in 1..(Len(qs[q]) + 1) : nq[q][k] = IF k = Len(qs[q]) + 1 THEN x ELSE qs[q][k]
        BY <1>4, <1>6
    <3>2. i \in DOMAIN qs[q] /\ nq[q][i] = qs[q][i] /\ j \in 1..(Len(qs[q]) + 1)
      <4>1. i \in 1..(Len(qs[q]) + 1) /\ j \in 1..(Len(qs[q]) + 1)
        BY <1>12, <2>2, <3>1, Zenon
      <4>2. i \in 1..Len(qs[q]) /\ i \in 1..(Len(qs[q]) + 1) /\ i # Len(qs[q]) + 1
        BY <1>12, <3>1, <4>1
      <4> QED  BY <3>1, <4>1, <4>2
    <3>3. CASE j = Len(qs[q]) + 1
      <4>1. nq[q][j] = x
        BY <3>1, <3>2, <3>3
      <4>2. nq[q][i] \in ToSet(nq[q])
        BY <1>12, <2>2 DEF ToSet
      <4> QED  BY <1>3, <1>11, <2>2, <4>1, <4>2
    <3>4. CASE j # Len(qs[q]) + 1
      <4>1. j \in DOMAIN qs[q] /\ nq[q][j] = qs[q][j]
        BY <3>1, <3>2, <3>4
      <4> QED  BY <1>3, <1>12, <2>2, <3>2, <4>1 DEF Ordered
    <3> QED  BY <3>3, <3>4
  <2> QED  BY <2>1, <2>2
<1>13. \A r \in Queues : \A y \in ToSet(nq[r]) : pending[r] => timer[r] <= nl[y]
    BY <1>3, <1>8 DEF Ordered
<1>14. Ordered(nq, nl, pending, timer)
    BY <1>9, <1>10, <1>11, <1>12, <1>13 DEF Ordered
<1>15. /\ sc[1] \in [Queues -> BOOLEAN] /\ sc[2] \in [Queues -> Nat] /\ sc[1][q]
       /\ \A r \in Queues : r # q => (sc[1][r] <=> pending[r])
       /\ \A r \in Queues : sc[2][r] <= Delay(r)
       /\ Ordered(nq, nl, sc[1], sc[2])
  <2>1. /\ nq \in [Queues -> Seq(Xids)] /\ nl \in [Xids -> Nat] /\ pending \in [Queues -> BOOLEAN]
        /\ timer \in [Queues -> Nat] /\ nq[q] # <<>> /\ Ordered(nq, nl, pending, timer)
        /\ \A r \in Queues : timer[r] <= Delay(r)
    BY <1>3, <1>6, <1>7, <1>14, Zenon
  <2> QED  BY <2>1, SchedqFacts
<1> HIDE DEF sc
<1>16. ToSet(nq[q]) = ToSet(qs[q]) \cup {x}
    BY <1>5, <1>6
<1> QED  BY <1>1, <1>3, <1>6, <1>15, <1>16, Zenon

-----------------------------------------------------------------------------
\* The steps of the client.

\* The queues are empty at first.
LEMMA InitQueues == Init => QueueInv
<1> SUFFICES ASSUME Init PROVE QueueInv
    OBVIOUS
<1>1. 0 \in Queues /\ MaxSend \in Nat
    BY RpcAssumption DEF Queues
<1>2. \A q \in Queues : queue[q] = <<>> /\ timer[q] = 0 /\ Delay(q) \in Nat
    BY DelayType DEF Init
<1>3. ToSet(<<>>) = {} /\ IsInjective(<<>>) /\ DOMAIN <<>> = {}
    BY DEF ToSet, IsInjective
<1>4. Ordered(queue, left, pending, timer)
    BY <1>2, <1>3 DEF Ordered
<1>5. QueueTypes
    BY <1>1 DEF Init, QueueTypes, States
<1>6. \A x \in Xids : st[x] = "out" <=> \E q \in Queues : x \in ToSet(queue[q])
    BY <1>2, <1>3 DEF Init
<1>7. \A q \in Queues : timer[q] <= Delay(q)
    BY <1>2
<1>8. \A q \in Queues : queue[q] # <<>> /\ (pc = "loop" \/ q # qn) => pending[q]
    BY <1>2
<1> QED  BY <1>4, <1>5, <1>6, <1>7, <1>8 DEF QueueInv

\* rpccb::finish (), whoever calls it.
LEMMA FinishQueues ==
    ASSUME QueueInv, NEW x \in Xids, NEW how \in {"answered", "timedout", "cancelled"}, Finish(x, how),
           pc' \in {"loop", "runq", "cb"}, qn' = qn, pc' = "loop" => pc = "loop"
    PROVE  QueueInv'
<1>1. /\ st' = [st EXCEPT ![x] = how] /\ tmo' = tmo \ {x} /\ queue' = Removed(x, queue)
      /\ left' = [left EXCEPT ![x] = 0] /\ pending' = pending /\ timer' = timer
    BY DEF Finish
<1>2. QueueTypes /\ Ordered(queue, left, pending, timer)
    BY DEF QueueInv
<1>3. queue \in [Queues -> Seq(Xids)] /\ left \in [Xids -> Nat]
    BY <1>2 DEF QueueTypes
<1>4. /\ queue' \in [Queues -> Seq(Xids)] /\ Ordered(queue', left, pending, timer)
      /\ \A q \in Queues : ToSet(queue'[q]) = ToSet(queue[q]) \ {x}
      /\ \A q \in Queues : queue[q] = <<>> => queue'[q] = <<>>
  <2>1. /\ Removed(x, queue) \in [Queues -> Seq(Xids)] /\ Ordered(Removed(x, queue), left, pending, timer)
        /\ \A q \in Queues : ToSet(Removed(x, queue)[q]) = ToSet(queue[q]) \ {x}
        /\ \A q \in Queues : queue[q] = <<>> => Removed(x, queue)[q] = <<>>
    BY <1>2, <1>3, RemovedFacts
  <2> QED  BY <1>1, <2>1
<1>5. \A q \in Queues : x \notin ToSet(queue'[q])
    BY <1>4
<1>6. Ordered(queue', [left EXCEPT ![x] = 0], pending, timer)
    BY <1>3, <1>4, <1>5, OtherTime
<1>7. Ordered(queue, left, pending, timer)'
    BY <1>1, <1>6
<1>8. st' \in [Xids -> States] /\ st'[x] = how /\ how # "out" /\ \A y \in Xids : y # x => st'[y] = st[y]
    BY <1>1, <1>2 DEF QueueTypes, States
<1>9. QueueTypes'
  <2>1. \A y \in tmo' : y \in Xids /\ st'[y] = "out"
    BY <1>1, <1>2, <1>8 DEF QueueTypes
  <2>2. left' \in [Xids -> Nat]
    BY <1>1, <1>3
  <2> QED  BY <1>1, <1>2, <1>4, <1>8, <2>1, <2>2 DEF QueueTypes
<1>10. \A y \in Xids : st'[y] = "out" <=> \E q \in Queues : y \in ToSet(queue'[q])
    BY <1>4, <1>8 DEF QueueInv
<1>11. \A q \in Queues : timer'[q] <= Delay(q)
    BY <1>1 DEF QueueInv
<1>12. \A q \in Queues : queue'[q] # <<>> /\ (pc' = "loop" \/ q # qn') => pending'[q]
    BY <1>1, <1>4 DEF QueueInv
<1> QED  BY <1>7, <1>9, <1>10, <1>11, <1>12 DEF QueueInv

\* A call goes to the end of the first queue.
LEMMA CallQueues ==
    ASSUME QueueInv, NEW x \in Xids, Call(x)
    PROVE  QueueInv'
<1>1. /\ st[x] = "new" /\ st' = [st EXCEPT ![x] = "out"] /\ Insert(x, 0, queue) /\ pc' = pc /\ qn' = qn
      /\ \A y \in tmo' : y \in tmo \/ y = x
    BY DEF Call
<1>2. QueueTypes /\ Ordered(queue, left, pending, timer) /\ \A q \in Queues : timer[q] <= Delay(q)
    BY DEF QueueInv
<1>3. 0 \in Queues
    BY RpcAssumption DEF Queues
<1>4. \A q \in Queues : x \notin ToSet(queue[q])
    BY <1>1 DEF QueueInv
<1>5. queue \in [Queues -> Seq(Xids)] /\ left \in [Xids -> Nat] /\ pending \in [Queues -> BOOLEAN]
      /\ timer \in [Queues -> Nat]
    BY <1>2 DEF QueueTypes
<1>6. /\ queue' \in [Queues -> Seq(Xids)] /\ left' \in [Xids -> Nat]
      /\ pending' \in [Queues -> BOOLEAN] /\ timer' \in [Queues -> Nat]
      /\ Ordered(queue', left', pending', timer')
      /\ \A r \in Queues : timer'[r] <= Delay(r)
      /\ ToSet(queue'[0]) = ToSet(queue[0]) \cup {x}
      /\ \A r \in Queues : r # 0 => queue'[r] = queue[r]
      /\ pending'[0] /\ \A r \in Queues : r # 0 => (pending'[r] <=> pending[r])
    BY <1>1, <1>2, <1>3, <1>4, <1>5, InsertCall
<1>7. st' \in [Xids -> States] /\ st'[x] = "out" /\ \A y \in Xids : y # x => st'[y] = st[y]
    BY <1>1, <1>2 DEF QueueTypes, States
<1>8. QueueTypes'
  <2>1. \A y \in tmo' : y \in Xids /\ st'[y] = "out"
    BY <1>1, <1>2, <1>7 DEF QueueTypes
  <2> QED  BY <1>1, <1>2, <1>6, <1>7, <2>1 DEF QueueTypes
<1>9. ASSUME NEW y \in Xids PROVE st'[y] = "out" <=> \E q \in Queues : y \in ToSet(queue'[q])
  <2>1. CASE y = x
    BY <1>3, <1>6, <1>7, <2>1
  <2>2. CASE y # x
    <3>1. \A q \in Queues : y \in ToSet(queue'[q]) <=> y \in ToSet(queue[q])
        BY <1>3, <1>6, <2>2
    <3> QED  BY <1>7, <2>2, <3>1 DEF QueueInv
  <2> QED  BY <2>1, <2>2
<1>10. \A q \in Queues : queue'[q] # <<>> /\ (pc' = "loop" \/ q # qn') => pending'[q]
    BY <1>1, <1>6 DEF QueueInv
<1> QED  BY <1>6, <1>8, <1>9, <1>10 DEF QueueInv

\* runq () moves the head to the end of the next queue.
LEMMA RunqNextQueues ==
    ASSUME QueueInv, RunqNext
    PROVE  QueueInv'
<1> DEFINE x == Head(queue[qn])
           qs == Removed(x, queue)
<1>1. /\ pc = "runq" /\ queue[qn] # <<>> /\ qn < MaxSend - 1 /\ Insert(x, qn + 1, qs)
      /\ UNCHANGED <<st, tmo, pc, qn>>
    BY DEF RunqNext, Due
<1>2. QueueTypes /\ Ordered(queue, left, pending, timer) /\ \A q \in Queues : timer[q] <= Delay(q)
    BY DEF QueueInv
<1>3. queue \in [Queues -> Seq(Xids)] /\ left \in [Xids -> Nat] /\ pending \in [Queues -> BOOLEAN]
      /\ timer \in [Queues -> Nat] /\ qn \in Queues
    BY <1>2 DEF QueueTypes
<1>4. qn + 1 \in Queues
    BY <1>1, <1>3, RpcAssumption DEF Queues
<1>5. queue[qn] \in Seq(Xids)
    BY <1>3
<1>6. x \in ToSet(queue[qn]) /\ x \in Xids
    BY <1>1, <1>5, TailFacts, ToSetIndex
<1> HIDE DEF x
<1>7. /\ qs \in [Queues -> Seq(Xids)] /\ Ordered(qs, left, pending, timer)
      /\ \A q \in Queues : ToSet(qs[q]) = ToSet(queue[q]) \ {x}
      /\ \A q \in Queues : queue[q] = <<>> => qs[q] = <<>>
  <2>1. /\ Removed(x, queue) \in [Queues -> Seq(Xids)] /\ Ordered(Removed(x, queue), left, pending, timer)
        /\ \A q \in Queues : ToSet(Removed(x, queue)[q]) = ToSet(queue[q]) \ {x}
        /\ \A q \in Queues : queue[q] = <<>> => Removed(x, queue)[q] = <<>>
    BY <1>2, <1>3, RemovedFacts
  <2> QED  BY <2>1
<1> HIDE DEF qs
<1>8. \A q \in Queues : x \notin ToSet(qs[q])
    BY <1>7
<1> DEFINE n == qn + 1
<1>9. n \in Queues /\ Insert(x, n, qs)
    BY <1>1, <1>4
<1> HIDE DEF n
<1>10. /\ queue' \in [Queues -> Seq(Xids)] /\ left' \in [Xids -> Nat]
       /\ pending' \in [Queues -> BOOLEAN] /\ timer' \in [Queues -> Nat]
       /\ Ordered(queue', left', pending', timer')
       /\ \A r \in Queues : timer'[r] <= Delay(r)
       /\ ToSet(queue'[n]) = ToSet(qs[n]) \cup {x}
       /\ \A r \in Queues : r # n => queue'[r] = qs[r]
       /\ pending'[n] /\ \A r \in Queues : r # n => (pending'[r] <=> pending[r])
    BY <1>2, <1>3, <1>6, <1>7, <1>8, <1>9, InsertCall
<1>11. QueueTypes'
    BY <1>1, <1>2, <1>10 DEF QueueTypes
<1>12. ASSUME NEW y \in Xids PROVE st'[y] = "out" <=> \E q \in Queues : y \in ToSet(queue'[q])
  <2>1. CASE y = x
    BY <1>1, <1>3, <1>6, <1>9, <1>10, <2>1 DEF QueueInv
  <2>2. CASE y # x
    <3>1. \A q \in Queues : y \in ToSet(queue'[q]) <=> y \in ToSet(queue[q])
        BY <1>7, <1>9, <1>10, <2>2
    <3> QED  BY <1>1, <3>1 DEF QueueInv
  <2> QED  BY <2>1, <2>2
<1>13. \A q \in Queues : queue'[q] # <<>> /\ (pc' = "loop" \/ q # qn') => pending'[q]
    BY <1>1, <1>7, <1>10 DEF QueueInv
<1> QED  BY <1>10, <1>11, <1>12, <1>13 DEF QueueInv

\* The timer of a queue runs it.
LEMMA TcbQueues ==
    ASSUME QueueInv, NEW q \in Queues, Tcb(q)
    PROVE  QueueInv'
<1>1. /\ pc = "loop" /\ pc' = "runq" /\ qn' = q /\ pending' = [pending EXCEPT ![q] = FALSE]
      /\ UNCHANGED <<st, tmo, queue, left, timer>>
    BY DEF Tcb
<1>2. QueueTypes /\ Ordered(queue, left, pending, timer)
    BY DEF QueueInv
<1>3. pending' \in [Queues -> BOOLEAN] /\ \A r \in Queues : (pending'[r] <=> pending[r] /\ r # q)
    BY <1>1, <1>2 DEF QueueTypes
<1>4. QueueTypes'
    BY <1>1, <1>2, <1>3 DEF QueueTypes
<1>5. Ordered(queue, left, pending', timer)
    BY <1>2, <1>3, Zenon DEF Ordered
<1>6. Ordered(queue, left, pending, timer)'
    BY <1>1, <1>5
<1>7. \A r \in Queues : queue'[r] # <<>> /\ (pc' = "loop" \/ r # qn') => pending'[r]
    BY <1>1, <1>3 DEF QueueInv
<1> QED  BY <1>1, <1>4, <1>6, <1>7 DEF QueueInv

\* runq () sets the timer for what is left of its queue.
LEMMA RunqDoneQueues ==
    ASSUME QueueInv, RunqDone
    PROVE  QueueInv'
<1> DEFINE sc == Schedq(qn, queue, left, pending, timer)
<1>1. /\ pc' = "loop" /\ pending' = sc[1] /\ timer' = sc[2]
      /\ UNCHANGED <<st, tmo, queue, left, qn>>
    BY DEF RunqDone
<1>2. QueueTypes /\ Ordered(queue, left, pending, timer) /\ \A q \in Queues : timer[q] <= Delay(q)
    BY DEF QueueInv
<1>3. queue \in [Queues -> Seq(Xids)] /\ left \in [Xids -> Nat] /\ pending \in [Queues -> BOOLEAN]
      /\ timer \in [Queues -> Nat] /\ qn \in Queues
    BY <1>2 DEF QueueTypes
<1>4. CASE queue[qn] = <<>>
  <2>1. sc = <<pending, timer>>
    BY <1>4, Zenon DEF Schedq
  <2>2. pending' = pending /\ timer' = timer
    BY <1>1, <2>1
  <2>3. QueueTypes'
    BY <1>1, <1>2, <2>2 DEF QueueTypes
  <2>4. Ordered(queue, left, pending, timer)'
    BY <1>1, <1>2, <2>2
  <2>5. \A r \in Queues : queue'[r] # <<>> => pending'[r]
    BY <1>1, <1>4, <2>2 DEF QueueInv
  <2> QED  BY <1>1, <2>2, <2>3, <2>4, <2>5 DEF QueueInv
<1>5. CASE queue[qn] # <<>>
  <2>1. /\ sc[1] \in [Queues -> BOOLEAN] /\ sc[2] \in [Queues -> Nat] /\ sc[1][qn]
        /\ \A r \in Queues : r # qn => (sc[1][r] <=> pending[r])
        /\ \A r \in Queues : sc[2][r] <= Delay(r)
        /\ Ordered(queue, left, sc[1], sc[2])
    BY <1>2, <1>3, <1>5, SchedqFacts
  <2> HIDE DEF sc
  <2>2. QueueTypes'
    BY <1>1, <1>2, <2>1 DEF QueueTypes
  <2>3. Ordered(queue, left, pending, timer)'
    BY <1>1, <2>1
  <2>4. \A r \in Queues : queue'[r] # <<>> => pending'[r]
    BY <1>1, <2>1 DEF QueueInv
  <2>5. \A r \in Queues : timer'[r] <= Delay(r)
    BY <1>1, <2>1
  <2> QED  BY <1>1, <2>2, <2>3, <2>4, <2>5 DEF QueueInv
<1> QED  BY <1>4, <1>5

\* Time passes no pending timer.
LEMMA TickQueues ==
    ASSUME QueueInv, Tick
    PROVE  QueueInv'
<1>1. /\ pc = "loop" /\ left' = [x \in Xids |-> Dec(left[x])] /\ timer' = [q \in Queues |-> Dec(timer[q])]
      /\ UNCHANGED <<st, tmo, queue, pending, pc, qn>>
    BY DEF Tick
<1>2. QueueTypes /\ Ordered(queue, left, pending, timer)
    BY DEF QueueInv
<1>3. queue \in [Queues -> Seq(Xids)] /\ left \in [Xids -> Nat] /\ timer \in [Queues -> Nat]
    BY <1>2 DEF QueueTypes
<1>4. /\ \A m \in Nat : Dec(m) \in Nat /\ Dec(m) <= m
      /\ \A m, n \in Nat : m <= n => Dec(m) <= Dec(n)
    BY DEF Dec
<1>5. left' \in [Xids -> Nat] /\ timer' \in [Queues -> Nat]
    BY <1>1, <1>3, <1>4
<1>6. QueueTypes'
    BY <1>1, <1>2, <1>5 DEF QueueTypes
<1>7. \A q \in Queues : Delay(q) \in Nat
    BY DelayType
<1>8. \A q \in Queues : \A x \in ToSet(queue[q]) : x \in Xids
  <2>1. TAKE q \in Queues
  <2>2. queue[q] \in Seq(Xids)
    BY <1>3
  <2> QED  BY <2>2, ToSetIndex
<1>9. \A q \in Queues : \A k \in DOMAIN queue[q] : queue[q][k] \in Xids
    BY <1>3
<1>10. \A q \in Queues : \A i, j \in DOMAIN queue[q] : i < j => left'[queue[q][i]] <= left'[queue[q][j]]
    BY <1>1, <1>2, <1>3, <1>4, <1>9 DEF Ordered
<1>11. \A q \in Queues : \A x \in ToSet(queue[q]) : left'[x] <= Delay(q)
  <2>1. TAKE q \in Queues
  <2>2. TAKE x \in ToSet(queue[q])
  <2>3. x \in Xids /\ left[x] \in Nat /\ left[x] <= Delay(q) /\ Delay(q) \in Nat
    BY <1>2, <1>3, <1>7, <1>8 DEF Ordered
  <2>4. left'[x] = Dec(left[x]) /\ Dec(left[x]) <= left[x] /\ Dec(left[x]) \in Nat
    BY <1>1, <1>4, <2>3
  <2> QED  BY <2>3, <2>4
<1>12. \A q \in Queues : \A x \in ToSet(queue[q]) : pending[q] => timer'[q] <= left'[x]
    BY <1>1, <1>2, <1>3, <1>4, <1>8 DEF Ordered
<1>13. Ordered(queue, left', pending, timer')
    BY <1>2, <1>10, <1>11, <1>12 DEF Ordered
<1>14. Ordered(queue, left, pending, timer)'
    BY <1>1, <1>13
<1>15. \A q \in Queues : timer'[q] <= Delay(q)
  <2>1. TAKE q \in Queues
  <2>2. timer[q] \in Nat /\ timer[q] <= Delay(q) /\ Delay(q) \in Nat
    BY <1>3, <1>7 DEF QueueInv
  <2>3. timer'[q] = Dec(timer[q]) /\ Dec(timer[q]) <= timer[q] /\ Dec(timer[q]) \in Nat
    BY <1>1, <1>4, <2>2
  <2> QED  BY <2>2, <2>3
<1> QED  BY <1>1, <1>6, <1>14, <1>15 DEF QueueInv

\* Steps that leave the queues alone.
LEMMA OtherQueues ==
    ASSUME QueueInv, UNCHANGED <<st, tmo, queue, left, pending, timer, qn>>,
           pc' = pc \/ (pc = "cb" /\ pc' = "runq")
    PROVE  QueueInv'
<1>1. QueueTypes'
    BY DEF QueueInv, QueueTypes
<1>2. Ordered(queue, left, pending, timer)'
    BY DEF QueueInv
<1> QED  BY <1>1, <1>2 DEF QueueInv

\* Every step keeps the queues exact.
LEMMA QueueStep ==
    ASSUME QueueInv, [Next]_vars
    PROVE  QueueInv'
<1>1. CASE UNCHANGED vars
    BY <1>1, OtherQueues DEF vars, tmoq
<1>2. ASSUME NEW x \in Xids, Call(x) PROVE QueueInv'
    BY <1>2, CallQueues
<1>3. ASSUME NEW x \in Xids, Cancel(x) \/ Expire(x) \/ ClientReceive(x) PROVE QueueInv'
  <2>1. pc \in {"loop", "runq", "cb"}
    BY DEF QueueInv, QueueTypes
  <2> QED  BY <1>3, <2>1, FinishQueues DEF Cancel, Expire, ClientReceive
<1>4. CASE RunqTimeout
  <2> DEFINE x == Head(queue[qn])
  <2>1. /\ pc = "runq" /\ queue[qn] # <<>> /\ Finish(x, "timedout") /\ pc' = "cb" /\ qn' = qn
    BY <1>4 DEF RunqTimeout, Due
  <2>2. queue[qn] \in Seq(Xids)
    BY DEF QueueInv, QueueTypes
  <2>3. x \in Xids
    BY <2>1, <2>2
  <2> HIDE DEF x
  <2> QED  BY <2>1, <2>3, FinishQueues
<1>5. CASE RunqReturn
    BY <1>5, OtherQueues DEF RunqReturn, tmoq
<1>6. ASSUME NEW x \in Xids, NEW send \in BOOLEAN, ServerReceive(x) \/ Reply(x) \/ ReplyNocache(x, send)
      PROVE  QueueInv'
    BY <1>6, OtherQueues DEF ServerReceive, Reply, ReplyNocache, tmoq
<1>7. ASSUME NEW q \in Queues, Tcb(q) PROVE QueueInv'
    BY <1>7, TcbQueues
<1>8. CASE RunqNext \/ RunqDone \/ Tick
    BY <1>8, RunqNextQueues, RunqDoneQueues, TickQueues
<1> QED  BY <1>1, <1>2, <1>3, <1>4, <1>5, <1>6, <1>7, <1>8 DEF Next, ClientTimers

\* The retransmission queues are exact: whatever replies, cancellations and
\* timers race, every outstanding call is in one queue of tmoq, once, no
\* timer of timedcall () outlives its call, and every queue is in order with
\* a timer that comes in time.
THEOREM QueuesExactHolds == Spec => []QueuesExact
<1>1. QueueInv => QueuesExact
  <2>1. SUFFICES ASSUME QueueInv PROVE QueuesExact
    OBVIOUS
  <2>2. QueueTypes /\ Ordered(queue, left, pending, timer)
    BY <2>1 DEF QueueInv
  <2>3. /\ \A x \in Xids : x \in Outstanding <=> \E q \in Queues : x \in ToSet(queue[q])
        /\ tmo \subseteq Outstanding
    BY <2>1, <2>2 DEF QueueInv, QueueTypes, Outstanding
  <2>4. ASSUME NEW q \in Queues, NEW r \in Queues, NEW i \in DOMAIN queue[q], NEW j \in DOMAIN queue[r],
               queue[q][i] = queue[r][j]
        PROVE  q = r /\ i = j
    <3>1. queue[q][i] \in ToSet(queue[q]) /\ queue[r][j] \in ToSet(queue[r])
        BY DEF ToSet
    <3>2. q = r
        BY <2>2, <2>4, <3>1 DEF Ordered
    <3>3. IsInjective(queue[q])
        BY <2>2 DEF Ordered
    <3> QED  BY <2>4, <3>2, <3>3 DEF IsInjective
  <2>5. ASSUME NEW q \in Queues, queue[q] # <<>>, pc = "loop" \/ q # qn
        PROVE  pending[q] /\ timer[q] <= left[Head(queue[q])]
    <3>1. queue[q] \in Seq(Xids)
        BY <2>2 DEF QueueTypes
    <3>2. Head(queue[q]) \in ToSet(queue[q])
        BY <2>5, <3>1, TailFacts
    <3>3. pending[q]
        BY <2>1, <2>5 DEF QueueInv
    <3> QED  BY <2>2, <3>2, <3>3 DEF Ordered
  <2>6. \A q \in Queues : \A i, j \in DOMAIN queue[q] : i < j => left[queue[q][i]] <= left[queue[q][j]]
    BY <2>2 DEF Ordered
  <2> QED  BY <2>3, <2>4, <2>5, <2>6 DEF QueuesExact
<1> QED  BY <1>1, InitQueues, QueueStep, PTL DEF Spec

-----------------------------------------------------------------------------
\* The steps of the server.

\* The cache is empty at first.
LEMMA InitReplay == Init => ReplayInv
<1> SUFFICES ASSUME Init PROVE ReplayInv
    OBVIOUS
<1>1. MaxRSize \in Nat
    BY RpcAssumption
<1>2. ToSet(<<>>) = {} /\ IsInjective(<<>>) /\ Len(<<>>) = 0 /\ DOMAIN <<>> = {}
    BY DEF ToSet, IsInjective
<1> QED  BY <1>1, <1>2 DEF Init, ReplayInv

\* A call that is in progress or cached is not executed.
LEMMA ServerReceiveReplay ==
    ASSUME ReplayInv, NEW x \in Xids, ServerReceive(x)
    PROVE  ReplayInv'
<1>1. rq' = rq /\ since' = since /\ uncached' = uncached
    BY DEF ServerReceive
<1>2. CASE Isreplay(x)
  <2>1. working' = working /\ netreplies' = (IF x \in ToSet(rq) THEN netreplies \cup {x} ELSE netreplies)
    BY <1>2 DEF ServerReceive
  <2>2. \A y : y \in netreplies' <=> y \in netreplies
    BY <2>1 DEF ReplayInv
  <2> QED  BY <1>1, <2>1, <2>2 DEF ReplayInv
<1>3. CASE ~Isreplay(x)
  <2>1. working' = [working EXCEPT ![x] = working[x] + 1] /\ netreplies' = netreplies
    BY <1>3 DEF ServerReceive
  <2>2. x \notin ToSet(rq) /\ working[x] = 0
    BY <1>3 DEF Isreplay, ReplayInv
  <2>3. working' \in [Xids -> {0, 1}] /\ \A y \in Xids : y # x => working'[y] = working[y]
    BY <2>1, <2>2 DEF ReplayInv
  <2> QED  BY <1>1, <2>1, <2>2, <2>3 DEF ReplayInv
<1> QED  BY <1>2, <1>3

\* A reply that is not cached is recorded as such.
LEMMA ReplyNocacheReplay ==
    ASSUME ReplayInv, NEW x \in Xids, NEW send \in BOOLEAN, ReplyNocache(x, send)
    PROVE  ReplayInv'
<1>1. /\ working[x] > 0 /\ working' = [working EXCEPT ![x] = working[x] - 1]
      /\ uncached' = uncached \cup {x} /\ rq' = rq /\ since' = since
      /\ \A y : y \in netreplies => y \in netreplies'
      /\ \A y : y \in netreplies' => y \in netreplies \/ y = x
    BY DEF ReplyNocache
<1>2. working' \in [Xids -> {0, 1}] /\ \A y \in Xids : working'[y] > 0 => working[y] > 0
    BY <1>1 DEF ReplayInv
<1> QED  BY <1>1, <1>2 DEF ReplayInv

\* A reply is cached: the others move one away from the end, and the oldest
\* is evicted if there are more than maxrsize.
LEMMA ReplyReplay ==
    ASSUME ReplayInv, NEW x \in Xids, Reply(x)
    PROVE  ReplayInv'
<1> DEFINE s == Append(rq, x)
<1>1. /\ working[x] > 0 /\ working' = [working EXCEPT ![x] = working[x] - 1]
      /\ netreplies' = netreplies \cup {x} /\ rq' = Evict(s) /\ uncached' = uncached \ {x}
      /\ since' = [y \in Xids |-> IF y = x THEN 0
                                  ELSE IF since[y] < MaxRSize THEN since[y] + 1 ELSE since[y]]
    BY DEF Reply
<1>2. /\ rq \in Seq(Xids) /\ Len(rq) <= MaxRSize /\ IsInjective(rq) /\ x \notin ToSet(rq)
      /\ MaxRSize \in Nat /\ Len(rq) \in Nat /\ DOMAIN rq = 1..Len(rq)
    BY <1>1, RpcAssumption DEF ReplayInv
<1>3. s \in Seq(Xids) /\ ToSet(s) = ToSet(rq) \cup {x} /\ IsInjective(s)
    BY <1>2, AppendFacts
<1>4. /\ Len(s) = Len(rq) + 1 /\ s[Len(rq) + 1] = x /\ DOMAIN s = 1..(Len(rq) + 1) /\ s # <<>>
      /\ \A k \in 1..Len(rq) : s[k] = rq[k]
    BY <1>2
<1> HIDE DEF s
<1>5. Tail(s) \in Seq(Xids) /\ IsInjective(Tail(s)) /\ \A y \in ToSet(Tail(s)) : y \in ToSet(s)
    BY <1>3, <1>4, TailFacts
<1>6. Len(Tail(s)) = Len(rq) /\ \A k \in 1..Len(rq) : Tail(s)[k] = s[k + 1]
    BY <1>2, <1>3, <1>4
<1>7. rq' = IF Len(rq) + 1 > MaxRSize THEN Tail(s) ELSE s
    BY <1>1, <1>4 DEF Evict
<1>8. /\ rq' \in Seq(Xids) /\ IsInjective(rq') /\ Len(rq') <= MaxRSize
      /\ \A y \in ToSet(rq') : y \in ToSet(rq) \/ y = x
  <2>1. CASE Len(rq) + 1 > MaxRSize
    BY <1>2, <1>3, <1>5, <1>6, <1>7, <2>1
  <2>2. CASE ~(Len(rq) + 1 > MaxRSize)
    BY <1>2, <1>3, <1>4, <1>7, <2>2
  <2> QED  BY <2>1, <2>2
<1>9. working' \in [Xids -> {0, 1}] /\ working'[x] = 0 /\ \A y \in Xids : y # x => working'[y] = working[y]
    BY <1>1 DEF ReplayInv
<1>10. since \in [Xids -> 0..MaxRSize]
    BY DEF ReplayInv
<1>11. since' \in [Xids -> 0..MaxRSize]
  <2>1. \A y \in Xids : (IF y = x THEN 0 ELSE IF since[y] < MaxRSize THEN since[y] + 1 ELSE since[y]) \in 0..MaxRSize
    BY <1>2, <1>10
  <2> QED  BY <1>1, <2>1
<1>12. \A y \in Xids : working'[y] > 0 => y \notin ToSet(rq')
  <2>1. \A y \in Xids : working[y] > 0 => y \notin ToSet(rq)
    BY DEF ReplayInv
  <2>2. SUFFICES ASSUME NEW y \in Xids, working'[y] > 0 PROVE y \notin ToSet(rq')
    OBVIOUS
  <2>3. y # x /\ working[y] > 0
    BY <1>9, <2>2
  <2> QED  BY <1>8, <2>1, <2>3
<1>13. \A y \in ToSet(rq') : y \in netreplies'
    BY <1>1, <1>8 DEF ReplayInv
<1>14. ASSUME NEW y \in Xids, NEW k \in 1..(Len(rq) + 1), s[k] = y, NEW n \in Nat,
              Len(rq) + 1 - k <= n, n < MaxRSize
       PROVE  \E l \in DOMAIN rq' : rq'[l] = y /\ Len(rq') - l <= n
  <2>1. CASE Len(rq) + 1 > MaxRSize
    <3>1. rq' = Tail(s) /\ Len(rq') = Len(rq) /\ k - 1 \in 1..Len(rq) /\ (k - 1) + 1 = k
        BY <1>2, <1>6, <1>7, <1>14, <2>1
    <3>2. DOMAIN rq' = 1..Len(rq)
        BY <1>8, <3>1
    <3>3. rq'[k - 1] = y /\ Len(rq') - (k - 1) <= n
        BY <1>2, <1>6, <1>14, <3>1
    <3> QED  BY <3>1, <3>2, <3>3
  <2>2. CASE ~(Len(rq) + 1 > MaxRSize)
    BY <1>4, <1>7, <1>14, <2>2
  <2> QED  BY <2>1, <2>2
<1>15. ASSUME NEW y \in Xids, y \in netreplies', y \notin uncached', since'[y] < MaxRSize
       PROVE  \E l \in DOMAIN rq' : rq'[l] = y /\ Len(rq') - l <= since'[y]
  <2>1. CASE y = x
    <3>1. since'[y] = 0 /\ 0 \in Nat /\ Len(rq) + 1 \in 1..(Len(rq) + 1)
          /\ Len(rq) + 1 - (Len(rq) + 1) <= 0 /\ s[Len(rq) + 1] = y
        BY <1>1, <1>2, <1>4, <2>1
    <3> QED  BY <1>14, <1>15, <3>1
  <2>2. CASE y # x
    <3>1. y \in netreplies /\ y \notin uncached /\ since[y] \in Nat
        BY <1>1, <1>10, <1>15, <2>2
    <3>2. since[y] < MaxRSize /\ since'[y] = since[y] + 1
        BY <1>1, <1>15, <2>2
    <3>3. PICK k \in DOMAIN rq : rq[k] = y /\ Len(rq) - k <= since[y]
        BY <3>1, <3>2 DEF ReplayInv
    <3>4. k \in 1..(Len(rq) + 1) /\ s[k] = y /\ Len(rq) + 1 - k <= since'[y] /\ since'[y] \in Nat
        BY <1>2, <1>4, <3>1, <3>2, <3>3
    <3> QED  BY <1>14, <1>15, <3>4
  <2> QED  BY <2>1, <2>2
<1> QED  BY <1>8, <1>9, <1>11, <1>12, <1>13, <1>15 DEF ReplayInv

\* Steps of the client and the network leave the cache alone.
LEMMA ClientReplay ==
    ASSUME ReplayInv, UNCHANGED <<working, rq, since, uncached, netreplies>>
    PROVE  ReplayInv'
BY DEF ReplayInv

\* The client never touches the server's table.
LEMMA ClientSteps ==
    ASSUME [Next]_vars
    PROVE  \/ UNCHANGED <<working, rq, since, uncached, netreplies>>
           \/ \E x \in Xids : ServerReceive(x) \/ Reply(x) \/ \E send \in BOOLEAN : ReplyNocache(x, send)
<1>1. ASSUME NEW x \in Xids, Call(x) \/ Cancel(x) \/ Expire(x) \/ ClientReceive(x)
      PROVE  UNCHANGED <<working, rq, since, uncached, netreplies>>
    BY <1>1 DEF Call, Cancel, Expire, ClientReceive, net, server
<1>2. ASSUME NEW q \in Queues, Tcb(q) PROVE UNCHANGED <<working, rq, since, uncached, netreplies>>
    BY <1>2 DEF Tcb, net, server
<1>3. CASE RunqNext \/ RunqTimeout \/ RunqReturn \/ RunqDone \/ Tick
    BY <1>3 DEF RunqNext, RunqTimeout, RunqReturn, RunqDone, Tick, net, server
<1>4. CASE UNCHANGED vars
    BY <1>4 DEF vars, net, server
<1> QED  BY <1>1, <1>2, <1>3, <1>4 DEF Next, ClientTimers

\* Every step keeps the cache exact.
LEMMA ReplayStep ==
    ASSUME ReplayInv, [Next]_vars
    PROVE  ReplayInv'
<1>1. ASSUME NEW x \in Xids, ServerReceive(x) \/ Reply(x) \/ \E send \in BOOLEAN : ReplyNocache(x, send)
      PROVE  ReplayInv'
    BY <1>1, ServerReceiveReplay, ReplyReplay, ReplyNocacheReplay
<1> QED  BY <1>1, ClientSteps, ClientReplay

\* asrv_unreliable never executes a call twice at the same time, and executes
\* it again only if its reply was not to be cached or maxrsize other replies
\* were cached after it, however the datagrams of its calls are lost, repeated
\* and reordered.
THEOREM NoEarlyReexecutionHolds == Spec => NoEarlyReexecution
<1> DEFINE P == \A x \in Xids : working'[x] > working[x] =>
                    /\ working[x] = 0
                    /\ x \in netreplies => x \in uncached \/ since[x] >= MaxRSize
<1>1. ASSUME ReplayInv, [Next]_vars PROVE P
  <2>1. SUFFICES ASSUME NEW x \in Xids, working'[x] > working[x]
                 PROVE  /\ working[x] = 0
                        /\ x \in netreplies => x \in uncached \/ since[x] >= MaxRSize
    OBVIOUS
  <2>2. working \in [Xids -> {0, 1}] /\ since[x] \in Nat /\ MaxRSize \in Nat
    BY <1>1, RpcAssumption DEF ReplayInv
  <2>3. PICK y \in Xids : ServerReceive(y) \/ Reply(y) \/ \E send \in BOOLEAN : ReplyNocache(y, send)
    BY <1>1, <2>1, <2>2, ClientSteps
  <2>4. y = x /\ ServerReceive(x) /\ ~Isreplay(x)
    BY <2>1, <2>2, <2>3 DEF ServerReceive, Reply, ReplyNocache
  <2>5. x \notin ToSet(rq) /\ working[x] = 0
    BY <2>2, <2>4 DEF Isreplay
  <2>6. \A k \in DOMAIN rq : rq[k] # x
    BY <2>5 DEF ToSet
  <2> QED  BY <1>1, <2>1, <2>2, <2>5, <2>6 DEF ReplayInv
<1>2. ReplayInv /\ [Next]_vars => [P]_vars
    BY <1>1
<1> QED  BY <1>2, InitReplay, ReplayStep, PTL DEF Spec, NoEarlyReexecution
=============================================================================
