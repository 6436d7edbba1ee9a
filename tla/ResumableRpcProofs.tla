------------------------- MODULE ResumableRpcProofs -------------------------
(***************************************************************************)
(* A resumed session loses no reply and implements at-most-once RPC, for   *)
(* any number of calls, connections and calls back.                        *)
(*                                                                         *)
(* Two cases are excluded, as they are in run resumable_rpc: a known send  *)
(* buffer size (run resumable_rpc_sndbuf shows that replies are lost with  *)
(* it) and calls that are made between pre_resume () and post_resume ().   *)
(***************************************************************************)
EXTENDS ResumableRpc, ListsProofs

\* What the server has still to read.
In == IF slink = "on" THEN c2s ELSE oldc2s

Out(c) == st[c] = "out"
Ran(c) == executed[c] > 0
InTab(c) == c \in working \/ InRq(c)
Entries == ToSet(rq)

Types ==
    /\ st \in [Calls -> {"new", "out", "done"}] /\ calls \in Seq(Calls)
    /\ clink \in {"on", "pre", "lost", "eof"} /\ slink \in {"on", "lost", "eof"}
    /\ In \in Seq(Calls \cup {"pong"})
    /\ s2c \in Seq(Calls \cup {"resumed", "ping"})
    /\ \A c \in working : c \in Calls
    /\ rq \in Seq([call : Calls, off : Nat])
    /\ sent \in Nat /\ acked \in 0..sent /\ pingoff \in 0..sent
    /\ executed \in [Calls -> {0, 1}]

\* The two ends agree on the connection: the server reads from one whose
\* client has sent everything again, or nothing yet.
LinkInv ==
    /\ clink = "on" => slink = "on"
    /\ slink = "on" => clink \in {"on", "pre"} /\ oldc2s = <<>>
    /\ slink = "eof" => oldc2s = <<>>
    /\ slink = "on" /\ clink = "pre" => /\ c2s = <<>> /\ s2c # <<>> /\ Head(s2c) = "resumed"
                                        /\ acked = 0
    /\ slink # "on" /\ clink = "pre" => c2s = <<"resume">> /\ s2c = <<>>
    /\ clink \in {"lost", "eof"} => c2s = <<>>

\* The calls that the client keeps, in order: those the server has seen come
\* first.
CallsInv ==
    /\ IsInjective(calls)
    /\ \A c \in Calls : c \in ToSet(calls) <=> Out(c)
    /\ \A i, j \in DOMAIN calls : i < j /\ Ran(calls[j]) => Ran(calls[i])

\* What each side knows of a call.
PhaseInv ==
    /\ \A c \in Calls : st[c] = "new" => ~Ran(c)
    /\ \A c \in Calls : st[c] = "done" => Ran(c)
    /\ \A c \in Calls : InTab(c) => Ran(c)
    /\ \A c \in working : ~InRq(c)
    /\ \A c \in ToSet(s2c) : c \in Calls => Ran(c)

\* The stream of messages to the server repeats no call of the client, and
\* repeats first what an earlier connection had carried.
StreamInv ==
    /\ IsInjective(In)
    /\ \A c \in ToSet(In) : c \in Calls => st[c] # "new"
    /\ \A i, j \in DOMAIN In :
         i < j /\ In[i] \in Calls /\ In[j] \in Calls /\ Ran(In[j]) => Ran(In[i])
    /\ \A i, j \in DOMAIN In :
         i < j /\ In[i] = "pong" /\ In[j] \in Calls => ~Ran(In[j])
    /\ \A i, j \in DOMAIN calls, l \in DOMAIN In :
         i < j /\ ~Ran(calls[i]) /\ ~Ran(calls[j]) /\ In[l] = calls[j]
           => \E k \in DOMAIN In : k < l /\ In[k] = calls[i]
    /\ clink = "on" => \A c \in Calls : Out(c) /\ ~Ran(c) => c \in ToSet(In)

\* Why nothing that is needed is evicted.  A reply of an earlier connection
\* that the client lacks is asked for again before any new call; a reply that
\* was sent before an answered call of the server has been received.
EvictInv ==
    /\ \A c \in Calls : Out(c) /\ Ran(c) => InTab(c)
    /\ \A c \in ToSet(In) : c \in Calls /\ Ran(c) => InTab(c)
    /\ acked > 0 => \A c \in ToSet(In) : c \in Calls => ~Ran(c)
    /\ clink = "on" \/ In # <<>> =>
         \A e \in Entries : e.off = 0 /\ Out(e.call) => e.call \in ToSet(In)
    /\ \A e \in Entries : e.off > 0 /\ e.off < acked => ~Out(e.call)

\* At most one call of the server is on its way, and what was sent before it
\* is ahead of it, or received.
PingInv ==
    /\ pingoff = 0 => "pong" \notin ToSet(In)
    /\ "pong" \in ToSet(In) =>
         \A e \in Entries : e.off > 0 /\ e.off < pingoff => ~Out(e.call)
    /\ slink = "on" =>
         /\ pingoff = 0 => "ping" \notin ToSet(s2c)
         /\ "ping" \in ToSet(s2c) => "pong" \notin ToSet(In)
         /\ \A i, j \in DOMAIN s2c : s2c[i] = "ping" /\ s2c[j] = "ping" => i = j
         /\ \A e \in Entries : e.off > 0 /\ Out(e.call) => e.call \in ToSet(s2c)
         /\ \A e \in Entries, k \in DOMAIN s2c :
              e.off > 0 /\ e.off < pingoff /\ Out(e.call) /\ s2c[k] = "ping"
                => \E j \in DOMAIN s2c : j < k /\ s2c[j] = e.call

SessionInv ==
    Types /\ LinkInv /\ CallsInv /\ PhaseInv /\ StreamInv /\ EvictInv /\ PingInv

-----------------------------------------------------------------------------
\* The cache of replies.

Cached == [call : Calls, off : Nat]

\* A call is none of the other messages.
LEMMA CallNames ==
    \A c \in Calls : c # "resume" /\ c # "resumed" /\ c # "ping" /\ c # "pong"
BY ResumeAssumption

\* A reply is cached at a position iff it is among the entries.
LEMMA CallsOfEntries ==
    ASSUME NEW q \in Seq(Cached), NEW c
    PROVE  (\E k \in DOMAIN q : q[k].call = c) <=> \E e \in ToSet(q) : e.call = c
<1>1. \A e : e \in ToSet(q) <=> \E k \in 1..Len(q) : q[k] = e
    BY ToSetIndex, Zenon
<1>2. DOMAIN q = 1..Len(q)
    OBVIOUS
<1> QED  BY <1>1, <1>2, Zenon

\* A call has a cached reply, now and after a step, iff an entry is for it.
LEMMA InRqEntries ==
    /\ rq \in Seq(Cached) => \A c : InRq(c) <=> \E e \in Entries : e.call = c
    /\ rq' \in Seq(Cached) => \A c : InRq(c)' <=> \E e \in Entries' : e.call = c
BY CallsOfEntries, Zenon DEF InRq, Entries

\* Only leading entries whose offset is old are evicted.
LEMMA EvictFacts ==
    ASSUME NEW q \in Seq(Cached), NEW old
    PROVE  /\ EvictWhile(old, q) \in Seq(Cached)
           /\ \A e \in ToSet(EvictWhile(old, q)) : e \in ToSet(q)
           /\ \A e \in ToSet(q) : e \in ToSet(EvictWhile(old, q)) \/ e.off \in old
<1> DEFINE stay == {k \in DOMAIN q : q[k].off \notin old}
           r == EvictWhile(old, q)
<1>1. Len(q) \in Nat /\ DOMAIN q = 1..Len(q)
    OBVIOUS
<1>2. \A e : e \in ToSet(q) <=> \E k \in 1..Len(q) : q[k] = e
    BY ToSetIndex, Zenon
<1>3. CASE stay = {}
  <2>1. r = <<>>
    BY <1>3 DEF EvictWhile
  <2>2. r \in Seq(Cached) /\ ToSet(r) = {}
    BY <2>1 DEF ToSet
  <2>3. \A k \in 1..Len(q) : q[k].off \in old
    BY <1>1, <1>3
  <2> QED  BY <1>2, <2>2, <2>3
<1>4. CASE stay # {}
  <2> DEFINE m == CHOOSE k \in stay : \A j \in stay : k <= j
  <2>1. \A x \in stay : x \in 1..Len(q)
    BY <1>1
  <2>2. stay \subseteq Nat
    BY <2>1
  <2> HIDE DEF stay
  <2>3. \E k \in stay : \A j \in stay : k <= j
    BY <1>4, <2>2, LeastNat
  <2>4. m \in stay /\ \A j \in stay : m <= j
    BY <2>3
  <2>5. r = SubSeq(q, m, Len(q))
    BY <1>4 DEF EvictWhile, stay
  <2> HIDE DEF m
  <2>6. m \in 1..Len(q)
    BY <2>1, <2>4
  <2>7. /\ r \in Seq(Cached) /\ Len(r) = Len(q) + 1 - m
        /\ \A i \in 1..(Len(q) + 1 - m) : r[i] = q[m + i - 1]
    BY <1>1, <2>5, <2>6
  <2> HIDE DEF r
  <2>8. \A e : e \in ToSet(r) <=> \E k \in 1..(Len(q) + 1 - m) : r[k] = e
    <3>1. r \in Seq(Cached)
        BY <2>7
    <3> QED  BY <2>7, <3>1, ToSetIndex
  <2>9. \A e \in ToSet(r) : e \in ToSet(q)
    <3>1. TAKE e \in ToSet(r)
    <3>2. PICK i \in 1..(Len(q) + 1 - m) : r[i] = e
        BY <2>8
    <3>3. m + i - 1 \in 1..Len(q) /\ q[m + i - 1] = e
        BY <1>1, <2>6, <2>7, <3>2
    <3> QED  BY <1>2, <3>3
  <2>10. \A e \in ToSet(q) : e \in ToSet(r) \/ e.off \in old
    <3>1. TAKE e \in ToSet(q)
    <3>2. PICK k \in 1..Len(q) : q[k] = e
        BY <1>2
    <3>3. CASE k < m
      <4>1. k \notin stay
        BY <1>1, <2>4, <2>6, <3>3
      <4> QED  BY <1>1, <3>2, <4>1 DEF stay
    <3>4. CASE ~(k < m)
      <4>1. k + 1 - m \in 1..(Len(q) + 1 - m) /\ m + (k + 1 - m) - 1 = k
        BY <1>1, <2>6, <3>4
      <4>2. r[k + 1 - m] = e
        BY <2>7, <3>2, <4>1
      <4> QED  BY <2>8, <4>1, <4>2
    <3> QED  BY <3>3, <3>4
  <2>11. r \in Seq(Cached)
    BY <2>7
  <2> QED  BY <2>9, <2>10, <2>11 DEF r
<1> QED  BY <1>3, <1>4

\* RecvReplay: the reply to c has the offset of the message just sent.
LEMMA MovedFacts ==
    ASSUME rq \in Seq(Cached), sent \in Nat, NEW c \in Calls
    PROVE  /\ Moved(c) \in Seq(Cached)
           /\ \A e : e \in ToSet(Moved(c))
                       <=> (e \in Entries /\ e.call # c) \/ e = [call |-> c, off |-> sent + 1]
<1> DEFINE S == {e \in ToSet(rq) : e.call # c}
           n == [call |-> c, off |-> sent + 1]
<1>1. Keep(rq, S) \in Seq(Cached)
    BY KeepType
<1>2. ToSet(Keep(rq, S)) = ToSet(rq) \cap S
    BY KeepMembers
<1>3. n \in Cached
    BY DEF Cached
<1>4. Moved(c) = Append(Keep(rq, S), n)
    BY DEF Moved
<1> HIDE DEF n, S
<1>5. Moved(c) \in Seq(Cached) /\ ToSet(Moved(c)) = ToSet(Keep(rq, S)) \cup {n}
  <2> DEFINE s == Keep(rq, S)
  <2> HIDE DEF s
  <2>1. s \in Seq(Cached)
    BY <1>1 DEF s
  <2>2. Append(s, n) \in Seq(Cached) /\ ToSet(Append(s, n)) = ToSet(s) \cup {n}
    BY <2>1, <1>3, AppendFacts
  <2> QED  BY <1>4, <2>2 DEF s
<1>6. \A e : e \in ToSet(Moved(c)) <=> (e \in Entries /\ e.call # c) \/ e = n
    BY <1>2, <1>5, Zenon DEF Entries, S
<1> QED  BY <1>5, <1>6 DEF n

\* asrv_resumable::resume (): the offsets of the last connection are void.
LEMMA ResumeFacts ==
    ASSUME rq \in Seq(Cached)
    PROVE  /\ RqOnResume \in Seq(Cached)
           /\ \A e \in ToSet(RqOnResume) : e.off = 0 /\ \E f \in Entries : f.call = e.call
           /\ \A f \in Entries : \E e \in ToSet(RqOnResume) : e.call = f.call
<1>1. /\ Len(rq) \in Nat /\ DOMAIN rq = 1..Len(rq)
      /\ \A k \in 1..Len(rq) : rq[k] \in Cached
    OBVIOUS
<1>2. RqOnResume = [k \in 1..Len(rq) |-> [rq[k] EXCEPT !.off = 0]]
    BY <1>1 DEF RqOnResume
<1>3. \A k \in 1..Len(rq) : /\ [rq[k] EXCEPT !.off = 0] \in Cached
                            /\ [rq[k] EXCEPT !.off = 0].off = 0
                            /\ [rq[k] EXCEPT !.off = 0].call = rq[k].call
    BY <1>1 DEF Cached
<1>4. RqOnResume \in Seq(Cached) /\ Len(RqOnResume) = Len(rq)
    BY <1>1, <1>2, <1>3
<1>5. \A e : e \in ToSet(RqOnResume) <=> \E k \in 1..Len(rq) : RqOnResume[k] = e
    BY <1>4, ToSetIndex
<1>6. \A e : e \in Entries <=> \E k \in 1..Len(rq) : rq[k] = e
    BY ToSetIndex, Zenon DEF Entries
<1>7. \A k \in 1..Len(rq) : RqOnResume[k].off = 0 /\ RqOnResume[k].call = rq[k].call
    BY <1>2, <1>3
<1> QED  BY <1>4, <1>5, <1>6, <1>7

-----------------------------------------------------------------------------
\* The stream to the server.

\* A new session.
LEMMA InitSession == Init => SessionInv
<1> SUFFICES ASSUME Init PROVE SessionInv
    OBVIOUS
<1>1. /\ In = <<>> /\ calls = <<>> /\ s2c = <<>> /\ rq = <<>> /\ working = {}
      /\ slink = "on" /\ clink = "on" /\ oldc2s = <<>> /\ c2s = <<>>
      /\ sent = 0 /\ acked = 0 /\ pingoff = 0
      /\ \A c \in Calls : st[c] = "new" /\ ~Ran(c)
    BY DEF Init, In, Ran
<1>2. ToSet(<<>>) = {} /\ IsInjective(<<>>) /\ DOMAIN <<>> = {}
    BY DEF ToSet, IsInjective
<1>3. Types
    BY <1>1 DEF Init, Types
<1>4. LinkInv
    BY <1>1 DEF LinkInv
<1>5. CallsInv
    BY <1>1, <1>2 DEF CallsInv, Out
<1>6. PhaseInv
    BY <1>1, <1>2 DEF PhaseInv, InTab, InRq
<1>7. StreamInv
    BY <1>1, <1>2 DEF StreamInv, Out
<1>8. EvictInv
    BY <1>1, <1>2 DEF EvictInv, Out, Entries
<1>9. PingInv
    BY <1>1, <1>2 DEF PingInv, Entries
<1> QED  BY <1>3, <1>4, <1>5, <1>6, <1>7, <1>8, <1>9 DEF SessionInv

\* Types of the elements, for the steps below.
LEMMA Elements ==
    ASSUME Types
    PROVE  /\ DOMAIN In = 1..Len(In) /\ Len(In) \in Nat
           /\ \A k \in 1..Len(In) : In[k] \in Calls \/ In[k] = "pong"
           /\ \A x : x \in ToSet(In) <=> \E k \in 1..Len(In) : In[k] = x
           /\ DOMAIN calls = 1..Len(calls) /\ Len(calls) \in Nat
           /\ \A k \in 1..Len(calls) : calls[k] \in Calls
           /\ \A x : x \in ToSet(calls) <=> \E k \in 1..Len(calls) : calls[k] = x
           /\ \A e \in Entries : e.call \in Calls /\ e.off \in Nat
           /\ \A c \in Calls : InRq(c) <=> \E e \in Entries : e.call = c
<1>1. In \in Seq(Calls \cup {"pong"}) /\ calls \in Seq(Calls) /\ rq \in Seq(Cached)
    BY DEF Types, Cached
<1>2. DOMAIN In = 1..Len(In) /\ Len(In) \in Nat /\ \A k \in 1..Len(In) : In[k] \in Calls \/ In[k] = "pong"
    BY <1>1
<1>3. DOMAIN calls = 1..Len(calls) /\ Len(calls) \in Nat /\ \A k \in 1..Len(calls) : calls[k] \in Calls
    BY <1>1
<1>4. \A x : x \in ToSet(In) <=> \E k \in 1..Len(In) : In[k] = x
    BY <1>1, ToSetIndex
<1>5. \A x : x \in ToSet(calls) <=> \E k \in 1..Len(calls) : calls[k] = x
    BY <1>1, ToSetIndex
<1>6. \A e \in Entries : e \in Cached
    BY <1>1, ToSetIndex DEF Entries
<1>7. \A e \in Entries : e.call \in Calls /\ e.off \in Nat
    BY <1>6 DEF Cached
<1>8. \A c \in Calls : InRq(c) <=> \E e \in Entries : e.call = c
    BY <1>1, InRqEntries
<1> QED  BY <1>2, <1>3, <1>4, <1>5, <1>7, <1>8

\* A call is the last of the client's list and of the stream.
LEMMA CallSession ==
    ASSUME ~EarlyCalls, SessionInv, NEW c \in Calls, Call(c)
    PROVE  SessionInv'
<1> USE DEF SessionInv
<1>1. /\ st[c] = "new" /\ clink # "pre"
      /\ st' = [st EXCEPT ![c] = "out"] /\ calls' = Append(calls, c)
      /\ UNCHANGED <<clink, s2c, slink, oldc2s, working, rq, sent, acked, pingoff, executed>>
    BY DEF Call, servervars
<1>2. In' = IF clink = "on" THEN Append(In, c) ELSE In
  <2>1. CASE clink = "on"
    <3>1. slink = "on" /\ In = c2s /\ In' = c2s'
        BY <1>1, <2>1 DEF LinkInv, In
    <3>2. c2s' = c2s \o <<c>>
        BY <2>1 DEF Call, Xmit
    <3>3. c2s \o <<c>> = Append(c2s, c)
        BY <3>1 DEF Types
    <3> QED  BY <2>1, <3>1, <3>2, <3>3
  <2>2. CASE clink # "on"
    BY <1>1, <2>2 DEF Call, Xmit, In
  <2> QED  BY <2>1, <2>2
<1>3. LinkInv'
    BY <1>1 DEF LinkInv, Types, Call, Xmit
<1>4. Types'
  <2>1. In' \in Seq(Calls \cup {"pong"})
    BY <1>2 DEF Types
  <2>2. st' \in [Calls -> {"new", "out", "done"}] /\ calls' \in Seq(Calls)
    BY <1>1 DEF Types
  <2> QED  BY <1>1, <2>1, <2>2 DEF Types
<1>5. /\ DOMAIN In = 1..Len(In) /\ Len(In) \in Nat
      /\ \A k \in 1..Len(In) : In[k] \in Calls \/ In[k] = "pong"
      /\ \A x : x \in ToSet(In) <=> \E k \in 1..Len(In) : In[k] = x
    BY Elements
<1>6. /\ DOMAIN calls = 1..Len(calls) /\ Len(calls) \in Nat
      /\ \A k \in 1..Len(calls) : calls[k] \in Calls
      /\ \A x : x \in ToSet(calls) <=> \E k \in 1..Len(calls) : calls[k] = x
    BY Elements
<1>7. ~Ran(c) /\ c \notin ToSet(In) /\ c \notin ToSet(calls) /\ c # "pong"
    BY <1>1, CallNames DEF PhaseInv, StreamInv, CallsInv, Out
<1>8. \A e \in Entries : e.call # c /\ e.call \in Calls
    BY <1>7, Elements DEF PhaseInv, InTab
<1>9. /\ Entries' = Entries
      /\ \A d \in Calls : /\ Ran(d)' <=> Ran(d)
                          /\ Out(d)' <=> Out(d) \/ d = c
                          /\ InTab(d)' <=> InTab(d)
                          /\ d # c => st'[d] = st[d]
      /\ st'[c] = "out"
    BY <1>1 DEF Entries, Ran, Out, InTab, InRq, Types
<1>10. /\ \A x : x \in ToSet(In)' => x \in ToSet(In) \/ x = c
       /\ \A x : x \in ToSet(In) => x \in ToSet(In)'
       /\ clink = "on" => c \in ToSet(In)'
  <2>1. In \in Seq(Calls \cup {"pong"})
    BY DEF Types
  <2>2. ToSet(Append(In, c)) = ToSet(In) \cup {c}
    BY <2>1, AppendFacts
  <2> QED  BY <1>2, <2>2
<1>11. CallsInv'
  <2>1. calls \in Seq(Calls)
    BY DEF Types
  <2>2. IsInjective(calls)' /\ ToSet(calls)' = ToSet(calls) \cup {c}
    BY <1>1, <1>7, <2>1, AppendFacts DEF CallsInv
  <2>3. \A d \in Calls : d \in ToSet(calls)' <=> Out(d)'
    BY <1>9, <2>2 DEF CallsInv
  <2>4. DOMAIN calls' = 1..(Len(calls) + 1)
        /\ \A k \in 1..(Len(calls) + 1) : calls'[k] = IF k = Len(calls) + 1 THEN c ELSE calls[k]
    BY <1>1, <2>1
  <2>5. ASSUME NEW i \in DOMAIN calls', NEW j \in DOMAIN calls', i < j, Ran(calls[j])'
        PROVE  Ran(calls[i])'
    <3>1. CASE j = Len(calls) + 1
      <4>1. ~Ran(c)'
        BY <1>7, <1>9
      <4>2. calls'[j] = c
        BY <2>4, <3>1
      <4> QED  BY <2>5, <4>1, <4>2 DEF Ran
    <3>2. CASE j # Len(calls) + 1
      <4>1. i \in 1..Len(calls) /\ j \in 1..Len(calls) /\ calls'[i] = calls[i] /\ calls'[j] = calls[j]
        BY <1>6, <2>4, <2>5, <3>2
      <4> QED  BY <1>1, <1>6, <2>5, <4>1 DEF CallsInv, Ran
    <3> QED  BY <3>1, <3>2
  <2> QED  BY <2>2, <2>3, <2>5 DEF CallsInv
<1>12. PhaseInv'
    BY <1>1, <1>7, <1>9 DEF PhaseInv, InRq
<1>13. EvictInv'
    BY <1>1, <1>2, <1>7, <1>8, <1>9, <1>10 DEF EvictInv
<1>14. PingInv'
  <2>1. "pong" \in ToSet(In)' <=> "pong" \in ToSet(In)
    BY <1>7, <1>10
  <2> QED  BY <1>1, <1>8, <1>9, <2>1 DEF PingInv
<1>15. StreamInv'
  <2>1. In \in Seq(Calls \cup {"pong"})
    BY DEF Types
  <2>2. IsInjective(In)'
    BY <1>2, <1>7, <2>1, AppendFacts DEF StreamInv
  <2>3. \A d \in ToSet(In)' : d \in Calls => st'[d] # "new"
    BY <1>9, <1>10 DEF StreamInv
  <2>4. clink' = "on" => \A d \in Calls : Out(d)' /\ ~Ran(d)' => d \in ToSet(In)'
    BY <1>1, <1>9, <1>10 DEF StreamInv
  <2>5. /\ clink = "on" => DOMAIN In' = 1..(Len(In) + 1)
        /\ clink = "on" => \A k \in 1..(Len(In) + 1) : In'[k] = IF k = Len(In) + 1 THEN c ELSE In[k]
        /\ clink # "on" => In' = In
    BY <1>2, <2>1
  <2>6. \A k \in DOMAIN In' : In'[k] # c => k \in 1..Len(In) /\ In'[k] = In[k]
    BY <1>5, <2>5
  <2>7. \A k \in 1..Len(In) : k \in DOMAIN In' /\ In'[k] = In[k] /\ In[k] # c
    BY <1>5, <1>7, <2>5
  <2>8. \A k \in DOMAIN In' : In'[k] = c => clink = "on" /\ k = Len(In) + 1
    BY <1>5, <1>7, <2>5
  <2>9. \A i, j \in DOMAIN In' : i < j /\ In'[i] = c => FALSE
    <3>1. SUFFICES ASSUME NEW i \in DOMAIN In', NEW j \in DOMAIN In', i < j, In'[i] = c PROVE FALSE
        OBVIOUS
    <3>2. clink = "on" /\ i = Len(In) + 1 /\ j \in 1..(Len(In) + 1)
        BY <2>5, <2>8, <3>1
    <3> QED  BY <1>5, <3>1, <3>2
  <2>10. \A i, j \in DOMAIN In' :
            i < j /\ In'[i] \in Calls /\ In'[j] \in Calls /\ Ran(In[j])' => Ran(In[i])'
    <3>1. SUFFICES ASSUME NEW i \in DOMAIN In', NEW j \in DOMAIN In', i < j,
                          In'[i] \in Calls, In'[j] \in Calls, executed'[In'[j]] > 0
                   PROVE  executed'[In'[i]] > 0
        BY DEF Ran
    <3>2. In'[i] # c /\ In'[j] # c
        BY <1>1, <1>7, <2>9, <3>1 DEF Ran
    <3> QED  BY <1>1, <1>5, <2>6, <3>1, <3>2 DEF StreamInv, Ran
  <2>11. \A i, j \in DOMAIN In' : i < j /\ In'[i] = "pong" /\ In'[j] \in Calls => ~Ran(In[j])'
    <3>1. SUFFICES ASSUME NEW i \in DOMAIN In', NEW j \in DOMAIN In', i < j,
                          In'[i] = "pong", In'[j] \in Calls, In'[j] # c
                   PROVE  ~(executed'[In'[j]] > 0)
        BY <1>1, <1>7 DEF Ran
    <3> QED  BY <1>1, <1>5, <1>7, <2>6, <3>1 DEF StreamInv, Ran
  <2>12. ASSUME NEW i \in DOMAIN calls', NEW j \in DOMAIN calls', NEW l \in DOMAIN In',
                i < j, ~(executed'[calls'[i]] > 0), ~(executed'[calls'[j]] > 0), In'[l] = calls'[j]
         PROVE  \E k \in DOMAIN In' : k < l /\ In'[k] = calls'[i]
    <3>1. calls \in Seq(Calls)
        BY DEF Types
    <3>2. DOMAIN calls' = 1..(Len(calls) + 1)
          /\ \A k \in 1..(Len(calls) + 1) : calls'[k] = IF k = Len(calls) + 1 THEN c ELSE calls[k]
        BY <1>1, <3>1
    <3>3. i \in 1..Len(calls) /\ calls'[i] = calls[i] /\ calls[i] \in Calls
        BY <1>6, <2>12, <3>2
    <3>4. CASE j = Len(calls) + 1
      <4>1. In'[l] = c /\ clink = "on" /\ l = Len(In) + 1
        BY <2>8, <2>12, <3>2, <3>4
      <4>2. Out(calls[i]) /\ ~Ran(calls[i])
        BY <1>1, <1>6, <2>12, <3>3 DEF CallsInv, Ran
      <4>3. PICK k \in 1..Len(In) : In[k] = calls[i]
        BY <1>5, <3>3, <4>1, <4>2 DEF StreamInv
      <4> QED  BY <1>5, <2>7, <3>3, <4>1, <4>3
    <3>5. CASE j # Len(calls) + 1
      <4>1. j \in 1..Len(calls) /\ calls'[j] = calls[j]
        BY <1>6, <3>2, <3>5
      <4>2. In'[l] # c
        BY <1>6, <1>7, <2>12, <4>1
      <4>3. l \in 1..Len(In) /\ In[l] = calls[j]
        BY <2>6, <2>12, <4>1, <4>2
      <4>4. PICK k \in 1..Len(In) : k < l /\ In[k] = calls[i]
        BY <1>1, <1>5, <1>6, <2>12, <3>3, <4>1, <4>3 DEF StreamInv, Ran
      <4> QED  BY <2>7, <3>3, <4>4
    <3> QED  BY <3>4, <3>5
  <2> QED  BY <2>2, <2>3, <2>4, <2>10, <2>11, <2>12 DEF StreamInv, Ran
<1> QED  BY <1>3, <1>4, <1>11, <1>12, <1>13, <1>14, <1>15

\* The client has read a message that is no reply to an outstanding call:
\* what the server sent before its own call is still ahead of it.
LEMMA PingTail ==
    ASSUME Types, PingInv, slink = "on", s2c # <<>>, s2c' = Tail(s2c),
           \A e \in Entries : Out(e.call)' => Out(e.call) /\ e.call # Head(s2c)
    PROVE  /\ \A i, j \in DOMAIN s2c' : s2c'[i] = "ping" /\ s2c'[j] = "ping" => i = j
           /\ \A e \in Entries : e.off > 0 /\ Out(e.call)' => e.call \in ToSet(s2c)'
           /\ \A e \in Entries, k \in DOMAIN s2c' :
                e.off > 0 /\ e.off < pingoff /\ Out(e.call)' /\ s2c'[k] = "ping"
                  => \E j \in DOMAIN s2c' : j < k /\ s2c'[j] = e.call
           /\ \A x \in ToSet(s2c)' : x \in ToSet(s2c)
           /\ Head(s2c) = "ping" => "ping" \notin ToSet(s2c)'
<1>1. s2c \in Seq(Calls \cup {"resumed", "ping"})
    BY DEF Types
<1>2. /\ Len(s2c) \in Nat /\ Len(s2c) >= 1 /\ DOMAIN s2c = 1..Len(s2c) /\ s2c[1] = Head(s2c)
      /\ DOMAIN s2c' = 1..(Len(s2c) - 1) /\ \A k \in 1..(Len(s2c) - 1) : s2c'[k] = s2c[k + 1]
    BY <1>1
<1>3. \A x \in ToSet(s2c)' : x \in ToSet(s2c)
    BY <1>1, TailFacts
<1>4. \A x \in ToSet(s2c) : x # Head(s2c) => x \in ToSet(s2c)'
  <2>1. TAKE x \in ToSet(s2c)
  <2>2. HAVE x # Head(s2c)
  <2>3. PICK k \in 1..Len(s2c) : s2c[k] = x
    BY <1>1, ToSetIndex
  <2>4. k - 1 \in 1..(Len(s2c) - 1) /\ (k - 1) + 1 = k
    BY <1>2, <2>2, <2>3
  <2>5. s2c'[k - 1] = x
    BY <1>2, <2>3, <2>4
  <2> QED  BY <1>2, <2>4, <2>5 DEF ToSet
<1>5. ASSUME NEW i \in DOMAIN s2c', s2c'[i] = "ping"
      PROVE  i \in Nat /\ i + 1 \in DOMAIN s2c /\ s2c[i + 1] = "ping"
    BY <1>2, <1>5
<1>6. ASSUME NEW i \in DOMAIN s2c', NEW j \in DOMAIN s2c', s2c'[i] = "ping", s2c'[j] = "ping"
      PROVE  i = j
  <2>1. i + 1 = j + 1
    BY <1>5, <1>6 DEF PingInv
  <2> QED  BY <1>5, <1>6, <2>1
<1>7. \A e \in Entries : e.off > 0 /\ Out(e.call)' => e.call \in ToSet(s2c)'
    BY <1>4 DEF PingInv
<1>8. ASSUME NEW e \in Entries, NEW k \in DOMAIN s2c',
             e.off > 0, e.off < pingoff, Out(e.call)', s2c'[k] = "ping"
      PROVE  \E j \in DOMAIN s2c' : j < k /\ s2c'[j] = e.call
  <2>1. Out(e.call) /\ e.call # Head(s2c)
    BY <1>8
  <2>2. k + 1 \in DOMAIN s2c /\ s2c[k + 1] = "ping" /\ k \in Nat
    BY <1>5, <1>8
  <2>3. PICK j \in DOMAIN s2c : j < k + 1 /\ s2c[j] = e.call
    BY <1>8, <2>1, <2>2 DEF PingInv
  <2>4. j - 1 \in 1..(Len(s2c) - 1) /\ (j - 1) + 1 = j /\ j - 1 < k
    BY <1>2, <2>1, <2>2, <2>3
  <2> QED  BY <1>2, <2>3, <2>4
<1>9. ASSUME Head(s2c) = "ping", "ping" \in ToSet(s2c)' PROVE FALSE
  <2>1. PICK i \in DOMAIN s2c' : s2c'[i] = "ping"
    BY <1>9 DEF ToSet
  <2>2. i + 1 = 1
    BY <1>2, <1>5, <1>9, <2>1 DEF PingInv
  <2> QED  BY <1>5, <2>1, <2>2
<1> QED  BY <1>3, <1>6, <1>7, <1>8, <1>9

\* The client reads a message; of the lists, only s2c gets shorter.
LEMMA RecvReplySession ==
    ASSUME SessionInv, NEW c \in Calls, RecvReply(c)
    PROVE  SessionInv'
<1> USE DEF SessionInv
<1>1. /\ s2c # <<>> /\ Head(s2c) = c /\ s2c' = Tail(s2c)
      /\ st' = [st EXCEPT ![c] = IF @ = "out" THEN "done" ELSE @] /\ calls' = Without(calls, c)
      /\ UNCHANGED <<clink, c2s, slink, oldc2s, working, rq, sent, acked, pingoff, executed>>
    BY DEF RecvReply, servervars
<1>2. In' = In /\ Entries' = Entries
    BY <1>1 DEF In, Entries
<1>3. s2c \in Seq(Calls \cup {"resumed", "ping"})
    BY DEF Types
<1>4. /\ s2c' \in Seq(Calls \cup {"resumed", "ping"})
      /\ Head(s2c) \in ToSet(s2c) /\ \A x \in ToSet(s2c)' : x \in ToSet(s2c)
    BY <1>1, <1>3, TailFacts
<1>5. Ran(c) /\ c # "resumed" /\ c # "ping"
    BY <1>1, <1>4, CallNames DEF PhaseInv
<1>6. \A d \in Calls : /\ Ran(d)' <=> Ran(d)
                       /\ Out(d)' <=> Out(d) /\ d # c
                       /\ InTab(d)' <=> InTab(d)
                       /\ d # c => st'[d] = st[d]
                       /\ st'[d] = "new" <=> st[d] = "new"
                       /\ st'[d] = "done" => st[d] = "done" \/ d = c
    BY <1>1 DEF Ran, Out, InTab, InRq, Types
<1>7. /\ calls' \in Seq(Calls) /\ IsInjective(calls)'
      /\ ToSet(calls)' = ToSet(calls) \ {c}
    BY <1>1, WithoutFacts DEF Types, CallsInv
<1>8. ASSUME NEW i \in DOMAIN calls', NEW j \in DOMAIN calls', i < j
      PROVE  \E k, l \in DOMAIN calls : k < l /\ calls'[i] = calls[k] /\ calls'[j] = calls[l]
  <2> DEFINE S == ToSet(calls) \ {c}
  <2>1. calls' = Keep(calls, S)
    BY <1>1 DEF Without
  <2>2. calls \in Seq(Calls)
    BY DEF Types
  <2>3. DOMAIN calls = 1..Len(calls) /\ DOMAIN calls' = 1..Len(calls')
    BY <1>7, <2>2
  <2> HIDE DEF S
  <2>4. i \in 1..Len(Keep(calls, S)) /\ j \in 1..Len(Keep(calls, S))
    BY <2>1, <2>3
  <2>5. \E k, l \in 1..Len(calls) : k < l /\ Keep(calls, S)[i] = calls[k] /\ Keep(calls, S)[j] = calls[l]
    BY <1>8, <2>2, <2>4, KeepOrder
  <2> QED  BY <2>1, <2>3, <2>5
<1>9. Types'
  <2>1. st' \in [Calls -> {"new", "out", "done"}]
    BY <1>1 DEF Types
  <2> QED  BY <1>1, <1>2, <1>4, <1>7, <2>1 DEF Types
<1>10. LinkInv'
    BY <1>1, <1>5 DEF LinkInv
<1>11. CallsInv'
  <2>1. \A d \in Calls : d \in ToSet(calls)' <=> Out(d)'
    BY <1>6, <1>7 DEF CallsInv
  <2>2. ASSUME NEW i \in DOMAIN calls', NEW j \in DOMAIN calls', i < j, Ran(calls[j])'
        PROVE  Ran(calls[i])'
    BY <1>1, <1>8, <2>2 DEF CallsInv, Ran
  <2> QED  BY <1>7, <2>1, <2>2 DEF CallsInv
<1>12. PhaseInv'
    BY <1>1, <1>4, <1>5, <1>6 DEF PhaseInv, InRq
<1>13. StreamInv'
  <2>1. \A d \in ToSet(In)' : d \in Calls => st'[d] # "new"
    BY <1>2, <1>6 DEF StreamInv
  <2>2. clink' = "on" => \A d \in Calls : Out(d)' /\ ~Ran(d)' => d \in ToSet(In)'
    BY <1>1, <1>2, <1>6 DEF StreamInv
  <2>3. ASSUME NEW i \in DOMAIN calls', NEW j \in DOMAIN calls', NEW l \in DOMAIN In',
               i < j, ~(executed'[calls'[i]] > 0), ~(executed'[calls'[j]] > 0), In'[l] = calls'[j]
        PROVE  \E k \in DOMAIN In' : k < l /\ In'[k] = calls'[i]
    <3>1. PICK m, n \in DOMAIN calls : m < n /\ calls'[i] = calls[m] /\ calls'[j] = calls[n]
        BY <1>8, <2>3
    <3> QED  BY <1>1, <1>2, <2>3, <3>1 DEF StreamInv, Ran
  <2>4. IsInjective(In)'
    BY <1>2 DEF StreamInv
  <2>5. /\ \A i, j \in DOMAIN In' :
             i < j /\ In'[i] \in Calls /\ In'[j] \in Calls /\ executed'[In'[j]] > 0 => executed'[In'[i]] > 0
        /\ \A i, j \in DOMAIN In' :
             i < j /\ In'[i] = "pong" /\ In'[j] \in Calls => ~(executed'[In'[j]] > 0)
    BY <1>1, <1>2 DEF StreamInv, Ran
  <2> QED  BY <2>1, <2>2, <2>3, <2>4, <2>5 DEF StreamInv, Ran
<1>14. \A e \in Entries : e.call \in Calls
    BY Elements
<1>15. EvictInv'
  <2>1. \A d \in ToSet(In) : d \in Calls => (Ran(d)' <=> Ran(d)) /\ (InTab(d)' <=> InTab(d))
    BY <1>6
  <2> QED  BY <1>1, <1>2, <1>6, <1>14, <2>1 DEF EvictInv
<1>16. PingInv'
  <2>1. \A e \in Entries : Out(e.call)' => Out(e.call) /\ e.call # Head(s2c)
    BY <1>1, <1>6, <1>14
  <2> QED  BY <1>1, <1>2, <2>1, PingTail DEF PingInv
<1> QED  BY <1>9, <1>10, <1>11, <1>12, <1>13, <1>15, <1>16

\* The client replays its calls, in order, before any new one.
LEMMA RecvResumedSession ==
    ASSUME SessionInv, RecvResumed
    PROVE  SessionInv'
<1> USE DEF SessionInv
<1>1. /\ clink = "pre" /\ s2c # <<>> /\ Head(s2c) = "resumed" /\ s2c' = Tail(s2c) /\ clink' = "on"
      /\ UNCHANGED <<st, calls, slink, oldc2s, working, rq, sent, acked, pingoff, executed>>
    BY DEF RecvResumed, servervars
<1>2. slink = "on" /\ c2s = <<>> /\ acked = 0 /\ oldc2s = <<>>
    BY <1>1 DEF LinkInv
<1>3. In = <<>> /\ In' = calls
  <2>1. c2s' = <<>> \o calls
    BY <1>1, <1>2, Zenon DEF RecvResumed, Xmit, Replay
  <2>2. <<>> \o calls = calls
    BY DEF Types
  <2> QED  BY <1>1, <1>2, <2>1, <2>2 DEF In
<1>4. s2c \in Seq(Calls \cup {"resumed", "ping"}) /\ calls \in Seq(Calls)
    BY DEF Types
<1>5. /\ s2c' \in Seq(Calls \cup {"resumed", "ping"})
      /\ \A x \in ToSet(s2c)' : x \in ToSet(s2c)
    BY <1>1, <1>4, TailFacts
<1>6. /\ Entries' = Entries
      /\ \A d \in Calls : /\ Ran(d)' <=> Ran(d)
                          /\ Out(d)' <=> Out(d)
                          /\ InTab(d)' <=> InTab(d)
    BY <1>1 DEF Ran, Out, InTab, InRq, Entries
<1>7. DOMAIN calls = 1..Len(calls) /\ \A k \in 1..Len(calls) : calls[k] \in Calls /\ calls[k] # "pong"
    BY <1>4, CallNames
<1>8. /\ \A x : x \in ToSet(calls) <=> \E k \in 1..Len(calls) : calls[k] = x
      /\ "pong" \notin ToSet(calls)
      /\ ToSet(In)' = ToSet(calls)
    BY <1>3, <1>7, Elements
<1>9. Types'
  <2>1. calls \in Seq(Calls \cup {"pong"})
    BY <1>4
  <2> QED  BY <1>1, <1>3, <1>5, <2>1 DEF Types
<1>10. LinkInv'
    BY <1>1, <1>2 DEF LinkInv
<1>11. CallsInv'
    BY <1>1 DEF CallsInv, Out, Ran
<1>12. PhaseInv'
    BY <1>1, <1>5, <1>6 DEF PhaseInv, InRq
<1>13. StreamInv'
  <2>1. IsInjective(In)'
    BY <1>3 DEF CallsInv
  <2>2. \A d \in ToSet(In)' : d \in Calls => st'[d] # "new"
    BY <1>1, <1>8 DEF CallsInv, Out
  <2>3. /\ \A i, j \in DOMAIN In' :
             i < j /\ In'[i] \in Calls /\ In'[j] \in Calls /\ executed'[In'[j]] > 0 => executed'[In'[i]] > 0
        /\ \A i, j \in DOMAIN In' :
             i < j /\ In'[i] = "pong" /\ In'[j] \in Calls => ~(executed'[In'[j]] > 0)
    BY <1>1, <1>3, <1>7 DEF CallsInv, Ran
  <2>4. ASSUME NEW i \in DOMAIN calls', NEW j \in DOMAIN calls', NEW l \in DOMAIN In',
               i < j, In'[l] = calls'[j]
        PROVE  \E k \in DOMAIN In' : k < l /\ In'[k] = calls'[i]
    BY <1>1, <1>3, <2>4 DEF CallsInv, IsInjective
  <2>5. \A d \in Calls : Out(d)' /\ ~Ran(d)' => d \in ToSet(In)'
    BY <1>6, <1>8 DEF CallsInv
  <2> QED  BY <2>1, <2>2, <2>3, <2>4, <2>5 DEF StreamInv, Ran
<1>14. \A e \in Entries : e.call \in Calls
    BY Elements
<1>15. EvictInv'
  <2>1. \A d \in ToSet(In)' : d \in Calls /\ Ran(d)' => InTab(d)'
    BY <1>6, <1>8 DEF CallsInv, EvictInv
  <2>2. \A e \in Entries' : Out(e.call)' => e.call \in ToSet(In)'
    BY <1>6, <1>8, <1>14 DEF CallsInv
  <2> QED  BY <1>1, <1>2, <1>6, <1>14, <2>1, <2>2 DEF EvictInv
<1>16. PingInv'
  <2>1. \A e \in Entries : Out(e.call)' => Out(e.call) /\ e.call # Head(s2c)
    BY <1>1, <1>6, <1>14, CallNames
  <2> QED  BY <1>1, <1>2, <1>6, <1>8, <2>1, PingTail DEF PingInv
<1> QED  BY <1>9, <1>10, <1>11, <1>12, <1>13, <1>15, <1>16

\* The invariants on calls and phases do not see the connection.
LEMMA SameCalls ==
    ASSUME CallsInv, UNCHANGED <<st, calls, executed>>
    PROVE  CallsInv'
BY DEF CallsInv, Out, Ran

\* Steps that only move messages keep PhaseInv.
LEMMA SamePhases ==
    ASSUME PhaseInv, UNCHANGED <<st, executed, working, rq>>,
           \A c \in ToSet(s2c)' : c \in Calls => c \in ToSet(s2c) \/ Ran(c)
    PROVE  PhaseInv'
BY DEF PhaseInv, Ran, InTab, InRq

\* Steps that leave the calls and the stream alone keep StreamInv.
LEMMA SameStream ==
    ASSUME StreamInv, UNCHANGED <<st, calls, executed>>, In' = In, clink' = "on" => clink = "on"
    PROVE  StreamInv'
BY DEF StreamInv, Out, Ran

\* The stream to the server is cut off.
LEMMA EmptyStream ==
    ASSUME In' = <<>>, clink' # "on"
    PROVE  StreamInv' /\ ToSet(In)' = {}
<1>1. ToSet(<<>>) = {} /\ IsInjective(<<>>) /\ DOMAIN <<>> = {}
    BY DEF ToSet, IsInjective
<1> QED  BY <1>1 DEF StreamInv

\* The client answers a ping with what it has received.
LEMMA RecvPingSession ==
    ASSUME SessionInv, RecvPing
    PROVE  SessionInv'
<1> USE DEF SessionInv
<1>1. /\ s2c # <<>> /\ Head(s2c) = "ping" /\ s2c' = Tail(s2c)
      /\ UNCHANGED <<st, calls, clink, slink, oldc2s, working, rq, sent, acked, pingoff, executed>>
    BY DEF RecvPing, clientvars, servervars
<1>2. clink # "pre"
    BY <1>1 DEF LinkInv
<1>3. s2c \in Seq(Calls \cup {"resumed", "ping"}) /\ In \in Seq(Calls \cup {"pong"})
    BY DEF Types
<1>4. /\ s2c' \in Seq(Calls \cup {"resumed", "ping"})
      /\ Head(s2c) \in ToSet(s2c) /\ \A x \in ToSet(s2c)' : x \in ToSet(s2c)
    BY <1>1, <1>3, TailFacts
<1>5. In' = IF clink = "on" THEN Append(In, "pong") ELSE In
  <2>1. CASE clink = "on"
    <3>1. slink = "on" /\ In = c2s /\ In' = c2s'
        BY <1>1, <2>1 DEF LinkInv, In
    <3>2. c2s' = c2s \o <<"pong">>
        BY <2>1 DEF RecvPing, Xmit
    <3>3. c2s \o <<"pong">> = Append(c2s, "pong")
        BY <1>3, <3>1
    <3> QED  BY <2>1, <3>1, <3>2, <3>3
  <2>2. CASE clink # "on"
    BY <1>1, <1>2, <2>2 DEF RecvPing, Xmit, In, Types
  <2> QED  BY <2>1, <2>2
<1>6. \A e \in Entries : e.call \in Calls /\ e.call # "ping"
    BY Elements, CallNames
<1>7. Entries' = Entries /\ \A d : (Out(d)' <=> Out(d)) /\ (Ran(d)' <=> Ran(d)) /\ (InTab(d)' <=> InTab(d))
    BY <1>1 DEF Entries, Out, Ran, InTab, InRq
<1>8. CASE clink # "on"
  <2>1. slink # "on" /\ In' = In /\ c2s' = c2s
    BY <1>2, <1>5, <1>8 DEF LinkInv, RecvPing, Xmit, Types
  <2>2. Types'
    BY <1>1, <1>4, <2>1 DEF Types
  <2>3. LinkInv'
    BY <1>1, <1>2, <1>8, <2>1 DEF LinkInv
  <2>4. CallsInv' /\ PhaseInv' /\ StreamInv'
    BY <1>1, <1>4, <2>1, SameCalls, SamePhases, SameStream
  <2>5. EvictInv' /\ PingInv'
    BY <1>1, <1>7, <2>1 DEF EvictInv, PingInv
  <2> QED  BY <2>2, <2>3, <2>4, <2>5
<1>9. CASE clink = "on"
  <2>1. slink = "on" /\ In' = Append(In, "pong")
    BY <1>5, <1>9 DEF LinkInv
  <2>2. "pong" \notin ToSet(In) /\ pingoff # 0
    BY <1>1, <1>4, <2>1 DEF PingInv
  <2>3. ToSet(In)' = ToSet(In) \cup {"pong"} /\ IsInjective(In)' /\ In' \in Seq(Calls \cup {"pong"})
    BY <1>3, <2>1, <2>2, AppendFacts DEF StreamInv
  <2>4. Types'
    BY <1>1, <1>4, <2>3 DEF Types
  <2>5. LinkInv'
    BY <1>1, <1>9 DEF LinkInv
  <2>6. CallsInv' /\ PhaseInv'
    BY <1>1, <1>4, SameCalls, SamePhases
  <2>7. /\ DOMAIN In = 1..Len(In) /\ Len(In) \in Nat /\ DOMAIN In' = 1..(Len(In) + 1)
        /\ \A k \in 1..(Len(In) + 1) : In'[k] = IF k = Len(In) + 1 THEN "pong" ELSE In[k]
    BY <1>3, <2>1
  <2>8. \A k \in DOMAIN In' : In'[k] \in Calls => k \in DOMAIN In /\ In'[k] = In[k]
    BY <2>7, CallNames
  <2>9. \A k \in DOMAIN In : k \in DOMAIN In' /\ In'[k] = In[k] /\ In[k] # "pong"
    BY <2>2, <2>7 DEF ToSet
  <2>10. StreamInv'
    <3>1. \A d \in ToSet(In)' : d \in Calls => st'[d] # "new"
        BY <1>1, <2>3, CallNames DEF StreamInv
    <3>2. \A i, j \in DOMAIN In' :
            i < j /\ In'[i] \in Calls /\ In'[j] \in Calls /\ executed'[In'[j]] > 0 => executed'[In'[i]] > 0
        BY <1>1, <2>8 DEF StreamInv, Ran
    <3>3. ASSUME NEW i \in DOMAIN In', NEW j \in DOMAIN In', i < j, In'[i] = "pong", In'[j] \in Calls
          PROVE  FALSE
        BY <2>7, <2>8, <2>9, <3>3
    <3>4. ASSUME NEW i \in DOMAIN calls', NEW j \in DOMAIN calls', NEW l \in DOMAIN In',
                 i < j, ~(executed'[calls'[i]] > 0), ~(executed'[calls'[j]] > 0), In'[l] = calls'[j]
          PROVE  \E k \in DOMAIN In' : k < l /\ In'[k] = calls'[i]
      <4>1. calls'[j] \in Calls
        BY <1>1 DEF Types
      <4>2. l \in DOMAIN In /\ In[l] = calls[j]
        BY <1>1, <2>8, <3>4, <4>1
      <4>3. PICK k \in DOMAIN In : k < l /\ In[k] = calls[i]
        BY <1>1, <3>4, <4>2 DEF StreamInv, Ran
      <4> QED  BY <1>1, <2>9, <4>3
    <3>5. \A d \in Calls : Out(d)' /\ ~Ran(d)' => d \in ToSet(In)'
        BY <1>7, <1>9, <2>3 DEF StreamInv
    <3> QED  BY <2>3, <3>1, <3>2, <3>3, <3>4, <3>5 DEF StreamInv, Ran
  <2>11. EvictInv'
    BY <1>1, <1>7, <1>9, <2>3, CallNames DEF EvictInv
  <2>12. PingInv'
    <3>1. \A e \in Entries : Out(e.call)' => Out(e.call) /\ e.call # Head(s2c)
        BY <1>1, <1>6, <1>7
    <3>2. ASSUME NEW e \in Entries, e.off > 0, e.off < pingoff PROVE ~Out(e.call)
      <4>1. SUFFICES ASSUME Out(e.call) PROVE FALSE
        OBVIOUS
      <4>2. 1 \in DOMAIN s2c /\ s2c[1] = "ping" /\ \A j \in DOMAIN s2c : ~(j < 1)
        BY <1>1, <1>3
      <4> QED  BY <2>1, <3>2, <4>1, <4>2 DEF PingInv
    <3>3. "ping" \notin ToSet(s2c)'
        BY <1>1, <2>1, <3>1, PingTail
    <3>4. /\ \A i, j \in DOMAIN s2c' : s2c'[i] = "ping" /\ s2c'[j] = "ping" => i = j
          /\ \A e \in Entries : e.off > 0 /\ Out(e.call)' => e.call \in ToSet(s2c)'
          /\ \A e \in Entries, k \in DOMAIN s2c' :
               e.off > 0 /\ e.off < pingoff /\ Out(e.call)' /\ s2c'[k] = "ping"
                 => \E j \in DOMAIN s2c' : j < k /\ s2c'[j] = e.call
        BY <1>1, <2>1, <3>1, PingTail
    <3> QED  BY <1>1, <1>7, <2>2, <3>2, <3>3, <3>4 DEF PingInv
  <2> QED  BY <2>4, <2>5, <2>6, <2>10, <2>11, <2>12
<1> QED  BY <1>8, <1>9

\* Steps on a connection that the server does not read from.
LEMMA ClientEofSession ==
    ASSUME SessionInv, ClientEof
    PROVE  SessionInv'
<1> USE DEF SessionInv
<1>1. /\ clink = "lost" /\ clink' = "eof" /\ s2c' = <<>>
      /\ UNCHANGED <<st, calls, c2s, oldc2s, slink, working, rq, sent, acked, pingoff, executed>>
    BY DEF ClientEof, servervars
<1>2. slink # "on" /\ In' = In /\ ToSet(s2c)' = {}
    BY <1>1 DEF LinkInv, In, ToSet
<1>3. Types' /\ LinkInv'
    BY <1>1, <1>2 DEF Types, LinkInv
<1>4. CallsInv' /\ PhaseInv' /\ StreamInv'
    BY <1>1, <1>2, SameCalls, SamePhases, SameStream
<1>5. Entries' = Entries /\ \A d : (Out(d)' <=> Out(d)) /\ (Ran(d)' <=> Ran(d)) /\ (InTab(d)' <=> InTab(d))
    BY <1>1 DEF Entries, Out, Ran, InTab, InRq
<1>6. EvictInv' /\ PingInv'
    BY <1>1, <1>2, <1>5 DEF EvictInv, PingInv
<1> QED  BY <1>3, <1>4, <1>6

\* The client starts a new connection.
LEMMA ResumeSession ==
    ASSUME SessionInv, Resume
    PROVE  SessionInv'
<1> USE DEF SessionInv
<1>1. /\ clink = "eof" /\ clink' = "pre" /\ c2s' = <<"resume">> /\ s2c' = <<>>
      /\ UNCHANGED <<st, calls, oldc2s, slink, working, rq, sent, acked, pingoff, executed>>
    BY DEF Resume, servervars
<1>2. slink # "on" /\ In' = In /\ ToSet(s2c)' = {}
    BY <1>1 DEF LinkInv, In, ToSet
<1>3. Types' /\ LinkInv'
    BY <1>1, <1>2 DEF Types, LinkInv
<1>4. CallsInv' /\ PhaseInv' /\ StreamInv'
    BY <1>1, <1>2, SameCalls, SamePhases, SameStream
<1>5. Entries' = Entries /\ \A d : (Out(d)' <=> Out(d)) /\ (Ran(d)' <=> Ran(d)) /\ (InTab(d)' <=> InTab(d))
    BY <1>1 DEF Entries, Out, Ran, InTab, InRq
<1>6. EvictInv' /\ PingInv'
    BY <1>1, <1>2, <1>5 DEF EvictInv, PingInv
<1> QED  BY <1>3, <1>4, <1>6

\* A connection breaks; what it had taken may still be read.
LEMMA BreakSession ==
    ASSUME SessionInv, Break
    PROVE  SessionInv'
<1> USE DEF SessionInv
<1>1. /\ clink' = "lost" /\ slink' = (IF slink = "on" THEN "lost" ELSE slink)
      /\ oldc2s' = (IF slink = "on" THEN c2s ELSE oldc2s) /\ c2s' = <<>>
      /\ UNCHANGED <<st, calls, s2c, working, rq, sent, acked, pingoff, executed>>
    BY DEF Break
<1>2. In' = In /\ slink' # "on"
    BY <1>1 DEF In, Types
<1>3. Types' /\ LinkInv'
    BY <1>1, <1>2 DEF Types, LinkInv
<1>4. CallsInv' /\ PhaseInv' /\ StreamInv'
    BY <1>1, <1>2, SameCalls, SamePhases, SameStream
<1>5. Entries' = Entries /\ \A d : (Out(d)' <=> Out(d)) /\ (Ran(d)' <=> Ran(d)) /\ (InTab(d)' <=> InTab(d))
    BY <1>1 DEF Entries, Out, Ran, InTab, InRq
<1>6. EvictInv' /\ PingInv'
    BY <1>1, <1>2, <1>5 DEF EvictInv, PingInv
<1> QED  BY <1>3, <1>4, <1>6

\* The server sees the EOF of the broken connection and reads no more of it.
LEMMA ServerEofSession ==
    ASSUME SessionInv, ServerEof
    PROVE  SessionInv'
<1> USE DEF SessionInv
<1>1. /\ slink = "lost" /\ slink' = "eof" /\ oldc2s' = <<>>
      /\ UNCHANGED <<st, calls, clink, c2s, s2c, working, rq, sent, acked, pingoff, executed>>
    BY DEF ServerEof, clientvars
<1>2. In' = <<>> /\ clink # "on"
    BY <1>1 DEF In, LinkInv
<1>3. Types' /\ LinkInv'
    BY <1>1, <1>2 DEF Types, LinkInv
<1>4. CallsInv' /\ PhaseInv' /\ StreamInv' /\ ToSet(In)' = {}
    BY <1>1, <1>2, SameCalls, SamePhases, EmptyStream
<1>5. Entries' = Entries /\ \A d : (Out(d)' <=> Out(d)) /\ (Ran(d)' <=> Ran(d)) /\ (InTab(d)' <=> InTab(d))
    BY <1>1 DEF Entries, Out, Ran, InTab, InRq
<1>6. EvictInv' /\ PingInv'
    BY <1>1, <1>2, <1>4, <1>5 DEF EvictInv, PingInv
<1> QED  BY <1>3, <1>4, <1>6

\* The server takes the new connection and forgets what was under way.
LEMMA ServerResumeSession ==
    ASSUME SessionInv, ServerResume
    PROVE  SessionInv'
<1> USE DEF SessionInv
<1>1. /\ clink = "pre" /\ c2s # <<>> /\ c2s' = Tail(c2s) /\ slink' = "on" /\ oldc2s' = <<>>
      /\ rq' = RqOnResume /\ sent' = 1 /\ s2c' = Append(s2c, "resumed")
      /\ acked' = 0 /\ pingoff' = 0
      /\ UNCHANGED <<st, calls, clink, working, executed>>
    BY DEF ServerResume, clientvars
<1>2. slink # "on" /\ c2s = <<"resume">> /\ s2c = <<>>
    BY <1>1 DEF LinkInv
<1>3. c2s' = <<>> /\ In' = <<>> /\ s2c' = <<"resumed">>
    BY <1>1, <1>2 DEF In
<1>4. rq' \in Seq(Cached)
    BY <1>1, ResumeFacts DEF Types, Cached
<1>5. /\ \A e \in Entries' : e.off = 0 /\ \E f \in Entries : f.call = e.call
      /\ \A f \in Entries : \E e \in Entries' : e.call = f.call
    BY <1>1, ResumeFacts DEF Types, Cached, Entries
<1>6. Types'
    BY <1>1, <1>3, <1>4 DEF Types, Cached
<1>7. LinkInv'
    BY <1>1, <1>3 DEF LinkInv
<1>8. \A c \in Calls : (InRq(c)' <=> InRq(c)) /\ (InTab(c)' <=> InTab(c))
  <2>1. \A c \in Calls : InRq(c) <=> \E e \in Entries : e.call = c
    BY Elements
  <2>2. \A c \in Calls : InRq(c)' <=> \E e \in Entries' : e.call = c
    BY <1>4, InRqEntries
  <2> QED  BY <1>1, <1>5, <2>1, <2>2 DEF InTab
<1>9. ToSet(s2c)' = {"resumed"} /\ DOMAIN s2c' = {1} /\ s2c'[1] = "resumed"
    BY <1>3 DEF ToSet
<1>10. CallsInv' /\ StreamInv' /\ ToSet(In)' = {}
    BY <1>1, <1>3, SameCalls, EmptyStream
<1>11. PhaseInv'
    BY <1>1, <1>8, <1>9, CallNames DEF PhaseInv, Ran, Types
<1>12. \A e \in Entries' : ~(e.off > 0)
    BY <1>5
<1>13. \A d : (Out(d)' <=> Out(d)) /\ (Ran(d)' <=> Ran(d))
    BY <1>1 DEF Out, Ran
<1>14. EvictInv'
    BY <1>1, <1>3, <1>8, <1>10, <1>12, <1>13 DEF EvictInv
<1>15. PingInv'
    BY <1>1, <1>9, <1>10, <1>12 DEF PingInv
<1> QED  BY <1>6, <1>7, <1>10, <1>11, <1>14, <1>15

\* A call of the server to the client.
LEMMA PingSession ==
    ASSUME SessionInv, Ping
    PROVE  SessionInv'
<1> USE DEF SessionInv
<1>1. /\ slink = "on" /\ pingoff = 0 /\ sent' = sent + 1 /\ s2c' = Append(s2c, "ping")
      /\ pingoff' = sent + 1
      /\ UNCHANGED <<st, calls, clink, c2s, slink, oldc2s, working, rq, acked, executed>>
    BY DEF Ping, Send, clientvars
<1>2. In' = In
    BY <1>1 DEF In
<1>3. s2c \in Seq(Calls \cup {"resumed", "ping"})
    BY DEF Types
<1>4. s2c' \in Seq(Calls \cup {"resumed", "ping"}) /\ ToSet(s2c)' = ToSet(s2c) \cup {"ping"}
    BY <1>1, <1>3, AppendFacts
<1>5. Types'
    BY <1>1, <1>2, <1>4 DEF Types
<1>6. LinkInv'
  <2>1. s2c # <<>> => s2c' # <<>> /\ Head(s2c') = Head(s2c)
    BY <1>1, <1>3
  <2> QED  BY <1>1, <2>1 DEF LinkInv
<1>7. CallsInv' /\ PhaseInv' /\ StreamInv'
    BY <1>1, <1>2, <1>4, SameCalls, SamePhases, SameStream, CallNames
<1>8. Entries' = Entries /\ \A d : (Out(d)' <=> Out(d)) /\ (Ran(d)' <=> Ran(d)) /\ (InTab(d)' <=> InTab(d))
    BY <1>1 DEF Entries, Out, Ran, InTab, InRq
<1>9. EvictInv'
    BY <1>1, <1>2, <1>8 DEF EvictInv
<1>10. PingInv'
  <2>1. "ping" \notin ToSet(s2c) /\ "pong" \notin ToSet(In)
    BY <1>1 DEF PingInv
  <2>2. /\ Len(s2c) \in Nat /\ DOMAIN s2c = 1..Len(s2c) /\ DOMAIN s2c' = 1..(Len(s2c) + 1)
        /\ \A k \in 1..(Len(s2c) + 1) : s2c'[k] = IF k = Len(s2c) + 1 THEN "ping" ELSE s2c[k]
    BY <1>1, <1>3
  <2>3. \A k \in DOMAIN s2c : s2c[k] # "ping"
    BY <2>1 DEF ToSet
  <2>4. \A k \in DOMAIN s2c' : s2c'[k] = "ping" => k = Len(s2c) + 1
    BY <2>2, <2>3
  <2>5. ASSUME NEW e \in Entries, e.off > 0, Out(e.call), NEW k \in DOMAIN s2c', s2c'[k] = "ping"
        PROVE  \E j \in DOMAIN s2c' : j < k /\ s2c'[j] = e.call
    <3>1. e.call \in ToSet(s2c)
        BY <1>1, <2>5 DEF PingInv
    <3>2. PICK j \in 1..Len(s2c) : s2c[j] = e.call
        BY <2>2, <3>1 DEF ToSet
    <3>3. k = Len(s2c) + 1
        BY <2>4, <2>5
    <3> QED  BY <2>2, <3>2, <3>3
  <2>6. pingoff' # 0
    BY <1>1 DEF Types
  <2> QED  BY <1>1, <1>2, <1>4, <1>8, <2>1, <2>4, <2>5, <2>6 DEF PingInv
<1> QED  BY <1>5, <1>6, <1>7, <1>9, <1>10

-----------------------------------------------------------------------------
\* The server reads a message.

\* The server takes the first message of what it has to read.
LEMMA ReceiveFacts ==
    ASSUME Types, LinkInv, NEW m, Receive(m), UNCHANGED <<clink, slink>>
    PROVE  /\ In # <<>> /\ Head(In) = m /\ In' = Tail(In)
           /\ slink = "on" \/ slink = "lost"
           /\ slink = "on" <=> clink = "on"
           /\ (slink # "on" => s2c' = s2c) => LinkInv'
<1>1. CASE slink = "on"
  <2>1. c2s # <<>> /\ Head(c2s) = m /\ c2s' = Tail(c2s) /\ oldc2s' = oldc2s
    BY <1>1 DEF Receive
  <2>2. In = c2s /\ In' = c2s'
    BY <1>1 DEF In
  <2>3. clink = "on"
    BY <1>1, <2>1 DEF LinkInv
  <2>4. LinkInv'
    BY <1>1, <2>1, <2>3 DEF LinkInv
  <2> QED  BY <1>1, <2>1, <2>2, <2>3, <2>4
<1>2. CASE slink # "on"
  <2>1. slink = "lost" /\ oldc2s # <<>> /\ Head(oldc2s) = m /\ oldc2s' = Tail(oldc2s) /\ c2s' = c2s
    BY <1>2 DEF Receive
  <2>2. In = oldc2s /\ In' = oldc2s'
    BY <1>2 DEF In
  <2>3. clink # "on"
    BY <1>2 DEF LinkInv
  <2>4. s2c' = s2c => LinkInv'
    BY <1>2, <2>1, <2>3 DEF LinkInv
  <2> QED  BY <1>2, <2>1, <2>2, <2>3, <2>4
<1> QED  BY <1>1, <1>2

\* The first message of the stream is read; if it is a call, it has been
\* executed from now on.
LEMMA StreamTail ==
    ASSUME Types, CallsInv, StreamInv, In # <<>>, In' = Tail(In), UNCHANGED <<st, calls, clink>>,
           \A c \in Calls : Ran(c)' <=> Ran(c) \/ c = Head(In)
    PROVE  /\ CallsInv' /\ StreamInv'
           /\ In' \in Seq(Calls \cup {"pong"})
           /\ ToSet(In)' = ToSet(In) \ {Head(In)} /\ Head(In) \in ToSet(In)
<1>1. In \in Seq(Calls \cup {"pong"})
    BY DEF Types
<1>2. /\ In' \in Seq(Calls \cup {"pong"}) /\ IsInjective(In)' /\ Head(In) \in ToSet(In)
      /\ ToSet(In)' = ToSet(In) \ {Head(In)}
    BY <1>1, TailFacts DEF StreamInv
<1>3. /\ Len(In) \in Nat /\ Len(In) >= 1 /\ DOMAIN In = 1..Len(In) /\ In[1] = Head(In)
      /\ DOMAIN In' = 1..(Len(In) - 1) /\ \A k \in 1..(Len(In) - 1) : In'[k] = In[k + 1]
    BY <1>1
<1>4. \A k \in DOMAIN In' : /\ k \in Nat /\ k + 1 \in DOMAIN In /\ In'[k] = In[k + 1]
                            /\ In[k + 1] # Head(In)
  <2>1. TAKE k \in DOMAIN In'
  <2>2. k \in Nat /\ k + 1 \in 1..Len(In) /\ In'[k] = In[k + 1] /\ k + 1 # 1 /\ 1 \in 1..Len(In)
    BY <1>3
  <2>3. In[k + 1] # In[1]
    BY <1>3, <2>2 DEF StreamInv, IsInjective
  <2> QED  BY <1>3, <2>2, <2>3
<1>5. \A k \in DOMAIN In : In[k] # Head(In) => k - 1 \in DOMAIN In' /\ In'[k - 1] = In[k]
  <2>1. TAKE k \in DOMAIN In
  <2>2. HAVE In[k] # Head(In)
  <2>3. k - 1 \in 1..(Len(In) - 1) /\ (k - 1) + 1 = k
    BY <1>3, <2>2
  <2> QED  BY <1>3, <2>3
<1>6. /\ DOMAIN calls = 1..Len(calls) /\ Len(calls) \in Nat
      /\ \A k \in DOMAIN calls : calls[k] \in Calls
    BY Elements
<1>7. \A c \in Calls : executed'[c] > 0 <=> Ran(c) \/ c = Head(In)
    BY DEF Ran
<1>8. CallsInv'
  <2>1. ASSUME NEW i \in DOMAIN calls', NEW j \in DOMAIN calls', i < j, executed'[calls'[j]] > 0,
               ~(executed'[calls'[i]] > 0)
        PROVE  FALSE
    <3>1. calls[i] \in Calls /\ calls[j] \in Calls /\ i \in DOMAIN calls /\ j \in DOMAIN calls
        BY <1>6, <2>1
    <3>2. ~Ran(calls[i]) /\ ~Ran(calls[j]) /\ calls[j] = Head(In)
        BY <1>7, <2>1, <3>1 DEF CallsInv
    <3>3. 1 \in DOMAIN In /\ In[1] = calls[j]
        BY <1>3, <3>2
    <3>4. PICK k \in DOMAIN In : k < 1 /\ In[k] = calls[i]
        BY <2>1, <3>1, <3>2, <3>3 DEF StreamInv
    <3> QED  BY <1>3, <3>4
  <2>2. \A c \in Calls : Out(c)' <=> Out(c)
    BY DEF Out
  <2> QED  BY <2>1, <2>2 DEF CallsInv, Ran
<1>9. \A c \in ToSet(In)' : c \in Calls => st'[c] # "new"
    BY <1>2 DEF StreamInv
<1>10. ASSUME NEW i \in DOMAIN In', NEW j \in DOMAIN In', i < j, In'[i] \in Calls, In'[j] \in Calls,
              executed'[In'[j]] > 0
       PROVE  executed'[In'[i]] > 0
    BY <1>4, <1>7, <1>10 DEF StreamInv
<1>11. ASSUME NEW i \in DOMAIN In', NEW j \in DOMAIN In', i < j, In'[i] = "pong", In'[j] \in Calls
       PROVE  ~(executed'[In'[j]] > 0)
    BY <1>4, <1>7, <1>11 DEF StreamInv
<1>12. ASSUME NEW i \in DOMAIN calls', NEW j \in DOMAIN calls', NEW l \in DOMAIN In',
              i < j, ~(executed'[calls'[i]] > 0), ~(executed'[calls'[j]] > 0), In'[l] = calls'[j]
       PROVE  \E k \in DOMAIN In' : k < l /\ In'[k] = calls'[i]
  <2>1. calls[i] \in Calls /\ calls[j] \in Calls /\ i \in DOMAIN calls /\ j \in DOMAIN calls
    BY <1>6, <1>12
  <2>2. ~Ran(calls[i]) /\ ~Ran(calls[j]) /\ calls[i] # Head(In)
    BY <1>7, <1>12, <2>1
  <2>3. l \in Nat /\ l + 1 \in DOMAIN In /\ In[l + 1] = calls[j]
    BY <1>4, <1>12
  <2>4. PICK k \in DOMAIN In : k < l + 1 /\ In[k] = calls[i]
    BY <1>12, <2>1, <2>2, <2>3 DEF StreamInv
  <2>5. k - 1 \in DOMAIN In' /\ In'[k - 1] = calls[i]
    BY <1>5, <2>2, <2>4
  <2>6. k - 1 < l
    BY <1>3, <2>3, <2>4
  <2> QED  BY <2>5, <2>6
<1>13. clink' = "on" => \A c \in Calls : Out(c)' /\ ~Ran(c)' => c \in ToSet(In)'
    BY <1>2 DEF StreamInv, Out
<1>14. StreamInv'
    BY <1>2, <1>9, <1>10, <1>11, <1>12, <1>13 DEF StreamInv, Ran
<1> QED  BY <1>2, <1>8, <1>14

\* A reply is sent and cached with its offset: it follows the call of the
\* server that is on its way.
LEMMA SentReply ==
    ASSUME Types, PingInv, NEW c \in Calls, NEW n, n.call = c, n.off = sent + 1,
           \A e \in Entries' : e \in Entries \/ e = n,
           UNCHANGED <<slink, pingoff, st>>,
           s2c' = IF slink = "on" THEN Append(s2c, c) ELSE s2c,
           "pong" \in ToSet(In)' <=> "pong" \in ToSet(In)
    PROVE  PingInv'
<1>1. s2c \in Seq(Calls \cup {"resumed", "ping"}) /\ c \in Calls \cup {"resumed", "ping"}
    BY DEF Types
<1>2. \A e \in Entries' : e \in Entries \/ e.off > pingoff
    BY DEF Types
<1>3. \A d : Out(d)' <=> Out(d)
    BY DEF Out
<1>4. \A e \in Entries' : ~(e \in Entries) => ~(e.off < pingoff)
    BY DEF Types
<1>5. /\ pingoff' = 0 => "pong" \notin ToSet(In)'
      /\ "pong" \in ToSet(In)' =>
           \A e \in Entries' : e.off > 0 /\ e.off < pingoff' => ~Out(e.call)'
    BY <1>3, <1>4 DEF PingInv
<1>6. CASE slink # "on"
    BY <1>5, <1>6 DEF PingInv
<1>7. CASE slink = "on"
  <2>1. s2c' = Append(s2c, c) /\ c # "ping"
    BY <1>7, CallNames
  <2>2. ToSet(s2c)' = ToSet(s2c) \cup {c}
    BY <1>1, <2>1, AppendFacts
  <2>3. /\ Len(s2c) \in Nat /\ DOMAIN s2c = 1..Len(s2c) /\ DOMAIN s2c' = 1..(Len(s2c) + 1)
        /\ \A k \in 1..(Len(s2c) + 1) : s2c'[k] = IF k = Len(s2c) + 1 THEN c ELSE s2c[k]
    BY <1>1, <2>1
  <2>4. \A k \in DOMAIN s2c' : s2c'[k] = "ping" => k \in DOMAIN s2c /\ s2c[k] = "ping"
    BY <2>1, <2>3
  <2>5. \A k \in DOMAIN s2c : k \in DOMAIN s2c' /\ s2c'[k] = s2c[k]
    BY <2>3
  <2>6. /\ pingoff' = 0 => "ping" \notin ToSet(s2c)'
        /\ "ping" \in ToSet(s2c)' => "pong" \notin ToSet(In)'
    BY <1>7, <2>1, <2>2 DEF PingInv
  <2>7. \A i, j \in DOMAIN s2c' : s2c'[i] = "ping" /\ s2c'[j] = "ping" => i = j
    BY <1>7, <2>4 DEF PingInv
  <2>8. \A e \in Entries' : e.off > 0 /\ Out(e.call)' => e.call \in ToSet(s2c)'
    BY <1>3, <1>7, <2>2 DEF PingInv
  <2>9. ASSUME NEW e \in Entries', NEW k \in DOMAIN s2c',
               e.off > 0, e.off < pingoff', Out(e.call)', s2c'[k] = "ping"
        PROVE  \E j \in DOMAIN s2c' : j < k /\ s2c'[j] = e.call
    <3>1. e \in Entries /\ Out(e.call) /\ k \in DOMAIN s2c /\ s2c[k] = "ping"
        BY <1>3, <1>4, <2>4, <2>9
    <3>2. PICK j \in DOMAIN s2c : j < k /\ s2c[j] = e.call
        BY <1>7, <2>9, <3>1 DEF PingInv
    <3> QED  BY <2>5, <3>2
  <2> QED  BY <1>5, <2>6, <2>7, <2>8, <2>9 DEF PingInv
<1> QED  BY <1>6, <1>7

\* A replayed call that is being executed is dropped.
LEMMA RecvInProgressSession ==
    ASSUME SessionInv, NEW c \in Calls, RecvInProgress(c)
    PROVE  SessionInv'
<1> USE DEF SessionInv
<1>1. /\ c \in working
      /\ UNCHANGED <<st, calls, clink, s2c, slink, working, rq, sent, acked, pingoff, executed>>
    BY DEF RecvInProgress, clientvars, servervars
<1>2. /\ In # <<>> /\ Head(In) = c /\ In' = Tail(In) /\ LinkInv'
    BY <1>1, ReceiveFacts DEF RecvInProgress
<1>3. Ran(c) /\ ~InRq(c) /\ c # "pong"
    BY <1>1, CallNames DEF PhaseInv, InTab
<1>4. Entries' = Entries /\ \A d : (Out(d)' <=> Out(d)) /\ (Ran(d)' <=> Ran(d)) /\ (InTab(d)' <=> InTab(d))
    BY <1>1 DEF Entries, Out, Ran, InTab, InRq
<1>5. /\ CallsInv' /\ StreamInv' /\ In' \in Seq(Calls \cup {"pong"})
      /\ ToSet(In)' = ToSet(In) \ {c}
    BY <1>1, <1>2, <1>3, <1>4, StreamTail
<1>6. Types'
    BY <1>1, <1>5 DEF Types
<1>7. PhaseInv'
    BY <1>1, SamePhases
<1>8. \A e \in Entries : e.call # c
    BY <1>3, Elements
<1>9. EvictInv'
    BY <1>1, <1>2, <1>4, <1>5, <1>8 DEF EvictInv
<1>10. PingInv'
  <2>1. "pong" \in ToSet(In)' <=> "pong" \in ToSet(In)
    BY <1>3, <1>5
  <2> QED  BY <1>1, <1>4, <2>1 DEF PingInv
<1> QED  BY <1>2, <1>5, <1>6, <1>7, <1>9, <1>10

\* A replayed call that was executed is answered from the cache.
LEMMA RecvReplaySession ==
    ASSUME SessionInv, NEW c \in Calls, RecvReplay(c)
    PROVE  SessionInv'
<1> USE DEF SessionInv
<1> DEFINE n == [call |-> c, off |-> sent + 1]
<1>1. /\ InRq(c) /\ sent' = sent + 1 /\ s2c' = (IF slink = "on" THEN Append(s2c, c) ELSE s2c)
      /\ rq' = Moved(c)
      /\ UNCHANGED <<st, calls, clink, slink, working, acked, pingoff, executed>>
    BY DEF RecvReplay, Send, clientvars
<1>2. /\ In # <<>> /\ Head(In) = c /\ In' = Tail(In) /\ LinkInv'
    BY <1>1, ReceiveFacts DEF RecvReplay
<1>3. Ran(c) /\ c # "pong" /\ c \notin working
    BY <1>1, CallNames DEF PhaseInv, InTab
<1>4. \A d : (Out(d)' <=> Out(d)) /\ (Ran(d)' <=> Ran(d))
    BY <1>1 DEF Out, Ran
<1>5. /\ CallsInv' /\ StreamInv' /\ In' \in Seq(Calls \cup {"pong"})
      /\ ToSet(In)' = ToSet(In) \ {c}
    BY <1>1, <1>2, <1>3, <1>4, StreamTail
<1>6. /\ rq' \in Seq(Cached)
      /\ \A e : e \in Entries' <=> (e \in Entries /\ e.call # c) \/ e = n
    BY <1>1, MovedFacts DEF Types, Cached, Entries
<1>7. n.call = c /\ n.off = sent + 1
    OBVIOUS
<1> HIDE DEF n
<1>8. \A d \in Calls : (InRq(d)' <=> InRq(d)) /\ (InTab(d)' <=> InTab(d))
  <2>1. \A d \in Calls : InRq(d) <=> \E e \in Entries : e.call = d
    BY Elements
  <2>2. \A d \in Calls : InRq(d)' <=> \E e \in Entries' : e.call = d
    BY <1>6, InRqEntries, Zenon
  <2>3. ASSUME NEW d \in Calls PROVE InRq(d)' <=> InRq(d)
    <3>1. CASE d = c
        BY <1>1, <1>6, <1>7, <2>2, <3>1
    <3>2. CASE d # c
        BY <1>6, <1>7, <2>1, <2>2, <3>2
    <3> QED  BY <3>1, <3>2
  <2> QED  BY <1>1, <2>3 DEF InTab
<1>9. s2c' \in Seq(Calls \cup {"resumed", "ping"}) /\ \A x \in ToSet(s2c)' : x \in ToSet(s2c) \/ x = c
  <2>1. s2c \in Seq(Calls \cup {"resumed", "ping"}) /\ c \in Calls \cup {"resumed", "ping"}
    BY DEF Types
  <2>2. Append(s2c, c) \in Seq(Calls \cup {"resumed", "ping"}) /\ ToSet(Append(s2c, c)) = ToSet(s2c) \cup {c}
    BY <2>1, AppendFacts
  <2> QED  BY <1>1, <2>1, <2>2
<1>10. Types'
    BY <1>1, <1>5, <1>6, <1>9 DEF Types, Cached
<1>11. PhaseInv'
    BY <1>1, <1>3, <1>4, <1>8, <1>9 DEF PhaseInv, Types
<1>12. EvictInv'
  <2>1. \A e \in Entries' : e = n \/ (e \in Entries /\ e.call # c)
    BY <1>6
  <2>2. sent \in Nat /\ acked \in 0..sent
    BY DEF Types
  <2>3. n.off # 0 /\ ~(n.off < acked)
    BY <1>7, <2>2
  <2>4. /\ \A d \in Calls : Out(d)' /\ Ran(d)' => InTab(d)'
        /\ \A d \in ToSet(In)' : d \in Calls /\ Ran(d)' => InTab(d)'
        /\ acked' > 0 => \A d \in ToSet(In)' : d \in Calls => ~Ran(d)'
    BY <1>1, <1>4, <1>5, <1>8 DEF EvictInv
  <2>5. \A e \in Entries' : e.off = 0 /\ Out(e.call)' => e.call \in ToSet(In)'
    BY <1>2, <1>4, <1>5, <2>1, <2>3 DEF EvictInv
  <2>6. \A e \in Entries' : e.off > 0 /\ e.off < acked' => ~Out(e.call)'
    BY <1>1, <1>4, <2>1, <2>3 DEF EvictInv
  <2> QED  BY <2>4, <2>5, <2>6 DEF EvictInv
<1>13. PingInv'
  <2>1. "pong" \in ToSet(In)' <=> "pong" \in ToSet(In)
    BY <1>3, <1>5
  <2>2. \A e \in Entries' : e \in Entries \/ e = n
    BY <1>6
  <2> QED  BY <1>1, <1>7, <2>1, <2>2, SentReply
<1> QED  BY <1>2, <1>5, <1>10, <1>11, <1>12, <1>13

\* A call that is neither in progress nor cached was never executed.
LEMMA RecvNewSession ==
    ASSUME SessionInv, NEW c \in Calls, RecvNew(c)
    PROVE  SessionInv' /\ ~Ran(c) /\ st[c] = "out" /\ executed' = [executed EXCEPT ![c] = 1]
<1> USE DEF SessionInv
<1>1. /\ ~InRq(c) /\ c \notin working /\ rq' = EvictWhile({0}, rq) /\ working' = working \cup {c}
      /\ executed' = [executed EXCEPT ![c] = @ + 1]
      /\ UNCHANGED <<st, calls, clink, s2c, slink, sent, acked, pingoff>>
    BY DEF RecvNew, clientvars
<1>2. /\ In # <<>> /\ Head(In) = c /\ In' = Tail(In) /\ LinkInv'
    BY <1>1, ReceiveFacts DEF RecvNew
<1>3. In \in Seq(Calls \cup {"pong"}) /\ c # "pong"
    BY CallNames DEF Types
<1>4. Head(In) \in ToSet(In)
    BY <1>2, <1>3, TailFacts
<1>5. ~Ran(c) /\ st[c] = "out"
  <2>1. ~Ran(c)
    BY <1>1, <1>2, <1>4 DEF EvictInv, InTab
  <2>2. st[c] # "new" /\ st[c] # "done"
    BY <1>2, <1>4, <2>1 DEF StreamInv, PhaseInv
  <2> QED  BY <2>1, <2>2 DEF Types
<1>6. executed[c] = 0 /\ executed' = [executed EXCEPT ![c] = 1]
  <2>1. executed \in [Calls -> {0, 1}]
    BY DEF Types
  <2>2. executed[c] = 0
    BY <1>5, <2>1 DEF Ran
  <2> QED  BY <1>1, <2>1, <2>2
<1>7. \A d \in Calls : /\ Ran(d)' <=> Ran(d) \/ d = Head(In)
                       /\ Ran(d)' <=> Ran(d) \/ d = c
                       /\ Out(d)' <=> Out(d)
    BY <1>1, <1>2, <1>6 DEF Ran, Out, Types
<1>8. /\ CallsInv' /\ StreamInv' /\ In' \in Seq(Calls \cup {"pong"})
      /\ ToSet(In)' = ToSet(In) \ {c}
    BY <1>1, <1>2, <1>7, StreamTail
<1>9. \A d \in ToSet(In) : d \in Calls => ~Ran(d)
  <2>1. SUFFICES ASSUME NEW d \in ToSet(In), d \in Calls, Ran(d) PROVE FALSE
    OBVIOUS
  <2>2. PICK k \in 1..Len(In) : In[k] = d
    BY <2>1, Elements
  <2>3. Len(In) \in Nat /\ Len(In) >= 1 /\ DOMAIN In = 1..Len(In) /\ In[1] = c
    BY <1>2, <1>3
  <2>4. 1 \in DOMAIN In /\ k \in DOMAIN In /\ (k = 1 \/ 1 < k)
    BY <2>2, <2>3
  <2> QED  BY <1>5, <2>1, <2>2, <2>3, <2>4 DEF StreamInv
<1>10. /\ rq' \in Seq(Cached) /\ \A e \in Entries' : e \in Entries
       /\ \A e \in Entries : e \in Entries' \/ e.off = 0
  <2>1. rq \in Seq(Cached)
    BY DEF Types, Cached
  <2>2. \A e \in ToSet(rq) : e \in ToSet(EvictWhile({0}, rq)) \/ e.off \in {0}
    BY <2>1, EvictFacts
  <2>3. EvictWhile({0}, rq) \in Seq(Cached) /\ \A e \in ToSet(EvictWhile({0}, rq)) : e \in ToSet(rq)
    BY <2>1, EvictFacts
  <2> QED  BY <1>1, <2>2, <2>3 DEF Entries
<1>11. \A e \in Entries : e.call \in Calls /\ Ran(e.call) /\ e.call # c
    BY <1>1, Elements DEF PhaseInv, InTab
<1>12. \A e \in Entries : e.off = 0 => ~Out(e.call)
    BY <1>2, <1>9, <1>11 DEF EvictInv
<1>13. /\ \A d \in Calls : InRq(d) <=> \E e \in Entries : e.call = d
       /\ \A d \in Calls : InRq(d)' <=> \E e \in Entries' : e.call = d
    BY <1>10, Elements, InRqEntries
<1>14. /\ \A d \in Calls : InRq(d)' => InRq(d)
       /\ \A d \in Calls : InRq(d) /\ Out(d) => InRq(d)'
    BY <1>10, <1>12, <1>13
<1>15. Types'
  <2>1. executed' \in [Calls -> {0, 1}]
    BY <1>6 DEF Types
  <2>2. \A d \in working' : d \in Calls
    BY <1>1 DEF Types
  <2> QED  BY <1>1, <1>8, <1>10, <2>1, <2>2 DEF Types, Cached
<1>16. PhaseInv'
  <2>1. \A d \in Calls : InTab(d)' => Ran(d)'
    BY <1>1, <1>7, <1>14 DEF PhaseInv, InTab
  <2>2. \A d \in working' : ~InRq(d)'
    BY <1>1, <1>14 DEF PhaseInv, Types
  <2>3. /\ \A d \in Calls : st'[d] = "new" => ~Ran(d)'
        /\ \A d \in Calls : st'[d] = "done" => Ran(d)'
        /\ \A d \in ToSet(s2c)' : d \in Calls => Ran(d)'
    BY <1>1, <1>5, <1>7 DEF PhaseInv
  <2> QED  BY <2>1, <2>2, <2>3 DEF PhaseInv
<1>17. EvictInv'
  <2>1. \A d \in Calls : Out(d)' /\ Ran(d)' => InTab(d)'
    BY <1>1, <1>7, <1>14 DEF EvictInv, InTab
  <2>2. \A d \in ToSet(In)' : d \in Calls => ~Ran(d)'
    BY <1>7, <1>8, <1>9
  <2>3. \A e \in Entries' : e.off = 0 => ~Out(e.call)'
    BY <1>7, <1>10, <1>11, <1>12
  <2>4. \A e \in Entries' : e.off > 0 /\ e.off < acked' => ~Out(e.call)'
    BY <1>1, <1>7, <1>10, <1>11 DEF EvictInv
  <2> QED  BY <2>1, <2>2, <2>3, <2>4 DEF EvictInv
<1>18. PingInv'
  <2>1. "pong" \in ToSet(In)' <=> "pong" \in ToSet(In)
    BY <1>3, <1>8
  <2>2. \A e \in Entries' : e \in Entries /\ (Out(e.call)' <=> Out(e.call))
    BY <1>7, <1>10, <1>11
  <2> QED  BY <1>1, <2>1, <2>2 DEF PingInv
<1> QED  BY <1>2, <1>5, <1>6, <1>8, <1>15, <1>16, <1>17, <1>18

\* The acknowledgement of a ping.
LEMMA RecvPongSession ==
    ASSUME SessionInv, RecvPong
    PROVE  SessionInv'
<1> USE DEF SessionInv
<1>1. /\ acked' = (IF pingoff > acked THEN pingoff ELSE acked) /\ pingoff' = 0
      /\ UNCHANGED <<st, calls, clink, s2c, slink, working, rq, sent, executed>>
    BY DEF RecvPong, clientvars
<1>2. /\ In # <<>> /\ Head(In) = "pong" /\ In' = Tail(In) /\ LinkInv'
    BY <1>1, ReceiveFacts DEF RecvPong
<1>3. In \in Seq(Calls \cup {"pong"})
    BY DEF Types
<1>4. Entries' = Entries /\ \A d : (Out(d)' <=> Out(d)) /\ (Ran(d)' <=> Ran(d)) /\ (InTab(d)' <=> InTab(d))
    BY <1>1 DEF Entries, Out, Ran, InTab, InRq
<1>5. \A d \in Calls : Ran(d)' <=> Ran(d) \/ d = Head(In)
    BY <1>2, <1>4, CallNames
<1>6. /\ CallsInv' /\ StreamInv' /\ In' \in Seq(Calls \cup {"pong"})
      /\ ToSet(In)' = ToSet(In) \ {"pong"} /\ "pong" \in ToSet(In)
    BY <1>1, <1>2, <1>5, StreamTail
<1>7. Types'
    BY <1>1, <1>6 DEF Types
<1>8. PhaseInv'
    BY <1>1, SamePhases
<1>9. \A d \in ToSet(In)' : d \in Calls => ~Ran(d)
  <2>1. TAKE d \in ToSet(In)'
  <2>2. HAVE d \in Calls
  <2>3. PICK k \in 1..Len(In) : In[k] = d
    BY <1>6, Elements
  <2>4. Len(In) \in Nat /\ Len(In) >= 1 /\ DOMAIN In = 1..Len(In) /\ In[1] = "pong" /\ d # "pong"
    BY <1>2, <1>3, <2>2, CallNames
  <2>5. 1 \in DOMAIN In /\ k \in DOMAIN In /\ 1 < k
    BY <2>3, <2>4
  <2> QED  BY <2>2, <2>3, <2>4, <2>5 DEF StreamInv
<1>10. EvictInv'
  <2>1. \A e \in Entries : e.off > 0 /\ e.off < acked' => ~Out(e.call)
    BY <1>1, <1>6 DEF EvictInv, PingInv
  <2>2. \A e \in Entries : e.call # "pong"
    BY Elements, CallNames
  <2> QED  BY <1>2, <1>4, <1>6, <1>9, <2>1, <2>2 DEF EvictInv
<1>11. PingInv'
  <2>1. slink = "on" => "ping" \notin ToSet(s2c)
    BY <1>6 DEF PingInv
  <2>2. \A k \in DOMAIN s2c : slink = "on" => s2c[k] # "ping"
    BY <2>1 DEF ToSet
  <2>3. "pong" \notin ToSet(In)'
    BY <1>6
  <2> QED  BY <1>1, <1>4, <2>1, <2>2, <2>3 DEF PingInv
<1> QED  BY <1>2, <1>6, <1>7, <1>8, <1>10, <1>11

\* The replies that are known to be received are evicted; the new one stays.
LEMMA ReplySession ==
    ASSUME SndBuf = 0, SessionInv, NEW c \in Calls, Reply(c)
    PROVE  SessionInv'
<1> USE DEF SessionInv
<1> DEFINE n == [call |-> c, off |-> sent']
           q == Append(rq, n)
           old == 1..(acked - 1)
<1>1. /\ c \in working /\ working' = working \ {c}
      /\ UNCHANGED <<st, calls, clink, c2s, slink, oldc2s, acked, pingoff, executed>>
    BY DEF Reply, clientvars
<1>2. IF slink = "eof" THEN sent' = sent /\ s2c' = s2c
      ELSE sent' = sent + 1 /\ s2c' = (IF slink = "on" THEN Append(s2c, c) ELSE s2c)
    BY DEF Reply, Send
<1>3. sent \in Nat /\ sent' \in Nat /\ acked \in Nat /\ acked <= sent' /\ pingoff \in 0..sent
      /\ sent <= sent'
    BY <1>2 DEF Types
<1>4. KnownReceived(sent') = acked
    BY <1>3 DEF KnownReceived
<1>5. rq' = EvictWhile(old, q)
    BY <1>4 DEF Reply
<1>6. n \in Cached /\ n.call = c /\ n.off = sent'
    BY <1>3 DEF Cached
<1> HIDE DEF n
<1>7. rq \in Seq(Cached)
    BY DEF Types, Cached
<1>8. q \in Seq(Cached) /\ ToSet(q) = Entries \cup {n}
    BY <1>6, <1>7, AppendFacts DEF Entries
<1> HIDE DEF q
<1>9. /\ rq' \in Seq(Cached)
      /\ \A e \in Entries' : e \in Entries \/ e = n
      /\ \A e \in Entries : e \in Entries' \/ e.off \in old
      /\ n \in Entries' \/ n.off \in old
  <2>1. /\ rq' \in Seq(Cached) /\ \A e \in Entries' : e \in ToSet(q)
        /\ \A e \in ToSet(q) : e \in Entries' \/ e.off \in old
    BY <1>5, <1>8, EvictFacts DEF Entries
  <2> QED  BY <1>8, <2>1
<1>10. n \in Entries' /\ ~(n.off < acked)
    BY <1>3, <1>6, <1>9
<1>11. \A e \in Entries : e \in Entries' \/ (e.off > 0 /\ e.off < acked)
    BY <1>3, <1>9
<1> HIDE DEF old
<1>12. In' = In /\ \A d : (Out(d)' <=> Out(d)) /\ (Ran(d)' <=> Ran(d))
    BY <1>1 DEF In, Out, Ran
<1>13. Ran(c) /\ c # "pong" /\ ~InRq(c)
    BY <1>1, CallNames DEF PhaseInv, InTab
<1>14. /\ \A d \in Calls : InRq(d) <=> \E e \in Entries : e.call = d
       /\ \A d \in Calls : InRq(d)' <=> \E e \in Entries' : e.call = d
    BY <1>9, Elements, InRqEntries
<1>15. /\ InRq(c)' /\ \A d \in Calls : InRq(d)' => InRq(d) \/ d = c
       /\ \A d \in Calls : InRq(d) => InRq(d)' \/ (acked > 0 /\ ~Out(d))
  <2>1. \A e \in Entries : e \in Entries' \/ (acked > 0 /\ ~Out(e.call))
    <3>1. \A e \in Entries : e.off \in Nat
        BY Elements
    <3> QED  BY <1>3, <1>11, <3>1 DEF EvictInv
  <2>2. InRq(c)' /\ \A d \in Calls : InRq(d)' => InRq(d) \/ d = c
    BY <1>6, <1>9, <1>10, <1>14
  <2>3. ASSUME NEW d \in Calls, InRq(d) PROVE InRq(d)' \/ (acked > 0 /\ ~Out(d))
    BY <1>14, <2>1, <2>3
  <2> QED  BY <2>2, <2>3
<1>16. s2c' \in Seq(Calls \cup {"resumed", "ping"}) /\ \A x \in ToSet(s2c)' : x \in ToSet(s2c) \/ x = c
  <2>1. s2c \in Seq(Calls \cup {"resumed", "ping"}) /\ c \in Calls \cup {"resumed", "ping"}
    BY DEF Types
  <2>2. Append(s2c, c) \in Seq(Calls \cup {"resumed", "ping"}) /\ ToSet(Append(s2c, c)) = ToSet(s2c) \cup {c}
    BY <2>1, AppendFacts
  <2> QED  BY <1>2, <2>1, <2>2
<1>17. Types'
  <2>1. \A d \in working' : d \in Calls
    BY <1>1 DEF Types
  <2>2. acked' \in 0..sent' /\ pingoff' \in 0..sent'
    BY <1>1, <1>3
  <2> QED  BY <1>1, <1>3, <1>9, <1>12, <1>16, <2>1, <2>2 DEF Types, Cached
<1>18. LinkInv'
  <2>1. s2c # <<>> => s2c' # <<>> /\ Head(s2c') = Head(s2c)
    <3>1. s2c \in Seq(Calls \cup {"resumed", "ping"})
        BY DEF Types
    <3> QED  BY <1>2, <3>1
  <2>2. slink # "on" => s2c' = s2c
    BY <1>2
  <2> QED  BY <1>1, <2>1, <2>2 DEF LinkInv
<1>19. CallsInv' /\ StreamInv'
    BY <1>1, <1>12, SameCalls, SameStream
<1>20. PhaseInv'
  <2>1. \A d \in Calls : InTab(d)' => Ran(d)'
    BY <1>1, <1>12, <1>13, <1>15 DEF PhaseInv, InTab
  <2>2. \A d \in working' : ~InRq(d)'
    BY <1>1, <1>15 DEF PhaseInv, Types
  <2>3. \A d \in ToSet(s2c)' : d \in Calls => Ran(d)'
    BY <1>12, <1>13, <1>16 DEF PhaseInv
  <2> QED  BY <1>1, <1>12, <2>1, <2>2, <2>3 DEF PhaseInv
<1>21. EvictInv'
  <2>1. \A d \in Calls : Out(d)' /\ Ran(d)' => InTab(d)'
    BY <1>1, <1>12, <1>15 DEF EvictInv, InTab
  <2>2. \A d \in ToSet(In)' : d \in Calls /\ Ran(d)' => InTab(d)'
    BY <1>1, <1>12, <1>15 DEF EvictInv, InTab
  <2>3. acked' > 0 => \A d \in ToSet(In)' : d \in Calls => ~Ran(d)'
    BY <1>1, <1>12 DEF EvictInv
  <2>4. \A e \in Entries' : e.off > 0 /\ e.off < acked' => ~Out(e.call)'
    BY <1>1, <1>9, <1>10, <1>12 DEF EvictInv
  <2>5. clink' = "on" \/ In' # <<>> =>
          \A e \in Entries' : e.off = 0 /\ Out(e.call)' => e.call \in ToSet(In)'
    <3>1. SUFFICES ASSUME clink = "on" \/ In # <<>>, NEW e \in Entries', e.off = 0, Out(e.call)
                   PROVE  e.call \in ToSet(In)
        BY <1>1, <1>12
    <3>2. slink # "eof"
        BY <3>1 DEF LinkInv, In
    <3>3. e # n
        BY <1>2, <1>3, <1>6, <3>1, <3>2
    <3> QED  BY <1>9, <3>1, <3>3 DEF EvictInv
  <2> QED  BY <2>1, <2>2, <2>3, <2>4, <2>5 DEF EvictInv
<1>22. PingInv'
  <2>1. CASE slink = "eof"
    <3>1. In = <<>> /\ ToSet(<<>>) = {}
        BY <2>1 DEF LinkInv, In, ToSet
    <3>2. "pong" \notin ToSet(In)' /\ slink' # "on"
        BY <1>1, <1>12, <2>1, <3>1
    <3> QED  BY <3>2 DEF PingInv
  <2>2. CASE slink # "eof"
    <3>1. n.off = sent + 1 /\ s2c' = IF slink = "on" THEN Append(s2c, c) ELSE s2c
        BY <1>2, <1>6, <2>2
    <3>2. "pong" \in ToSet(In)' <=> "pong" \in ToSet(In)
        BY <1>12
    <3>3. \A e \in Entries' : e \in Entries \/ e = n
        BY <1>9
    <3> QED  BY <1>1, <1>6, <3>1, <3>2, <3>3, SentReply
  <2> QED  BY <2>1, <2>2
<1> QED  BY <1>17, <1>18, <1>19, <1>20, <1>21, <1>22

\* Stuttering.
LEMMA StutterSession ==
    ASSUME SessionInv, UNCHANGED vars
    PROVE  SessionInv'
<1> USE DEF SessionInv
<1>1. UNCHANGED <<st, calls, clink, c2s, s2c, oldc2s, slink, working, rq, sent, acked, pingoff, executed>>
    BY DEF vars, clientvars, servervars
<1>2. In' = In /\ Entries' = Entries
      /\ \A d : (Out(d)' <=> Out(d)) /\ (Ran(d)' <=> Ran(d)) /\ (InTab(d)' <=> InTab(d))
    BY <1>1 DEF In, Entries, Out, Ran, InTab, InRq
<1>3. Types' /\ LinkInv'
    BY <1>1, <1>2 DEF Types, LinkInv
<1>4. CallsInv' /\ PhaseInv' /\ StreamInv'
    BY <1>1, <1>2, SameCalls, SamePhases, SameStream
<1>5. EvictInv' /\ PingInv'
    BY <1>1, <1>2 DEF EvictInv, PingInv
<1> QED  BY <1>3, <1>4, <1>5

\* Every step preserves the invariant.
LEMMA SessionStep ==
    ASSUME SndBuf = 0, ~EarlyCalls, SessionInv, [Next]_vars
    PROVE  SessionInv'
<1>1. CASE UNCHANGED vars
    BY <1>1, StutterSession
<1>2. ASSUME NEW c \in Calls, RecvReplay(c) \/ RecvInProgress(c) \/ RecvNew(c) \/ Reply(c) PROVE SessionInv'
    BY <1>2, RecvReplaySession, RecvInProgressSession, RecvNewSession, ReplySession
<1>3. CASE RecvPong \/ ServerResume \/ ServerEof
    BY <1>3, RecvPongSession, ServerResumeSession, ServerEofSession
<1>4. CASE RecvResumed \/ RecvPing \/ ClientEof \/ Resume
    BY <1>4, RecvResumedSession, RecvPingSession, ClientEofSession, ResumeSession
<1>5. ASSUME NEW c \in Calls, RecvReply(c) \/ Call(c) PROVE SessionInv'
    BY <1>5, RecvReplySession, CallSession
<1>6. CASE Ping \/ Break
    BY <1>6, PingSession, BreakSession
<1> QED  BY <1>1, <1>2, <1>3, <1>4, <1>5, <1>6 DEF Next, ServerStep, ClientStep

\* The invariant of a session.
LEMMA SessionHolds ==
    ASSUME SndBuf = 0, ~EarlyCalls
    PROVE  Spec => []SessionInv
BY InitSession, SessionStep, PTL DEF Spec

-----------------------------------------------------------------------------
\* No reply is lost: whatever connections break, and wherever, a call that
\* the server has executed and the client still waits for is in rtab or in
\* the cache of replies, so the server answers it when it is sent again
\* (asrv_resumable::isreplay) and does not execute it a second time.
THEOREM NoReplyLostHolds ==
    ASSUME SndBuf = 0, ~EarlyCalls
    PROVE  Spec => []NoReplyLost
<1>1. SessionInv => NoReplyLost
    BY DEF SessionInv, EvictInv, NoReplyLost, Out, Ran, InTab
<1> QED  BY <1>1, SessionHolds, PTL

phases == [c \in Calls |-> Phase(c)]

\* A step moves at most one call.
LEMMA OnePhase ==
    ASSUME Types, NEW c \in Calls, NEW s, NEW n, st' = [st EXCEPT ![c] = s],
           executed' = [executed EXCEPT ![c] = n]
    PROVE  phases' = [phases EXCEPT ![c] = Phase(c)']
<1>1. \A d \in Calls : d # c => st'[d] = st[d] /\ executed'[d] = executed[d]
    BY DEF Types
<1>2. \A d \in Calls : d # c => Phase(d)' = Phase(d)
    BY <1>1 DEF Phase
<1>3. phases' = [d \in Calls |-> Phase(d)']
    BY DEF phases
<1>4. [phases EXCEPT ![c] = Phase(c)'] = [d \in Calls |-> IF d = c THEN Phase(c)' ELSE Phase(d)]
    BY DEF phases
<1> QED  BY <1>2, <1>3, <1>4

\* The three steps of AtMostOnceRpc are Call, RecvNew and the RecvReply of an
\* outstanding call; every other step leaves the phases alone.
LEMMA PhaseStep ==
    ASSUME SndBuf = 0, ~EarlyCalls, SessionInv, [Next]_vars
    PROVE  Service!Next \/ phases' = phases
<1>1. Types /\ PhaseInv
    BY DEF SessionInv
<1>2. ASSUME UNCHANGED <<st, executed>> PROVE phases' = phases
    BY <1>2 DEF phases, Phase
<1>3. ASSUME NEW c \in Calls, Call(c) PROVE Service!Next
  <2>1. st[c] = "new" /\ st' = [st EXCEPT ![c] = "out"] /\ executed' = executed
    BY <1>3 DEF Call
  <2>2. executed[c] = 0 /\ executed' = [executed EXCEPT ![c] = 0]
    BY <1>1, <2>1 DEF Types, PhaseInv, Ran
  <2>3. st'[c] = "out" /\ executed'[c] = 0
    BY <1>1, <2>1, <2>2 DEF Types
  <2>4. Phase(c) = "new" /\ Phase(c)' = "out"
    BY <2>1, <2>2, <2>3 DEF Phase
  <2>5. phases' = [phases EXCEPT ![c] = "out"] /\ phases[c] = "new"
    BY <1>1, <2>1, <2>2, <2>4, OnePhase DEF phases
  <2> QED  BY <2>5 DEF Service!Next, Service!Issue, Service!Advance, phases
<1>4. ASSUME NEW c \in Calls, RecvNew(c) PROVE Service!Next
  <2>1. st[c] = "out" /\ st' = st /\ ~Ran(c) /\ executed' = [executed EXCEPT ![c] = 1]
    BY <1>4, RecvNewSession DEF RecvNew, clientvars
  <2>2. executed[c] = 0 /\ st' = [st EXCEPT ![c] = "out"]
    BY <1>1, <2>1 DEF Types, Ran
  <2>3. st'[c] = "out" /\ executed'[c] = 1
    BY <1>1, <2>1, <2>2 DEF Types
  <2>4. Phase(c) = "out" /\ Phase(c)' = "executed"
    BY <2>1, <2>2, <2>3 DEF Phase
  <2>5. phases' = [phases EXCEPT ![c] = "executed"] /\ phases[c] = "out"
    BY <1>1, <2>1, <2>2, <2>4, OnePhase DEF phases
  <2> QED  BY <2>5 DEF Service!Next, Service!Execute, Service!Advance, phases
<1>5. ASSUME NEW c \in Calls, RecvReply(c) PROVE Service!Next \/ phases' = phases
  <2>1. s2c # <<>> /\ Head(s2c) = c /\ executed' = executed
        /\ st' = [st EXCEPT ![c] = IF st[c] = "out" THEN "done" ELSE st[c]]
    BY <1>5 DEF RecvReply
  <2>2. CASE st[c] # "out"
    <3>1. st' = st
        BY <1>1, <2>1, <2>2 DEF Types
    <3> QED  BY <1>2, <2>1, <3>1
  <2>3. CASE st[c] = "out"
    <3>1. s2c \in Seq(Calls \cup {"resumed", "ping"})
        BY <1>1 DEF Types
    <3>2. Head(s2c) \in ToSet(s2c)
        BY <2>1, <3>1, TailFacts
    <3>3. Ran(c)
        BY <1>1, <2>1, <3>2 DEF PhaseInv
    <3>4. executed[c] = 1 /\ executed' = [executed EXCEPT ![c] = 1] /\ st' = [st EXCEPT ![c] = "done"]
        BY <1>1, <2>1, <2>3, <3>3 DEF Types, Ran
    <3>5. st'[c] = "done" /\ executed'[c] = 1
        BY <1>1, <3>4 DEF Types
    <3>6. Phase(c) = "executed" /\ Phase(c)' = "done"
        BY <2>3, <3>4, <3>5 DEF Phase
    <3>7. phases' = [phases EXCEPT ![c] = "done"] /\ phases[c] = "executed"
        BY <1>1, <3>4, <3>6, OnePhase DEF phases
    <3> QED  BY <3>7 DEF Service!Next, Service!Complete, Service!Advance, phases
  <2> QED  BY <2>2, <2>3
<1>6. CASE UNCHANGED vars
    BY <1>2, <1>6 DEF vars, clientvars
<1>7. ASSUME NEW c \in Calls, RecvReplay(c) \/ RecvInProgress(c) \/ Reply(c) PROVE phases' = phases
    BY <1>2, <1>7 DEF RecvReplay, RecvInProgress, Reply, clientvars
<1>8. CASE RecvPong \/ ServerResume \/ ServerEof
    BY <1>2, <1>8 DEF RecvPong, ServerResume, ServerEof, clientvars
<1>9. CASE RecvResumed \/ RecvPing \/ ClientEof \/ Resume
    BY <1>2, <1>9 DEF RecvResumed, RecvPing, ClientEof, Resume, clientvars
<1>10. CASE Ping \/ Break
    BY <1>2, <1>10 DEF Ping, Break, clientvars
<1> QED  BY <1>3, <1>4, <1>5, <1>6, <1>7, <1>8, <1>9, <1>10 DEF Next, ServerStep, ClientStep

\* The session implements at-most-once RPC: with the calls' phases as the
\* refinement mapping, aclnt_resumable and asrv_resumable only take steps of
\* AtMostOnceRpc, so a call is executed once and answered once, after that.
THEOREM ImplementsAtMostOnceHolds ==
    ASSUME SndBuf = 0, ~EarlyCalls
    PROVE  Spec => ImplementsAtMostOnce
<1>1. Init => Service!Init
  <2>1. SUFFICES ASSUME Init PROVE phases = [c \in Calls |-> "new"]
    BY DEF Service!Init, phases
  <2>2. \A c \in Calls : Phase(c) = "new"
    BY <2>1 DEF Init, Phase
  <2> QED  BY <2>2 DEF phases
<1>2. SessionInv /\ [Next]_vars => [Service!Next]_phases
    BY PhaseStep
<1> QED  BY <1>1, <1>2, SessionHolds, PTL DEF Spec, ImplementsAtMostOnce, Service!Spec, phases
=============================================================================
