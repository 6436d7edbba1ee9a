-------------------------- MODULE StreamRpcProofs ---------------------------
(***************************************************************************)
(* A stream transport delivers the packets of its peer in order and        *)
(* reports its end once, and the client and the server on it are told      *)
(* once, for any streams, packet and buffer sizes and calls.               *)
(***************************************************************************)
EXTENDS StreamRpc, ListsProofs

\* The units of the packets before p.
Start(p) == Cardinality({u \in Units : u[1] < p})

\* What is in the buffer and on the wire begins with packet p.
AlignedAt(p) ==
    /\ cp <= Len(buf)
    /\ Start(p) + (Len(buf) - cp) + Len(wire) = Len(AllUnits)
    /\ \A i \in 1..(Len(buf) - cp) : buf[cp + i] = AllUnits[Start(p) + i]
    /\ \A i \in 1..Len(wire) : wire[i] = AllUnits[Start(p) + (Len(buf) - cp) + i]

\* The packets before p have been delivered.
DeliveredTo(p) == \A i \in 1..Len(Packets) : Packets[i] < p <=> i <= Len(delivered)

Seqs == /\ stream \in Seq([len : Nat, kind : STRING])
        /\ buf \in Seq(ToSet(AllUnits)) /\ wire \in Seq(ToSet(AllUnits)) /\ cp \in Nat
        /\ delivered \in Seq(Nat)

\* The receiver reads packets where they begin.
AlignInv ==
    /\ Seqs
    /\ Len(delivered) <= Len(Packets)
    /\ \A i \in 1..Len(delivered) : delivered[i] = Packets[i]
    /\ open \/ ingetpkt => \E p \in 1..(Len(stream) + 1) : AlignedAt(p) /\ DeliveredTo(p)

Pcs == {"loop", "getpkt", "cb", "pktlen_failed", "xon_failed", "sendv_panic", "dangling"}

\* callgetpkt () is under way while packets are looked for or handled.
PcInv ==
    /\ pc \in Pcs /\ open \in BOOLEAN /\ ingetpkt \in BOOLEAN
    /\ pc = "loop" => ~ingetpkt /\ cp = 0
    /\ pc = "getpkt" \/ pc = "cb" => ingetpkt

\* A receiver that was told of the EOF has no callback.
EofInv ==
    /\ cb = On \/ cb = Off
    /\ eofs = 0 \/ (eofs = 1 /\ cb = Off)

PipeInv == AlignInv /\ PcInv /\ EofInv /\ NothingWaits

\* seteof () runs once, when the EOF is reported; the server knows after it.
WalkInv ==
    /\ walk \in {"none", "calls", "server"}
    /\ eofs = 0 => walk = "none" /\ replying = 0
    /\ garbled \in BOOLEAN /\ srveof \in BOOLEAN
    /\ ~garbled /\ (eofs = 0 \/ walk # "none") => ~srveof
    /\ replying # 0 => replying \in svc

\* The server is told when it knows of the EOF and nothing is served.
ToldInv == ~garbled => told = IF srveof /\ svc = {} THEN 1 ELSE 0

\* The calls that are outstanding are in the list.
CallsExact ==
    /\ st \in [Calls -> {"new", "out", "done", "cancelled"}]
    /\ calls \in Seq(Calls) /\ IsInjective(calls)
    /\ \A c \in Calls : c \in ToSet(calls) <=> st[c] = "out"

\* seteof () of a closed transport takes the first call to be told next, unless
\* its callback cancelled it, and leaves none.
WalkFirst ==
    /\ wasopen \in BOOLEAN
    /\ walk = "calls" => rb = Nil \/ rb \in Calls
    /\ eofs = 1 /\ ~wasopen =>
         /\ ~open
         /\ walk # "calls" => calls = <<>>
         /\ walk = "calls" /\ rb = Nil => calls = <<>>
         /\ walk = "calls" /\ rb # Nil =>
              \/ st[rb] # "out"
              \/ calls # <<>> /\ Head(calls) = rb

RpcInv == WalkInv /\ ToldInv /\ CallsExact /\ WalkFirst

-----------------------------------------------------------------------------
\* The units of the stream are in the order of their packets.

StreamType == stream \in Seq([len : Nat, kind : STRING])

\* A unit is a packet and a place in it, the header being place 0.
LEMMA UnitsAre ==
    ASSUME StreamType
    PROVE  /\ Len(stream) \in Nat
           /\ \A p \in 1..Len(stream) : stream[p].len \in Nat
           /\ \A p \in 1..Len(stream) : \A k \in 0..stream[p].len : <<p, k>> \in Units
           /\ \A u \in Units : /\ u[1] \in 1..Len(stream) /\ u[2] \in 0..stream[u[1]].len
                               /\ u = <<u[1], u[2]>>
           /\ IsFiniteSet(Units)
<1> DEFINE S == {{p} \X (0..stream[p].len) : p \in 1..Len(stream)}
           f == [p \in 1..Len(stream) |-> {p} \X (0..stream[p].len)]
<1>1. Len(stream) \in Nat /\ \A p \in 1..Len(stream) : stream[p].len \in Nat
  <2> DEFINE R == [len : Nat, kind : STRING]
  <2>1. stream \in Seq(R)
    BY DEF StreamType
  <2>2. \A x \in R : x.len \in Nat
    OBVIOUS
  <2> HIDE DEF R
  <2>3. Len(stream) \in Nat /\ \A p \in 1..Len(stream) : stream[p] \in R
    BY <2>1
  <2> QED  BY <2>2, <2>3
<1>2. \A p \in 1..Len(stream) : \A k \in 0..stream[p].len : <<p, k>> \in Units
    BY DEF Units
<1>3. ASSUME NEW u \in Units
      PROVE  u[1] \in 1..Len(stream) /\ u[2] \in 0..stream[u[1]].len /\ u = <<u[1], u[2]>>
  <2>1. PICK p \in 1..Len(stream) : u \in {p} \X (0..stream[p].len)
    BY DEF Units
  <2> QED  BY <2>1
<1>4. IsFiniteSet(S)
  <2>1. IsFiniteSet(1..Len(stream))
    BY <1>1, FS_Interval
  <2>2. f \in [1..Len(stream) -> S]
    OBVIOUS
  <2>3. \A T \in S : \E p \in 1..Len(stream) : f[p] = T
    OBVIOUS
  <2> HIDE DEF f, S
  <2>4. f \in Surjection(1..Len(stream), S)
    BY <2>2, <2>3 DEF Surjection
  <2> QED  BY <2>1, <2>4, FS_Surjection
<1>5. ASSUME NEW T \in S PROVE IsFiniteSet(T)
  <2>1. PICK p \in 1..Len(stream) : T = {p} \X (0..stream[p].len)
    OBVIOUS
  <2>2. IsFiniteSet(0..stream[p].len)
    <3>1. 0 \in Int /\ stream[p].len \in Int
        BY <1>1
    <3> QED  BY <3>1, FS_Interval
  <2>3. IsFiniteSet({p})
    BY FS_Singleton
  <2> QED  BY <2>1, <2>2, <2>3, FS_Product
<1>6. IsFiniteSet(Units)
  <2> HIDE DEF S
  <2>1. IsFiniteSet(UNION S)
    BY <1>4, <1>5, FS_UNION
  <2> QED  BY <2>1 DEF Units, S
<1> QED  BY <1>1, <1>2, <1>3, <1>6

\* The units of the packets before p.
Before(p) == {u \in Units : u[1] < p}

\* How many units are written up to and with a given one.
LEMMA UpToFacts ==
    ASSUME StreamType, NEW p \in 1..Len(stream), NEW k \in 0..stream[p].len
    PROVE  Cardinality(UpTo(<<p, k>>)) = Start(p) + k + 1 /\ Start(p) \in Nat
<1> DEFINE D == {p} \X (0..k)
           B == Before(p)
<1>1. Len(stream) \in Nat /\ stream[p].len \in Nat /\ p \in Nat /\ k \in Nat
    BY UnitsAre
<1>2. IsFiniteSet(B) /\ Cardinality(B) \in Nat /\ Start(p) = Cardinality(B)
  <2>1. IsFiniteSet(Units) /\ B \in SUBSET Units
    BY UnitsAre DEF Before
  <2>2. Start(p) = Cardinality(B)
    BY DEF Start, Before
  <2> HIDE DEF B
  <2> QED  BY <2>1, <2>2, FS_Subset, FS_CardinalityType
<1>3. IsFiniteSet(D) /\ Cardinality(D) = k + 1
  <2>1. IsFiniteSet({p}) /\ Cardinality({p}) = 1
    BY FS_Singleton
  <2>2. IsFiniteSet(0..k) /\ Cardinality(0..k) = k + 1
    <3>1. 0 \in Int /\ k \in Int /\ ~(0 > k) /\ k - 0 + 1 = k + 1
        BY <1>1
    <3> QED  BY <3>1, FS_Interval, Zenon
  <2>3. IsFiniteSet(D) /\ Cardinality(D) = Cardinality({p}) * Cardinality(0..k)
    BY <2>1, <2>2, FS_Product, Zenon
  <2> QED  BY <1>1, <2>1, <2>2, <2>3
<1>4. UpTo(<<p, k>>) = B \cup D
  <2>1. ASSUME NEW u \in UpTo(<<p, k>>) PROVE u \in B \cup D
    <3>1. u \in Units /\ (u[1] < p \/ (u[1] = p /\ u[2] <= k))
        BY DEF UpTo
    <3>2. u[1] \in 1..Len(stream) /\ u[2] \in 0..stream[u[1]].len /\ u = <<u[1], u[2]>>
        BY <3>1, UnitsAre
    <3>3. CASE u[1] < p
        BY <3>1, <3>3 DEF Before
    <3>4. CASE u[1] = p /\ u[2] <= k
      <4>1. u[2] \in 0..k
        BY <1>1, <3>2, <3>4
      <4> QED  BY <3>2, <3>4, <4>1
    <3> QED  BY <3>1, <3>3, <3>4
  <2>2. ASSUME NEW u \in B PROVE u \in UpTo(<<p, k>>)
    BY DEF Before, UpTo
  <2>3. ASSUME NEW u \in D PROVE u \in UpTo(<<p, k>>)
    <3>1. PICK j \in 0..k : u = <<p, j>>
        OBVIOUS
    <3>2. j \in 0..stream[p].len /\ j <= k
        BY <1>1
    <3>3. <<p, j>> \in Units
        BY <3>2, UnitsAre
    <3>4. u \in Units /\ u[1] = p /\ u[2] = j
        BY <3>1, <3>3
    <3> QED  BY <3>2, <3>4 DEF UpTo
  <2> HIDE DEF B, D
  <2> QED  BY <2>1, <2>2, <2>3
<1>5. B \cap D = {}
  <2>1. SUFFICES ASSUME NEW u \in B, u \in D PROVE FALSE
    OBVIOUS
  <2>2. u[1] < p /\ u[1] = p
    BY <2>1 DEF Before
  <2> QED  BY <1>1, <2>2
<1> HIDE DEF B, D
<1>6. Cardinality(B \cup D) = Cardinality(B) + Cardinality(D) - Cardinality(B \cap D)
    BY <1>2, <1>3, FS_Union
<1>7. Cardinality(B \cap D) = 0
    BY <1>5, FS_EmptySet
<1>8. Cardinality(UpTo(<<p, k>>)) = Cardinality(B) + Cardinality(D) - 0
    BY <1>4, <1>6, <1>7
<1>9. Cardinality(B) + (k + 1) - 0 = Cardinality(B) + k + 1
    BY <1>1, <1>2
<1> QED  BY <1>2, <1>3, <1>8, <1>9, Zenon

\* Two units with as many units up to them are the same.
LEMMA UpToInjective ==
    ASSUME StreamType, NEW u \in Units, NEW v \in Units, Cardinality(UpTo(u)) = Cardinality(UpTo(v))
    PROVE  u = v
<1>1. \A w \in Units : w[1] \in Nat /\ w[2] \in Nat /\ w = <<w[1], w[2]>>
  <2>1. TAKE w \in Units
  <2>2. w[1] \in 1..Len(stream) /\ w[2] \in 0..stream[w[1]].len /\ w = <<w[1], w[2]>>
        /\ Len(stream) \in Nat
    BY UnitsAre
  <2>3. stream[w[1]].len \in Nat
    BY <2>2, UnitsAre
  <2> QED  BY <2>2, <2>3
<1>2. \A w \in Units : w \in UpTo(w) /\ IsFiniteSet(UpTo(w))
  <2>1. TAKE w \in Units
  <2>2. w \in UpTo(w)
    BY <1>1 DEF UpTo
  <2>3. UpTo(w) \in SUBSET Units /\ IsFiniteSet(Units)
    BY UnitsAre DEF UpTo
  <2> QED  BY <2>2, <2>3, FS_Subset
<1>3. ASSUME NEW a \in Units, NEW b \in Units, Cardinality(UpTo(a)) = Cardinality(UpTo(b)),
             a[1] < b[1] \/ (a[1] = b[1] /\ a[2] <= b[2])
      PROVE  a = b
  <2>1. \A w \in UpTo(a) : w \in UpTo(b)
    BY <1>1, <1>3 DEF UpTo
  <2>2. UpTo(a) \in SUBSET UpTo(b)
    BY <2>1
  <2>3. UpTo(b) = UpTo(a)
    BY <1>2, <1>3, <2>2, FS_Subset
  <2>4. b \in UpTo(a)
    BY <1>2, <2>3
  <2>5. b[1] < a[1] \/ (b[1] = a[1] /\ b[2] <= a[2])
    BY <2>4 DEF UpTo
  <2>6. a[1] = b[1] /\ a[2] = b[2]
    BY <1>1, <1>3, <2>5
  <2> QED  BY <1>1, <2>6
<1>4. \/ u[1] < v[1] \/ (u[1] = v[1] /\ u[2] <= v[2])
      \/ v[1] < u[1] \/ (v[1] = u[1] /\ v[2] <= u[2])
    BY <1>1
<1> QED  BY <1>3, <1>4

\* Where a unit is in the stream.
LEMMA UnitAt ==
    ASSUME StreamType, NEW p \in 1..Len(stream), NEW k \in 0..stream[p].len
    PROVE  /\ Start(p) + k + 1 \in 1..Len(AllUnits)
           /\ AllUnits[Start(p) + k + 1] = <<p, k>>
<1> DEFINE i == Start(p) + k + 1
           u == <<p, k>>
           Here(w) == Cardinality(UpTo(w)) = i
<1>1. u \in Units /\ IsFiniteSet(Units) /\ k \in Nat
    BY UnitsAre
<1>2. Cardinality(UpTo(u)) = i /\ Start(p) \in Nat
    BY UpToFacts
<1>3. Cardinality(UpTo(u)) <= Cardinality(Units) /\ Cardinality(Units) \in Nat
  <2>1. UpTo(u) \in SUBSET Units
    BY DEF UpTo
  <2> QED  BY <1>1, <2>1, FS_Subset, FS_CardinalityType
<1>4. i \in 1..Cardinality(Units)
    BY <1>1, <1>2, <1>3
<1>5. Len(AllUnits) = Cardinality(Units)
    BY <1>3 DEF AllUnits
<1>6. AllUnits[i] = CHOOSE w \in Units : Cardinality(UpTo(w)) = i
    BY <1>4 DEF AllUnits
<1> HIDE DEF u, i
<1>7. \A w \in Units : Cardinality(UpTo(w)) = i => w = u
    BY <1>1, <1>2, UpToInjective
<1>8. (CHOOSE w \in Units : Cardinality(UpTo(w)) = i) = u
    BY <1>1, <1>2, <1>7
<1> QED  BY <1>4, <1>5, <1>6, <1>8 DEF i, u

\* Where packets begin, and that the stream is one packet after another.
LEMMA StartFacts ==
    ASSUME StreamType
    PROVE  /\ AllUnits \in Seq(ToSet(AllUnits)) /\ Len(AllUnits) \in Nat
           /\ Start(1) = 0 /\ Start(Len(stream) + 1) = Len(AllUnits)
           /\ \A p \in 1..Len(stream) : Start(p + 1) = Start(p) + 1 + stream[p].len
           /\ \A p \in 1..Len(stream) : Start(p) \in Nat
<1>1. Len(stream) \in Nat /\ IsFiniteSet(Units) /\ \A u \in Units : u[1] \in 1..Len(stream)
    BY UnitsAre
<1>2. Cardinality(Units) \in Nat
    BY <1>1, FS_CardinalityType
<1>3. /\ Len(AllUnits) = Cardinality(Units) /\ Len(AllUnits) \in Nat /\ DOMAIN AllUnits = 1..Len(AllUnits)
      /\ AllUnits = [i \in 1..Len(AllUnits) |-> AllUnits[i]]
    BY <1>2 DEF AllUnits
<1>4. AllUnits \in Seq(ToSet(AllUnits))
  <2>1. \A i \in 1..Len(AllUnits) : AllUnits[i] \in ToSet(AllUnits)
    BY <1>3 DEF ToSet
  <2> QED  BY <1>3, <2>1
<1>5. Start(1) = 0
  <2>1. {u \in Units : u[1] < 1} = {}
    BY <1>1
  <2> QED  BY <2>1, FS_EmptySet DEF Start
<1>6. Start(Len(stream) + 1) = Len(AllUnits)
  <2>1. {u \in Units : u[1] < Len(stream) + 1} = Units
    BY <1>1
  <2> QED  BY <1>3, <2>1 DEF Start
<1>7. ASSUME NEW p \in 1..Len(stream)
      PROVE  Start(p + 1) = Start(p) + 1 + stream[p].len /\ Start(p) \in Nat
  <2> DEFINE n == stream[p].len
  <2>1. n \in Nat /\ n \in 0..n /\ p \in Nat
    BY <1>1, UnitsAre
  <2>2. Cardinality(UpTo(<<p, n>>)) = Start(p) + n + 1 /\ Start(p) \in Nat
    BY <2>1, UpToFacts
  <2>3. UpTo(<<p, n>>) = {u \in Units : u[1] < p + 1}
    <3>1. \A u \in Units : (u[1] < p \/ (u[1] = p /\ u[2] <= n)) <=> u[1] < p + 1
      <4>1. TAKE u \in Units
      <4>2. u[1] \in Nat /\ u[2] \in 0..stream[u[1]].len
        BY <1>1, UnitsAre
      <4>3. u[1] = p => u[2] <= n
        BY <2>1, <4>2
      <4> QED  BY <2>1, <4>2, <4>3
    <3> QED  BY <3>1 DEF UpTo
  <2>4. Start(p + 1) = Start(p) + n + 1
    BY <2>2, <2>3 DEF Start
  <2> HIDE DEF n
  <2>5. Start(p) + n + 1 = Start(p) + 1 + n
    BY <2>1, <2>2
  <2> QED  BY <2>2, <2>4, <2>5 DEF n
<1> QED  BY <1>3, <1>4, <1>5, <1>6, <1>7

-----------------------------------------------------------------------------
\* The packets to be delivered, in the order of the stream.

\* Positions that are kept stay in increasing order.
LEMMA KeepPositions ==
    ASSUME NEW n \in Nat, NEW S
    PROVE  LET P == Keep([p \in 1..n |-> p], S)
           IN  /\ P \in Seq(Nat)
               /\ \A i, j \in 1..Len(P) : i < j => P[i] < P[j]
               /\ \A i \in 1..Len(P) : P[i] \in 1..n /\ P[i] \in S
               /\ \A p \in 1..n : p \in S => \E i \in 1..Len(P) : P[i] = p
<1> DEFINE s == [p \in 1..n |-> p]
           P == Keep(s, S)
           N == Nat
<1>1. s \in Seq(N)
    OBVIOUS
<1>2. Len(s) = n /\ \A k \in 1..n : s[k] = k
    OBVIOUS
<1> HIDE DEF s
<1> HIDE DEF N
<1>3. P \in Seq(N)
    BY <1>1, KeepType
<1>5. PICK f \in [1..Len(P) -> 1..Len(s)] :
        /\ \A i \in 1..Len(P) : P[i] = s[f[i]] /\ s[f[i]] \in S
        /\ \A i, j \in 1..Len(P) : i < j => f[i] < f[j]
        /\ \A k \in 1..Len(s) : s[k] \in S => \E i \in 1..Len(P) : f[i] = k
    BY <1>1, KeepIndex
<1> HIDE DEF P
<1>6. \A i \in 1..Len(P) : P[i] = f[i] /\ P[i] \in 1..n /\ P[i] \in S
    BY <1>2, <1>5
<1>7. \A i, j \in 1..Len(P) : i < j => P[i] < P[j]
    BY <1>5, <1>6
<1>8. ASSUME NEW p \in 1..n, p \in S PROVE \E i \in 1..Len(P) : P[i] = p
  <2>1. PICK i \in 1..Len(P) : f[i] = p
    BY <1>2, <1>5, <1>8
  <2> QED  BY <1>6, <2>1
<1>9. /\ P \in Seq(Nat)
      /\ \A i, j \in 1..Len(P) : i < j => P[i] < P[j]
      /\ \A i \in 1..Len(P) : P[i] \in 1..n /\ P[i] \in S
      /\ \A p \in 1..n : p \in S => \E i \in 1..Len(P) : P[i] = p
    BY <1>3, <1>6, <1>7, <1>8 DEF N
<1> QED  BY <1>9 DEF P, s

\* The packets to deliver are the stream's, without those that are too short.
LEMMA PacketsFacts ==
    ASSUME StreamType
    PROVE  /\ Len(Packets) \in Nat /\ Packets \in Seq(Nat)
           /\ \A i, j \in 1..Len(Packets) : i < j => Packets[i] < Packets[j]
           /\ \A i \in 1..Len(Packets) :
                Packets[i] \in 1..Len(stream) /\ stream[Packets[i]].len >= 2
           /\ \A p \in 1..Len(stream) :
                stream[p].len >= 2 => \E i \in 1..Len(Packets) : Packets[i] = p
<1> DEFINE S == {p \in 1..Len(stream) : stream[p].len >= 2}
           n == Len(stream)
           P == Keep([p \in 1..n |-> p], S)
<1>1. Len(stream) \in Nat
    BY UnitsAre
<1>2. Packets = P
    BY DEF Packets
<1>3. \A p \in 1..Len(stream) : p \in S <=> stream[p].len >= 2
    OBVIOUS
<1> HIDE DEF S, n
<1>4. /\ P \in Seq(Nat)
      /\ \A i, j \in 1..Len(P) : i < j => P[i] < P[j]
      /\ \A i \in 1..Len(P) : P[i] \in 1..n /\ P[i] \in S
      /\ \A p \in 1..n : p \in S => \E i \in 1..Len(P) : P[i] = p
  <2>1. n \in Nat
    BY <1>1 DEF n
  <2> QED  BY <2>1, KeepPositions
<1> HIDE DEF P
<1>5. \A i \in 1..Len(P) : P[i] \in 1..Len(stream) /\ stream[P[i]].len >= 2
    BY <1>3, <1>4 DEF n
<1>6. \A p \in 1..Len(stream) : stream[p].len >= 2 => \E i \in 1..Len(P) : P[i] = p
    BY <1>3, <1>4 DEF n
<1>7. Len(P) \in Nat
    BY <1>4
<1> QED  BY <1>2, <1>4, <1>5, <1>6, <1>7, Zenon

\* When the packets before p are the first n to be delivered, p is the next
\* one, unless it is too short.
LEMMA NextPacket ==
    ASSUME StreamType, NEW p \in 1..Len(stream), NEW n \in Nat, n <= Len(Packets),
           \A i \in 1..Len(Packets) : Packets[i] < p <=> i <= n
    PROVE  /\ stream[p].len >= 2 =>
                /\ n + 1 <= Len(Packets) /\ Packets[n + 1] = p
                /\ \A i \in 1..Len(Packets) : Packets[i] < p + 1 <=> i <= n + 1
           /\ ~(stream[p].len >= 2) =>
                \A i \in 1..Len(Packets) : Packets[i] < p + 1 <=> i <= n
<1>1. /\ Len(Packets) \in Nat /\ p \in Nat
      /\ \A i \in 1..Len(Packets) : Packets[i] \in Nat
    BY PacketsFacts, UnitsAre
<1>2. \A i, j \in 1..Len(Packets) : i < j => Packets[i] < Packets[j]
    BY PacketsFacts
<1>3. ASSUME stream[p].len >= 2
      PROVE  /\ n + 1 <= Len(Packets) /\ Packets[n + 1] = p
             /\ \A i \in 1..Len(Packets) : Packets[i] < p + 1 <=> i <= n + 1
  <2>1. PICK k \in 1..Len(Packets) : Packets[k] = p
    BY <1>3, PacketsFacts
  <2>2. ~(k <= n)
    BY <1>1, <2>1
  <2>3. n + 1 \in 1..Len(Packets) /\ ~(n + 1 <= n)
    BY <1>1, <2>2
  <2>4. ~(Packets[n + 1] < p)
    BY <2>3
  <2>5. ~(n + 1 < k)
    BY <1>2, <2>1, <2>3, <2>4
  <2>6. k = n + 1
    BY <1>1, <2>2, <2>5
  <2>7. ASSUME NEW i \in 1..Len(Packets) PROVE Packets[i] < p + 1 <=> i <= n + 1
    <3>1. CASE i < k
        BY <1>1, <1>2, <2>1, <2>6, <3>1
    <3>2. CASE i = k
        BY <1>1, <2>1, <2>6, <3>2
    <3>3. CASE k < i
        BY <1>1, <1>2, <2>1, <2>6, <3>3
    <3> QED  BY <1>1, <3>1, <3>2, <3>3
  <2> QED  BY <2>1, <2>3, <2>6, <2>7
<1>4. ASSUME ~(stream[p].len >= 2), NEW i \in 1..Len(Packets)
      PROVE  Packets[i] < p + 1 <=> i <= n
  <2>1. Packets[i] # p
    BY <1>4, PacketsFacts
  <2>2. Packets[i] < p + 1 <=> Packets[i] < p
    BY <1>1, <2>1
  <2> QED  BY <2>2
<1> QED  BY <1>3, <1>4

\* The stream does not change.
LEMMA StreamSame ==
    ASSUME stream' = stream
    PROVE  /\ AllUnits' = AllUnits /\ Packets' = Packets
           /\ \A p : Start(p)' = Start(p)
BY DEF AllUnits, Packets, Start, UpTo, Units

\* What is at the front of the buffer is the header of the packet p.
LEMMA HeaderAt ==
    ASSUME Seqs, NEW p \in 1..(Len(stream) + 1), AlignedAt(p), Len(buf) > cp
    PROVE  p \in 1..Len(stream) /\ ThisPkt = p /\ ThisLen = stream[p].len
<1>1. StreamType /\ Len(buf) \in Nat /\ Len(wire) \in Nat /\ cp \in Nat
    BY DEF Seqs, StreamType
<1>2. Len(stream) \in Nat
    BY <1>1, UnitsAre
<1>3. Len(AllUnits) \in Nat /\ Start(Len(stream) + 1) = Len(AllUnits)
    BY <1>1, StartFacts
<1>4. p # Len(stream) + 1
    BY <1>1, <1>3 DEF AlignedAt
<1>5. p \in 1..Len(stream)
    BY <1>2, <1>4
<1>6. Start(p) \in Nat
    BY <1>1, <1>5, StartFacts
<1>7. 0 \in 0..stream[p].len
    BY <1>1, <1>5, UnitsAre
<1>8. AllUnits[Start(p) + 0 + 1] = <<p, 0>>
    BY <1>1, <1>5, <1>7, UnitAt
<1>9. 1 \in 1..(Len(buf) - cp) /\ Start(p) + 0 + 1 = Start(p) + 1
    BY <1>1, <1>6
<1>10. buf[cp + 1] = <<p, 0>>
    BY <1>8, <1>9 DEF AlignedAt
<1> QED  BY <1>5, <1>10 DEF ThisPkt, ThisLen

-----------------------------------------------------------------------------
\* The receiver stays where packets begin.

\* A packet is taken from the buffer, and delivered unless it is too short.
LEMMA ConsumeAligned ==
    ASSUME AlignInv, ingetpkt, HasPkt, cp' = cp + 1 + ThisLen, UNCHANGED <<wire, buf, stream>>,
           delivered' = IF ThisLen >= 2 THEN Append(delivered, ThisPkt) ELSE delivered
    PROVE  AlignInv'
<1>1. /\ StreamType /\ Len(buf) \in Nat /\ Len(wire) \in Nat /\ cp \in Nat /\ Len(delivered) \in Nat
      /\ delivered \in Seq(Nat)
    BY DEF AlignInv, Seqs, StreamType
<1>2. PICK p \in 1..(Len(stream) + 1) : AlignedAt(p) /\ DeliveredTo(p)
    BY DEF AlignInv
<1>3. Len(buf) > cp /\ Len(buf) - cp - 1 >= ThisLen
    BY DEF HasPkt, HasHeader
<1>4. p \in 1..Len(stream) /\ ThisPkt = p /\ ThisLen = stream[p].len
    BY <1>2, <1>3, HeaderAt DEF AlignInv
<1>5. /\ Len(stream) \in Nat /\ stream[p].len \in Nat /\ Start(p) \in Nat
      /\ Start(p + 1) = Start(p) + 1 + stream[p].len
    BY <1>1, <1>4, UnitsAre, StartFacts
<1>6. AllUnits' = AllUnits /\ Packets' = Packets /\ Start(p + 1)' = Start(p + 1)
    BY StreamSame
<1>7. Len(Packets) \in Nat
    BY <1>1, PacketsFacts
<1> DEFINE n == Len(delivered)
           m == stream[p].len
<1>8. /\ n <= Len(Packets)
      /\ \A i \in 1..Len(Packets) : Packets[i] < p <=> i <= n
    BY <1>2 DEF AlignInv, DeliveredTo
<1>9. /\ m >= 2 => /\ n + 1 <= Len(Packets) /\ Packets[n + 1] = p
                   /\ \A i \in 1..Len(Packets) : Packets[i] < p + 1 <=> i <= n + 1
      /\ ~(m >= 2) => \A i \in 1..Len(Packets) : Packets[i] < p + 1 <=> i <= n
    BY <1>1, <1>4, <1>8, NextPacket
<1>a. /\ m \in Nat /\ ThisLen = m
      /\ Start(p + 1) = Start(p) + 1 + m /\ Start(p) \in Nat
    BY <1>4, <1>5
<1> HIDE DEF m
<1>b. Len(buf) - cp - 1 >= m /\ cp' = cp + 1 + m
    BY <1>3, <1>a
<1>10. cp' \in Nat /\ cp' = cp + 1 + m /\ cp' <= Len(buf)
  <2>1. cp + 1 + m \in Nat /\ cp + 1 + m <= Len(buf)
    BY <1>1, <1>a, <1>b
  <2> QED  BY <1>b, <2>1
<1>11. /\ delivered' \in Seq(Nat) /\ Len(delivered') <= Len(Packets)
       /\ \A i \in 1..Len(delivered') : delivered'[i] = Packets[i]
       /\ \A i \in 1..Len(Packets) : Packets[i] < p + 1 <=> i <= Len(delivered')
  <2>1. \A i \in 1..n : delivered[i] = Packets[i]
    BY DEF AlignInv
  <2>2. CASE m >= 2
    <3>1. delivered' = Append(delivered, p) /\ p \in Nat
        BY <1>4, <1>5, <1>a, <2>2
    <3>2. /\ delivered' \in Seq(Nat) /\ Len(delivered') = n + 1
          /\ \A i \in 1..(n + 1) : delivered'[i] = IF i = n + 1 THEN p ELSE delivered[i]
        BY <1>1, <3>1
    <3>3. \A i \in 1..(n + 1) : i = n + 1 \/ i \in 1..n
        BY <1>1
    <3> QED  BY <1>9, <2>1, <2>2, <3>2, <3>3
  <2>3. CASE ~(m >= 2)
    BY <1>1, <1>a, <1>8, <1>9, <2>1, <2>3
  <2> QED  BY <2>2, <2>3
<1> HIDE DEF n
<1>12. Seqs'
  <2>1. stream' \in Seq([len : Nat, kind : STRING])
    BY <1>1 DEF StreamType
  <2>2. buf' \in Seq(ToSet(AllUnits')) /\ wire' \in Seq(ToSet(AllUnits'))
    BY <1>6 DEF AlignInv, Seqs
  <2> QED  BY <1>10, <1>11, <2>1, <2>2 DEF Seqs
<1>13. AlignedAt(p + 1)'
  <2>1. /\ Start(p) + (Len(buf) - cp) + Len(wire) = Len(AllUnits)
        /\ \A i \in 1..(Len(buf) - cp) : buf[cp + i] = AllUnits[Start(p) + i]
        /\ \A i \in 1..Len(wire) : wire[i] = AllUnits[Start(p) + (Len(buf) - cp) + i]
    BY <1>2 DEF AlignedAt
  <2> DEFINE s == Start(p)
             t == Start(p + 1)
             b == Len(buf)
  <2>2. m \in Nat /\ t = s + 1 + m /\ s \in Nat /\ b \in Nat /\ cp \in Nat
    BY <1>1, <1>a
  <2> HIDE DEF s, t, b
  <2>3. t + (b - (cp + 1 + m)) = s + (b - cp)
    BY <2>2
  <2>3a. Start(p + 1) + (Len(buf) - cp') = Start(p) + (Len(buf) - cp)
    BY <1>10, <2>3 DEF s, t, b
  <2>4. ASSUME NEW i \in 1..(Len(buf) - cp') PROVE buf[cp' + i] = AllUnits[Start(p + 1) + i]
    <3>1. i \in 1..(b - (cp + 1 + m))
        BY <1>10, <2>4 DEF b
    <3>2. /\ 1 + m + i \in 1..(b - cp) /\ cp + (1 + m + i) = cp + 1 + m + i
          /\ s + (1 + m + i) = t + i
        BY <2>2, <3>1
    <3> QED  BY <1>10, <2>1, <3>2 DEF s, t, b
  <2>5. \A i \in 1..Len(wire) : wire[i] = AllUnits[Start(p + 1) + (Len(buf) - cp') + i]
    BY <2>1, <2>3a
  <2>6. Start(p + 1) + (Len(buf) - cp') + Len(wire) = Len(AllUnits)
    BY <2>1, <2>3a
  <2> QED  BY <1>6, <1>10, <2>4, <2>5, <2>6 DEF AlignedAt
<1>14. DeliveredTo(p + 1)'
    BY <1>6, <1>11 DEF DeliveredTo
<1>15. p + 1 \in 1..(Len(stream') + 1)
    BY <1>4, <1>5
<1> QED  BY <1>6, <1>11, <1>12, <1>13, <1>14, <1>15 DEF AlignInv

\* Nothing is read, taken or delivered.
LEMMA StillAligned ==
    ASSUME AlignInv, UNCHANGED <<wire, buf, cp, delivered, stream>>,
           open' \/ ingetpkt' => open \/ ingetpkt
    PROVE  AlignInv'
<1>1. AllUnits' = AllUnits /\ Packets' = Packets /\ \A p : Start(p)' = Start(p)
    BY StreamSame
<1>2. Seqs'
    BY <1>1 DEF AlignInv, Seqs
<1>3. ASSUME open' \/ ingetpkt'
      PROVE  \E p \in 1..(Len(stream') + 1) : AlignedAt(p)' /\ DeliveredTo(p)'
  <2>1. PICK p \in 1..(Len(stream) + 1) : AlignedAt(p) /\ DeliveredTo(p)
    BY <1>3 DEF AlignInv
  <2>2. AlignedAt(p)'
    BY <1>1, <2>1 DEF AlignedAt
  <2>3. DeliveredTo(p)'
    BY <1>1, <2>1 DEF DeliveredTo
  <2> QED  BY <2>2, <2>3
<1> QED  BY <1>1, <1>2, <1>3 DEF AlignInv

\* n units are read.
LEMMA ReadAligned ==
    ASSUME AlignInv, open, UNCHANGED <<delivered, stream>>, cp = 0, cp' = 0,
           NEW n \in 1..Len(wire),
           buf' = buf \o SubSeq(wire, 1, n), wire' = SubSeq(wire, n + 1, Len(wire))
    PROVE  AlignInv'
<1> DEFINE U == ToSet(AllUnits)
           a == SubSeq(wire, 1, n)
<1>1. AllUnits' = AllUnits /\ Packets' = Packets /\ \A p : Start(p)' = Start(p)
    BY StreamSame
<1>2. buf \in Seq(U) /\ wire \in Seq(U) /\ Len(buf) \in Nat /\ Len(wire) \in Nat /\ n \in Nat
    BY DEF AlignInv, Seqs
<1> HIDE DEF U
<1>3. a \in Seq(U) /\ Len(a) = n /\ \A i \in 1..n : a[i] = wire[i]
    BY <1>2
<1>4. /\ wire' \in Seq(U) /\ Len(wire') = Len(wire) - n
      /\ \A i \in 1..(Len(wire) - n) : wire'[i] = wire[n + i]
    BY <1>2
<1> HIDE DEF a
<1>5. /\ buf \o a \in Seq(U) /\ Len(buf \o a) = Len(buf) + Len(a)
      /\ \A i \in 1..(Len(buf) + Len(a)) :
            (buf \o a)[i] = IF i <= Len(buf) THEN buf[i] ELSE a[i - Len(buf)]
  <2>1. buf \in Seq(U) /\ a \in Seq(U)
    BY <1>2, <1>3
  <2> QED  BY <2>1
<1>6. /\ buf' \in Seq(U) /\ Len(buf') = Len(buf) + n
      /\ \A i \in 1..(Len(buf) + n) : buf'[i] = IF i <= Len(buf) THEN buf[i] ELSE a[i - Len(buf)]
    BY <1>3, <1>5 DEF a
<1>7. Seqs'
  <2>1. buf' \in Seq(ToSet(AllUnits')) /\ wire' \in Seq(ToSet(AllUnits'))
    BY <1>1, <1>4, <1>6 DEF U
  <2>2. stream' \in Seq([len : Nat, kind : STRING]) /\ delivered' \in Seq(Nat) /\ cp' \in Nat
    BY DEF AlignInv, Seqs
  <2> QED  BY <2>1, <2>2 DEF Seqs
<1>8. PICK p \in 1..(Len(stream) + 1) : AlignedAt(p) /\ DeliveredTo(p)
    BY DEF AlignInv
<1>9. AlignedAt(p)'
  <2>1. Start(p) \in Nat
    <3>1. StreamType
        BY DEF AlignInv, Seqs, StreamType
    <3>2. Len(stream) \in Nat
        BY <3>1, UnitsAre
    <3>3. p \in 1..Len(stream) \/ p = Len(stream) + 1
        BY <3>2
    <3> QED  BY <3>1, <3>3, StartFacts
  <2> DEFINE s == Start(p)
             b == Len(buf)
             w == Len(wire)
  <2>2. /\ s + (b - 0) + w = Len(AllUnits)
        /\ \A i \in 1..(b - 0) : buf[0 + i] = AllUnits[s + i]
        /\ \A i \in 1..w : wire[i] = AllUnits[s + (b - 0) + i]
    BY <1>8 DEF AlignedAt
  <2>3. s \in Nat /\ b \in Nat /\ w \in Nat
    BY <1>2, <2>1
  <2>4. Len(buf') = b + n /\ Len(wire') = w - n /\ n \in Nat /\ n <= w
    BY <1>2, <1>4, <1>6
  <2>5. ASSUME NEW i \in 1..(Len(buf') - cp') PROVE buf'[cp' + i] = AllUnits[s + i]
    <3>1. CASE i <= b
      <4>1. buf'[i] = buf[i] /\ i \in 1..(b - 0) /\ cp' + i = i /\ 0 + i = i
        BY <1>6, <2>3, <2>4, <3>1
      <4> QED  BY <2>2, <4>1
    <3>2. CASE ~(i <= b)
      <4>1. i \in 1..(b + n) /\ i - b \in 1..n /\ i - b \in 1..w /\ cp' + i = i /\ s + (b - 0) + (i - b) = s + i
        BY <2>3, <2>4, <3>2
      <4>2. buf'[i] = a[i - b]
        BY <1>6, <3>2, <4>1
      <4>3. a[i - b] = wire[i - b]
        BY <1>3, <4>1
      <4>4. wire[i - b] = AllUnits[s + (b - 0) + (i - b)]
        BY <2>2, <4>1
      <4> QED  BY <4>1, <4>2, <4>3, <4>4
    <3> QED  BY <3>1, <3>2
  <2>6. ASSUME NEW i \in 1..Len(wire') PROVE wire'[i] = AllUnits[s + (Len(buf') - cp') + i]
    <3>1. n + i \in 1..w /\ i \in 1..(w - n) /\ s + (b - 0) + (n + i) = s + (Len(buf') - cp') + i
        BY <2>3, <2>4
    <3> QED  BY <1>4, <2>2, <3>1
  <2>7. s + (Len(buf') - cp') + Len(wire') = Len(AllUnits) /\ cp' <= Len(buf')
    BY <2>2, <2>3, <2>4
  <2>8. Start(p)' = s /\ AllUnits' = AllUnits
    BY <1>1
  <2> QED  BY <2>5, <2>6, <2>7, <2>8 DEF AlignedAt
<1>10. DeliveredTo(p)'
    BY <1>1, <1>8 DEF DeliveredTo
<1>11. \E q \in 1..(Len(stream') + 1) : AlignedAt(q)' /\ DeliveredTo(q)'
    BY <1>9, <1>10
<1>12. Len(delivered') <= Len(Packets') /\ \A i \in 1..Len(delivered') : delivered'[i] = Packets'[i]
    BY <1>1 DEF AlignInv
<1> QED  BY <1>7, <1>11, <1>12 DEF AlignInv

\* What is left is moved to the front of the buffer.
LEMMA MoveAligned ==
    ASSUME AlignInv, open \/ ingetpkt, UNCHANGED <<wire, delivered, stream>>, cp' = 0,
           buf' = Rest
    PROVE  AlignInv'
<1> DEFINE U == ToSet(AllUnits)
<1>1. AllUnits' = AllUnits /\ Packets' = Packets /\ \A p : Start(p)' = Start(p)
    BY StreamSame
<1>2. PICK p \in 1..(Len(stream) + 1) : AlignedAt(p) /\ DeliveredTo(p)
    BY DEF AlignInv
<1>3. /\ buf \in Seq(U) /\ wire \in Seq(U) /\ Len(buf) \in Nat /\ cp \in Nat
      /\ cp <= Len(buf)
    BY <1>2 DEF AlignInv, Seqs, AlignedAt
<1> HIDE DEF U
<1>4. /\ buf' \in Seq(U) /\ Len(buf') = Len(buf) - cp
      /\ \A i \in 1..(Len(buf) - cp) : buf'[i] = buf[cp + i]
    BY <1>3 DEF Rest
<1>5. Seqs'
  <2>1. buf' \in Seq(ToSet(AllUnits')) /\ wire' \in Seq(ToSet(AllUnits'))
    BY <1>1, <1>3, <1>4 DEF U
  <2>2. stream' \in Seq([len : Nat, kind : STRING]) /\ delivered' \in Seq(Nat) /\ cp' \in Nat
    BY DEF AlignInv, Seqs
  <2> QED  BY <2>1, <2>2 DEF Seqs
<1>6. AlignedAt(p)'
  <2>1. Len(buf') - cp' = Len(buf) - cp /\ cp' <= Len(buf')
    BY <1>3, <1>4
  <2>2. \A i \in 1..(Len(buf) - cp) : cp' + i = i
    BY <1>3
  <2>3. /\ Start(p) + (Len(buf) - cp) + Len(wire) = Len(AllUnits)
        /\ \A i \in 1..(Len(buf) - cp) : buf[cp + i] = AllUnits[Start(p) + i]
        /\ \A i \in 1..Len(wire) : wire[i] = AllUnits[Start(p) + (Len(buf) - cp) + i]
    BY <1>2 DEF AlignedAt
  <2>4. \A i \in 1..(Len(buf') - cp') : buf'[cp' + i] = AllUnits[Start(p) + i]
    BY <1>4, <2>1, <2>2, <2>3
  <2>5. Start(p)' = Start(p)
    BY <1>1
  <2> QED  BY <1>1, <2>1, <2>3, <2>4, <2>5 DEF AlignedAt
<1>7. DeliveredTo(p)'
    BY <1>1, <1>2 DEF DeliveredTo
<1>8. \E q \in 1..(Len(stream') + 1) : AlignedAt(q)' /\ DeliveredTo(q)'
    BY <1>6, <1>7
<1>9. Len(delivered') <= Len(Packets') /\ \A i \in 1..Len(delivered') : delivered'[i] = Packets'[i]
    BY <1>1 DEF AlignInv
<1> QED  BY <1>5, <1>8, <1>9 DEF AlignInv

-----------------------------------------------------------------------------
\* The steps of the composition, as the transport sees them.

\* A read or a write fails.
FailStep ==
    /\ InCallback /\ open /\ Fail
    /\ UNCHANGED <<wire, buf, cp, ingetpkt, pc, delivered, stream>>

\* The client or the server goes on; nothing happens to the transport, unless
\* aclnt::fail () uses a call that is gone.
ElsewhereStep ==
    /\ pc' = pc \/ pc' = "dangling"
    /\ UNCHANGED <<wire, buf, cp, open, cb, ingetpkt, delivered, eofs, stream>>

UnavailStep ==
    /\ pc = "getpkt" /\ HasPkt /\ ThisLen >= 2
    /\ cp' = cp + 1 + ThisLen
    /\ delivered' = Append(delivered, ThisPkt)
    /\ pc' = "cb" \/ pc' = "sendv_panic"
    /\ UNCHANGED <<open, cb, eofs>> \/ (open /\ Fail)
    /\ UNCHANGED <<wire, buf, ingetpkt, stream>>

PipeStep ==
    \/ \E n \in 1..Len(wire) : Input(n)
    \/ FailStep \/ GetpktShort \/ GetpktBreak \/ CallbackReturn \/ GetpktDone
    \/ XonFalse \/ XonTrue \/ XonEof
    \/ GetpktData \/ UnavailStep \/ ElsewhereStep

\* Input () reads no more than there is.
LEMMA InputBound ==
    ASSUME AlignInv, NEW n \in 1..MinLen(Len(wire), BufSize - Len(buf))
    PROVE  n \in 1..Len(wire)
<1>1. Len(wire) \in Nat /\ Len(buf) \in Nat /\ BufSize \in Nat
    BY PipeAssumption DEF AlignInv, Seqs
<1> QED  BY <1>1 DEF MinLen

\* What a step of client and server does to the transport.
LEMMA StepsOfTransport ==
    ASSUME AlignInv, [StreamNext]_allVars
    PROVE  PipeStep
<1>1. CASE UNCHANGED allVars
    BY <1>1 DEF PipeStep, ElsewhereStep, allVars, vars
<1>2. ASSUME Transport PROVE PipeStep
  <2>1. ASSUME NEW n \in 1..MinLen(Len(wire), BufSize - Len(buf)), Input(n) PROVE PipeStep
    BY <2>1, InputBound DEF PipeStep
  <2>2. ASSUME InputEof PROVE PipeStep
    BY <2>2 DEF PipeStep, FailStep, InputEof, InCallback
  <2> QED  BY <1>2, <2>1, <2>2 DEF Transport, PipeStep
<1>3. ASSUME Xon PROVE PipeStep
    BY <1>3 DEF Xon, XonStep, PipeStep
<1>4. ASSUME OutputFails PROVE PipeStep
    BY <1>4 DEF OutputFails, SendFails, PipeStep, FailStep
<1>5. ASSUME RecvReply \/ RecvCall \/ RecvGarbled PROVE PipeStep
    BY <1>5 DEF RecvReply, RecvCall, RecvGarbled, PipeStep
<1>6. ASSUME RecvUnavail PROVE PipeStep
  <2>1. UnavailStep
    BY <1>6 DEF RecvUnavail, UnavailStep
  <2> QED  BY <2>1 DEF PipeStep
<1>7. ASSUME WalkCall \/ WalkCallsEnd \/ WalkServer \/ ReplyReturn PROVE PipeStep
  <2>1. ElsewhereStep
    BY <1>7 DEF WalkCall, WalkCallsEnd, WalkServer, ReplyReturn, ElsewhereStep, vars
  <2> QED  BY <2>1 DEF PipeStep
<1>8. ASSUME NEW k \in svc, Reply(k) \/ ReplyFails(k) PROVE PipeStep
    BY <1>8 DEF Reply, ReplyFails, InApp, PipeStep, FailStep, ElsewhereStep, vars
<1>9. ASSUME NEW c \in Calls, CallAtEof(c) \/ Call(c) \/ CallFails(c) \/ Cancel(c) PROVE PipeStep
    BY <1>9 DEF CallAtEof, Call, CallFails, Cancel, InApp, PipeStep, FailStep, ElsewhereStep, vars
<1> QED
    BY <1>1, <1>2, <1>3, <1>4, <1>5, <1>6, <1>7, <1>8, <1>9 DEF StreamNext, LoopStep, AppStep

\* Every step leaves the receiver where a packet begins.
LEMMA AlignStep ==
    ASSUME PipeInv, PipeStep
    PROVE  AlignInv'
<1>1. AlignInv /\ PcInv
    BY DEF PipeInv
<1>2. ASSUME NEW n \in 1..Len(wire), Input(n) PROVE AlignInv'
  <2>1. cp = 0 /\ cp' = 0 /\ open
    BY <1>1, <1>2 DEF PcInv, Input, Callgetpkt
  <2> QED  BY <1>1, <1>2, <2>1, ReadAligned DEF Input
<1>3. ASSUME FailStep PROVE AlignInv'
    BY <1>1, <1>3, StillAligned DEF FailStep, Fail
<1>4. ASSUME GetpktShort PROVE AlignInv'
  <2>1. /\ ingetpkt /\ HasPkt /\ cp' = cp + 1 + ThisLen /\ UNCHANGED <<wire, buf, stream>>
        /\ delivered' = IF ThisLen >= 2 THEN Append(delivered, ThisPkt) ELSE delivered
    BY <1>1, <1>4 DEF PcInv, GetpktShort
  <2> QED  BY <1>1, <2>1, ConsumeAligned
<1>5. ASSUME GetpktBreak PROVE AlignInv'
  <2>1. cp \in Nat
    BY <1>1 DEF AlignInv, Seqs
  <2>2. ThisLen = 0 /\ cp' = cp + 1
    BY <1>5 DEF GetpktBreak
  <2>3. cp' = cp + 1 + ThisLen
    BY <2>1, <2>2
  <2>4. /\ ingetpkt /\ HasPkt /\ UNCHANGED <<wire, buf, stream>>
        /\ delivered' = IF ThisLen >= 2 THEN Append(delivered, ThisPkt) ELSE delivered
    BY <1>1, <1>5 DEF PcInv, GetpktBreak
  <2> QED  BY <1>1, <2>3, <2>4, ConsumeAligned
<1>6. ASSUME CallbackReturn \/ XonFalse \/ XonEof \/ ElsewhereStep PROVE AlignInv'
    BY <1>1, <1>6, StillAligned DEF CallbackReturn, XonFalse, XonEof, ElsewhereStep
<1>7. ASSUME GetpktDone PROVE AlignInv'
  <2>1. CASE open'
    BY <1>1, <1>7, <2>1, MoveAligned DEF PcInv, GetpktDone
  <2>2. CASE ~open'
    <3>1. ~ingetpkt' /\ cp' \in Nat /\ UNCHANGED <<wire, buf, delivered, stream>>
        BY <1>7, <2>2 DEF GetpktDone
    <3>2. AllUnits' = AllUnits /\ Packets' = Packets
        BY <3>1, StreamSame
    <3>3. Seqs'
        BY <1>1, <3>1, <3>2 DEF AlignInv, Seqs
    <3> QED  BY <1>1, <2>2, <3>1, <3>2, <3>3 DEF AlignInv
  <2> QED  BY <2>1, <2>2
<1>8. ASSUME XonTrue PROVE AlignInv'
  <2>1. cp' = cp /\ open /\ UNCHANGED <<wire, buf, delivered, stream>>
    BY <1>1, <1>8 DEF XonTrue, Setrcb, Callgetpkt, PcInv, InCallback
  <2> QED  BY <1>1, <2>1, StillAligned
<1>9. ASSUME GetpktData \/ UnavailStep PROVE AlignInv'
  <2>1. /\ ingetpkt /\ HasPkt /\ cp' = cp + 1 + ThisLen /\ UNCHANGED <<wire, buf, stream>>
        /\ delivered' = IF ThisLen >= 2 THEN Append(delivered, ThisPkt) ELSE delivered
    BY <1>1, <1>9 DEF PcInv, GetpktData, UnavailStep
  <2> QED  BY <1>1, <2>1, ConsumeAligned
<1> QED  BY <1>2, <1>3, <1>4, <1>5, <1>6, <1>7, <1>8, <1>9 DEF PipeStep

\* Every step keeps the control state of callgetpkt ().
LEMMA PcStep ==
    ASSUME PipeInv, PipeStep
    PROVE  PcInv'
<1>1. /\ pc \in Pcs /\ open \in BOOLEAN /\ ingetpkt \in BOOLEAN
      /\ pc = "loop" => ~ingetpkt /\ cp = 0
      /\ pc = "getpkt" \/ pc = "cb" => ingetpkt
    BY DEF PipeInv, PcInv
<1>2. ASSUME NEW n \in 1..Len(wire), Input(n) PROVE PcInv'
    BY <1>1, <1>2 DEF PcInv, Input, Callgetpkt, Pcs
<1>3. ASSUME FailStep PROVE PcInv'
    BY <1>1, <1>3 DEF FailStep, Fail, PcInv
<1>4. ASSUME GetpktShort \/ GetpktBreak PROVE PcInv'
    BY <1>1, <1>4 DEF GetpktShort, GetpktBreak, Fail, PcInv
<1>5. ASSUME CallbackReturn \/ XonFalse \/ XonEof \/ ElsewhereStep PROVE PcInv'
    BY <1>1, <1>5 DEF CallbackReturn, XonFalse, XonEof, ElsewhereStep, InCallback, PcInv, Pcs
<1>6. ASSUME GetpktDone PROVE PcInv'
  <2>1. pc' = "loop" \/ pc' = "pktlen_failed"
    BY <1>6 DEF GetpktDone
  <2>2. open' \in BOOLEAN /\ ingetpkt' = FALSE /\ cp' = 0
    BY <1>6 DEF GetpktDone
  <2> QED  BY <2>1, <2>2 DEF PcInv, Pcs
<1>7. ASSUME XonTrue PROVE PcInv'
    BY <1>1, <1>7 DEF XonTrue, Setrcb, Callgetpkt, InCallback, PcInv, Pcs
<1>8. ASSUME GetpktData \/ UnavailStep PROVE PcInv'
    BY <1>1, <1>8 DEF GetpktData, UnavailStep, Fail, PcInv, Pcs
<1> QED  BY <1>2, <1>3, <1>4, <1>5, <1>6, <1>7, <1>8 DEF PipeStep

EofMoves == eofs' = eofs \/ (eofs = 0 /\ eofs' = 1)

\* The EOF is reported to a receiver that has a callback, and takes it away.
LEMMA EofStep ==
    ASSUME PipeInv, PipeStep
    PROVE  EofInv' /\ EofMoves /\ (eofs = 1 => delivered' = delivered)
<1> DEFINE Goal == EofInv' /\ EofMoves /\ (eofs = 1 => delivered' = delivered)
<1>1. /\ cb = On \/ cb = Off
      /\ eofs = 0 \/ (eofs = 1 /\ cb = Off)
    BY DEF PipeInv, EofInv
<1>2. pc = "getpkt" => ingetpkt
    BY DEF PipeInv, PcInv
<1>3. ASSUME TellEof, cb = On PROVE EofInv' /\ EofMoves
    BY <1>1, <1>3 DEF TellEof, EofInv, EofMoves, On, Off
<1>4. ASSUME Fail PROVE EofInv' /\ EofMoves
    BY <1>1, <1>3, <1>4 DEF Fail, EofInv, EofMoves
<1>5. ASSUME UNCHANGED <<cb, eofs>> PROVE EofInv' /\ EofMoves
    BY <1>1, <1>5 DEF EofInv, EofMoves
<1>6. ASSUME HasPkt PROVE cb = On /\ eofs = 0
    BY <1>1, <1>6 DEF HasPkt, HasHeader, On, Off
<1>7. ASSUME NEW n \in 1..Len(wire), Input(n) PROVE Goal
    BY <1>5, <1>7 DEF Input
<1>8. ASSUME FailStep PROVE Goal
    BY <1>4, <1>8 DEF FailStep
<1>9. ASSUME GetpktShort PROVE Goal
    BY <1>3, <1>6, <1>9 DEF GetpktShort
<1>10. ASSUME GetpktBreak PROVE Goal
    BY <1>4, <1>10 DEF GetpktBreak
<1>11. ASSUME CallbackReturn \/ XonEof \/ ElsewhereStep PROVE Goal
    BY <1>5, <1>11 DEF CallbackReturn, XonEof, ElsewhereStep
<1>12. ASSUME GetpktDone PROVE Goal
  <2>1. UNCHANGED <<cb, eofs>> \/ (TellEof /\ cb = On)
    BY <1>12 DEF GetpktDone, DeferredEof
  <2> QED  BY <1>3, <1>5, <1>12, <2>1 DEF GetpktDone
<1>13. ASSUME XonFalse \/ XonTrue PROVE Goal
    BY <1>1, <1>13 DEF XonFalse, XonTrue, EofInv, EofMoves, On, Off
<1>14. ASSUME GetpktData \/ UnavailStep PROVE Goal
  <2>1. eofs = 0
    BY <1>6, <1>14 DEF GetpktData, UnavailStep
  <2>2. UNCHANGED <<cb, eofs>> \/ Fail
    BY <1>14 DEF GetpktData, UnavailStep
  <2> QED  BY <1>4, <1>5, <2>1, <2>2
<1> QED
    BY <1>7, <1>8, <1>9, <1>10, <1>11, <1>12, <1>13, <1>14 DEF PipeStep

\* Every step leaves no complete packet in the buffer without a callgetpkt ().
LEMMA WaitStep ==
    ASSUME PipeInv, PipeStep
    PROVE  NothingWaits'
<1>1. SUFFICES ASSUME pc' = "loop", cb' = On, open' PROVE ~HasPkt'
    BY DEF NothingWaits
<1>2. /\ pc = "loop" => ~ingetpkt /\ cp = 0
      /\ pc = "getpkt" \/ pc = "cb" => ingetpkt
      /\ cp \in Nat /\ Len(buf) \in Nat
    BY DEF PipeInv, PcInv, AlignInv, Seqs
<1>3. ASSUME NEW n \in 1..Len(wire), Input(n) PROVE FALSE
    BY <1>1, <1>2, <1>3 DEF Input, Callgetpkt
<1>4. ASSUME FailStep \/ GetpktShort \/ GetpktBreak \/ CallbackReturn \/ XonEof \/ XonFalse
             \/ GetpktData \/ UnavailStep
      PROVE  FALSE
    BY <1>1, <1>4 DEF FailStep, Fail, GetpktShort, GetpktBreak, CallbackReturn, XonEof, XonFalse,
                      GetpktData, UnavailStep, On, Off
<1>5. ASSUME GetpktDone PROVE ~HasPkt'
  <2>1. /\ ~HasPkt /\ ~(HasHeader /\ Oversized) /\ cb' = cb /\ buf' = Rest /\ cp' = 0
        /\ stream' = stream /\ ingetpkt
    BY <1>1, <1>2, <1>5 DEF GetpktDone
  <2>2. SUFFICES ASSUME HasPkt' PROVE FALSE
    OBVIOUS
  <2>3. /\ Len(buf') > cp' /\ Len(buf') - cp' - 1 >= ThisLen'
    BY <2>2 DEF HasPkt, HasHeader
  <2>4. cp <= Len(buf)
    BY <2>1 DEF PipeInv, AlignInv, AlignedAt
  <2>5. buf \in Seq(ToSet(AllUnits))
    BY DEF PipeInv, AlignInv, Seqs
  <2>6. /\ Len(Rest) = Len(buf) - cp
        /\ \A i \in 1..(Len(buf) - cp) : Rest[i] = buf[cp + i]
    BY <1>2, <2>4, <2>5 DEF Rest
  <2>7. Len(buf) > cp /\ 1 \in 1..(Len(buf) - cp)
    BY <1>2, <2>1, <2>3, <2>4, <2>6
  <2>8. buf'[cp' + 1] = buf[cp + 1]
    BY <2>1, <2>6, <2>7
  <2>9. ThisLen' = ThisLen
    BY <2>1, <2>8 DEF ThisLen, ThisPkt
  <2>10. Len(buf) - cp - 1 >= ThisLen
    BY <1>2, <2>1, <2>3, <2>6, <2>9
  <2>11. HasHeader
    BY <1>1, <2>1, <2>7 DEF HasHeader
  <2> QED  BY <2>1, <2>10, <2>11 DEF HasPkt
<1>6. ASSUME XonTrue PROVE ~HasPkt'
  <2>1. pc = "loop" /\ buf = <<>> /\ UNCHANGED <<buf, cp>> /\ cp = 0
    BY <1>1, <1>2, <1>6 DEF XonTrue, Setrcb, Callgetpkt, InCallback
  <2>2. Len(buf') = 0 /\ cp' = 0
    BY <2>1
  <2> QED  BY <2>2 DEF HasPkt, HasHeader
<1>7. ASSUME ElsewhereStep PROVE ~HasPkt'
  <2>1. pc = "loop" /\ cb = On /\ open
    BY <1>1, <1>7 DEF ElsewhereStep
  <2>2. ~HasPkt
    BY <2>1 DEF PipeInv, NothingWaits
  <2> QED  BY <1>7, <2>2 DEF ElsewhereStep, HasPkt, HasHeader, Oversized, ThisLen, ThisPkt
<1> QED  BY <1>3, <1>4, <1>5, <1>6, <1>7 DEF PipeStep

\* A new transport.
LEMMA PipeInitially ==
    ASSUME Init
    PROVE  PipeInv
<1>1. /\ stream \in Streams /\ wire = AllUnits /\ buf = <<>> /\ cp = 0
      /\ open = TRUE /\ cb = On /\ ingetpkt = FALSE /\ pc = "loop"
      /\ delivered = <<>> /\ eofs = 0
    BY DEF Init
<1>2. StreamType
    BY <1>1, PipeAssumption DEF StreamType
<1>3. AllUnits \in Seq(ToSet(AllUnits)) /\ Len(AllUnits) \in Nat /\ Start(1) = 0
    BY <1>2, StartFacts
<1>4. Len(stream) \in Nat /\ Len(Packets) \in Nat
    BY <1>2, UnitsAre, PacketsFacts
<1>5. Len(buf) = 0 /\ Len(delivered) = 0
    BY <1>1
<1>6. Seqs
  <2>1. buf \in Seq(ToSet(AllUnits)) /\ delivered \in Seq(Nat)
    BY <1>1
  <2> QED  BY <1>1, <1>2, <1>3, <2>1 DEF Seqs, StreamType
<1>7. AlignedAt(1)
  <2>1. \A i \in 1..Len(wire) : Start(1) + (Len(buf) - cp) + i = i
    BY <1>1, <1>3, <1>5
  <2>2. Start(1) + (Len(buf) - cp) + Len(wire) = Len(AllUnits) /\ cp <= Len(buf)
    BY <1>1, <1>3, <1>5
  <2>3. \A i \in 1..(Len(buf) - cp) : FALSE
    BY <1>1, <1>5
  <2> QED  BY <1>1, <2>1, <2>2, <2>3 DEF AlignedAt
<1>8. DeliveredTo(1)
  <2>1. \A i \in 1..Len(Packets) : Packets[i] \in 1..Len(stream)
    BY <1>2, PacketsFacts
  <2>2. \A i \in 1..Len(Packets) : ~(Packets[i] < 1) /\ ~(i <= Len(delivered))
    BY <1>4, <1>5, <2>1
  <2> QED  BY <2>2 DEF DeliveredTo
<1>9. AlignInv
    BY <1>4, <1>5, <1>6, <1>7, <1>8 DEF AlignInv
<1>10. PcInv /\ EofInv
    BY <1>1 DEF PcInv, EofInv, Pcs
<1>11. NothingWaits
    BY <1>1, <1>5 DEF NothingWaits, HasPkt, HasHeader
<1> QED  BY <1>9, <1>10, <1>11 DEF PipeInv

\* The invariant of the transport.
LEMMA PipeInvariant == StreamSpec => []PipeInv
<1>1. StreamInit => PipeInv
    BY PipeInitially DEF StreamInit
<1>2. ASSUME PipeInv, [StreamNext]_allVars PROVE PipeInv'
  <2>1. PipeStep
    BY <1>2, StepsOfTransport DEF PipeInv
  <2> QED  BY <1>2, <2>1, AlignStep, PcStep, EofStep, WaitStep DEF PipeInv
<1> QED  BY <1>1, <1>2, PTL DEF StreamSpec

\* InOrder: the receiver gets the packets of the stream in order, each once,
\* none left out, however read () cuts the stream and whenever the callbacks
\* turn receiving off and on (axprt_pipe::callgetpkt (), setrcb (), fail ()).
THEOREM InOrderHolds == StreamSpec => []InOrder
<1>1. ASSUME PipeInv PROVE InOrder
  <2> DEFINE n == Len(delivered)
  <2>1. /\ delivered \in Seq(Nat) /\ n \in Nat /\ n <= Len(Packets)
        /\ \A i \in 1..n : delivered[i] = Packets[i]
    BY <1>1 DEF PipeInv, AlignInv, Seqs
  <2>2. StreamType
    BY <1>1 DEF PipeInv, AlignInv, Seqs, StreamType
  <2>3. Packets \in Seq(Nat) /\ Len(Packets) \in Nat
    BY <2>2, PacketsFacts
  <2>4. SubSeq(delivered, 1, n) = [i \in 1..n |-> delivered[i]]
    BY <2>1
  <2>5. SubSeq(Packets, 1, n) = [i \in 1..n |-> Packets[i]]
    BY <2>1, <2>3
  <2> QED  BY <2>1, <2>4, <2>5 DEF InOrder, IsPrefix
<1> QED  BY <1>1, PipeInvariant, PTL

\* NothingWaits: between events no complete packet lies in pktbuf while the
\* receiver is on (axprt_pipe::callgetpkt (), setrcb ()).
THEOREM NothingWaitsHolds == StreamSpec => []NothingWaits
<1>1. PipeInv => NothingWaits
    BY DEF PipeInv
<1> QED  BY <1>1, PipeInvariant, PTL

\* EofLast: the end of the stream is reported once, and no packet follows it
\* (axprt_pipe::fail () and the end of callgetpkt (), xhinfo::seteof ()).
THEOREM EofLastHolds == StreamSpec => EofLast
<1>1. ASSUME PipeInv, [StreamNext]_allVars
      PROVE  [eofs' <= 1 /\ (eofs = 1 => delivered' = delivered)]_vars
  <2>1. PipeStep
    BY <1>1, StepsOfTransport DEF PipeInv
  <2>2. EofInv' /\ (eofs = 1 => delivered' = delivered)
    BY <1>1, <2>1, EofStep
  <2>3. eofs' = 0 \/ eofs' = 1
    BY <2>2 DEF EofInv
  <2> QED  BY <2>2, <2>3
<1> QED  BY <1>1, PipeInvariant, PTL DEF StreamSpec, EofLast

-----------------------------------------------------------------------------
\* The client and the server.

\* What an action of the composition does to the EOF.
LEMMA EofOfStep ==
    ASSUME PipeInv, [StreamNext]_allVars
    PROVE  /\ EofMoves /\ (eofs = 0 \/ eofs = 1) /\ (eofs' = 0 \/ eofs' = 1)
           /\ HasPkt => eofs = 0
           /\ open' => open
<1>1. PipeStep
    BY StepsOfTransport DEF PipeInv
<1>2. EofMoves /\ EofInv /\ EofInv'
    BY <1>1, EofStep DEF PipeInv
<1>3. HasPkt => eofs = 0
    BY <1>2 DEF EofInv, HasPkt, HasHeader, On, Off
<1>4. open' => open
    BY <1>1 DEF PipeStep, Input, FailStep, GetpktShort, GetpktBreak, CallbackReturn, GetpktDone,
                XonFalse, XonTrue, XonEof, GetpktData, UnavailStep, ElsewhereStep, Fail
<1> QED  BY <1>2, <1>3, <1>4 DEF EofInv

\* The walk of seteof () and what the server is told.
LEMMA ToldStep ==
    ASSUME PipeInv, WalkInv, ToldInv, [StreamNext]_allVars
    PROVE  WalkInv' /\ ToldInv'
<1> DEFINE Goal == WalkInv' /\ ToldInv'
<1>1. /\ walk \in {"none", "calls", "server"}
      /\ eofs = 0 => walk = "none" /\ replying = 0
      /\ garbled \in BOOLEAN /\ srveof \in BOOLEAN
      /\ ~garbled /\ (eofs = 0 \/ walk # "none") => ~srveof
      /\ replying # 0 => replying \in svc
    BY DEF WalkInv
<1>2. ~garbled => told = IF srveof /\ svc = {} THEN 1 ELSE 0
    BY DEF ToldInv
<1>3. /\ eofs' = eofs \/ (eofs = 0 /\ eofs' = 1)
      /\ HasPkt => eofs = 0
    BY EofOfStep DEF EofMoves
<1>4. CASE UNCHANGED allVars
    BY <1>1, <1>2, <1>4 DEF allVars, vars, clntVars, srvVars, WalkInv, ToldInv
<1>5. ASSUME NEW L, Seteof(L), UNCHANGED srvVars PROVE Goal
    BY <1>1, <1>2, <1>3, <1>5 DEF Seteof, srvVars, WalkInv, ToldInv
<1>6. ASSUME Transport \/ OutputFails PROVE Goal
    BY <1>5, <1>6 DEF Transport, OutputFails
<1>7. ASSUME UNCHANGED <<walk, srvVars>>, walk = "none" PROVE Goal
    BY <1>1, <1>2, <1>3, <1>7 DEF srvVars, WalkInv, ToldInv
<1>8. ASSUME Xon \/ RecvReply \/ RecvUnavail PROVE Goal
    BY <1>7, <1>8 DEF Xon, RecvReply, RecvUnavail, NotNested, clntVars
<1>9. ASSUME RecvCall PROVE Goal
  <2>1. eofs = 0 /\ walk = "none" /\ replying = 0
    BY <1>1, <1>3, <1>9 DEF RecvCall, GetpktData
  <2>2. UNCHANGED <<walk, replying, srveof, told, garbled, eofs>>
    BY <1>9 DEF RecvCall, clntVars, GetpktData
  <2>3. ToldInv'
    BY <1>1, <1>2, <2>1, <2>2 DEF ToldInv
  <2> QED  BY <1>1, <2>1, <2>2, <2>3 DEF WalkInv
<1>10. ASSUME RecvGarbled PROVE Goal
  <2>1. eofs = 0 /\ walk = "none" /\ replying = 0
    BY <1>1, <1>3, <1>10 DEF RecvGarbled, GetpktData
  <2>2. garbled' = TRUE /\ srveof' = TRUE /\ UNCHANGED <<walk, replying>>
    BY <1>10 DEF RecvGarbled, DispatchNull, clntVars
  <2> QED  BY <2>1, <2>2 DEF WalkInv, ToldInv
<1>11. ASSUME WalkCall \/ WalkCallsEnd PROVE Goal
  <2>1. UNCHANGED <<srvVars, eofs>> /\ walk # "none" /\ (walk' = walk \/ walk' = "server")
    BY <1>11 DEF WalkCall, WalkCallsEnd, vars
  <2> QED  BY <1>1, <1>2, <2>1 DEF srvVars, WalkInv, ToldInv
<1>12. ASSUME WalkServer PROVE Goal
  <2>1. /\ walk = "server" /\ walk' = "none" /\ srveof' = TRUE /\ UNCHANGED <<svc, replying, garbled, eofs>>
        /\ told' = IF svc = {} THEN told + 1 ELSE told
    BY <1>12 DEF WalkServer, DispatchNull, vars
  <2>2. eofs # 0 /\ (~garbled => ~srveof)
    BY <1>1, <2>1
  <2>3. ToldInv'
    BY <1>2, <2>1, <2>2 DEF ToldInv
  <2> QED  BY <1>1, <2>1, <2>2, <2>3 DEF WalkInv
<1>13. ASSUME NEW k \in svc, DecSvccbCount(k), UNCHANGED <<srveof, garbled>> PROVE ToldInv'
    BY <1>1, <1>2, <1>13 DEF DecSvccbCount, ToldInv
<1>14. ASSUME ReplyReturn PROVE Goal
  <2>1. /\ replying \in svc /\ replying' = 0 /\ UNCHANGED <<walk, srveof, garbled, eofs>>
        /\ DecSvccbCount(replying)
    BY <1>1, <1>14 DEF ReplyReturn, clntVars, vars
  <2>2. ToldInv'
    BY <1>13, <2>1
  <2> QED  BY <1>1, <2>1, <2>2 DEF WalkInv
<1>15. ASSUME NEW k \in svc, Reply(k) PROVE Goal
  <2>1. /\ k # replying /\ DecSvccbCount(k) /\ svc' = svc \ {k}
        /\ UNCHANGED <<walk, replying, srveof, garbled, eofs>>
    BY <1>15 DEF Reply, DecSvccbCount, clntVars, vars
  <2>2. ToldInv'
    BY <1>13, <2>1
  <2> QED  BY <1>1, <2>1, <2>2 DEF WalkInv
<1>16. ASSUME NEW k \in svc, ReplyFails(k) PROVE Goal
  <2>1. k # replying /\ Seteof(calls) /\ UNCHANGED <<srveof, garbled>> /\ ~srveof
    BY <1>16 DEF ReplyFails
  <2>2. CASE eofs' # eofs
    <3>1. replying' = k /\ UNCHANGED <<svc, told>> /\ walk' = "calls" /\ eofs' = 1
        BY <1>3, <1>16, <2>2 DEF ReplyFails, Seteof
    <3> QED  BY <1>1, <1>2, <2>1, <3>1 DEF WalkInv, ToldInv
  <2>3. CASE eofs' = eofs
    <3>1. replying' = replying /\ DecSvccbCount(k) /\ walk' = walk /\ svc' = svc \ {k}
        BY <1>16, <2>1, <2>3 DEF ReplyFails, Seteof, DecSvccbCount
    <3>2. ToldInv'
        BY <1>13, <2>1, <3>1
    <3> QED  BY <1>1, <2>1, <2>3, <3>1, <3>2 DEF WalkInv
  <2> QED  BY <2>2, <2>3
<1>17. ASSUME NEW c \in Calls, CallAtEof(c) \/ Call(c) \/ Cancel(c) PROVE Goal
  <2>1. UNCHANGED <<walk, srvVars, eofs>>
    BY <1>17 DEF CallAtEof, Call, Cancel, vars
  <2> QED  BY <1>1, <1>2, <2>1 DEF srvVars, WalkInv, ToldInv
<1>18. ASSUME NEW c \in Calls, CallFails(c) PROVE Goal
    BY <1>5, <1>18 DEF CallFails
<1> QED
    BY <1>4, <1>6, <1>8, <1>9, <1>10, <1>11, <1>12, <1>14, <1>15, <1>16, <1>17, <1>18
       DEF StreamNext, LoopStep, AppStep

\* An outstanding call is dropped from the list when its state changes.
LEMMA DropExact ==
    ASSUME CallsExact, NEW c \in Calls, NEW v \in {"done", "cancelled"},
           st' = [st EXCEPT ![c] = v], calls' = Without(calls, c)
    PROVE  CallsExact'
<1>1. /\ calls' \in Seq(Calls) /\ IsInjective(calls')
      /\ ToSet(calls') = ToSet(calls) \ {c}
    BY WithoutFacts DEF CallsExact
<1>2. /\ st' \in [Calls -> {"new", "out", "done", "cancelled"}] /\ st'[c] # "out"
      /\ \A d \in Calls : d # c => st'[d] = st[d]
    BY DEF CallsExact
<1>3. \A d \in Calls : d \in ToSet(calls) <=> st[d] = "out"
    BY DEF CallsExact
<1>4. \A d \in Calls : d \in ToSet(calls') <=> st'[d] = "out"
    BY <1>1, <1>2, <1>3, Zenon
<1> QED  BY <1>1, <1>2, <1>4 DEF CallsExact

\* A new call is appended.
LEMMA AddExact ==
    ASSUME CallsExact, NEW c \in Calls, st[c] = "new",
           st' = [st EXCEPT ![c] = "out"], calls' = Append(calls, c)
    PROVE  CallsExact'
<1>1. \A d \in Calls : d \in ToSet(calls) <=> st[d] = "out"
    BY DEF CallsExact
<1>2. c \notin ToSet(calls)
    BY <1>1
<1>3. /\ calls' \in Seq(Calls) /\ IsInjective(calls')
      /\ ToSet(calls') = ToSet(calls) \cup {c}
    BY <1>2, AppendFacts DEF CallsExact
<1>4. /\ st' \in [Calls -> {"new", "out", "done", "cancelled"}] /\ st'[c] = "out"
      /\ \A d \in Calls : d # c => st'[d] = st[d]
    BY DEF CallsExact
<1>5. \A d \in Calls : d \in ToSet(calls') <=> st'[d] = "out"
    BY <1>1, <1>3, <1>4, Zenon
<1> QED  BY <1>3, <1>4, <1>5 DEF CallsExact

\* The list of calls has each outstanding call once.
LEMMA ExactStep ==
    ASSUME CallsExact, WalkFirst, [StreamNext]_allVars
    PROVE  CallsExact'
<1>1. ASSUME UNCHANGED <<st, calls>> PROVE CallsExact'
    BY <1>1 DEF CallsExact
<1>2. CASE UNCHANGED allVars
    BY <1>1, <1>2 DEF allVars, clntVars
<1>3. ASSUME Transport \/ OutputFails \/ Xon \/ RecvCall \/ RecvGarbled \/ RecvUnavail
             \/ WalkCallsEnd \/ WalkServer \/ ReplyReturn
      PROVE  CallsExact'
    BY <1>1, <1>3 DEF Transport, OutputFails, Xon, RecvCall, RecvGarbled, RecvUnavail,
                      WalkCallsEnd, WalkServer, ReplyReturn, clntVars
<1>4. ASSUME RecvReply PROVE CallsExact'
  <2> DEFINE c == stream[ThisPkt].kind
  <2>1. /\ c \in Calls
        /\ st' = IF st[c] = "out" THEN [st EXCEPT ![c] = "done"] ELSE st
        /\ calls' = IF st[c] = "out" THEN Without(calls, c) ELSE calls
    BY <1>4 DEF RecvReply
  <2> HIDE DEF c
  <2>2. CASE st[c] = "out"
    BY <2>1, <2>2, DropExact
  <2>3. CASE st[c] # "out"
    BY <1>1, <2>1, <2>3
  <2> QED  BY <2>2, <2>3
<1>5. ASSUME WalkCall PROVE CallsExact'
  <2>1. rb \in Calls
    BY <1>5 DEF WalkCall, WalkFirst
  <2>2. CASE st[rb] = "out"
    BY <1>5, <2>1, <2>2, DropExact DEF WalkCall
  <2>3. CASE st[rb] # "out"
    BY <1>1, <1>5, <2>3 DEF WalkCall
  <2> QED  BY <2>2, <2>3
<1>6. ASSUME NEW k \in svc, Reply(k) \/ ReplyFails(k) PROVE CallsExact'
    BY <1>1, <1>6 DEF Reply, ReplyFails, clntVars
<1>7. ASSUME NEW c \in Calls, CallAtEof(c) PROVE CallsExact'
  <2>1. st[c] = "new" /\ st' = [st EXCEPT ![c] = "done"] /\ calls' = calls
    BY <1>7 DEF CallAtEof
  <2>2. st' \in [Calls -> {"new", "out", "done", "cancelled"}]
    BY <2>1 DEF CallsExact
  <2>3. \A d \in Calls : st'[d] = "out" <=> st[d] = "out"
    BY <2>1 DEF CallsExact
  <2> QED  BY <2>1, <2>2, <2>3 DEF CallsExact
<1>8. ASSUME NEW c \in Calls, Call(c) \/ CallFails(c) PROVE CallsExact'
    BY <1>8, AddExact DEF Call, CallFails
<1>9. ASSUME NEW c \in Calls, Cancel(c) PROVE CallsExact'
    BY <1>9, DropExact DEF Cancel
<1> QED
    BY <1>2, <1>3, <1>4, <1>5, <1>6, <1>7, <1>8, <1>9 DEF StreamNext, LoopStep, AppStep

\* The walk of fail () takes the calls from the head of the list.
LEMMA FirstStep ==
    ASSUME PipeInv, WalkInv, CallsExact, WalkFirst, [StreamNext]_allVars
    PROVE  WalkFirst'
<1>1. /\ wasopen \in BOOLEAN
      /\ walk = "calls" => rb = Nil \/ rb \in Calls
      /\ eofs = 1 /\ ~wasopen =>
           /\ ~open
           /\ walk # "calls" => calls = <<>>
           /\ walk = "calls" /\ rb = Nil => calls = <<>>
           /\ walk = "calls" /\ rb # Nil => st[rb] # "out" \/ (calls # <<>> /\ Head(calls) = rb)
    BY DEF WalkFirst
<1>2. /\ eofs' = eofs \/ (eofs = 0 /\ eofs' = 1)
      /\ HasPkt => eofs = 0
      /\ open' => open
    BY EofOfStep DEF EofMoves
<1>3. CallsExact' /\ calls' \in Seq(Calls)
    BY ExactStep DEF CallsExact
<1>4. open' \in BOOLEAN
  <2>1. PipeStep
    BY StepsOfTransport DEF PipeInv
  <2> QED  BY <2>1, PcStep DEF PcInv
<1>5. ASSUME UNCHANGED <<walk, rb, wasopen, st, calls, eofs>> PROVE WalkFirst'
    BY <1>1, <1>2, <1>5 DEF WalkFirst
<1>6. ASSUME Seteof(calls'), eofs' # eofs PROVE WalkFirst'
  <2>1. walk' = "calls" /\ rb' = First(calls') /\ wasopen' = open'
    BY <1>6 DEF Seteof
  <2>2. CASE calls' = <<>>
    BY <1>4, <2>1, <2>2 DEF First, WalkFirst
  <2>3. CASE calls' # <<>>
    <3>1. rb' = Head(calls') /\ Head(calls') \in Calls
        BY <1>3, <2>1, <2>3 DEF First
    <3>2. rb' # Nil
        BY <3>1, CallsAssumption
    <3> QED  BY <1>4, <2>1, <2>3, <3>1, <3>2 DEF WalkFirst
  <2> QED  BY <2>2, <2>3
<1>7. ASSUME Seteof(calls), UNCHANGED <<st, calls>> PROVE WalkFirst'
  <2>1. CASE eofs' # eofs
    BY <1>6, <1>7, <2>1
  <2>2. CASE eofs' = eofs
    BY <1>5, <1>7, <2>2 DEF Seteof
  <2> QED  BY <2>1, <2>2
<1>8. CASE UNCHANGED allVars
    BY <1>5, <1>8 DEF allVars, vars, clntVars
<1>9. ASSUME Transport \/ OutputFails PROVE WalkFirst'
    BY <1>7, <1>9 DEF Transport, OutputFails
<1>10. ASSUME Xon \/ RecvCall \/ RecvGarbled PROVE WalkFirst'
  <2>1. UNCHANGED clntVars /\ eofs' = eofs
    BY <1>10 DEF Xon, XonStep, XonFalse, XonTrue, XonEof, RecvCall, RecvGarbled, GetpktData
  <2> QED  BY <1>5, <2>1 DEF clntVars
<1>11. ASSUME RecvUnavail PROVE WalkFirst'
  <2>1. ingetpkt
    BY <1>11 DEF RecvUnavail, PipeInv, PcInv
  <2>2. UNCHANGED clntVars /\ eofs' = eofs
    BY <1>11, <2>1 DEF RecvUnavail, Fail
  <2> QED  BY <1>5, <2>2 DEF clntVars
<1>12. ASSUME RecvReply PROVE WalkFirst'
  <2>1. eofs = 0 /\ eofs' = 0 /\ walk = "none" /\ UNCHANGED <<walk, rb, wasopen>>
    BY <1>2, <1>12 DEF RecvReply, GetpktData, NotNested
  <2> QED  BY <1>1, <2>1 DEF WalkFirst
<1>13. ASSUME WalkCall PROVE WalkFirst'
  <2>1. walk = "calls" /\ rb # Nil /\ rb \in Calls /\ UNCHANGED <<walk, wasopen, open, eofs>>
    BY <1>1, <1>13 DEF WalkCall
  <2>2. CASE st[rb] # "out"
    BY <1>5, <1>13, <2>1, <2>2 DEF WalkCall
  <2>3. CASE st[rb] = "out"
    <3>1. calls' = Without(calls, rb) /\ rb' = NextOf(rb)
        BY <1>13, <2>3 DEF WalkCall
    <3>2. /\ calls \in Seq(Calls) /\ IsInjective(calls) /\ rb \in ToSet(calls)
        BY <2>1, <2>3 DEF CallsExact
    <3>3. Len(calls) \in Nat /\ DOMAIN calls = 1..Len(calls) /\ \E k \in 1..Len(calls) : calls[k] = rb
        BY <3>2, ToSetIndex
    <3> DEFINE k == CHOOSE k \in DOMAIN calls : calls[k] = rb
    <3>4. k \in 1..Len(calls) /\ calls[k] = rb
        BY <3>3
    <3>5. rb' = IF k = Len(calls) THEN Nil ELSE calls[k + 1]
        BY <3>1 DEF NextOf
    <3> HIDE DEF k
    <3>6. rb' = Nil \/ rb' \in Calls
      <4>1. k # Len(calls) => k + 1 \in 1..Len(calls)
        <5>1. Len(calls) \in Nat /\ k \in 1..Len(calls)
            BY <3>3, <3>4
        <5> QED  BY <5>1
      <4> QED  BY <3>2, <3>5, <4>1
    <3>7. ASSUME eofs = 1, ~wasopen
          PROVE  \/ rb' = Nil /\ calls' = <<>>
                 \/ rb' # Nil /\ calls' # <<>> /\ Head(calls') = rb'
      <4>1. ~open /\ calls # <<>> /\ Head(calls) = rb
        BY <1>1, <2>1, <2>3, <3>7
      <4>2. calls[1] = rb /\ 1 \in 1..Len(calls)
        BY <3>2, <4>1
      <4>3. k = 1
        BY <3>2, <3>3, <3>4, <4>2 DEF IsInjective
      <4>4. CASE Len(calls) = 1
        <5>1. calls' = <<>>
            BY <3>1, <3>2, <4>1, <4>2, <4>4, WithoutHead
        <5> QED  BY <3>5, <4>3, <4>4, <5>1
      <4>5. CASE Len(calls) # 1
        <5>1. Len(calls) >= 2 /\ 2 \in 1..Len(calls)
            BY <3>3, <4>2, <4>5
        <5>2. calls' # <<>> /\ calls'[1] = calls[2]
            BY <3>1, <3>2, <4>1, <4>2, <5>1, WithoutHead
        <5>3. rb' = calls[2] /\ calls[2] \in Calls
            BY <3>2, <3>5, <4>3, <4>5, <5>1
        <5>4. Head(calls') = calls'[1]
            BY <1>3, <5>2
        <5>5. rb' # Nil
            BY <5>3, CallsAssumption
        <5> QED  BY <5>2, <5>3, <5>4, <5>5
      <4> QED  BY <4>4, <4>5
    <3>8. eofs = 1 /\ ~wasopen => ~open
        BY <1>1
    <3>9. eofs' = 1 /\ ~wasopen' => /\ ~open'
                                    /\ rb' = Nil => calls' = <<>>
                                    /\ rb' # Nil => calls' # <<>> /\ Head(calls') = rb'
        BY <2>1, <3>7, <3>8
    <3> QED  BY <1>1, <2>1, <3>6, <3>9 DEF WalkFirst
  <2> QED  BY <2>2, <2>3
<1>14. ASSUME WalkCallsEnd \/ WalkServer PROVE WalkFirst'
  <2>1. /\ walk' # "calls" /\ UNCHANGED <<wasopen, open, eofs, calls>>
        /\ walk # "calls" \/ rb = Nil
    BY <1>14 DEF WalkCallsEnd, WalkServer, vars
  <2> QED  BY <1>1, <2>1 DEF WalkFirst
<1>15. ASSUME ReplyReturn PROVE WalkFirst'
    BY <1>5, <1>15 DEF ReplyReturn, clntVars, vars
<1>16. ASSUME NEW k \in svc, Reply(k) PROVE WalkFirst'
    BY <1>5, <1>16 DEF Reply, clntVars, vars
<1>17. ASSUME NEW k \in svc, ReplyFails(k) PROVE WalkFirst'
    BY <1>7, <1>17 DEF ReplyFails
<1>18. ASSUME NEW c \in Calls, CallAtEof(c) PROVE WalkFirst'
  <2>1. /\ st' = [st EXCEPT ![c] = "done"] /\ UNCHANGED <<calls, walk, rb, wasopen, open, eofs>>
    BY <1>18 DEF CallAtEof, vars
  <2>2. walk = "calls" /\ rb # Nil /\ st[rb] # "out" => st'[rb] # "out"
    BY <1>1, <2>1 DEF CallsExact
  <2> QED  BY <1>1, <2>1, <2>2 DEF WalkFirst
<1>19. ASSUME NEW c \in Calls, Call(c) PROVE WalkFirst'
  <2>1. open /\ UNCHANGED <<walk, rb, wasopen, open, eofs>>
    BY <1>19 DEF Call, vars
  <2> QED  BY <1>1, <2>1 DEF WalkFirst
<1>20. ASSUME NEW c \in Calls, CallFails(c) PROVE WalkFirst'
  <2>1. open /\ Seteof(calls')
    BY <1>20 DEF CallFails, FailList
  <2>2. CASE eofs' # eofs
    BY <1>6, <2>1, <2>2
  <2>3. CASE eofs' = eofs
    <3>1. UNCHANGED <<walk, rb, wasopen>>
        BY <2>1, <2>3 DEF Seteof
    <3> QED  BY <1>1, <2>1, <2>3, <3>1 DEF WalkFirst
  <2> QED  BY <2>2, <2>3
<1>21. ASSUME NEW c \in Calls, Cancel(c) PROVE WalkFirst'
  <2>1. /\ st[c] = "out" /\ st' = [st EXCEPT ![c] = "cancelled"] /\ calls' = Without(calls, c)
        /\ UNCHANGED <<walk, rb, wasopen, open, eofs>>
    BY <1>21 DEF Cancel, vars
  <2>2. calls \in Seq(Calls) /\ IsInjective(calls) /\ c \in ToSet(calls)
    BY <2>1 DEF CallsExact
  <2>3. calls # <<>>
    BY <2>2, ToSetIndex
  <2>4. ASSUME eofs = 1, ~wasopen
        PROVE  /\ ~open /\ walk = "calls" /\ rb # Nil
               /\ st'[rb] # "out" \/ (calls' # <<>> /\ Head(calls') = rb)
    <3>1. ~open /\ walk = "calls" /\ rb # Nil /\ rb \in Calls
        BY <1>1, <2>3, <2>4
    <3>2. CASE c = rb
      <4>1. st'[rb] # "out"
        BY <2>1, <3>1, <3>2 DEF CallsExact
      <4> QED  BY <3>1, <4>1
    <3>3. CASE c # rb /\ st[rb] # "out"
      <4>1. st'[rb] # "out"
        BY <2>1, <3>1, <3>3 DEF CallsExact
      <4> QED  BY <3>1, <4>1
    <3>4. CASE c # rb /\ st[rb] = "out"
      <4>1. Head(calls) = rb /\ Head(calls) = calls[1]
        BY <1>1, <2>2, <2>3, <2>4, <3>1, <3>4
      <4>2. calls' # <<>> /\ calls'[1] = calls[1]
        BY <2>1, <2>2, <2>3, <3>4, <4>1, WithoutHead
      <4>3. Head(calls') = calls'[1]
        BY <1>3, <4>2
      <4> QED  BY <3>1, <4>1, <4>2, <4>3
    <3> QED  BY <3>2, <3>3, <3>4
  <2> QED  BY <1>1, <2>1, <2>4 DEF WalkFirst
<1> QED
    BY <1>8, <1>9, <1>10, <1>11, <1>12, <1>13, <1>14, <1>15, <1>16, <1>17, <1>18, <1>19, <1>20, <1>21
       DEF StreamNext, LoopStep, AppStep

\* The invariant of the client and the server.
LEMMA RpcInvariant == StreamSpec => []RpcInv
<1>1. ASSUME StreamInit PROVE RpcInv
  <2>1. /\ st = [c \in Calls |-> "new"] /\ calls = <<>> /\ eofs = 0
        /\ walk = "none" /\ rb = Nil /\ wasopen = FALSE
        /\ svc = {} /\ replying = 0 /\ srveof = FALSE /\ told = 0 /\ garbled = FALSE
    BY <1>1 DEF StreamInit, Init
  <2>2. WalkInv /\ ToldInv
    BY <2>1 DEF WalkInv, ToldInv
  <2>3. CallsExact
    <3>1. calls \in Seq(Calls) /\ ToSet(calls) = {} /\ IsInjective(calls)
      <4>1. calls \in Seq(Calls)
        BY <2>1
      <4>2. ToSet(calls) = {}
        BY <2>1, <4>1, ToSetIndex
      <4> QED  BY <2>1, <4>1, <4>2 DEF IsInjective
    <3> QED  BY <2>1, <3>1 DEF CallsExact
  <2>4. WalkFirst
    <3>1. eofs # 1 /\ walk # "calls"
        BY <2>1
    <3>2. wasopen \in BOOLEAN
        BY <2>1
    <3> QED  BY <3>1, <3>2, Zenon DEF WalkFirst
  <2> QED  BY <2>2, <2>3, <2>4 DEF RpcInv
<1>2. ASSUME PipeInv, RpcInv, [StreamNext]_allVars PROVE RpcInv'
    BY <1>2, ToldStep, ExactStep, FirstStep DEF RpcInv
<1> QED  BY <1>1, <1>2, PipeInvariant, PTL DEF StreamSpec

\* ServerToldOnce: asrv_delayed_eof tells the server of the EOF once, when no
\* call is being served and none will be, whether the EOF comes from a read,
\* from a write or from a reply whose svccb is still counted.
THEOREM ServerToldOnceHolds == StreamSpec => []ServerToldOnce
<1>1. ASSUME RpcInv PROVE ServerToldOnce
  <2>1. ~garbled => told = IF srveof /\ svc = {} THEN 1 ELSE 0
    BY <1>1 DEF RpcInv, ToldInv
  <2> QED  BY <2>1 DEF ServerToldOnce
<1> QED  BY <1>1, RpcInvariant, PTL

\* CallsFailed: after the walk of seteof () over the calls of a transport that
\* has failed none is left, although the callbacks it runs make and cancel
\* calls (aclnt::fail (), xhinfo::seteof ()).
THEOREM CallsFailedHolds == StreamSpec => []CallsFailed
<1>1. ASSUME RpcInv PROVE CallsFailed
    BY <1>1 DEF RpcInv, WalkFirst, CallsFailed
<1> QED  BY <1>1, RpcInvariant, PTL
=============================================================================
