---------------------------- MODULE AsyncIoProofs ---------------------------
(***************************************************************************)
(* The buddy allocator and what the client of an aiod keeps with it, for   *)
(* any size of the memory, any number of levels, daemons and calls: the    *)
(* bitmaps stay exact, what waits for a buffer lacks one, and requests and *)
(* open files keep their buffers, their handles and their callbacks.       *)
(***************************************************************************)
EXTENDS AsyncIo, ListsProofs, FunctionTheorems

-----------------------------------------------------------------------------
(***************************************************************************)
(* The buddy allocator: sizes, chains of halves, tilings.                  *)
(***************************************************************************)

\* 2^n is the number of subsets of n elements, which is what the library has on
\* powers.
LEMMA PowOfSets ==
    ASSUME NEW n \in Nat
    PROVE  2^n = Cardinality(SUBSET (1..n)) /\ IsFiniteSet(SUBSET (1..n))
<1>1. IsFiniteSet(1..n) /\ Cardinality(1..n) = n
  <2>1. Cardinality(1..n) = (IF 1 > n THEN 0 ELSE n - 1 + 1) /\ IsFiniteSet(1..n)
    BY FS_Interval
  <2> QED  BY <2>1
<1> QED  BY <1>1, FS_SUBSET

\* The block of the lowest level is one unit.
LEMMA PowZero == 2^0 = 1
<1>1. SUBSET (1..0) = {{}}
    OBVIOUS
<1>2. 2^0 = Cardinality({{}})
    BY <1>1, PowOfSets
<1> QED  BY <1>2, FS_Singleton

\* Each level doubles the size.
LEMMA PowStep ==
    ASSUME NEW n \in Nat
    PROVE  2^n \in Nat /\ 2^n >= 1 /\ 2^(n + 1) = 2 * 2^n
<1> DEFINE X == SUBSET (1..n)
           Y == {s \cup {n + 1} : s \in X}
           f == [s \in X |-> s \cup {n + 1}]
<1>1. 2^n = Cardinality(X) /\ IsFiniteSet(X) /\ Cardinality(X) \in Nat
    BY PowOfSets, FS_CardinalityType
<1>2. 2^(n + 1) = Cardinality(SUBSET (1..(n + 1)))
    BY PowOfSets
<1>3. SUBSET (1..(n + 1)) = X \cup Y
  <2>1. ASSUME NEW s \in SUBSET (1..(n + 1)) PROVE s \in X \cup Y
    <3>1. CASE n + 1 \in s
      <4>1. s \ {n + 1} \in X
        OBVIOUS
      <4>2. s = (s \ {n + 1}) \cup {n + 1}
        BY <3>1
      <4> QED  BY <4>1, <4>2
    <3>2. CASE n + 1 \notin s
      <4>1. s \in X
        BY <3>2
      <4> QED  BY <4>1
    <3> QED  BY <3>1, <3>2
  <2>2. ASSUME NEW s \in X \cup Y PROVE s \in SUBSET (1..(n + 1))
    OBVIOUS
  <2> QED  BY <2>1, <2>2
<1>4. X \cap Y = {}
  <2>1. \A s \in X : n + 1 \notin s
    OBVIOUS
  <2> QED  BY <2>1
<1>5. ExistsBijection(X, Y)
  <2>1. \A s \in X : n + 1 \notin s
    OBVIOUS
  <2>2. f \in [X -> Y]
    OBVIOUS
  <2>3. \A s, t \in X : f[s] = f[t] => s = t
    BY <2>1
  <2>4. \A y \in Y : \E s \in X : f[s] = y
    OBVIOUS
  <2>5. f \in Bijection(X, Y)
    BY <2>2, <2>3, <2>4 DEF Bijection, Injection, Surjection, IsInjective
  <2> QED  BY <2>5 DEF ExistsBijection
<1>6. IsFiniteSet(Y) /\ Cardinality(Y) = Cardinality(X)
    BY <1>1, <1>5, FS_Bijection
<1>7. Cardinality(X \cup Y) = Cardinality(X) + Cardinality(Y) - Cardinality(X \cap Y)
    BY <1>1, <1>6, FS_Union
<1>8. Cardinality(X) # 0
  <2>1. {} \in X
    OBVIOUS
  <2> QED  BY <1>1, <2>1, FS_EmptySet
<1>9. Cardinality(X \cap Y) = 0
    BY <1>4, FS_EmptySet
<1>10. ASSUME NEW c \in Nat, NEW d, d = c + c - 0 PROVE d = 2 * c
    BY <1>10
<1>11. 2^(n + 1) = Cardinality(X) + Cardinality(X) - 0
    BY <1>2, <1>3, <1>6, <1>7, <1>9, Zenon
<1>12. 2^(n + 1) = 2 * Cardinality(X)
    BY <1>1, <1>10, <1>11, Zenon
<1>13. 2^(n + 1) = 2 * 2^n /\ 2^n \in Nat /\ 2^n # 0
    BY <1>1, <1>8, <1>12, Zenon
<1>14. \A c \in Nat : c # 0 => c >= 1
    OBVIOUS
<1> QED  BY <1>13, <1>14, Zenon

\* The size of a level, and of the next.
LEMMA SizeFacts ==
    ASSUME NEW n \in Nat
    PROVE  Size(n) \in Nat /\ Size(n) >= 1 /\ Size(n + 1) = 2 * Size(n)
BY PowStep, Zenon DEF Size

\* The smallest block is one unit.
LEMMA SizeZero == Size(0) = 1
BY PowZero DEF Size

\* Block number p of level l.
Blk(p, l) == Units(p * Size(l), l)

\* The units of block number p of level l.
LEMMA BlkUnits ==
    ASSUME NEW p \in Nat, NEW l \in Nat, NEW u
    PROVE  u \in Blk(p, l) <=> u \in Nat /\ p * Size(l) <= u /\ u < p * Size(l) + Size(l)
<1>1. Size(l) \in Nat /\ p * Size(l) \in Nat
    BY SizeFacts
<1> QED  BY <1>1 DEF Blk, Units

\* A block consists of its two halves, which are buddies of each other.
LEMMA Halves ==
    ASSUME NEW p \in Nat, NEW r \in Nat, r = 2 * p \/ r = 2 * p + 1, NEW l \in Nat, NEW u
    PROVE  /\ BuddyOf(r) \in Nat
           /\ u \in Blk(p, l + 1) <=> u \in Blk(r, l) \/ u \in Blk(BuddyOf(r), l)
           /\ ~(u \in Blk(r, l) /\ u \in Blk(BuddyOf(r), l))
<1> DEFINE P == Size(l)
           Q == p * P
<1>1. P \in Nat /\ P >= 1 /\ Size(l + 1) = 2 * P /\ Q \in Nat
    BY SizeFacts
<1>2. p * Size(l + 1) = 2 * Q /\ (2 * p) * P = 2 * Q /\ (2 * p + 1) * P = 2 * Q + P
    BY <1>1
<1>3. u \in Blk(p, l + 1) <=> u \in Nat /\ 2 * Q <= u /\ u < 2 * Q + 2 * P
    BY <1>1, <1>2, BlkUnits
<1>4. 2 * p \in Nat /\ 2 * p + 1 \in Nat
    OBVIOUS
<1>5. u \in Blk(2 * p, l) <=> u \in Nat /\ 2 * Q <= u /\ u < 2 * Q + P
    BY <1>2, <1>4, BlkUnits
<1>6. u \in Blk(2 * p + 1, l) <=> u \in Nat /\ 2 * Q + P <= u /\ u < 2 * Q + P + P
    BY <1>2, <1>4, BlkUnits
<1> HIDE DEF P, Q
<1>7. CASE r = 2 * p
  <2>1. BuddyOf(r) = 2 * p + 1
    BY <1>7 DEF BuddyOf
  <2> QED  BY <1>1, <1>3, <1>4, <1>5, <1>6, <1>7, <2>1
<1>8. CASE r = 2 * p + 1
  <2>1. BuddyOf(r) = 2 * p
    BY <1>8 DEF BuddyOf
  <2> QED  BY <1>1, <1>3, <1>4, <1>5, <1>6, <1>8, <2>1
<1> QED  BY <1>7, <1>8

\* A block of level k, halved again and again towards q[l]: it consists of
\* the last of the halves and of the buddies of all of them.
IsChain(q, l, k) ==
    /\ q \in [l..k -> Nat]
    /\ \A j \in l..(k - 1) : q[j] = 2 * q[j + 1] \/ q[j] = 2 * q[j + 1] + 1

\* Two neighbours in a chain of halves.
LEMMA ChainStep ==
    ASSUME NEW l \in Nat, NEW k \in Nat, NEW q, IsChain(q, l, k), NEW j \in l..(k - 1)
    PROVE  /\ j \in Nat /\ j + 1 \in l..k /\ j \in l..k
           /\ q[j] \in Nat /\ q[j + 1] \in Nat
           /\ q[j] = 2 * q[j + 1] \/ q[j] = 2 * q[j + 1] + 1
<1>1. j \in Nat /\ j + 1 \in l..k /\ j \in l..k
    OBVIOUS
<1> QED  BY <1>1 DEF IsChain

\* Each half of a chain lies in those above it.
LEMMA ChainNested ==
    ASSUME NEW l \in Nat, NEW k \in Nat, NEW q, IsChain(q, l, k), NEW u,
           NEW i \in l..k, NEW j \in i..k, u \in Blk(q[i], i)
    PROVE  u \in Blk(q[j], j)
<1> DEFINE Bad == {m \in i..k : u \notin Blk(q[m], m)}
<1>1. SUFFICES ASSUME Bad # {} PROVE FALSE
    BY <1>1
<1>2. PICK m \in Bad : \A n \in Bad : m <= n
  <2>1. Bad \subseteq Nat
    OBVIOUS
  <2> QED  BY <1>1, <2>1, LeastNat
<1>3. m # i /\ m - 1 \in i..k /\ m - 1 \notin Bad /\ m - 1 \in l..(k - 1) /\ m - 1 \in Nat
    BY <1>2
<1>4. u \in Blk(q[m - 1], m - 1)
    BY <1>3
<1>6. (m - 1) + 1 = m
    BY <1>3
<1>5. q[m] \in Nat /\ q[m - 1] \in Nat /\ (q[m - 1] = 2 * q[m] \/ q[m - 1] = 2 * q[m] + 1)
  <2>1. \A n \in l..(k - 1) : q[n] \in Nat /\ q[n + 1] \in Nat
                               /\ (q[n] = 2 * q[n + 1] \/ q[n] = 2 * q[n + 1] + 1)
    BY ChainStep
  <2> QED  BY <1>3, <1>6, <2>1, Zenon
<1>7. u \in Blk(q[m], m)
    BY <1>3, <1>4, <1>5, <1>6, Halves
<1> QED  BY <1>2, <1>7

\* The first block of a chain is covered by the last half and the buddies.
LEMMA ChainUnits ==
    ASSUME NEW l \in Nat, NEW k \in Nat, l <= k, NEW q, IsChain(q, l, k), NEW u
    PROVE  u \in Blk(q[k], k)
             <=> u \in Blk(q[l], l) \/ \E j \in l..(k - 1) : u \in Blk(BuddyOf(q[j]), j)
<1>0. \A j \in l..(k - 1) :
        /\ j \in Nat /\ j + 1 \in l..k /\ j \in l..k
        /\ q[j] \in Nat /\ q[j + 1] \in Nat /\ (q[j] = 2 * q[j + 1] \/ q[j] = 2 * q[j + 1] + 1)
    BY ChainStep
<1>1. ASSUME u \in Blk(q[l], l) PROVE u \in Blk(q[k], k)
    BY <1>1, ChainNested
<1>2. ASSUME NEW j \in l..(k - 1), u \in Blk(BuddyOf(q[j]), j) PROVE u \in Blk(q[k], k)
  <2>1. u \in Blk(q[j + 1], j + 1)
    BY <1>0, <1>2, Halves
  <2>2. j + 1 \in l..k /\ k \in (j + 1)..k
    OBVIOUS
  <2> QED  BY <2>1, <2>2, ChainNested
<1>3. ASSUME u \in Blk(q[k], k), u \notin Blk(q[l], l)
      PROVE  \E j \in l..(k - 1) : u \in Blk(BuddyOf(q[j]), j)
  <2> DEFINE In == {m \in l..k : u \in Blk(q[m], m)}
  <2>1. k \in In /\ In \subseteq Nat
    BY <1>3
  <2>2. PICK m \in In : \A n \in In : m <= n
    BY <2>1, LeastNat
  <2>3. m # l /\ m - 1 \in l..(k - 1) /\ m - 1 \notin In /\ (m - 1) + 1 = m
    BY <1>3, <2>2
  <2>4. u \notin Blk(q[m - 1], m - 1)
    BY <2>3
  <2>5. u \in Blk(BuddyOf(q[m - 1]), m - 1)
    BY <1>0, <2>2, <2>3, <2>4, Halves
  <2> QED  BY <2>3, <2>5
<1> QED  BY <1>1, <1>2, <1>3

\* No unit is in two of them.
LEMMA ChainDisjoint ==
    ASSUME NEW l \in Nat, NEW k \in Nat, l <= k, NEW q, IsChain(q, l, k), NEW u,
           NEW j \in l..(k - 1), u \in Blk(BuddyOf(q[j]), j)
    PROVE  /\ u \notin Blk(q[l], l)
           /\ \A i \in l..(k - 1) : u \in Blk(BuddyOf(q[i]), i) => i = j
<1>0. \A i \in l..(k - 1) :
        /\ i \in Nat /\ i + 1 \in l..k /\ i \in l..k
        /\ q[i] \in Nat /\ q[i + 1] \in Nat /\ (q[i] = 2 * q[i + 1] \/ q[i] = 2 * q[i + 1] + 1)
    BY ChainStep
<1>1. ASSUME NEW i \in l..(k - 1), u \in Blk(BuddyOf(q[i]), i), NEW n \in l..i
      PROVE  u \notin Blk(q[n], n)
  <2>1. u \notin Blk(q[i], i)
    BY <1>0, <1>1, Halves
  <2>2. n \in l..k /\ i \in n..k
    BY <1>0
  <2> QED  BY <2>1, <2>2, ChainNested
<1>2. u \notin Blk(q[l], l)
    BY <1>1
<1>3. ASSUME NEW i \in l..(k - 1), NEW n \in l..(k - 1), i < n,
             u \in Blk(BuddyOf(q[i]), i), u \in Blk(BuddyOf(q[n]), n)
      PROVE  FALSE
  <2>1. u \in Blk(q[i + 1], i + 1)
    BY <1>0, <1>3, Halves
  <2>2. i + 1 \in l..n
    BY <1>0, <1>3
  <2> QED  BY <1>1, <1>3, <2>1, <2>2
<1>4. ASSUME NEW i \in l..(k - 1), u \in Blk(BuddyOf(q[i]), i) PROVE i = j
  <2>1. i < j \/ j < i \/ i = j
    OBVIOUS
  <2> QED  BY <1>3, <1>4, <2>1
<1> QED  BY <1>2, <1>4

-----------------------------------------------------------------------------
\* Unit u is one of block b.
In(u, b) == u \in Units(b[1], b[2])

\* The blocks U and F are disjoint and cover t units.
Tiles(U, F, t) ==
    /\ \A u \in 0..(t - 1) : \E b \in U \cup F : In(u, b)
    /\ \A b \in U \cup F : \A u : In(u, b) => u \in 0..(t - 1)
    /\ \A b, c \in U \cup F : \A u : In(u, b) /\ In(u, c) => b = c
    /\ U \cap F = {}

\* Blocks of a tiling may be exchanged for others that cover the same units.
LEMMA Retile ==
    ASSUME NEW U, NEW F, NEW t, Tiles(U, F, t),
           NEW RU \in SUBSET U, NEW RF \in SUBSET F, NEW NU, NEW NF,
           \A b \in NU \cup NF : \E u : In(u, b),
           \A u : (\E b \in RU \cup RF : In(u, b)) <=> (\E b \in NU \cup NF : In(u, b)),
           \A b, c \in NU \cup NF : \A u : In(u, b) /\ In(u, c) => b = c,
           NU \cap NF = {}
    PROVE  Tiles((U \ RU) \cup NU, (F \ RF) \cup NF, t)
<1> DEFINE U1 == (U \ RU) \cup NU
           F1 == (F \ RF) \cup NF
<1>1. ASSUME NEW u \in 0..(t - 1) PROVE \E b \in U1 \cup F1 : In(u, b)
    BY DEF Tiles
<1>2. ASSUME NEW b \in U1 \cup F1, NEW u, In(u, b) PROVE u \in 0..(t - 1)
    BY <1>2 DEF Tiles
<1>3. ASSUME NEW b \in (U \ RU) \cup (F \ RF), NEW c \in NU \cup NF, NEW u, In(u, b), In(u, c)
      PROVE  FALSE
  <2>1. PICK r \in RU \cup RF : In(u, r)
    BY <1>3
  <2>2. b = r
    BY <1>3, <2>1 DEF Tiles
  <2> QED  BY <2>2 DEF Tiles
<1>4. ASSUME NEW b \in U1 \cup F1, NEW c \in U1 \cup F1, NEW u, In(u, b), In(u, c) PROVE b = c
  <2>1. b \in (U \ RU) \cup (F \ RF) \/ b \in NU \cup NF
    OBVIOUS
  <2>2. c \in (U \ RU) \cup (F \ RF) \/ c \in NU \cup NF
    OBVIOUS
  <2>3. CASE b \in (U \ RU) \cup (F \ RF) /\ c \in (U \ RU) \cup (F \ RF)
    BY <1>4, <2>3 DEF Tiles
  <2> QED  BY <1>3, <1>4, <2>1, <2>2, <2>3
<1>5. U1 \cap F1 = {}
  <2>1. \A b \in NU \cup NF : b \notin (U \ RU) \cup (F \ RF)
    BY <1>3
  <2> QED  BY <2>1 DEF Tiles
<1> QED  BY <1>1, <1>2, <1>4, <1>5, Zenon DEF Tiles

\* The types: A are the allocated blocks.
BuddyTypes(bb, A) ==
    /\ bb \in [tot : Nat, free : [Levels -> SUBSET Nat]]
    /\ \E n \in Nat : bb.tot = n * MaxBuf
    /\ \A b \in A : \E p \in Nat, l \in Levels : b = <<p * Size(l), l>>

\* No block is free next to its free buddy.
Apart(bb) == \A l \in Levels \ {LogMax} : \A p \in bb.free[l] : BuddyOf(p) \notin bb.free[l]

\* The invariant of the allocator.
BuddyInv(bb, A) ==
    BuddyTypes(bb, A) /\ Tiles(A, FreeBlocks(bb), bb.tot) /\ Apart(bb)

\* Levels are numbers and their blocks are not empty.
LEMMA LevelNat == \A l \in Levels : l \in Nat /\ Size(l) \in Nat /\ Size(l) >= 1
<1>1. \A l \in Levels : l \in Nat
    BY BuddyAssumption DEF Levels
<1> QED  BY <1>1, SizeFacts

\* Multiples of c are c apart.
LEMMA MulStep ==
    ASSUME NEW x \in Nat, NEW y \in Nat, x < y, NEW c \in Nat
    PROVE  x * c + c <= y * c /\ x * c \in Nat /\ y * c \in Nat
<1>1. PICK d \in Nat : y = x + 1 + d
  <2>1. y - x - 1 \in Nat /\ y = x + 1 + (y - x - 1)
    OBVIOUS
  <2> QED  BY <2>1
<1>2. y * c = x * c + c + d * c /\ d * c \in Nat /\ x * c \in Nat
    BY <1>1
<1> QED  BY <1>2

\* Equal multiples have equal factors.
LEMMA MulInj ==
    ASSUME NEW a \in Nat, NEW b \in Nat, NEW c \in Nat, c >= 1, a * c = b * c
    PROVE  a = b
<1>1. ASSUME NEW x \in Nat, NEW y \in Nat, x < y PROVE x * c < y * c
    BY <1>1, MulStep
<1>2. a < b \/ b < a \/ a = b
    OBVIOUS
<1>3. a * c \in Nat /\ b * c \in Nat
    OBVIOUS
<1>4. ~(a * c < b * c) /\ ~(b * c < a * c)
    BY <1>3
<1> QED  BY <1>1, <1>2, <1>4

\* A block as a pair and as a number with a level.
LEMMA InBlk ==
    ASSUME NEW p, NEW l, NEW u
    PROVE  In(u, <<p * Size(l), l>>) <=> u \in Blk(p, l)
BY DEF In, Blk

\* A block contains the unit it starts at.
LEMMA NonEmpty ==
    ASSUME NEW p \in Nat, NEW l \in Nat
    PROVE  p * Size(l) \in Blk(p, l)
<1>1. Size(l) \in Nat /\ Size(l) >= 1 /\ p * Size(l) \in Nat
    BY SizeFacts
<1> QED  BY <1>1, BlkUnits

\* The bit of a block says whether it is free.
LEMMA FreeBlock ==
    ASSUME NEW bb, bb \in [tot : Nat, free : [Levels -> SUBSET Nat]],
           NEW p \in Nat, NEW l \in Levels
    PROVE  <<p * Size(l), l>> \in FreeBlocks(bb) <=> p \in bb.free[l]
<1>1. p \in bb.free[l] => <<p * Size(l), l>> \in FreeBlocks(bb)
    BY DEF FreeBlocks
<1>2. ASSUME <<p * Size(l), l>> \in FreeBlocks(bb) PROVE p \in bb.free[l]
  <2>1. PICK m \in Levels : <<p * Size(l), l>> \in {<<r * Size(m), m>> : r \in bb.free[m]}
    BY <1>2 DEF FreeBlocks
  <2>2. PICK r \in bb.free[m] : <<p * Size(l), l>> = <<r * Size(m), m>>
    BY <2>1
  <2>3. m = l /\ p * Size(l) = r * Size(l) /\ r \in Nat
    BY <2>2
  <2>4. p = r
    BY <2>3, LevelNat, MulInj
  <2> QED  BY <2>2, <2>3, <2>4
<1> QED  BY <1>1, <1>2

\* A free block has its bit set.
LEMMA FreeBlockForm ==
    ASSUME NEW bb, bb \in [tot : Nat, free : [Levels -> SUBSET Nat]], NEW b \in FreeBlocks(bb)
    PROVE  \E l \in Levels, p \in Nat : p \in bb.free[l] /\ b = <<p * Size(l), l>>
<1>1. PICK m \in Levels : b \in {<<r * Size(m), m>> : r \in bb.free[m]}
    BY DEF FreeBlocks
<1>2. PICK r \in bb.free[m] : b = <<r * Size(m), m>>
    BY <1>1
<1>3. r \in Nat
    OBVIOUS
<1> QED  BY <1>2, <1>3

\* The bitmaps of b2 are those of bb without the bits of the blocks RF and
\* with those of the blocks NF.
Differ(bb, b2, RF, NF) ==
    /\ \A b \in RF \cup NF : \E p \in Nat, l \in Levels : b = <<p * Size(l), l>>
    /\ \A l \in Levels, p \in Nat :
          p \in b2.free[l] <=> \/ p \in bb.free[l] /\ <<p * Size(l), l>> \notin RF
                               \/ <<p * Size(l), l>> \in NF

\* Bitmaps that differ in some bits stand for blocks that differ in as many.
LEMMA FreeBlocksDiffer ==
    ASSUME NEW bb, bb \in [tot : Nat, free : [Levels -> SUBSET Nat]],
           NEW b2, b2 \in [tot : Nat, free : [Levels -> SUBSET Nat]], NEW RF, NEW NF,
           Differ(bb, b2, RF, NF)
    PROVE  FreeBlocks(b2) = (FreeBlocks(bb) \ RF) \cup NF
<1> USE DEF Differ
<1>1. ASSUME NEW b \in FreeBlocks(b2) PROVE b \in (FreeBlocks(bb) \ RF) \cup NF
  <2>1. PICK l \in Levels, p \in Nat : p \in b2.free[l] /\ b = <<p * Size(l), l>>
    BY FreeBlockForm
  <2> QED  BY <2>1, FreeBlock
<1>2. ASSUME NEW b \in FreeBlocks(bb) \ RF PROVE b \in FreeBlocks(b2)
  <2>1. PICK l \in Levels, p \in Nat : p \in bb.free[l] /\ b = <<p * Size(l), l>>
    BY FreeBlockForm
  <2> QED  BY <1>2, <2>1, FreeBlock
<1>3. ASSUME NEW b \in NF PROVE b \in FreeBlocks(b2)
  <2>1. PICK p \in Nat, l \in Levels : b = <<p * Size(l), l>>
    OBVIOUS
  <2> QED  BY <2>1, FreeBlock
<1> QED  BY <1>1, <1>2, <1>3

\* The minimum of a set of numbers.
LEMMA MinFacts ==
    ASSUME NEW S, S \subseteq Nat, S # {}
    PROVE  Min(S) \in S /\ \A x \in S : Min(S) <= x
BY LeastNat DEF Min

\* Free and allocated blocks that tile the memory are what _check () asserts.
LEMMA ExactOfTiles ==
    ASSUME NEW bb, NEW A, BuddyInv(bb, A)
    PROVE  Exact(bb, A)
<1> DEFINE F == FreeBlocks(bb)
<1>1. Tiles(A, F, bb.tot) /\ Apart(bb)
    BY DEF BuddyInv
<1> HIDE DEF F
<1>2. ASSUME NEW u \in 0..(bb.tot - 1)
      PROVE  Cardinality({b \in A : u \in Units(b[1], b[2])})
               + Cardinality({b \in F : u \in Units(b[1], b[2])}) = 1
  <2>1. PICK b \in A \cup F : In(u, b) /\ \A c \in A \cup F : In(u, c) => c = b
    BY <1>1 DEF Tiles
  <2>2. CASE b \in A
    <3>1. {c \in A : u \in Units(c[1], c[2])} = {b}
      BY <2>1, <2>2 DEF In
    <3>2. {c \in F : u \in Units(c[1], c[2])} = {}
      BY <1>1, <2>1, <2>2 DEF In, Tiles
    <3>3. Cardinality({b}) = 1 /\ Cardinality({}) = 0
      BY FS_Singleton, FS_EmptySet
    <3>4. /\ Cardinality({c \in A : u \in Units(c[1], c[2])}) = 1
          /\ Cardinality({c \in F : u \in Units(c[1], c[2])}) = 0
      BY <3>1, <3>2, <3>3, Zenon
    <3> QED  BY <3>4
  <2>3. CASE b \in F
    <3>1. {c \in F : u \in Units(c[1], c[2])} = {b}
      BY <2>1, <2>3 DEF In
    <3>2. {c \in A : u \in Units(c[1], c[2])} = {}
      BY <1>1, <2>1, <2>3 DEF In, Tiles
    <3>3. Cardinality({b}) = 1 /\ Cardinality({}) = 0
      BY FS_Singleton, FS_EmptySet
    <3>4. /\ Cardinality({c \in F : u \in Units(c[1], c[2])}) = 1
          /\ Cardinality({c \in A : u \in Units(c[1], c[2])}) = 0
      BY <3>1, <3>2, <3>3, Zenon
    <3> QED  BY <3>4
  <2> QED  BY <2>1, <2>2, <2>3
<1>3. \A b \in A \cup F : Units(b[1], b[2]) \subseteq 0..(bb.tot - 1)
    BY <1>1 DEF Tiles, In
<1> QED  BY <1>1, <1>2, <1>3 DEF Exact, Apart, F

\* The block alloc () takes is free and no smaller one would do.
LEMMA TakenFacts ==
    ASSUME NEW bb, bb \in [tot : Nat, free : [Levels -> SUBSET Nat]], NEW l \in Levels,
           CanAlloc(bb, l)
    PROVE  LET k   == Taken(bb, l)[1]
               pos == Taken(bb, l)[2]
           IN  /\ k \in Levels /\ l <= k /\ pos \in bb.free[k] /\ pos \in Nat
               /\ \A j \in l..(k - 1) : bb.free[j] = {}
<1> DEFINE k   == Taken(bb, l)[1]
           pos == Taken(bb, l)[2]
<1>1. Found(bb, l) # {} /\ Found(bb, l) \subseteq Nat
    BY BuddyAssumption DEF CanAlloc, Found, Levels
<1>2. k = Min(Found(bb, l)) /\ pos = Min(bb.free[k])
    BY DEF Taken
<1>3. k \in Found(bb, l) /\ \A j \in Found(bb, l) : k <= j
    BY <1>1, <1>2, MinFacts
<1>4. k \in Levels /\ l <= k /\ bb.free[k] # {}
    BY <1>3, BuddyAssumption DEF Found, Levels
<1>5. bb.free[k] \subseteq Nat
    BY <1>4
<1>6. pos \in bb.free[k]
    BY <1>2, <1>4, <1>5, MinFacts
<1>7. ASSUME NEW j \in l..(k - 1) PROVE bb.free[j] = {}
  <2>1. j \in l..LogMax /\ ~(k <= j)
    BY <1>4, BuddyAssumption DEF Levels
  <2> QED  BY <1>3, <2>1 DEF Found
<1> QED  BY <1>4, <1>5, <1>6, <1>7

\* alloc () leaves the bitmaps exact: the block found is halved down to the
\* level asked for and the second halves become free.
LEMMA AllocFacts ==
    ASSUME NEW bb, NEW A, BuddyInv(bb, A), NEW l \in Levels, CanAlloc(bb, l)
    PROVE  /\ BuddyInv(Alloc(bb, l), A \cup {<<AllocOff(bb, l), l>>})
           /\ <<AllocOff(bb, l), l>> \notin A
           /\ Alloc(bb, l).tot = bb.tot
<1> DEFINE k   == Taken(bb, l)[1]
           pos == Taken(bb, l)[2]
           b2  == Alloc(bb, l)
           q   == [j \in l..k |-> pos * Size(k - j)]
           off == AllocOff(bb, l)
           RF  == {<<pos * Size(k), k>>}
           NU  == {<<off, l>>}
           NF  == {<<BuddyOf(q[j]) * Size(j), j>> : j \in l..(k - 1)}
<1>0. /\ bb \in [tot : Nat, free : [Levels -> SUBSET Nat]] /\ BuddyTypes(bb, A)
      /\ Tiles(A, FreeBlocks(bb), bb.tot) /\ Apart(bb)
    BY DEF BuddyInv, BuddyTypes
<1>1. /\ k \in Levels /\ l <= k /\ pos \in bb.free[k] /\ pos \in Nat
      /\ \A j \in l..(k - 1) : bb.free[j] = {}
    BY <1>0, TakenFacts
<1>2. off = pos * Size(k)
    BY DEF AllocOff
<1>3. /\ b2 = [bb EXCEPT !.free =
                [j \in Levels |->
                   CASE j = k             -> @[j] \ {pos}
                     [] j >= l /\ j < k   -> @[j] \cup {pos * Size(k - j) + 1}
                     [] OTHER             -> @[j]]]
    BY DEF Alloc
<1> HIDE DEF k, pos, off, b2
<1>4. l \in Nat /\ k \in Nat /\ l..k \subseteq Levels
    BY <1>1, LevelNat, BuddyAssumption DEF Levels
<1>5. \A j \in l..k : /\ j \in Nat /\ k - j \in Nat /\ Size(k - j) \in Nat
                        /\ q[j] = pos * Size(k - j) /\ q[j] \in Nat
  <2>1. \A j \in l..k : j \in Nat /\ k - j \in Nat
    BY <1>4
  <2>2. \A j \in l..k : Size(k - j) \in Nat
    BY <2>1, SizeFacts
  <2> QED  BY <1>1, <2>1, <2>2
<1>6. ASSUME NEW j \in l..(k - 1)
      PROVE  /\ j \in l..k /\ j + 1 \in l..k /\ q[j] = 2 * q[j + 1]
             /\ BuddyOf(q[j]) = q[j] + 1 /\ BuddyOf(q[j]) = pos * Size(k - j) + 1
             /\ BuddyOf(q[j]) \in Nat /\ j \in Levels
  <2>1. j \in l..k /\ j + 1 \in l..k
    BY <1>4
  <2>2. k - j = (k - (j + 1)) + 1 /\ k - (j + 1) \in Nat
    BY <1>4
  <2>3. Size(k - j) = 2 * Size(k - (j + 1)) /\ Size(k - (j + 1)) \in Nat
    BY <2>2, SizeFacts
  <2>4. q[j] = 2 * q[j + 1]
    BY <1>1, <1>5, <2>1, <2>3
  <2>5. BuddyOf(q[j]) = q[j] + 1
    BY <1>5, <2>1, <2>4 DEF BuddyOf
  <2> QED  BY <1>4, <1>5, <2>1, <2>4, <2>5
<1>7. q[k] = pos
    BY <1>1, <1>4, SizeZero
<1> HIDE DEF q
<1>8. IsChain(q, l, k)
  <2>1. q \in [l..k -> Nat]
    BY <1>5 DEF q
  <2> QED  BY <1>6, <2>1 DEF IsChain
<1>9. q[l] * Size(l) = off
  <2> DEFINE S == {j \in l..k : q[j] * Size(j) = off}
  <2>1. k \in S /\ S \subseteq Nat /\ S # {}
    <3>1. k \in l..k
      BY <1>1, <1>4
    <3>2. q[k] * Size(k) = off
      BY <1>2, <1>7
    <3>3. l..k \subseteq Nat
      BY <1>4
    <3> QED  BY <3>1, <3>2, <3>3
  <2>2. PICK m \in S : \A n \in S : m <= n
    BY <2>1, LeastNat
  <2>3. CASE m = l
    BY <2>2, <2>3
  <2>4. CASE m # l
    <3> DEFINE j == m - 1
    <3>1. j \in l..(k - 1) /\ j + 1 = m
      BY <2>2, <2>4, <1>4
    <3> HIDE DEF j
    <3>2. q[j] = 2 * q[m] /\ q[m] \in Nat /\ j \in Nat
      <4>1. q[j] = 2 * q[j + 1] /\ q[j + 1] \in Nat /\ j \in Nat
        BY <1>5, <1>6, <3>1
      <4> QED  BY <3>1, <4>1, Zenon
    <3>3. Size(m) = 2 * Size(j) /\ Size(j) \in Nat
      BY <3>1, <3>2, SizeFacts
    <3>4. q[j] * Size(j) = q[m] * Size(m)
      BY <3>2, <3>3
    <3>5. j \in S
      BY <2>2, <3>1, <3>4, <1>4
    <3>6. ~(m <= j)
      BY <3>1, <3>2
    <3> QED  BY <2>2, <3>5, <3>6
  <2> QED  BY <2>3, <2>4
<1>10. /\ b2 \in [tot : Nat, free : [Levels -> SUBSET Nat]] /\ b2.tot = bb.tot
       /\ \A j \in Levels : b2.free[j] =
               CASE j = k             -> bb.free[j] \ {pos}
                 [] j >= l /\ j < k   -> bb.free[j] \cup {pos * Size(k - j) + 1}
                 [] OTHER             -> bb.free[j]
  <2>1. ASSUME NEW j \in Levels, j >= l, j < k PROVE pos * Size(k - j) + 1 \in Nat
    <3>1. j \in l..(k - 1)
      BY <2>1, <1>4, LevelNat
    <3> QED  BY <1>6, <3>1
  <2> QED  BY <1>0, <1>3, <2>1
<1>11. \A j \in Levels, p \in Nat :
         p \in b2.free[j] <=> \/ p \in bb.free[j] /\ <<p * Size(j), j>> \notin RF
                              \/ <<p * Size(j), j>> \in NF
  <2> SUFFICES ASSUME NEW j \in Levels, NEW p \in Nat
               PROVE  p \in b2.free[j] <=> \/ p \in bb.free[j] /\ <<p * Size(j), j>> \notin RF
                                           \/ <<p * Size(j), j>> \in NF
    OBVIOUS
  <2>1. <<p * Size(j), j>> \in RF <=> j = k /\ p = pos
    BY <1>1, LevelNat, MulInj
  <2>2. <<p * Size(j), j>> \in NF <=> j \in l..(k - 1) /\ p = pos * Size(k - j) + 1
    <3>1. ASSUME <<p * Size(j), j>> \in NF PROVE j \in l..(k - 1) /\ p = pos * Size(k - j) + 1
      <4>1. PICK i \in l..(k - 1) : <<p * Size(j), j>> = <<BuddyOf(q[i]) * Size(i), i>>
        BY <3>1
      <4>2. i = j /\ p * Size(j) = BuddyOf(q[j]) * Size(j)
        BY <4>1
      <4>3. p = BuddyOf(q[j])
        BY <1>6, <4>1, <4>2, LevelNat, MulInj
      <4> QED  BY <1>6, <4>1, <4>2, <4>3
    <3>2. ASSUME j \in l..(k - 1), p = pos * Size(k - j) + 1 PROVE <<p * Size(j), j>> \in NF
      BY <1>6, <3>2
    <3> QED  BY <3>1, <3>2
  <2>3. j \in l..(k - 1) <=> j >= l /\ j < k
    BY <1>4, LevelNat
  <2> HIDE DEF RF, NF
  <2>4. CASE j = k
    <3>2. ~(j < k)
      BY <1>4, <2>4
    <3>1. b2.free[j] = bb.free[j] \ {pos}
      BY <1>10, <2>4, <3>2
    <3> QED  BY <3>1, <3>2, <2>1, <2>2, <2>3, <2>4
  <2>5. CASE j >= l /\ j < k
    <3>1. j # k
      BY <1>4, <2>5
    <3>2. b2.free[j] = bb.free[j] \cup {pos * Size(k - j) + 1}
      BY <1>10, <2>5, <3>1
    <3> QED  BY <3>1, <3>2, <2>1, <2>2, <2>3, <2>5
  <2>6. CASE j # k /\ ~(j >= l /\ j < k)
    <3>1. b2.free[j] = bb.free[j]
      BY <1>10, <2>6
    <3> QED  BY <3>1, <2>1, <2>2, <2>3, <2>6
  <2> QED  BY <2>4, <2>5, <2>6
<1>12. /\ \A b \in RF \cup NF : \E p \in Nat, j \in Levels : b = <<p * Size(j), j>>
       /\ \A b \in NU : \E p \in Nat, j \in Levels : b = <<p * Size(j), j>>
    BY <1>1, <1>4, <1>5, <1>6, <1>9
<1>13. FreeBlocks(b2) = (FreeBlocks(bb) \ RF) \cup NF
  <2> HIDE DEF RF, NF
  <2>1. Differ(bb, b2, RF, NF)
    BY <1>11, <1>12, Zenon DEF Differ
  <2> QED  BY <1>0, <1>10, <2>1, FreeBlocksDiffer
<1>14. RF \subseteq FreeBlocks(bb)
    BY <1>0, <1>1, FreeBlock
<1>15. \A u : (\E b \in {} \cup RF : In(u, b)) <=> u \in Blk(q[k], k)
    BY <1>7, InBlk
<1>16. \A u : In(u, <<off, l>>) <=> u \in Blk(q[l], l)
    BY <1>9, InBlk
<1>17. \A u : \A j \in l..(k - 1) :
          In(u, <<BuddyOf(q[j]) * Size(j), j>>) <=> u \in Blk(BuddyOf(q[j]), j)
    BY InBlk
<1>18. \A u : (\E b \in {} \cup RF : In(u, b)) <=> (\E b \in NU \cup NF : In(u, b))
  <2>1. \A u : u \in Blk(q[k], k)
             <=> u \in Blk(q[l], l) \/ \E j \in l..(k - 1) : u \in Blk(BuddyOf(q[j]), j)
    BY <1>1, <1>4, <1>8, ChainUnits
  <2> QED  BY <1>15, <1>16, <1>17, <2>1
<1>19. ASSUME NEW u, NEW j \in l..(k - 1), In(u, <<BuddyOf(q[j]) * Size(j), j>>)
       PROVE  /\ ~In(u, <<off, l>>)
              /\ \A i \in l..(k - 1) : In(u, <<BuddyOf(q[i]) * Size(i), i>>) => i = j
    BY <1>1, <1>4, <1>8, <1>16, <1>17, <1>19, ChainDisjoint
<1>20. \A b, c \in NU \cup NF : \A u : In(u, b) /\ In(u, c) => b = c
    BY <1>19
<1>21. \A b \in NU \cup NF : \E u : In(u, b)
  <2> SUFFICES ASSUME NEW b \in NU \cup NF PROVE \E u : In(u, b)
    OBVIOUS
  <2> HIDE DEF NU, NF, RF
  <2>1. PICK p \in Nat, j \in Levels : b = <<p * Size(j), j>>
    BY <1>12
  <2>2. j \in Nat
    BY LevelNat
  <2>3. p * Size(j) \in Blk(p, j)
    BY <2>2, NonEmpty
  <2>4. In(p * Size(j), <<p * Size(j), j>>)
    BY <2>3, InBlk
  <2> QED  BY <2>1, <2>4, Zenon
<1>22. NU \cap NF = {}
    BY <1>19, <1>21
<1>23. Tiles((A \ {}) \cup NU, (FreeBlocks(bb) \ RF) \cup NF, bb.tot)
  <2> HIDE DEF RF, NU, NF
  <2> QED  BY <1>0, <1>14, <1>18, <1>20, <1>21, <1>22, Retile
<1>24. Tiles(A \cup NU, FreeBlocks(b2), b2.tot)
  <2> HIDE DEF NU, NF, RF
  <2>1. A \ {} = A
    OBVIOUS
  <2> QED  BY <1>10, <1>13, <1>23, <2>1, Zenon
<1>25. BuddyTypes(b2, A \cup NU)
    BY <1>0, <1>10, <1>12 DEF BuddyTypes
<1>26. Apart(b2)
  <2> SUFFICES ASSUME NEW j \in Levels \ {LogMax}, NEW p \in b2.free[j], BuddyOf(p) \in b2.free[j]
               PROVE  FALSE
    BY DEF Apart
  <2>1. CASE j \in l..(k - 1)
    <3>1. bb.free[j] = {} /\ j # k /\ j >= l /\ j < k
      BY <1>1, <1>4, <2>1
    <3>2. b2.free[j] = {pos * Size(k - j) + 1}
      BY <1>10, <3>1
    <3>3. p \in Nat /\ p = BuddyOf(p)
      BY <3>2, <1>6, <2>1
    <3> QED  BY <3>3 DEF BuddyOf
  <2>2. CASE j \notin l..(k - 1)
    <3>1. ~(j >= l /\ j < k)
      <4>1. j \in Nat
        BY LevelNat
      <4> QED  BY <1>4, <2>2, <4>1
    <3>2. b2.free[j] = bb.free[j] \ {pos} \/ b2.free[j] = bb.free[j]
      BY <1>10, <3>1
    <3> QED  BY <1>0, <3>2 DEF Apart
  <2> QED  BY <2>1, <2>2
<1>27. <<off, l>> \notin A
  <2>1. PICK u : In(u, <<off, l>>)
    BY <1>21
  <2>2. In(u, <<pos * Size(k), k>>) /\ <<pos * Size(k), k>> \in FreeBlocks(bb)
    BY <2>1, <1>14, <1>18
  <2> QED  BY <1>0, <2>1, <2>2 DEF Tiles
<1> QED  BY <1>10, <1>24, <1>25, <1>26, <1>27 DEF BuddyInv, off, b2

\* Division by a product of a power of two: each quotient is about half the one before.
LEMMA DivFacts ==
    ASSUME NEW x \in Nat, NEW c \in Nat, c >= 1
    PROVE  x \div c \in Nat /\ (x \div c) * c <= x /\ x < (x \div c) * c + c
<1>1. x \div c \in Nat
    OBVIOUS
<1>2. (x \div c) * c <= x
    OBVIOUS
<1>3. x < (x \div c) * c + c
    OBVIOUS
<1> QED  BY <1>1, <1>2, <1>3

\* The quotient is the only number of whole blocks that fits.
LEMMA DivUnique ==
    ASSUME NEW x \in Nat, NEW c \in Nat, c >= 1, NEW a \in Nat, a * c <= x, x < a * c + c
    PROVE  x \div c = a
<1>1. x \div c \in Nat /\ (x \div c) * c <= x /\ x < (x \div c) * c + c
    BY DivFacts
<1>2. \A m, n \in Nat : m < n => m * c + c <= n * c
    BY MulStep
<1>3. ~(a < x \div c) /\ ~(x \div c < a)
    BY <1>1, <1>2
<1> QED  BY <1>1, <1>3

\* The number of a block is half the number of each of its halves.
LEMMA DivHalf ==
    ASSUME NEW x \in Nat, NEW c \in Nat, c >= 1
    PROVE  x \div c = 2 * (x \div (2 * c)) \/ x \div c = 2 * (x \div (2 * c)) + 1
<1> DEFINE b == x \div (2 * c)
<1>1. b \in Nat /\ b * (2 * c) <= x /\ x < b * (2 * c) + 2 * c
  <2>1. 2 * c \in Nat /\ 2 * c >= 1
    OBVIOUS
  <2> QED  BY <2>1, DivFacts
<1> HIDE DEF b
<1>2. b * (2 * c) = (2 * b) * c /\ (2 * b + 1) * c = (2 * b) * c + c
    BY <1>1
<1>4. (2 * b) * c \in Nat /\ 2 * b \in Nat /\ 2 * b + 1 \in Nat
    BY <1>1
<1>3. CASE x < (2 * b) * c + c
  <2>1. x \div c = 2 * b
    BY <1>1, <1>2, <1>3, <1>4, DivUnique
  <2> QED  BY <2>1 DEF b
<1>5. CASE ~(x < (2 * b) * c + c)
  <2>1. (2 * b + 1) * c <= x /\ x < (2 * b + 1) * c + c
    BY <1>1, <1>2, <1>4, <1>5
  <2>2. x \div c = 2 * b + 1
    BY <1>4, <2>1, DivUnique
  <2> QED  BY <2>2 DEF b
<1> QED  BY <1>3, <1>5

\* The buddy of the buddy is the block itself.
LEMMA BuddyTwice ==
    ASSUME NEW p \in Nat
    PROVE  BuddyOf(p) \in Nat /\ BuddyOf(p) # p /\ BuddyOf(BuddyOf(p)) = p
<1>1. PICK n \in Nat : p = 2 * n \/ p = 2 * n + 1
  <2>1. p \div 2 \in Nat /\ (p = 2 * (p \div 2) \/ p = 2 * (p \div 2) + 1)
    OBVIOUS
  <2> QED  BY <2>1
<1>2. CASE p = 2 * n
  <2>1. BuddyOf(p) = 2 * n + 1
    BY <1>2 DEF BuddyOf
  <2>2. BuddyOf(2 * n + 1) = 2 * n
    BY DEF BuddyOf
  <2> QED  BY <1>2, <2>1, <2>2
<1>3. CASE p = 2 * n + 1
  <2>1. BuddyOf(p) = 2 * n
    BY <1>3 DEF BuddyOf
  <2>2. BuddyOf(2 * n) = 2 * n + 1
    BY DEF BuddyOf
  <2> QED  BY <1>3, <2>1, <2>2
<1> QED  BY <1>1, <1>2, <1>3

\* dealloc () joins the buddies that are free at all levels below the one it returns to.
LEMMA JoinFacts ==
    ASSUME NEW bb, NEW off, NEW l \in Levels
    PROVE  LET top == JoinLevel(bb, off, l)
           IN  /\ top \in Levels /\ l <= top
               /\ top = LogMax \/ BuddyOf(off \div Size(top)) \notin bb.free[top]
               /\ \A j \in l..(top - 1) :
                     BuddyOf(off \div Size(j)) \in bb.free[j]
<1> DEFINE top == JoinLevel(bb, off, l)
           S == {k \in l..LogMax : k = LogMax \/ BuddyOf(off \div Size(k)) \notin bb.free[k]}
<1>1. LogMax \in S /\ S \subseteq Nat
    BY BuddyAssumption DEF Levels
<1>2. top = Min(S)
    BY DEF JoinLevel
<1> HIDE DEF top, S
<1>3. top \in S /\ \A j \in S : top <= j
    BY <1>1, <1>2, MinFacts
<1>4. /\ top \in Levels /\ l <= top
      /\ top = LogMax \/ BuddyOf(off \div Size(top)) \notin bb.free[top]
    BY <1>3, BuddyAssumption DEF S, Levels
<1>5. ASSUME NEW j \in l..(top - 1) PROVE BuddyOf(off \div Size(j)) \in bb.free[j]
  <2>1. j \in l..LogMax /\ ~(top <= j)
    BY <1>4, BuddyAssumption DEF Levels
  <2> QED  BY <1>3, <2>1 DEF S
<1> QED  BY <1>4, <1>5 DEF top

\* dealloc () gives a block back: what was tiled stays tiled.
LEMMA DeallocFacts ==
    ASSUME NEW bb, NEW A, BuddyInv(bb, A), NEW off, NEW l, <<off, l>> \in A
    PROVE  BuddyInv(Dealloc(bb, off, l), A \ {<<off, l>>}) /\ Dealloc(bb, off, l).tot = bb.tot
<1> DEFINE top == JoinLevel(bb, off, l)
           b2  == Dealloc(bb, off, l)
           q   == [j \in l..top |-> off \div Size(j)]
           RU  == {<<off, l>>}
           RF  == {<<BuddyOf(q[j]) * Size(j), j>> : j \in l..(top - 1)}
           NF  == {<<q[top] * Size(top), top>>}
<1>0. /\ bb \in [tot : Nat, free : [Levels -> SUBSET Nat]] /\ BuddyTypes(bb, A)
      /\ Tiles(A, FreeBlocks(bb), bb.tot) /\ Apart(bb)
    BY DEF BuddyInv, BuddyTypes
<1>1. PICK p0 \in Nat : off = p0 * Size(l) /\ l \in Levels
  <2>1. PICK p0 \in Nat, l0 \in Levels : <<off, l>> = <<p0 * Size(l0), l0>>
    BY <1>0 DEF BuddyTypes
  <2> QED  BY <2>1
<1>2. /\ top \in Levels /\ l <= top
      /\ top = LogMax \/ BuddyOf(off \div Size(top)) \notin bb.free[top]
      /\ \A j \in l..(top - 1) : BuddyOf(off \div Size(j)) \in bb.free[j]
    BY <1>1, JoinFacts
<1>3. b2 = [bb EXCEPT !.free =
              [j \in Levels |->
                 CASE j = top            -> @[j] \cup {off \div Size(j)}
                   [] j >= l /\ j < top  -> @[j] \ {BuddyOf(off \div Size(j))}
                   [] OTHER              -> @[j]]]
    BY DEF Dealloc
<1> HIDE DEF top, b2
<1>4. l \in Nat /\ top \in Nat /\ l..top \subseteq Levels /\ off \in Nat
    BY <1>1, <1>2, LevelNat, BuddyAssumption DEF Levels
<1>5. \A j \in l..top : j \in Nat /\ Size(j) \in Nat /\ q[j] = off \div Size(j) /\ q[j] \in Nat
    BY <1>4, LevelNat, DivFacts
<1>6. ASSUME NEW j \in l..(top - 1)
      PROVE  /\ j \in l..top /\ j + 1 \in l..top
             /\ q[j] = 2 * q[j + 1] \/ q[j] = 2 * q[j + 1] + 1
             /\ BuddyOf(q[j]) \in Nat /\ j \in Levels /\ q[j] = off \div Size(j)
             /\ BuddyOf(q[j]) \in bb.free[j]
  <2>1. j \in l..top /\ j + 1 \in l..top /\ j \in Nat
    BY <1>4
  <2>2. Size(j + 1) = 2 * Size(j) /\ Size(j) \in Nat /\ Size(j) >= 1
    BY <2>1, SizeFacts
  <2>3. q[j] = off \div Size(j) /\ q[j + 1] = off \div (2 * Size(j))
    BY <1>5, <2>1, <2>2
  <2>4. q[j] = 2 * q[j + 1] \/ q[j] = 2 * q[j + 1] + 1
    BY <1>4, <2>2, <2>3, DivHalf
  <2>5. BuddyOf(q[j]) \in Nat
    BY <1>5, <2>1, BuddyTwice
  <2> QED  BY <1>2, <1>4, <2>1, <2>3, <2>4, <2>5
<1>7. q[l] * Size(l) = off
  <2>1. Size(l) \in Nat /\ Size(l) >= 1 /\ p0 * Size(l) \in Nat
    BY <1>1, LevelNat
  <2>2. off \div Size(l) = p0
    BY <1>1, <2>1, DivUnique
  <2>3. l \in l..top
    BY <1>2, <1>4
  <2> QED  BY <1>1, <1>5, <2>2, <2>3
<1>71. top \in l..top /\ q[top] \in Nat /\ q[top] = off \div Size(top)
  <2>1. top \in l..top
    BY <1>2, <1>4
  <2> QED  BY <1>5, <2>1
<1>72. q \in [l..top -> Nat]
    BY <1>5
<1> HIDE DEF q
<1>8. IsChain(q, l, top)
    BY <1>6, <1>72 DEF IsChain
<1>10. /\ b2 \in [tot : Nat, free : [Levels -> SUBSET Nat]] /\ b2.tot = bb.tot
       /\ \A j \in Levels : b2.free[j] =
               CASE j = top            -> bb.free[j] \cup {off \div Size(j)}
                 [] j >= l /\ j < top  -> bb.free[j] \ {BuddyOf(off \div Size(j))}
                 [] OTHER              -> bb.free[j]
  <2>1. \A j \in Levels : off \div Size(j) \in Nat
    BY <1>4, LevelNat, DivFacts
  <2> QED  BY <1>0, <1>3, <2>1
<1>101. b2.free[top] = bb.free[top] \cup {q[top]}
  <2>1. ~(top < top)
    BY <1>4
  <2> QED  BY <1>2, <1>10, <1>71, <2>1
<1>102. ASSUME NEW j \in l..(top - 1) PROVE b2.free[j] = bb.free[j] \ {BuddyOf(q[j])}
  <2>1. j >= l /\ j < top /\ j # top
    BY <1>4
  <2> QED  BY <1>6, <1>10, <2>1
<1>103. ASSUME NEW j \in Levels, j # top, j \notin l..(top - 1) PROVE b2.free[j] = bb.free[j]
  <2>1. j \in Nat
    BY LevelNat
  <2>2. ~(j >= l /\ j < top)
    BY <1>4, <1>103, <2>1
  <2> QED  BY <1>10, <1>103, <2>2
<1>11. \A j \in Levels, p \in Nat :
         p \in b2.free[j] <=> \/ p \in bb.free[j] /\ <<p * Size(j), j>> \notin RF
                              \/ <<p * Size(j), j>> \in NF
  <2> SUFFICES ASSUME NEW j \in Levels, NEW p \in Nat
               PROVE  p \in b2.free[j] <=> \/ p \in bb.free[j] /\ <<p * Size(j), j>> \notin RF
                                           \/ <<p * Size(j), j>> \in NF
    OBVIOUS
  <2>1. <<p * Size(j), j>> \in NF <=> j = top /\ p = q[top]
    BY <1>2, <1>71, LevelNat, MulInj
  <2>2. <<p * Size(j), j>> \in RF <=> j \in l..(top - 1) /\ p = BuddyOf(q[j])
    <3>1. ASSUME <<p * Size(j), j>> \in RF PROVE j \in l..(top - 1) /\ p = BuddyOf(q[j])
      <4>1. PICK i \in l..(top - 1) : <<p * Size(j), j>> = <<BuddyOf(q[i]) * Size(i), i>>
        BY <3>1
      <4>2. i = j /\ p * Size(j) = BuddyOf(q[j]) * Size(j)
        BY <4>1
      <4>3. p = BuddyOf(q[j])
        BY <1>6, <4>1, <4>2, LevelNat, MulInj
      <4> QED  BY <4>1, <4>2, <4>3
    <3>2. ASSUME j \in l..(top - 1), p = BuddyOf(q[j]) PROVE <<p * Size(j), j>> \in RF
      BY <3>2
    <3> QED  BY <3>1, <3>2
  <2>3. top \notin l..(top - 1)
    BY <1>4
  <2> HIDE DEF RF, NF
  <2>4. CASE j = top
    BY <1>101, <2>1, <2>2, <2>3, <2>4
  <2>5. CASE j \in l..(top - 1)
    BY <1>102, <2>1, <2>2, <2>3, <2>5
  <2>6. CASE j # top /\ j \notin l..(top - 1)
    BY <1>103, <2>1, <2>2, <2>6
  <2> QED  BY <2>4, <2>5, <2>6
<1>12. \A b \in RF \cup NF : \E p \in Nat, j \in Levels : b = <<p * Size(j), j>>
    BY <1>2, <1>6, <1>71
<1>13. FreeBlocks(b2) = (FreeBlocks(bb) \ RF) \cup NF
  <2> HIDE DEF RF, NF
  <2>1. Differ(bb, b2, RF, NF)
    BY <1>11, <1>12, Zenon DEF Differ
  <2> QED  BY <1>0, <1>10, <2>1, FreeBlocksDiffer
<1>14. RF \subseteq FreeBlocks(bb)
    BY <1>0, <1>6, FreeBlock
<1>15. \A u : (\E b \in {} \cup NF : In(u, b)) <=> u \in Blk(q[top], top)
    BY InBlk
<1>16. \A u : In(u, <<off, l>>) <=> u \in Blk(q[l], l)
    BY <1>7, InBlk
<1>17. \A u : \A j \in l..(top - 1) :
          In(u, <<BuddyOf(q[j]) * Size(j), j>>) <=> u \in Blk(BuddyOf(q[j]), j)
    BY InBlk
<1>18. \A u : (\E b \in RU \cup RF : In(u, b)) <=> (\E b \in {} \cup NF : In(u, b))
  <2>1. \A u : u \in Blk(q[top], top)
             <=> u \in Blk(q[l], l) \/ \E j \in l..(top - 1) : u \in Blk(BuddyOf(q[j]), j)
    BY <1>2, <1>4, <1>8, ChainUnits
  <2> QED  BY <1>15, <1>16, <1>17, <2>1
<1>20. \A b, c \in {} \cup NF : \A u : In(u, b) /\ In(u, c) => b = c
    OBVIOUS
<1>21. \A b \in {} \cup NF : \E u : In(u, b)
    BY <1>4, <1>71, InBlk, NonEmpty
<1>23. Tiles((A \ RU) \cup {}, (FreeBlocks(bb) \ RF) \cup NF, bb.tot)
  <2>1. RU \subseteq A /\ {} \cap NF = {}
    OBVIOUS
  <2> HIDE DEF RU, RF, NF
  <2> QED  BY <1>0, <1>14, <1>18, <1>20, <1>21, <2>1, Retile
<1>24. Tiles(A \ RU, FreeBlocks(b2), b2.tot)
  <2> HIDE DEF RU, RF, NF
  <2>1. (A \ RU) \cup {} = A \ RU
    OBVIOUS
  <2> QED  BY <1>10, <1>13, <1>23, <2>1, Zenon
<1>25. BuddyTypes(b2, A \ RU)
    BY <1>0, <1>10 DEF BuddyTypes
<1>26. Apart(b2)
  <2> SUFFICES ASSUME NEW j \in Levels \ {LogMax}, NEW p \in b2.free[j], BuddyOf(p) \in b2.free[j]
               PROVE  FALSE
    BY DEF Apart
  <2>0. p \in Nat /\ BuddyOf(p) # p /\ BuddyOf(BuddyOf(p)) = p
    BY <1>10, BuddyTwice
  <2>1. CASE j = top
    <3>1. BuddyOf(q[top]) \notin bb.free[top]
      BY <1>2, <1>71, <2>1
    <3>2. p \in bb.free[top] \cup {q[top]} /\ BuddyOf(p) \in bb.free[top] \cup {q[top]}
      BY <1>101, <2>1
    <3>3. p \in bb.free[top] /\ BuddyOf(p) \in bb.free[top]
      BY <2>0, <3>1, <3>2
    <3> QED  BY <1>0, <2>1, <3>3 DEF Apart
  <2>2. CASE j \in l..(top - 1)
    <3>1. b2.free[j] \subseteq bb.free[j]
      BY <1>102, <2>2
    <3> QED  BY <1>0, <3>1 DEF Apart
  <2>3. CASE j # top /\ j \notin l..(top - 1)
    <3>1. b2.free[j] = bb.free[j]
      BY <1>103, <2>3
    <3> QED  BY <1>0, <3>1 DEF Apart
  <2> QED  BY <2>1, <2>2, <2>3
<1> QED  BY <1>10, <1>24, <1>25, <1>26 DEF BuddyInv, b2

\* settotsize (): the new blocks of the largest size lie behind all others.
LEMMA SettotsizeFacts ==
    ASSUME NEW bb, NEW A, BuddyInv(bb, A), NEW ts \in Nat, bb.tot <= ts
    PROVE  /\ BuddyInv(Settotsize(bb, ts), A)
           /\ Settotsize(bb, ts).tot <= ts /\ bb.tot <= Settotsize(bb, ts).tot
<1> DEFINE M  == MaxBuf
           m  == bb.tot \div M
           n  == ts \div M
           b2 == Settotsize(bb, ts)
           NF == {<<p * Size(LogMax), LogMax>> : p \in m..(n - 1)}
<1>0. /\ bb \in [tot : Nat, free : [Levels -> SUBSET Nat]] /\ BuddyTypes(bb, A)
      /\ Tiles(A, FreeBlocks(bb), bb.tot) /\ Apart(bb)
    BY DEF BuddyInv, BuddyTypes
<1>1. M \in Nat /\ M >= 1 /\ LogMax \in Levels /\ LogMax \in Nat /\ M = Size(LogMax)
  <2>1. LogMax \in Levels
    BY BuddyAssumption DEF Levels
  <2> QED  BY <2>1, BuddyAssumption, LevelNat DEF MaxBuf
<1>2. b2 = [tot |-> n * M, free |-> [bb.free EXCEPT ![LogMax] = @ \cup m..(n - 1)]]
    BY DEF Settotsize
<1> HIDE DEF M, b2
<1>3. bb.tot = m * M /\ m \in Nat /\ bb.tot \in Nat
  <2>1. PICK m0 \in Nat : bb.tot = m0 * M
    BY <1>0 DEF BuddyTypes, M
  <2>2. m0 * M \in Nat
    BY <1>1
  <2>3. m = m0
    BY <1>1, <2>1, <2>2, DivUnique
  <2> QED  BY <2>1, <2>2, <2>3
<1>4. n \in Nat /\ n * M <= ts /\ ts < n * M + M
    BY <1>1, DivFacts
<1> HIDE DEF m, n
<1>5. m * M <= n * M /\ m * M \in Nat /\ n * M \in Nat
  <2>1. m * M \in Nat /\ n * M \in Nat
    BY <1>1, <1>3, <1>4
  <2>2. ~(n < m)
    <3>1. n < m => n * M + M <= m * M
      BY <1>1, <1>3, <1>4, MulStep
    <3> QED  BY <1>1, <1>3, <1>4, <2>1, <3>1
  <2>3. m < n => m * M + M <= n * M
    BY <1>1, <1>3, <1>4, MulStep
  <2> QED  BY <1>1, <1>3, <1>4, <2>1, <2>2, <2>3
<1>6. /\ b2 \in [tot : Nat, free : [Levels -> SUBSET Nat]] /\ b2.tot = n * M
      /\ b2.free[LogMax] = bb.free[LogMax] \cup m..(n - 1)
      /\ \A l \in Levels \ {LogMax} : b2.free[l] = bb.free[l]
  <2>1. m..(n - 1) \subseteq Nat
    BY <1>3, <1>4
  <2> QED  BY <1>0, <1>1, <1>2, <1>5, <2>1
<1>7. ASSUME NEW p \in m..(n - 1), NEW u
      PROVE  /\ p \in Nat /\ p * M \in Nat /\ m * M <= p * M /\ p * M + M <= n * M
             /\ In(u, <<p * Size(LogMax), LogMax>>) <=> u \in Nat /\ p * M <= u /\ u < p * M + M
  <2>1. p \in Nat /\ m <= p /\ p < n
    BY <1>3, <1>4
  <2>2. p * M \in Nat /\ p * M + M <= n * M
    BY <1>1, <1>4, <2>1, MulStep
  <2>3. m < p => m * M + M <= p * M
    BY <1>1, <1>3, <2>1, MulStep
  <2>4. m * M <= p * M
    BY <1>1, <1>3, <1>5, <2>1, <2>2, <2>3
  <2>5. In(u, <<p * Size(LogMax), LogMax>>) <=> u \in Nat /\ p * M <= u /\ u < p * M + M
    BY <1>1, <2>1, InBlk, BlkUnits
  <2> QED  BY <2>1, <2>2, <2>4, <2>5
<1>8. FreeBlocks(b2) = FreeBlocks(bb) \cup NF
  <2>1. \A b \in {} \cup NF : \E p \in Nat, l \in Levels : b = <<p * Size(l), l>>
    BY <1>1, <1>7
  <2>2. ASSUME NEW l \in Levels, NEW p \in Nat
        PROVE  p \in b2.free[l] <=> \/ p \in bb.free[l] /\ <<p * Size(l), l>> \notin {}
                                    \/ <<p * Size(l), l>> \in NF
    <3>1. <<p * Size(l), l>> \in NF <=> l = LogMax /\ p \in m..(n - 1)
      <4>1. ASSUME <<p * Size(l), l>> \in NF PROVE l = LogMax /\ p \in m..(n - 1)
        <5>1. PICK r \in m..(n - 1) : <<p * Size(l), l>> = <<r * Size(LogMax), LogMax>>
          BY <4>1
        <5>2. l = LogMax /\ p * M = r * M /\ r \in Nat
          BY <1>1, <1>7, <5>1
        <5>3. p = r
          BY <1>1, <5>2, MulInj
        <5> QED  BY <5>2, <5>3
      <4>2. ASSUME l = LogMax, p \in m..(n - 1) PROVE <<p * Size(l), l>> \in NF
        BY <4>2
      <4> QED  BY <4>1, <4>2
    <3> HIDE DEF NF
    <3>2. CASE l = LogMax
      BY <1>6, <3>1, <3>2
    <3>3. CASE l # LogMax
      BY <1>6, <3>1, <3>3
    <3> QED  BY <3>2, <3>3
  <2> HIDE DEF NF
  <2>3. FreeBlocks(b2) = (FreeBlocks(bb) \ {}) \cup NF
    <3>1. Differ(bb, b2, {}, NF)
      BY <2>1, <2>2, Zenon DEF Differ
    <3> QED  BY <1>0, <1>6, <3>1, FreeBlocksDiffer
  <2> QED  BY <2>3
<1>9. ASSUME NEW b \in A \cup FreeBlocks(bb), NEW u, In(u, b) PROVE u \in Nat /\ u < m * M
  <2>1. u \in 0..(bb.tot - 1)
    BY <1>0, <1>9 DEF Tiles
  <2> QED  BY <1>3, <2>1
<1>10. \A u \in 0..(n * M - 1) : \E b \in A \cup FreeBlocks(bb) \cup NF : In(u, b)
  <2> SUFFICES ASSUME NEW u \in 0..(n * M - 1)
               PROVE  \E b \in A \cup FreeBlocks(bb) \cup NF : In(u, b)
    OBVIOUS
  <2>0. u \in Nat /\ u < n * M
    BY <1>5
  <2>1. CASE u < m * M
    <3>1. u \in 0..(bb.tot - 1)
      BY <1>3, <2>0, <2>1
    <3> QED  BY <1>0, <3>1 DEF Tiles
  <2>2. CASE ~(u < m * M)
    <3> DEFINE p == u \div M
    <3>1. p \in Nat /\ p * M <= u /\ u < p * M + M
      BY <1>1, <2>0, DivFacts
    <3> HIDE DEF p
    <3>2. p * M \in Nat
      BY <1>1, <3>1
    <3>3. p < m => p * M + M <= m * M
      BY <1>1, <1>3, <3>1, MulStep
    <3>4. n < p => n * M + M <= p * M
      BY <1>1, <1>4, <3>1, MulStep
    <3>5. ASSUME p = n PROVE FALSE
      <4>1. p * M = n * M
        BY <3>5
      <4> QED  BY <1>5, <2>0, <3>1, <4>1
    <3>6. p \in m..(n - 1)
      BY <1>1, <1>3, <1>4, <1>5, <2>0, <2>2, <3>1, <3>2, <3>3, <3>4, <3>5
    <3>7. In(u, <<p * Size(LogMax), LogMax>>)
      BY <1>7, <2>0, <3>1, <3>6
    <3> QED  BY <3>6, <3>7
  <2> QED  BY <2>1, <2>2
<1>11. ASSUME NEW p \in m..(n - 1), NEW r \in m..(n - 1), NEW u,
              In(u, <<p * Size(LogMax), LogMax>>), In(u, <<r * Size(LogMax), LogMax>>)
       PROVE  p = r
  <2>1. /\ p \in Nat /\ p * M \in Nat /\ u \in Nat /\ p * M <= u /\ u < p * M + M
        /\ r \in Nat /\ r * M \in Nat /\ r * M <= u /\ u < r * M + M
    BY <1>7, <1>11
  <2>2. ~(p < r) /\ ~(r < p)
    BY <1>1, <2>1, MulStep
  <2> QED  BY <2>1, <2>2
<1>12. ASSUME NEW b \in A \cup FreeBlocks(bb), NEW c \in NF, NEW u, In(u, b), In(u, c) PROVE FALSE
  <2>1. PICK p \in m..(n - 1) : c = <<p * Size(LogMax), LogMax>>
    OBVIOUS
  <2>2. u \in Nat /\ p * M \in Nat /\ m * M <= p * M /\ p * M <= u
    BY <1>7, <1>12, <2>1
  <2> QED  BY <1>5, <1>9, <1>12, <2>2
<1>13. ASSUME NEW b \in NF, NEW u, In(u, b) PROVE u \in 0..(n * M - 1)
  <2>1. PICK p \in m..(n - 1) : b = <<p * Size(LogMax), LogMax>>
    OBVIOUS
  <2>2. p * M \in Nat /\ p * M + M <= n * M /\ u \in Nat /\ u < p * M + M
    BY <1>7, <1>13, <2>1
  <2> QED  BY <1>1, <1>5, <2>2
<1>14. Tiles(A, FreeBlocks(bb) \cup NF, n * M)
  <2>1. \A b \in A \cup FreeBlocks(bb) : \A u : In(u, b) => u \in 0..(n * M - 1)
    BY <1>5, <1>9
  <2>2. \A b, c \in A \cup FreeBlocks(bb) : \A u : In(u, b) /\ In(u, c) => b = c
    BY <1>0 DEF Tiles
  <2>3. \A b, c \in NF : \A u : In(u, b) /\ In(u, c) => b = c
    BY <1>11
  <2>4. \A b \in NF : \E u : In(u, b)
    BY <1>1, <1>7, InBlk, NonEmpty
  <2>5. A \cap FreeBlocks(bb) = {}
    BY <1>0 DEF Tiles
  <2> HIDE DEF NF
  <2>6. A \cap NF = {}
    BY <1>12, <2>4
  <2>7. \A b, c \in A \cup (FreeBlocks(bb) \cup NF) : \A u : In(u, b) /\ In(u, c) => b = c
    BY <1>12, <2>2, <2>3
  <2> QED  BY <1>10, <1>13, <2>1, <2>5, <2>6, <2>7, Zenon DEF Tiles
<1>15. BuddyTypes(b2, A)
    BY <1>0, <1>4, <1>6 DEF BuddyTypes, M
<1>16. Apart(b2)
    BY <1>0, <1>6 DEF Apart
<1>17. BuddyInv(b2, A)
    BY <1>6, <1>8, <1>14, <1>15, <1>16, Zenon DEF BuddyInv
<1> QED  BY <1>3, <1>4, <1>5, <1>6, <1>17 DEF b2

\* b2 has one block of level k less than bb, and one more of each level from
\* l to k - 1, where bb has none.
Splits(bb, b2, l, k) ==
    /\ k \in Levels /\ l <= k /\ bb.free[k] # {}
    /\ \E pos \in bb.free[k] : b2.free[k] = bb.free[k] \ {pos}
    /\ \A j \in Levels : j >= l /\ j < k => bb.free[j] = {} /\ \E x : b2.free[j] = {x}
    /\ \A j \in Levels : j # k /\ ~(j >= l /\ j < k) => b2.free[j] = bb.free[j]

\* alloc () makes nothing free but parts of the block it takes.
LEMMA AllocBits ==
    ASSUME NEW bb, bb \in [tot : Nat, free : [Levels -> SUBSET Nat]], NEW l \in Levels,
           CanAlloc(bb, l)
    PROVE  \E k : Splits(bb, Alloc(bb, l), l, k)
<1> DEFINE k   == Taken(bb, l)[1]
           pos == Taken(bb, l)[2]
           b2  == Alloc(bb, l)
<1>1. /\ k \in Levels /\ l <= k /\ pos \in bb.free[k] /\ pos \in Nat
      /\ \A j \in l..(k - 1) : bb.free[j] = {}
    BY TakenFacts
<1>2. b2 = [bb EXCEPT !.free =
                [j \in Levels |->
                   CASE j = k             -> @[j] \ {pos}
                     [] j >= l /\ j < k   -> @[j] \cup {pos * Size(k - j) + 1}
                     [] OTHER             -> @[j]]]
    BY DEF Alloc
<1> HIDE DEF k, pos, b2
<1>3. \A j \in Levels : b2.free[j] =
               CASE j = k             -> bb.free[j] \ {pos}
                 [] j >= l /\ j < k   -> bb.free[j] \cup {pos * Size(k - j) + 1}
                 [] OTHER             -> bb.free[j]
    BY <1>2
<1>4. k \in Nat /\ l \in Nat /\ \A j \in Levels : j \in Nat
    BY <1>1, LevelNat
<1>5. b2.free[k] = bb.free[k] \ {pos}
  <2>1. ~(k < k)
    BY <1>4
  <2> QED  BY <1>1, <1>3, <2>1
<1>6. ASSUME NEW j \in Levels, j >= l, j < k PROVE bb.free[j] = {} /\ \E x : b2.free[j] = {x}
  <2>1. j \in l..(k - 1) /\ j # k
    BY <1>4, <1>6
  <2>2. bb.free[j] = {} /\ b2.free[j] = bb.free[j] \cup {pos * Size(k - j) + 1}
    BY <1>1, <1>3, <1>6, <2>1
  <2>3. b2.free[j] = {pos * Size(k - j) + 1}
    BY <2>2
  <2> QED  BY <2>2, <2>3
<1>7. ASSUME NEW j \in Levels, j # k, ~(j >= l /\ j < k) PROVE b2.free[j] = bb.free[j]
    BY <1>3, <1>7
<1>8. Splits(bb, b2, l, k)
    BY <1>1, <1>5, <1>6, <1>7 DEF Splits
<1> QED  BY <1>8 DEF b2

\* A block can be had where a larger or an equal one is free.
LEMMA CanAllocIff ==
    ASSUME NEW bb, NEW l \in Levels
    PROVE  CanAlloc(bb, l) <=> \E j \in Levels : j >= l /\ bb.free[j] # {}
<1>1. l..LogMax = {j \in Levels : j >= l}
    BY BuddyAssumption DEF Levels
<1> QED  BY <1>1 DEF CanAlloc, Found

\* What can be had after alloc () could be had before.
LEMMA AllocLess ==
    ASSUME NEW bb, bb \in [tot : Nat, free : [Levels -> SUBSET Nat]], NEW l \in Levels,
           CanAlloc(bb, l), NEW m \in Levels, CanAlloc(Alloc(bb, l), m)
    PROVE  CanAlloc(bb, m)
<1> DEFINE b2 == Alloc(bb, l)
<1>a. PICK k : Splits(bb, b2, l, k)
    BY AllocBits
<1>1. /\ k \in Levels /\ l <= k /\ bb.free[k] # {}
      /\ \E pos \in bb.free[k] : b2.free[k] = bb.free[k] \ {pos}
      /\ \A j \in Levels : j >= l /\ j < k => bb.free[j] = {} /\ \E x : b2.free[j] = {x}
      /\ \A j \in Levels : j # k /\ ~(j >= l /\ j < k) => b2.free[j] = bb.free[j]
    BY <1>a DEF Splits
<1>2. PICK j \in Levels : j >= m /\ b2.free[j] # {}
    BY CanAllocIff
<1> HIDE DEF b2
<1>3. j \in Nat /\ k \in Nat /\ m \in Nat
    BY <1>1, LevelNat
<1>4. CASE j = k
    BY <1>1, <1>2, <1>4, CanAllocIff
<1>5. CASE j >= l /\ j < k
  <2>1. k >= m
    BY <1>2, <1>3, <1>5
  <2> QED  BY <1>1, <2>1, CanAllocIff
<1>6. CASE j # k /\ ~(j >= l /\ j < k)
  <2>1. b2.free[j] = bb.free[j]
    BY <1>1, <1>6
  <2> QED  BY <1>2, <2>1, CanAllocIff
<1> QED  BY <1>4, <1>5, <1>6

\* Two units are free: in a block of two or more, or in two blocks.
Roomy(bb) ==
    \/ \E j \in Levels : j >= 1 /\ bb.free[j] # {}
    \/ \E p, q \in bb.free[0] : p # q

\* After one unit is taken there is another one exactly if there were two.
LEMMA TwoUnits ==
    ASSUME NEW bb, bb \in [tot : Nat, free : [Levels -> SUBSET Nat]], CanAlloc(bb, 0)
    PROVE  CanAlloc(Alloc(bb, 0), 0) <=> Roomy(bb)
<1> DEFINE b2 == Alloc(bb, 0)
<1>0. 0 \in Levels /\ \A j \in Levels : j \in Nat /\ j >= 0
    BY BuddyAssumption, LevelNat DEF Levels
<1>a. PICK k : Splits(bb, b2, 0, k)
    BY <1>0, AllocBits
<1>1. /\ k \in Levels /\ 0 <= k /\ bb.free[k] # {}
      /\ \E pos \in bb.free[k] : b2.free[k] = bb.free[k] \ {pos}
      /\ \A j \in Levels : j >= 0 /\ j < k => bb.free[j] = {} /\ \E x : b2.free[j] = {x}
      /\ \A j \in Levels : j # k /\ ~(j >= 0 /\ j < k) => b2.free[j] = bb.free[j]
    BY <1>a DEF Splits
<1>11. CanAlloc(b2, 0) <=> \E j \in Levels : j >= 0 /\ b2.free[j] # {}
    BY <1>0, CanAllocIff
<1> HIDE DEF b2
<1>2. CASE k = 0
  <2>1. PICK pos \in bb.free[0] : b2.free[0] = bb.free[0] \ {pos}
    BY <1>1, <1>2
  <2>2. ASSUME NEW j \in Levels, j >= 1 PROVE b2.free[j] = bb.free[j]
    <3>1. j # k /\ ~(j < k)
      BY <1>0, <1>2, <2>2
    <3> QED  BY <1>1, <3>1
  <2>3. \A j \in Levels : j = 0 \/ j >= 1
    BY <1>0
  <2>4. ASSUME Roomy(bb) PROVE CanAlloc(b2, 0)
    <3>1. CASE \E j \in Levels : j >= 1 /\ bb.free[j] # {}
      BY <1>0, <1>11, <2>2, <3>1
    <3>2. CASE \E p, q \in bb.free[0] : p # q
      <4>1. b2.free[0] # {}
        BY <2>1, <3>2
      <4> QED  BY <1>0, <1>11, <4>1
    <3> QED  BY <2>4, <3>1, <3>2 DEF Roomy
  <2>5. ASSUME CanAlloc(b2, 0) PROVE Roomy(bb)
    <3>1. PICK j \in Levels : b2.free[j] # {}
      BY <1>11, <2>5
    <3>2. CASE j = 0
      BY <2>1, <3>1, <3>2 DEF Roomy
    <3>3. CASE j >= 1
      BY <2>2, <3>1, <3>3 DEF Roomy
    <3> QED  BY <2>3, <3>2, <3>3
  <2> QED  BY <2>4, <2>5 DEF b2
<1>3. CASE k # 0
  <2>1. k >= 1 /\ 0 < k
    BY <1>0, <1>1, <1>3
  <2>2. Roomy(bb)
    BY <1>1, <2>1 DEF Roomy
  <2>3. b2.free[0] # {}
    BY <1>0, <1>1, <2>1
  <2> QED  BY <1>0, <1>11, <2>2, <2>3 DEF b2
<1> QED  BY <1>2, <1>3

\* Two units that are free after alloc () were free before, or in the block it took.
LEMMA AllocLessTwo ==
    ASSUME NEW bb, bb \in [tot : Nat, free : [Levels -> SUBSET Nat]], NEW l \in Levels,
           CanAlloc(bb, l), Roomy(Alloc(bb, l))
    PROVE  Roomy(bb)
<1> DEFINE b2 == Alloc(bb, l)
<1>0. 0 \in Levels /\ \A j \in Levels : j \in Nat /\ j >= 0
    BY BuddyAssumption, LevelNat DEF Levels
<1>a. PICK k : Splits(bb, b2, l, k)
    BY AllocBits
<1>1. /\ k \in Levels /\ l <= k /\ bb.free[k] # {}
      /\ \E pos \in bb.free[k] : b2.free[k] = bb.free[k] \ {pos}
      /\ \A j \in Levels : j >= l /\ j < k => bb.free[j] = {} /\ \E x : b2.free[j] = {x}
      /\ \A j \in Levels : j # k /\ ~(j >= l /\ j < k) => b2.free[j] = bb.free[j]
    BY <1>a DEF Splits
<1>2. Roomy(b2)
    OBVIOUS
<1> HIDE DEF b2
<1>3. CASE k = 0
  <2>1. ASSUME NEW j \in Levels PROVE b2.free[j] \subseteq bb.free[j]
    <3>1. ~(j < k)
      BY <1>0, <1>3
    <3>2. CASE j = k
      BY <1>1, <3>2
    <3>3. CASE j # k
      BY <1>1, <3>1, <3>3
    <3> QED  BY <3>2, <3>3
  <2> QED  BY <1>0, <1>2, <2>1 DEF Roomy
<1>4. CASE k # 0
  <2>1. k >= 1
    BY <1>0, <1>1, <1>4
  <2> QED  BY <1>1, <2>1 DEF Roomy
<1> QED  BY <1>3, <1>4

-----------------------------------------------------------------------------
(***************************************************************************)
(* The client.  A handler is a function on client states: each of them, and*)
(* so any composition of them, maps the set Good into itself.              *)
(***************************************************************************)

\* n steps from k through the set K.
Trail(g, n, k, K, F) ==
    g \in [0..n -> K] /\ g[0] = k /\ \A i \in 1..n : g[i] = F[i][g[i - 1]]

\* There are n steps through a set that is closed under each of them.
LEMMA StepsExist ==
    ASSUME NEW K, NEW k \in K, NEW n \in Nat, NEW F, F \in [1..n -> [K -> K]]
    PROVE  \E g : Trail(g, n, k, K, F)
<1> DEFINE Upto(m) == \E g \in [0..m -> K] : g[0] = k /\ \A i \in 1..m : g[i] = F[i][g[i - 1]]
           Bad == {m \in 0..n : ~Upto(m)}
<1>0. Upto(n) => \E g : Trail(g, n, k, K, F)
    BY DEF Trail
<1>1. SUFFICES ASSUME Bad # {} PROVE FALSE
  <2> HIDE DEF Upto
  <2>1. n \in 0..n
    OBVIOUS
  <2> QED  BY <1>0, <1>1, <2>1
<1>2. PICK m \in Bad : \A j \in Bad : m <= j
  <2>1. Bad \subseteq Nat
    OBVIOUS
  <2> QED  BY <1>1, <2>1, LeastNat
<1>3. m # 0
  <2>1. Upto(0)
    <3>1. [i \in 0..0 |-> k] \in [0..0 -> K] /\ [i \in 0..0 |-> k][0] = k /\ 1..0 = {}
      OBVIOUS
    <3> QED  BY <3>1
  <2> QED  BY <1>2, <2>1
<1>4. m \in 1..n /\ m - 1 \in 0..n /\ ~(m <= m - 1)
    BY <1>2, <1>3
<1>5. PICK g \in [0..(m - 1) -> K] : g[0] = k /\ \A i \in 1..(m - 1) : g[i] = F[i][g[i - 1]]
  <2>1. m - 1 \notin Bad
    BY <1>2, <1>4
  <2>2. Upto(m - 1)
    BY <1>4, <2>1
  <2> QED  BY <2>2
<1> DEFINE h == [i \in 0..m |-> IF i = m THEN F[m][g[m - 1]] ELSE g[i]]
<1>6. h \in [0..m -> K]
  <2>1. g[m - 1] \in K /\ F[m] \in [K -> K]
    BY <1>4, <1>5
  <2>2. \A i \in 0..m : i # m => i \in 0..(m - 1)
    BY <1>4
  <2> QED  BY <2>1, <2>2
<1>7. h[0] = k
    BY <1>4, <1>5
<1>8. ASSUME NEW i \in 1..m PROVE h[i] = F[i][h[i - 1]]
  <2>1. i \in 0..m /\ i - 1 \in 0..m /\ i - 1 # m
    BY <1>4
  <2>2. CASE i = m
    BY <2>1, <2>2
  <2>3. CASE i # m
    <3>1. i \in 1..(m - 1)
      BY <1>4, <2>3
    <3> QED  BY <1>5, <2>1, <2>3, <3>1
  <2> QED  BY <2>2, <2>3
<1>9. Upto(m)
    BY <1>6, <1>7, <1>8
<1> QED  BY <1>2, <1>9

\* What holds of the first and is kept from each to the next holds of the last.
LEMMA StepsStay ==
    ASSUME NEW K, NEW n \in Nat, NEW f, f[0] \in K, \A i \in 1..n : f[i - 1] \in K => f[i] \in K
    PROVE  f[n] \in K
<1> DEFINE Bad == {m \in 0..n : f[m] \notin K}
<1>1. SUFFICES ASSUME Bad # {} PROVE FALSE
  <2>1. n \in 0..n
    OBVIOUS
  <2> QED  BY <1>1, <2>1
<1>2. PICK m \in Bad : \A j \in Bad : m <= j
  <2>1. Bad \subseteq Nat
    OBVIOUS
  <2> QED  BY <1>1, <2>1, LeastNat
<1>3. m \in 1..n /\ m - 1 \in 0..n /\ ~(m <= m - 1)
    BY <1>2
<1> QED  BY <1>2, <1>3

\* The waiters run, each from what the one before left.
LEMMA RunOpAll ==
    ASSUME NEW K, NEW W, NEW k \in K, NEW ws \in Seq(W), \A x \in K, w \in W : RunOp(x, w) \in K
    PROVE  Steps(RunOp, k, ws) \in K
<1> DEFINE n == Len(ws)
           Body(g) == [i \in 0..n |-> IF i = 0 THEN k ELSE RunOp(g[i - 1], ws[i])]
           F == [i \in 1..n |-> [x \in K |-> RunOp(x, ws[i])]]
           f == CHOOSE g : g = Body(g)
<1>1. n \in Nat /\ \A i \in 1..n : ws[i] \in W
    OBVIOUS
<1>2. Steps(RunOp, k, ws) = f[n]
    BY DEF Steps
<1> HIDE DEF n
<1>3. F \in [1..n -> [K -> K]]
    BY <1>1
<1>4. PICK g : Trail(g, n, k, K, F)
  <2> HIDE DEF F
  <2> QED  BY <1>1, <1>3, StepsExist
<1>5. \A i \in 1..n : g[i] = RunOp(g[i - 1], ws[i])
  <2>1. \A i \in 1..n : i - 1 \in 0..n
    BY <1>1
  <2> QED  BY <1>4, <2>1 DEF Trail
<1>6. g = Body(g)
    BY <1>1, <1>4, <1>5 DEF Trail
<1>7. f = Body(f)
  <2> HIDE DEF Body
  <2> QED  BY <1>6
<1> HIDE DEF f
<1>8. f[0] = k /\ \A i \in 1..n : f[i] = RunOp(f[i - 1], ws[i])
    BY <1>1, <1>7
<1>9. \A i \in 1..n : f[i - 1] \in K => f[i] \in K
    BY <1>1, <1>8
<1>10. f[n] \in K
    BY <1>1, <1>8, <1>9, StepsStay
<1> QED  BY <1>2, <1>10

\* The rounds of bufwake ().
LEMMA RoundAll ==
    ASSUME NEW K, NEW W, NEW k \in K, NEW ws \in Seq(W), \A x \in K, w \in W : Round(x, w) \in K
    PROVE  Steps(Round, k, ws) \in K
<1> DEFINE n == Len(ws)
           Body(g) == [i \in 0..n |-> IF i = 0 THEN k ELSE Round(g[i - 1], ws[i])]
           F == [i \in 1..n |-> [x \in K |-> Round(x, ws[i])]]
           f == CHOOSE g : g = Body(g)
<1>1. n \in Nat /\ \A i \in 1..n : ws[i] \in W
    OBVIOUS
<1>2. Steps(Round, k, ws) = f[n]
    BY DEF Steps
<1> HIDE DEF n
<1>3. F \in [1..n -> [K -> K]]
    BY <1>1
<1>4. PICK g : Trail(g, n, k, K, F)
  <2> HIDE DEF F
  <2> QED  BY <1>1, <1>3, StepsExist
<1>5. \A i \in 1..n : g[i] = Round(g[i - 1], ws[i])
  <2>1. \A i \in 1..n : i - 1 \in 0..n
    BY <1>1
  <2> QED  BY <1>4, <2>1 DEF Trail
<1>6. g = Body(g)
    BY <1>1, <1>4, <1>5 DEF Trail
<1>7. f = Body(f)
  <2> HIDE DEF Body
  <2> QED  BY <1>6
<1> HIDE DEF f
<1>8. f[0] = k /\ \A i \in 1..n : f[i] = Round(f[i - 1], ws[i])
    BY <1>1, <1>7
<1>9. \A i \in 1..n : f[i - 1] \in K => f[i] \in K
    BY <1>1, <1>8
<1>10. f[n] \in K
    BY <1>1, <1>8, <1>9, StepsStay
<1> QED  BY <1>2, <1>10

\* The callbacks of one request, in fail ().
LEMMA FailCbAll ==
    ASSUME NEW K, NEW W, NEW k \in K, NEW ws \in Seq(W), \A x \in K, w \in W : FailCb(x, w) \in K
    PROVE  Steps(FailCb, k, ws) \in K
<1> DEFINE n == Len(ws)
           Body(g) == [i \in 0..n |-> IF i = 0 THEN k ELSE FailCb(g[i - 1], ws[i])]
           F == [i \in 1..n |-> [x \in K |-> FailCb(x, ws[i])]]
           f == CHOOSE g : g = Body(g)
<1>1. n \in Nat /\ \A i \in 1..n : ws[i] \in W
    OBVIOUS
<1>2. Steps(FailCb, k, ws) = f[n]
    BY DEF Steps
<1> HIDE DEF n
<1>3. F \in [1..n -> [K -> K]]
    BY <1>1
<1>4. PICK g : Trail(g, n, k, K, F)
  <2> HIDE DEF F
  <2> QED  BY <1>1, <1>3, StepsExist
<1>5. \A i \in 1..n : g[i] = FailCb(g[i - 1], ws[i])
  <2>1. \A i \in 1..n : i - 1 \in 0..n
    BY <1>1
  <2> QED  BY <1>4, <2>1 DEF Trail
<1>6. g = Body(g)
    BY <1>1, <1>4, <1>5 DEF Trail
<1>7. f = Body(f)
  <2> HIDE DEF Body
  <2> QED  BY <1>6
<1> HIDE DEF f
<1>8. f[0] = k /\ \A i \in 1..n : f[i] = FailCb(f[i - 1], ws[i])
    BY <1>1, <1>7
<1>9. \A i \in 1..n : f[i - 1] \in K => f[i] \in K
    BY <1>1, <1>8
<1>10. f[n] \in K
    BY <1>1, <1>8, <1>9, StepsStay
<1> QED  BY <1>2, <1>10

\* The requests, in fail ().
LEMMA FailReqAll ==
    ASSUME NEW K, NEW W, NEW k \in K, NEW ws \in Seq(W), \A x \in K, w \in W : FailReq(x, w) \in K
    PROVE  Steps(FailReq, k, ws) \in K
<1> DEFINE n == Len(ws)
           Body(g) == [i \in 0..n |-> IF i = 0 THEN k ELSE FailReq(g[i - 1], ws[i])]
           F == [i \in 1..n |-> [x \in K |-> FailReq(x, ws[i])]]
           f == CHOOSE g : g = Body(g)
<1>1. n \in Nat /\ \A i \in 1..n : ws[i] \in W
    OBVIOUS
<1>2. Steps(FailReq, k, ws) = f[n]
    BY DEF Steps
<1> HIDE DEF n
<1>3. F \in [1..n -> [K -> K]]
    BY <1>1
<1>4. PICK g : Trail(g, n, k, K, F)
  <2> HIDE DEF F
  <2> QED  BY <1>1, <1>3, StepsExist
<1>5. \A i \in 1..n : g[i] = FailReq(g[i - 1], ws[i])
  <2>1. \A i \in 1..n : i - 1 \in 0..n
    BY <1>1
  <2> QED  BY <1>4, <2>1 DEF Trail
<1>6. g = Body(g)
    BY <1>1, <1>4, <1>5 DEF Trail
<1>7. f = Body(f)
  <2> HIDE DEF Body
  <2> QED  BY <1>6
<1> HIDE DEF f
<1>8. f[0] = k /\ \A i \in 1..n : f[i] = FailReq(f[i - 1], ws[i])
    BY <1>1, <1>7
<1>9. \A i \in 1..n : f[i - 1] \in K => f[i] \in K
    BY <1>1, <1>8
<1>10. f[n] \in K
    BY <1>1, <1>8, <1>9, StepsStay
<1> QED  BY <1>2, <1>10

\* The responses that input () has read.
LEMMA ResponseAll ==
    ASSUME NEW K, NEW W, NEW k \in K, NEW ws \in Seq(W), \A x \in K, w \in W : Response(x, w) \in K
    PROVE  Steps(Response, k, ws) \in K
<1> DEFINE n == Len(ws)
           Body(g) == [i \in 0..n |-> IF i = 0 THEN k ELSE Response(g[i - 1], ws[i])]
           F == [i \in 1..n |-> [x \in K |-> Response(x, ws[i])]]
           f == CHOOSE g : g = Body(g)
<1>1. n \in Nat /\ \A i \in 1..n : ws[i] \in W
    OBVIOUS
<1>2. Steps(Response, k, ws) = f[n]
    BY DEF Steps
<1> HIDE DEF n
<1>3. F \in [1..n -> [K -> K]]
    BY <1>1
<1>4. PICK g : Trail(g, n, k, K, F)
  <2> HIDE DEF F
  <2> QED  BY <1>1, <1>3, StepsExist
<1>5. \A i \in 1..n : g[i] = Response(g[i - 1], ws[i])
  <2>1. \A i \in 1..n : i - 1 \in 0..n
    BY <1>1
  <2> QED  BY <1>4, <2>1 DEF Trail
<1>6. g = Body(g)
    BY <1>1, <1>4, <1>5 DEF Trail
<1>7. f = Body(f)
  <2> HIDE DEF Body
  <2> QED  BY <1>6
<1> HIDE DEF f
<1>8. f[0] = k /\ \A i \in 1..n : f[i] = Response(f[i - 1], ws[i])
    BY <1>1, <1>7
<1>9. \A i \in 1..n : f[i - 1] \in K => f[i] \in K
    BY <1>1, <1>8
<1>10. f[n] \in K
    BY <1>1, <1>8, <1>9, StepsStay
<1> QED  BY <1>2, <1>10

-----------------------------------------------------------------------------
\* The calls, and 0 for none.
OptCalls == Calls \cup {None}

\* The waiters in bbwaitq.
Waiter ==
    {w \in [kind : {"path", "open", "rw", "close"}, call : OptCalls, f : OptCalls, l : Levels] :
        (w.kind # "path" => w.f \in Calls) /\ (w.kind = "open" => w.l = 0)}

\* The callbacks in rqtab.
Callbacks ==
    {w \in [kind : {"path", "open", "rw", "close", "grow1", "grow2"}, call : OptCalls,
            f : OptCalls, l : Levels] :
        w.kind \in {"open", "rw", "close"} => w.f \in Calls}

\* What shared memory holds.
Contents ==
    [op : {"nop", "file", "path", "open", "rw", "close"}, fh : Int, h : Nat, f : OptCalls,
     err : BOOLEAN]

\* An aiofh.
FhRec ==
    [st : {"none", "opening", "open", "gone"}, no : Nat, pos : Int, closed : BOOLEAN, left : Int]

\* What a call has got.
Answers == {"none", "pending", "err", "ok", "nothing"}

\* The types of the client.
Client ==
    [closed : BOOLEAN, grow : BOOLEAN, req : BOOLEAN,
     bb : [tot : Nat, free : [Levels -> SUBSET Nat]], bufs : SUBSET (Nat \X Levels), got : Int,
     mem : [Pos -> Contents], wait : Seq(Waiter), rqtab : [Pos -> Seq(Callbacks)],
     cq : Seq(Pos), rw : [Daemons -> Seq(Pos)], avail : Seq(Nat), ctr : Nat,
     fh : [Calls -> FhRec], ans : [Calls -> Answers],
     fault : SUBSET {"spin", "dangling", "nospace", "fatal"}]

\* The buffers that a waiter needs are free in bb.
FitsIn(bb, w) ==
    CASE w.kind = "path" -> CanAlloc(bb, w.l)
      [] w.kind = "open" -> CanAlloc(bb, 0) /\ CanAlloc(Alloc(bb, 0), w.l)
      [] OTHER           -> CanAlloc(bb, 0)

\* What waits lacks memory, unless bufwake () is still to come.
NobodyPassedOver(k) ==
    ~k.closed /\ ~k.req =>
      \A i \in 1..Len(k.wait) :
        /\ ~FitsIn(k.bb, k.wait[i])
        /\ k.grow \/ k.bb.tot = ShmMax \/ "nospace" \in k.fault

\* The client states between any two calls of a handler.
Good ==
    {k \in Client : BuddyInv(k.bb, k.bufs) /\ k.bb.tot <= ShmMax /\ NobodyPassedOver(k)}

\* x differs from k in nothing that Good looks at.
Same(k, x) ==
    /\ x.closed = k.closed /\ x.grow = k.grow /\ x.req = k.req /\ x.bb = k.bb
    /\ x.bufs = k.bufs /\ x.wait = k.wait /\ x.fault = k.fault

\* What Good looks at decides Good.
LEMMA SameGood ==
    ASSUME NEW k \in Good, NEW x \in Client, Same(k, x)
    PROVE  x \in Good
BY DEF Good, Same, NobodyPassedOver

\* A good state has its type.
LEMMA GoodClient == \A k \in Good : k \in Client
BY DEF Good

\* A callback of the application.
LEMMA AnswerGood ==
    ASSUME NEW k \in Good, NEW c \in OptCalls, NEW a \in Answers
    PROVE  Answer(k, c, a) \in Good /\ Same(k, Answer(k, c, a))
<1>0. k \in Client
    BY GoodClient
<1>1. Answer(k, c, a) \in Client
    BY <1>0 DEF Answer, Client, OptCalls
<1>2. Same(k, Answer(k, c, a))
    BY GoodClient DEF Answer, Client, Same
<1> QED  BY <1>1, <1>2, SameGood

\* sendmsg ().
LEMMA SendGood ==
    ASSUME NEW k \in Good, NEW p \in Pos, NEW cb \in Callbacks
    PROVE  Send(k, p, cb) \in Good /\ Same(k, Send(k, p, cb))
<1>0. k \in Client
    BY GoodClient
<1>1. Send(k, p, cb) \in Client
  <2>1. /\ k.rqtab[p] \in Seq(Callbacks) /\ Append(k.rqtab[p], cb) \in Seq(Callbacks)
        /\ Append(k.cq, p) \in Seq(Pos)
    BY <1>0 DEF Client
  <2>2. [k.rqtab EXCEPT ![p] = Append(k.rqtab[p], cb)] \in [Pos -> Seq(Callbacks)]
    BY <1>0, <2>1 DEF Client
  <2> QED  BY <1>0, <2>1, <2>2 DEF Send, Client
<1>2. Same(k, Send(k, p, cb))
    BY <1>0 DEF Send, Client, Same
<1> QED  BY <1>1, <1>2, SameGood

\* A request is written to its buffer.
LEMMA WriteGood ==
    ASSUME NEW k \in Good, NEW l \in Levels, NEW c \in Contents
    PROVE  Write(k, l, c) \in Good /\ Same(k, Write(k, l, c))
<1>0. k \in Client
    BY GoodClient
<1>1. Write(k, l, c) \in Client
  <2>1. [p \in Pos |-> IF p \in Units(k.got, l) THEN c ELSE k.mem[p]] \in [Pos -> Contents]
    BY <1>0 DEF Client
  <2> QED  BY <1>0, <2>1 DEF Write, Client
<1>2. Same(k, Write(k, l, c))
    BY GoodClient DEF Write, Client, Same
<1> QED  BY <1>1, <1>2, SameGood

\* The messages of sendclose ().
LEMMA BroadcastGood ==
    ASSUME NEW k \in Good, NEW p \in Pos, NEW cb \in Callbacks
    PROVE  Broadcast(k, p, cb) \in Good /\ Same(k, Broadcast(k, p, cb))
<1>0. k \in Client
    BY GoodClient
<1>1. Broadcast(k, p, cb) \in Client
  <2>1. k.rqtab[p] \o [d \in Daemons |-> cb] \in Seq(Callbacks)
    <3>1. [d \in Daemons |-> cb] \in Seq(Callbacks)
      BY AsyncIoAssumption DEF Daemons
    <3> QED  BY <1>0, <3>1 DEF Client
  <2>2. [k.rqtab EXCEPT ![p] = k.rqtab[p] \o [d \in Daemons |-> cb]] \in [Pos -> Seq(Callbacks)]
    BY <1>0, <2>1 DEF Client
  <2>3. [d \in Daemons |-> Append(k.rw[d], p)] \in [Daemons -> Seq(Pos)]
    BY <1>0 DEF Client
  <2>4. [k.fh EXCEPT ![cb.f].left = NDaemons] \in [Calls -> FhRec]
    <3>1. \A r \in FhRec : [r EXCEPT !.left = NDaemons] \in FhRec
      BY AsyncIoAssumption DEF FhRec
    <3> QED  BY <1>0, <3>1 DEF Client
  <2> QED  BY <1>0, <2>2, <2>3, <2>4 DEF Broadcast, Client
<1>2. Same(k, Broadcast(k, p, cb))
    BY <1>0 DEF Broadcast, Client, Same
<1> QED  BY <1>1, <1>2, SameGood

-----------------------------------------------------------------------------
\* A waiter that would be served after an allocation would be served before it.
LEMMA FitsLess ==
    ASSUME NEW bb, bb \in [tot : Nat, free : [Levels -> SUBSET Nat]], NEW l \in Levels,
           CanAlloc(bb, l), NEW w \in Waiter, FitsIn(Alloc(bb, l), w),
           Alloc(bb, l) \in [tot : Nat, free : [Levels -> SUBSET Nat]]
    PROVE  FitsIn(bb, w)
<1>0. 0 \in Levels /\ w.l \in Levels
    BY BuddyAssumption DEF Levels, Waiter
<1>1. CASE w.kind = "path"
    BY <1>0, <1>1, AllocLess DEF FitsIn
<1>2. CASE w.kind = "open"
  <2>1. w.l = 0
    BY <1>2 DEF Waiter
  <2>2. CanAlloc(Alloc(bb, l), 0) /\ CanAlloc(Alloc(Alloc(bb, l), 0), 0)
    BY <1>2, <2>1 DEF FitsIn
  <2>3. CanAlloc(bb, 0)
    BY <1>0, <2>2, AllocLess
  <2>4. Roomy(Alloc(bb, l))
    BY <2>2, TwoUnits
  <2>5. CanAlloc(Alloc(bb, 0), 0)
    BY <2>3, <2>4, AllocLessTwo, TwoUnits
  <2> QED  BY <1>2, <2>1, <2>3, <2>5 DEF FitsIn
<1>3. CASE w.kind # "path" /\ w.kind # "open"
    BY <1>0, <1>3, AllocLess DEF FitsIn
<1> QED  BY <1>1, <1>2, <1>3

\* The memory is a number of the largest blocks: it can grow by one, or is full.
LEMMA GrowOrFull ==
    ASSUME NEW t, NEW n \in Nat, t = n * MaxBuf, t <= ShmMax, ~(t + MaxBuf <= ShmMax)
    PROVE  t = ShmMax
<1> DEFINE M == MaxBuf
           m == ShmMax \div M
<1>1. M \in Nat /\ M >= 1
    BY BuddyAssumption, SizeFacts DEF MaxBuf
<1>2. m \in Nat /\ ShmMax = m * M /\ ShmMax \in Nat
  <2>1. ShmMax \in Nat /\ ShmMax % M = 0
    BY AsyncIoAssumption
  <2> HIDE DEF M
  <2>2. m \in Nat /\ m * M <= ShmMax
    BY <1>1, <2>1, DivFacts
  <2>3. ShmMax = M * m
    BY <1>1, <2>1
  <2> QED  BY <1>1, <2>1, <2>2, <2>3
<1> HIDE DEF M, m
<1>3. n * M \in Nat /\ m * M \in Nat /\ t = n * M
    BY <1>1, <1>2 DEF M
<1>4. ~(t + M <= ShmMax)
    BY DEF M
<1>5. n < m => n * M + M <= m * M
    BY <1>1, <1>2, MulStep
<1>6. m < n => m * M + M <= n * M
    BY <1>1, <1>2, MulStep
<1>7. n = m
    BY <1>1, <1>2, <1>3, <1>4, <1>5, <1>6
<1> QED  BY <1>2, <1>3, <1>7

\* bufalloc () on success.
Gets(k, b, l) ==
    /\ CanAlloc(k.bb, l) /\ b.got \in Pos /\ <<b.got, l>> \notin k.bufs
    /\ b = [k EXCEPT !.bb = Alloc(k.bb, l), !.got = b.got, !.bufs = k.bufs \cup {<<b.got, l>>}]

\* bufalloc () on failure.
Lacks(k, b, l) ==
    /\ ~CanAlloc(k.bb, l) /\ b.got = -1 /\ (b.grow \/ k.bb.tot = ShmMax)
    /\ \/ b = [k EXCEPT !.got = -1]
       \/ /\ ~k.grow /\ k.bb.tot \in Pos /\ k.bb.tot + MaxBuf <= ShmMax
          /\ b = Send([k EXCEPT !.got = -1, !.grow = TRUE], k.bb.tot, Cb("grow1", None, None, 0))

\* bufalloc () either has a buffer or lacks one and makes the memory grow, if it
\* can.
LEMMA BufallocCases ==
    ASSUME NEW k \in Good, NEW l \in Levels
    PROVE  Gets(k, Bufalloc(k, l), l) \/ Lacks(k, Bufalloc(k, l), l)
<1> DEFINE b == Bufalloc(k, l)
           p == AllocOff(k.bb, l)
<1>0. k \in Client /\ BuddyInv(k.bb, k.bufs) /\ k.bb.tot <= ShmMax
    BY DEF Good
<1>1. CASE CanAlloc(k.bb, l)
  <2>1. b = [k EXCEPT !.bb = Alloc(k.bb, l), !.got = p, !.bufs = k.bufs \cup {<<p, l>>}]
    BY <1>1 DEF Bufalloc
  <2>2. b.got = p
    BY <1>0, <2>1 DEF Client
  <2>3. BuddyInv(Alloc(k.bb, l), k.bufs \cup {<<p, l>>}) /\ <<p, l>> \notin k.bufs
        /\ Alloc(k.bb, l).tot = k.bb.tot
    BY <1>0, <1>1, AllocFacts
  <2>4. p \in Pos
    <3>1. PICK n \in Nat, j \in Levels : <<p, l>> = <<n * Size(j), j>>
      BY <2>3 DEF BuddyInv, BuddyTypes
    <3>2. p = n * Size(l) /\ l \in Nat /\ p \in Nat
      BY <3>1, LevelNat
    <3>3. In(p, <<p, l>>)
      BY <3>2, InBlk, NonEmpty
    <3>4. p \in 0..(k.bb.tot - 1)
      BY <2>3, <3>3 DEF BuddyInv, Tiles
    <3>5. k.bb.tot \in Nat
      BY <1>0 DEF Client
    <3> QED  BY <1>0, <3>4, <3>5, AsyncIoAssumption DEF Pos
  <2> QED  BY <1>1, <2>1, <2>2, <2>3, <2>4 DEF Gets
<1>2. CASE ~CanAlloc(k.bb, l) /\ ~k.grow /\ k.bb.tot + MaxBuf <= ShmMax
  <2> DEFINE x == [k EXCEPT !.got = -1, !.grow = TRUE]
  <2>1. b = Send(x, k.bb.tot, Cb("grow1", None, None, 0))
    BY <1>2 DEF Bufalloc
  <2>2. k.bb.tot \in Pos
    <3>1. MaxBuf \in Nat /\ MaxBuf >= 1
      BY BuddyAssumption, SizeFacts DEF MaxBuf
    <3>2. k.bb.tot \in Nat
      BY <1>0 DEF Client
    <3> QED  BY <1>2, <3>1, <3>2, AsyncIoAssumption DEF Pos
  <2>3. b.got = -1 /\ b.grow
    BY <1>0, <2>1 DEF Client, Send
  <2> QED  BY <1>2, <2>1, <2>2, <2>3 DEF Lacks
<1>3. CASE ~CanAlloc(k.bb, l) /\ ~(~k.grow /\ k.bb.tot + MaxBuf <= ShmMax)
  <2>1. b = [k EXCEPT !.got = -1]
    BY <1>3 DEF Bufalloc
  <2>2. b.got = -1 /\ b.grow = k.grow
    BY <1>0, <2>1 DEF Client
  <2>3. k.grow \/ k.bb.tot = ShmMax
    <3>1. PICK n \in Nat : k.bb.tot = n * MaxBuf
      BY <1>0 DEF BuddyInv, BuddyTypes
    <3> QED  BY <1>0, <1>3, <3>1, GrowOrFull
  <2> QED  BY <1>3, <2>1, <2>2, <2>3 DEF Lacks
<1> QED  BY <1>1, <1>2, <1>3

\* bufalloc () keeps the buddy system exact and passes nobody over.
LEMMA BufallocGood ==
    ASSUME NEW k \in Good, NEW l \in Levels
    PROVE  /\ Bufalloc(k, l) \in Good
           /\ Bufalloc(k, l).closed = k.closed /\ Bufalloc(k, l).wait = k.wait
           /\ Bufalloc(k, l).req = k.req /\ Bufalloc(k, l).fh = k.fh
<1> DEFINE b == Bufalloc(k, l)
<1>0. k \in Client /\ BuddyInv(k.bb, k.bufs) /\ k.bb.tot <= ShmMax /\ NobodyPassedOver(k)
    BY DEF Good
<1>1. CASE Gets(k, b, l)
  <2> HIDE DEF b
  <2> DEFINE c == Alloc(k.bb, l)
             A == k.bufs \cup {<<b.got, l>>}
  <2>1. CanAlloc(k.bb, l) /\ b = [k EXCEPT !.bb = c, !.got = b.got, !.bufs = A] /\ b.got \in Pos
    BY <1>1 DEF Gets
  <2>2. BuddyInv(c, A) /\ c.tot = k.bb.tot
    <3>1. b.got = AllocOff(k.bb, l)
      BY <1>0, <2>1 DEF b, Bufalloc, Client
    <3> QED  BY <1>0, <2>1, <3>1, AllocFacts
  <2>3. c \in [tot : Nat, free : [Levels -> SUBSET Nat]]
    BY <2>2 DEF BuddyInv, BuddyTypes
  <2>4. A \subseteq Nat \X Levels
    BY <1>0, <2>1, AsyncIoAssumption DEF Client, Pos
  <2> HIDE DEF c, A
  <2>5. b \in Client
    <3>1. b.got \in Int
      BY <2>1, AsyncIoAssumption DEF Pos
    <3> QED  BY <1>0, <2>1, <2>3, <2>4, <3>1 DEF Client
  <2>6. /\ b.closed = k.closed /\ b.wait = k.wait /\ b.req = k.req /\ b.fh = k.fh
        /\ b.grow = k.grow /\ b.fault = k.fault /\ b.bb = c /\ b.bufs = A
    BY <1>0, <2>1 DEF Client
  <2>7. NobodyPassedOver(b)
    <3> SUFFICES ASSUME ~b.closed, ~b.req, NEW i \in 1..Len(b.wait)
                 PROVE  /\ ~FitsIn(b.bb, b.wait[i])
                        /\ b.grow \/ b.bb.tot = ShmMax \/ "nospace" \in b.fault
      BY DEF NobodyPassedOver
    <3>1. k.wait[i] \in Waiter /\ k.bb \in [tot : Nat, free : [Levels -> SUBSET Nat]]
      BY <1>0, <2>6 DEF Client
    <3>2. /\ ~FitsIn(k.bb, k.wait[i])
          /\ k.grow \/ k.bb.tot = ShmMax \/ "nospace" \in k.fault
      BY <1>0, <2>6 DEF NobodyPassedOver
    <3>3. ~FitsIn(c, k.wait[i])
      BY <2>1, <2>3, <3>1, <3>2, FitsLess DEF c
    <3> QED  BY <2>2, <2>6, <3>2, <3>3
  <2> QED  BY <1>0, <2>2, <2>5, <2>6, <2>7 DEF Good, b
<1>2. CASE Lacks(k, b, l)
  <2> DEFINE x == [k EXCEPT !.got = -1, !.grow = TRUE]
             y == [k EXCEPT !.got = -1]
  <2>1. y \in Good /\ y.closed = k.closed /\ y.wait = k.wait /\ y.req = k.req /\ y.fh = k.fh
    <3>0. -1 \in Int
      OBVIOUS
    <3>1. y \in Client
      BY <1>0, <3>0 DEF Client
    <3>2. Same(k, y) /\ y.fh = k.fh
      BY <1>0 DEF Client, Same
    <3> HIDE DEF y
    <3> QED  BY <3>1, <3>2, SameGood DEF Same
  <2>2. x \in Good /\ x.closed = k.closed /\ x.wait = k.wait /\ x.req = k.req /\ x.fh = k.fh
    <3>0. -1 \in Int
      OBVIOUS
    <3>1. x \in Client
      BY <1>0, <3>0 DEF Client
    <3>2. /\ x.closed = k.closed /\ x.wait = k.wait /\ x.req = k.req /\ x.fh = k.fh
          /\ x.bb = k.bb /\ x.bufs = k.bufs /\ x.fault = k.fault /\ x.grow = TRUE
      BY <1>0 DEF Client
    <3> HIDE DEF x
    <3>3. NobodyPassedOver(x)
      BY <1>0, <3>2 DEF NobodyPassedOver
    <3> QED  BY <1>0, <3>1, <3>2, <3>3 DEF Good
  <2>3. Cb("grow1", None, None, 0) \in Callbacks
    BY BuddyAssumption DEF Cb, Callbacks, OptCalls, Levels
  <2>4. ASSUME NEW p \in Pos
        PROVE  LET z == Send(x, p, Cb("grow1", None, None, 0))
               IN  z \in Good /\ z.closed = k.closed /\ z.wait = k.wait /\ z.req = k.req /\ z.fh = k.fh
    <3> HIDE DEF x
    <3> DEFINE z == Send(x, p, Cb("grow1", None, None, 0))
    <3>1. z \in Good /\ Same(x, z)
      BY <2>2, <2>3, SendGood
    <3>2. z.fh = x.fh
      BY <2>2, GoodClient DEF Send, Client
    <3> QED  BY <2>2, <3>1, <3>2 DEF Same
  <2> HIDE DEF x, y
  <2>5. b = y \/ \E p \in Pos : b = Send(x, p, Cb("grow1", None, None, 0))
    BY <1>2 DEF Lacks, x, y
  <2> QED  BY <2>1, <2>4, <2>5
<1> QED  BY <1>1, <1>2, BufallocCases

\* ~aiobuf () of a buffer that is held.
Frees(k, x, p) ==
    \E l \in Levels :
       /\ <<p, l>> \in k.bufs /\ \A j \in Levels : <<p, j>> \in k.bufs => j = l
       /\ x = [k EXCEPT !.bb = Dealloc(k.bb, p, l), !.bufs = k.bufs \ {<<p, l>>},
                        !.req = k.req \/ k.wait # <<>>]

\* At most one buffer starts at a position.
LEMMA FreeCases ==
    ASSUME NEW k \in Good, NEW p
    PROVE  \/ (\A l \in Levels : <<p, l>> \notin k.bufs) /\ Free(k, p) = k
           \/ Frees(k, Free(k, p), p)
<1> DEFINE b == {x \in k.bufs : x[1] = p}
<1>0. k \in Client /\ BuddyInv(k.bb, k.bufs)
    BY DEF Good
<1>1. \A x \in k.bufs : x = <<x[1], x[2]>> /\ x[2] \in Levels
    BY <1>0 DEF Client
<1>2. CASE b = {}
  <2>1. \A l \in Levels : <<p, l>> \notin k.bufs
    BY <1>2
  <2> QED  BY <1>2, <2>1 DEF Free
<1>3. CASE b # {}
  <2> DEFINE x == CHOOSE y \in b : TRUE
             l == x[2]
  <2>1. x \in b
    BY <1>3
  <2>2. x = <<p, l>> /\ l \in Levels /\ <<p, l>> \in k.bufs
    BY <1>1, <2>1
  <2> HIDE DEF x
  <2>3. ASSUME NEW y \in b PROVE y = x
    <3>1. PICK n \in Nat, j \in Levels : y = <<n * Size(j), j>>
      BY <1>0 DEF BuddyInv, BuddyTypes
    <3>2. PICK m \in Nat, i \in Levels : x = <<m * Size(i), i>>
      BY <1>0, <2>1 DEF BuddyInv, BuddyTypes
    <3>3. n * Size(j) = p /\ m * Size(i) = p
      BY <2>1, <3>1, <3>2
    <3>4. In(p, y) /\ In(p, x)
      BY <3>1, <3>2, <3>3, InBlk, NonEmpty, LevelNat
    <3> QED  BY <1>0, <2>1, <3>4 DEF BuddyInv, Tiles
  <2>4. \A j \in Levels : <<p, j>> \in k.bufs => j = l
    <3> SUFFICES ASSUME NEW j \in Levels, <<p, j>> \in k.bufs PROVE j = l
      OBVIOUS
    <3>1. <<p, j>> = x
      BY <2>3
    <3> QED  BY <2>2, <3>1
  <2>5. k.bufs \ b = k.bufs \ {<<p, l>>}
    BY <2>1, <2>2, <2>3
  <2>6. Free(k, p) = [k EXCEPT !.bb = Dealloc(k.bb, p, l), !.bufs = k.bufs \ b,
                               !.req = k.req \/ k.wait # <<>>]
    BY <1>3 DEF Free, x
  <2> HIDE DEF b, l
  <2>7. Free(k, p) = [k EXCEPT !.bb = Dealloc(k.bb, p, l), !.bufs = k.bufs \ {<<p, l>>},
                               !.req = k.req \/ k.wait # <<>>]
    BY <2>5, <2>6, Zenon
  <2> QED  BY <2>2, <2>4, <2>7 DEF Frees
<1> QED  BY <1>2, <1>3

\* ~aiobuf () keeps the buddy system exact; bufwake () is asked for when it is due.
LEMMA FreeGood ==
    ASSUME NEW k \in Good, NEW p
    PROVE  /\ Free(k, p) \in Good
           /\ Free(k, p).closed = k.closed /\ Free(k, p).wait = k.wait /\ Free(k, p).fh = k.fh
           /\ Free(k, p).fault = k.fault
<1>0. k \in Client /\ BuddyInv(k.bb, k.bufs) /\ k.bb.tot <= ShmMax
    BY DEF Good
<1>1. CASE Free(k, p) = k
    BY <1>1
<1>2. CASE Frees(k, Free(k, p), p)
  <2> DEFINE x == Free(k, p)
  <2> HIDE DEF x
  <2>1. PICK l \in Levels :
           /\ <<p, l>> \in k.bufs
           /\ x = [k EXCEPT !.bb = Dealloc(k.bb, p, l), !.bufs = k.bufs \ {<<p, l>>},
                            !.req = k.req \/ k.wait # <<>>]
    BY <1>2 DEF Frees, x
  <2> DEFINE c == Dealloc(k.bb, p, l)
             A == k.bufs \ {<<p, l>>}
             r == k.req \/ k.wait # <<>>
  <2>2. BuddyInv(c, A) /\ c.tot = k.bb.tot
    BY <1>0, <2>1, DeallocFacts
  <2>3. c \in [tot : Nat, free : [Levels -> SUBSET Nat]]
    BY <2>2 DEF BuddyInv, BuddyTypes
  <2>4. A \subseteq Nat \X Levels
    BY <1>0 DEF Client
  <2>5. r \in BOOLEAN
    BY <1>0 DEF Client
  <2>6. x = [k EXCEPT !.bb = c, !.bufs = A, !.req = r]
    BY <2>1
  <2>61. r = FALSE => k.wait = <<>>
    OBVIOUS
  <2> HIDE DEF c, A, r
  <2>7. x \in Client
    BY <1>0, <2>3, <2>4, <2>5, <2>6 DEF Client
  <2>8. /\ x.closed = k.closed /\ x.wait = k.wait /\ x.fh = k.fh /\ x.req = r
        /\ x.bb = c /\ x.bufs = A /\ x.fault = k.fault
    BY <1>0, <2>6 DEF Client
  <2>9. NobodyPassedOver(x)
    <3> SUFFICES ASSUME ~x.req PROVE x.wait = <<>>
      BY DEF NobodyPassedOver
    <3> QED  BY <2>5, <2>61, <2>8
  <2> QED  BY <1>0, <2>2, <2>7, <2>8, <2>9 DEF Good, x
<1> QED  BY <1>1, <1>2, FreeCases

\* A waiter that lacks memory joins the others.
LEMMA BufwaitGood ==
    ASSUME NEW k \in Good, NEW w \in Waiter,
           ~k.closed /\ ~k.req => /\ ~FitsIn(k.bb, w)
                                  /\ k.grow \/ k.bb.tot = ShmMax \/ "nospace" \in k.fault
    PROVE  /\ Bufwait(k, w) \in Good
           /\ Bufwait(k, w).closed = k.closed /\ Bufwait(k, w).req = k.req
           /\ Bufwait(k, w).fh = k.fh
<1> DEFINE x == Bufwait(k, w)
<1>0. k \in Client /\ BuddyInv(k.bb, k.bufs) /\ k.bb.tot <= ShmMax /\ NobodyPassedOver(k)
    BY DEF Good
<1>1. x \in Client
  <2>1. Append(k.wait, w) \in Seq(Waiter)
    BY <1>0 DEF Client
  <2> QED  BY <1>0, <2>1 DEF Bufwait, Client
<1>2. /\ x.closed = k.closed /\ x.req = k.req /\ x.fh = k.fh /\ x.bb = k.bb /\ x.bufs = k.bufs
      /\ x.grow = k.grow /\ x.fault = k.fault /\ x.wait = Append(k.wait, w)
    BY <1>0 DEF Bufwait, Client
<1> HIDE DEF x
<1>3. NobodyPassedOver(x)
  <2> SUFFICES ASSUME ~x.closed, ~x.req, NEW i \in 1..Len(x.wait)
               PROVE  /\ ~FitsIn(x.bb, x.wait[i])
                      /\ x.grow \/ x.bb.tot = ShmMax \/ "nospace" \in x.fault
    BY DEF NobodyPassedOver
  <2>1. k.wait \in Seq(Waiter)
    BY <1>0 DEF Client
  <2>2. (i \in 1..Len(k.wait) /\ x.wait[i] = k.wait[i]) \/ x.wait[i] = w
    BY <1>2, <2>1
  <2> QED  BY <1>0, <1>2, <2>2 DEF NobodyPassedOver
<1> QED  BY <1>0, <1>1, <1>2, <1>3 DEF Good, x

\* A field of an aiofh is assigned.
LEMMA FhGood ==
    ASSUME NEW k \in Good, NEW g, g \in [Calls -> FhRec]
    PROVE  [k EXCEPT !.fh = g] \in Good /\ Same(k, [k EXCEPT !.fh = g]) /\ [k EXCEPT !.fh = g].fh = g
<1>0. k \in Client
    BY GoodClient
<1>1. [k EXCEPT !.fh = g] \in Client
    BY <1>0 DEF Client
<1>2. Same(k, [k EXCEPT !.fh = g]) /\ [k EXCEPT !.fh = g].fh = g
    BY <1>0 DEF Client, Same
<1> QED  BY <1>1, <1>2, SameGood

\* ~aiofh () of a file that the daemons were told of.
LEMMA ReleaseGood ==
    ASSUME NEW k \in Good, NEW f \in Calls
    PROVE  Release(k, f) \in Good /\ Release(k, f).closed = k.closed
<1> DEFINE x == [k EXCEPT !.avail = Append(@, k.fh[f].no), !.fh[f].st = "gone"]
<1>0. k \in Client
    BY GoodClient
<1>1. x \in Client
  <2>1. k.fh[f] \in FhRec /\ k.fh[f].no \in Nat
    BY <1>0 DEF Client, FhRec
  <2>2. Append(k.avail, k.fh[f].no) \in Seq(Nat)
    BY <1>0, <2>1 DEF Client
  <2>3. [k.fh EXCEPT ![f].st = "gone"] \in [Calls -> FhRec]
    <3>1. [k.fh[f] EXCEPT !.st = "gone"] \in FhRec
      BY <2>1 DEF FhRec
    <3> QED  BY <1>0, <3>1 DEF Client
  <2> QED  BY <1>0, <2>2, <2>3 DEF Client
<1>2. Same(k, x)
    BY <1>0 DEF Client, Same
<1>3. Release(k, f) = Free(x, k.fh[f].pos)
    BY DEF Release
<1> HIDE DEF x
<1> QED  BY <1>1, <1>2, <1>3, SameGood, FreeGood DEF Same
-----------------------------------------------------------------------------
\* A waiter becomes the callback of its request.
LEMMA WaiterIsCallback == \A w \in Waiter : w \in Callbacks /\ w.call \in OptCalls /\ w.l \in Levels
BY DEF Waiter, Callbacks

\* A request fits into the smallest block.
LEMMA ZeroLevel == 0 \in Levels
BY BuddyAssumption DEF Levels

\* What is written to shared memory has its type.
LEMMA ContentType ==
    ASSUME NEW op \in {"nop", "file", "path", "open", "rw", "close"}, NEW fh \in Int, NEW h \in Nat,
           NEW f \in OptCalls
    PROVE  Content(op, fh, h, f) \in Contents
BY DEF Content, Contents

\* No call has the number 0.
LEMMA NoneType == None \in OptCalls /\ None \in Nat /\ 0 \in Int
BY DEF None, OptCalls

\* bufalloc () fails for a waiter that lacks just that buffer: it may wait.
LEMMA LacksWaits ==
    ASSUME NEW k \in Good, NEW l \in Levels, NEW w \in Waiter, Bufalloc(k, l).got = -1,
           ~CanAlloc(k.bb, l) => ~FitsIn(k.bb, w)
    PROVE  /\ Bufwait(Bufalloc(k, l), w) \in Good
           /\ Bufwait(Bufalloc(k, l), w).closed = k.closed
<1> DEFINE b == Bufalloc(k, l)
<1>0. k \in Client
    BY GoodClient
<1>1. b \in Good /\ b.closed = k.closed
    BY BufallocGood
<1>2. Lacks(k, b, l)
  <2>1. ~Gets(k, b, l)
    <3>1. -1 \notin Pos
      BY AsyncIoAssumption DEF Pos
    <3> QED  BY <3>1 DEF Gets
  <2> QED  BY <2>1, BufallocCases
<1>3. b.bb = k.bb
    BY <1>0, <1>2 DEF Lacks, Client, Send
<1>4. ~FitsIn(b.bb, w) /\ (b.grow \/ b.bb.tot = ShmMax)
    BY <1>2, <1>3 DEF Lacks
<1> HIDE DEF b
<1> QED  BY <1>1, <1>4, BufwaitGood DEF b

\* bufalloc () on success.
LEMMA GotPos ==
    ASSUME NEW k \in Good, NEW l \in Levels, Bufalloc(k, l).got # -1
    PROVE  Bufalloc(k, l).got \in Pos /\ Gets(k, Bufalloc(k, l), l)
BY BufallocCases DEF Gets, Lacks

\* aiod::pathop ().
LEMMA PathopGood ==
    ASSUME NEW k \in Good, NEW w \in Waiter, w.kind = "path"
    PROVE  Pathop(k, w) \in Good /\ Pathop(k, w).closed = k.closed
<1> DEFINE b == Bufalloc(k, w.l)
           c == Content("path", 0, None, None)
<1>0. w \in Callbacks /\ w.call \in OptCalls /\ w.l \in Levels
    BY WaiterIsCallback
<1>1. CASE k.closed
  <2>1. Pathop(k, w) = Answer(k, w.call, "err")
    BY <1>1 DEF Pathop
  <2>2. Answer(k, w.call, "err") \in Good /\ Same(k, Answer(k, w.call, "err"))
    BY <1>0, AnswerGood DEF Answers
  <2> QED  BY <2>1, <2>2 DEF Same
<1>2. CASE ~k.closed /\ b.got = -1
  <2>1. Pathop(k, w) = Bufwait(b, w)
    BY <1>2 DEF Pathop
  <2>2. ~CanAlloc(k.bb, w.l) => ~FitsIn(k.bb, w)
    BY DEF FitsIn
  <2> QED  BY <1>0, <1>2, <2>1, <2>2, LacksWaits
<1>3. CASE ~k.closed /\ b.got # -1
  <2>1. Pathop(k, w) = Send(Write(b, w.l, c), b.got, w)
    BY <1>3 DEF Pathop
  <2>2. b \in Good /\ b.closed = k.closed /\ b.got \in Pos
    BY <1>0, <1>3, BufallocGood, GotPos
  <2>3. c \in Contents
    BY ContentType, NoneType
  <2> HIDE DEF b, c
  <2> DEFINE z == Write(b, w.l, c)
  <2>4. z \in Good /\ Same(b, z)
    BY <1>0, <2>2, <2>3, WriteGood
  <2> HIDE DEF z
  <2>5. Send(z, b.got, w) \in Good /\ Same(z, Send(z, b.got, w))
    BY <1>0, <2>2, <2>4, SendGood
  <2> QED  BY <2>1, <2>2, <2>4, <2>5 DEF Same, z
<1> QED  BY <1>1, <1>2, <1>3

\* aiofh::rw () and simpleop ().
LEMMA RwGood ==
    ASSUME NEW k \in Good, NEW w \in Waiter, w.kind = "rw"
    PROVE  Rw(k, w) \in Good /\ Rw(k, w).closed = k.closed
<1> DEFINE b == Bufalloc(k, 0)
           c == Content("rw", k.fh[w.f].pos, None, None)
<1>0. w \in Callbacks /\ w.call \in OptCalls /\ w.f \in Calls /\ 0 \in Levels
    BY WaiterIsCallback, ZeroLevel DEF Waiter
<1>1. CASE k.closed \/ k.fh[w.f].closed
  <2>1. Rw(k, w) = Answer(k, w.call, "err")
    BY <1>1 DEF Rw
  <2>2. Answer(k, w.call, "err") \in Good /\ Same(k, Answer(k, w.call, "err"))
    BY <1>0, AnswerGood DEF Answers
  <2> QED  BY <2>1, <2>2 DEF Same
<1>2. CASE ~(k.closed \/ k.fh[w.f].closed) /\ b.got = -1
  <2>1. Rw(k, w) = Bufwait(b, w)
    BY <1>2 DEF Rw
  <2>2. ~CanAlloc(k.bb, 0) => ~FitsIn(k.bb, w)
    BY DEF FitsIn
  <2> QED  BY <1>0, <1>2, <2>1, <2>2, LacksWaits
<1>3. CASE ~(k.closed \/ k.fh[w.f].closed) /\ b.got # -1
  <2>1. Rw(k, w) = Send(Write(b, 0, c), b.got, w)
    BY <1>3 DEF Rw
  <2>2. b \in Good /\ b.closed = k.closed /\ b.got \in Pos
    BY <1>0, <1>3, BufallocGood, GotPos
  <2>3. c \in Contents
    <3>1. k.fh[w.f].pos \in Int
      BY <1>0, GoodClient DEF Client, FhRec
    <3> QED  BY <3>1, ContentType, NoneType
  <2> HIDE DEF b, c
  <2> DEFINE z == Write(b, 0, c)
  <2>4. z \in Good /\ Same(b, z)
    BY <1>0, <2>2, <2>3, WriteGood
  <2> HIDE DEF z
  <2>5. Send(z, b.got, w) \in Good /\ Same(z, Send(z, b.got, w))
    BY <1>0, <2>2, <2>4, SendGood
  <2> QED  BY <2>1, <2>2, <2>4, <2>5 DEF Same, z
<1> QED  BY <1>1, <1>2, <1>3

\* The part of sendclose () that has a buffer.
LEMMA SendCloseGood ==
    ASSUME NEW b \in Good, b.got \in Pos, NEW w \in Callbacks, w.f \in Calls
    PROVE  SendClose(b, w) \in Good /\ SendClose(b, w).closed = b.closed
<1> DEFINE c == Content("close", b.fh[w.f].pos, None, None)
           z == Write(b, 0, c)
<1>1. c \in Contents
  <2>1. b.fh[w.f].pos \in Int
    BY GoodClient DEF Client, FhRec
  <2> QED  BY <2>1, ContentType, NoneType
<1>2. SendClose(b, w) = Broadcast(z, b.got, w)
    BY DEF SendClose
<1> HIDE DEF c
<1>3. z \in Good /\ Same(b, z)
    BY <1>1, ZeroLevel, WriteGood
<1> HIDE DEF z
<1>4. Broadcast(z, b.got, w) \in Good /\ Same(z, Broadcast(z, b.got, w))
    BY <1>3, BroadcastGood
<1> QED  BY <1>2, <1>3, <1>4 DEF Same

\* close () marks the aiofh first.
LEMMA MarkGood ==
    ASSUME NEW k \in Good, NEW f \in Calls
    PROVE  LET x == [k EXCEPT !.fh[f].closed = TRUE]
           IN  x \in Good /\ x.closed = k.closed
<1> DEFINE g == [k.fh EXCEPT ![f].closed = TRUE]
<1>1. g \in [Calls -> FhRec]
  <2>1. k.fh \in [Calls -> FhRec]
    BY GoodClient DEF Client
  <2>2. [k.fh[f] EXCEPT !.closed = TRUE] \in FhRec
    BY <2>1 DEF FhRec
  <2> QED  BY <2>1, <2>2
<1>2. [k EXCEPT !.fh[f].closed = TRUE] = [k EXCEPT !.fh = g]
    OBVIOUS
<1> HIDE DEF g
<1> QED  BY <1>1, <1>2, FhGood DEF Same

\* aiofh::sendclose (), from close ().
LEMMA CloseGood ==
    ASSUME NEW k \in Good, NEW w \in Waiter, w.kind = "close"
    PROVE  Close(k, w) \in Good /\ Close(k, w).closed = k.closed
<1> DEFINE x == [k EXCEPT !.fh[w.f].closed = TRUE]
           b == Bufalloc(x, 0)
<1>0. w \in Callbacks /\ w.call \in OptCalls /\ w.f \in Calls /\ 0 \in Levels
    BY WaiterIsCallback, ZeroLevel DEF Waiter
<1>1. CASE k.closed
  <2>1. Close(k, w) = Release(Answer(k, w.call, "err"), w.f)
    BY <1>1 DEF Close
  <2>2. Answer(k, w.call, "err") \in Good /\ Answer(k, w.call, "err").closed = k.closed
    BY <1>0, AnswerGood DEF Answers, Same
  <2> QED  BY <1>0, <2>1, <2>2, ReleaseGood
<1>2. x \in Good /\ x.closed = k.closed
    BY <1>0, MarkGood
<1> HIDE DEF x
<1>3. CASE ~k.closed /\ b.got = -1
  <2>1. Close(k, w) = Bufwait(b, w)
    BY <1>3 DEF Close, x
  <2>2. ~CanAlloc(x.bb, 0) => ~FitsIn(x.bb, w)
    BY DEF FitsIn
  <2> QED  BY <1>0, <1>2, <1>3, <2>1, <2>2, LacksWaits
<1>4. CASE ~k.closed /\ b.got # -1
  <2>1. b \in Good /\ b.closed = k.closed /\ b.got \in Pos
    BY <1>0, <1>2, <1>4, BufallocGood, GotPos
  <2>2. Close(k, w) = SendClose(b, w) \/ Close(k, w) = Release(SendClose(b, w), w.f)
    BY <1>4 DEF Close, x
  <2> HIDE DEF b
  <2>3. SendClose(b, w) \in Good /\ SendClose(b, w).closed = b.closed
    BY <1>0, <2>1, SendCloseGood
  <2> QED  BY <1>0, <2>1, <2>2, <2>3, ReleaseGood
<1> QED  BY <1>1, <1>3, <1>4

\* ~aiofh ().
LEMMA DestroyGood ==
    ASSUME NEW k \in Good, NEW f \in Calls
    PROVE  Destroy(k, f) \in Good /\ Destroy(k, f).closed = k.closed
<1> DEFINE x == [k EXCEPT !.fh[f].closed = TRUE]
           b == Bufalloc(x, 0)
           w == Cb("close", None, f, 0)
<1>0. w \in Callbacks /\ w.f = f /\ 0 \in Levels
    BY ZeroLevel DEF Callbacks, Cb, None, OptCalls
<1>1. CASE k.closed
  <2>1. Destroy(k, f) = Release(k, f)
    BY <1>1 DEF Destroy
  <2> QED  BY <2>1, ReleaseGood
<1>2. x \in Good /\ x.closed = k.closed
    BY MarkGood
<1> HIDE DEF x, w
<1>3. CASE ~k.closed /\ b.got = -1
  <2> DEFINE z == [b EXCEPT !.fault = @ \cup {"dangling"}]
  <2>1. Destroy(k, f) = z
    BY <1>3 DEF Destroy, x
  <2>2. b \in Good /\ b.closed = k.closed
    BY <1>0, <1>2, BufallocGood
  <2> HIDE DEF b
  <2>3. b \in Client /\ BuddyInv(b.bb, b.bufs) /\ b.bb.tot <= ShmMax /\ NobodyPassedOver(b)
    BY <2>2 DEF Good
  <2>4. z \in Client
    <3>1. b.fault \cup {"dangling"} \subseteq {"spin", "dangling", "nospace", "fatal"}
      BY <2>3 DEF Client
    <3> QED  BY <2>3, <3>1 DEF Client
  <2>5. /\ z.closed = b.closed /\ z.grow = b.grow /\ z.req = b.req /\ z.bb = b.bb
        /\ z.bufs = b.bufs /\ z.wait = b.wait /\ z.fault = b.fault \cup {"dangling"}
    BY <2>3 DEF Client
  <2> HIDE DEF z
  <2>6. NobodyPassedOver(z)
    BY <2>3, <2>5 DEF NobodyPassedOver
  <2> QED  BY <2>1, <2>2, <2>3, <2>4, <2>5, <2>6 DEF Good
<1>4. CASE ~k.closed /\ b.got # -1
  <2>1. b \in Good /\ b.closed = k.closed /\ b.got \in Pos
    BY <1>0, <1>2, <1>4, BufallocGood, GotPos
  <2>2. Destroy(k, f) = Release(SendClose(b, w), f)
    BY <1>4 DEF Destroy, x, w
  <2> HIDE DEF b
  <2>3. SendClose(b, w) \in Good /\ SendClose(b, w).closed = b.closed
    BY <1>0, <2>1, SendCloseGood
  <2> QED  BY <2>1, <2>2, <2>3, ReleaseGood
<1> QED  BY <1>1, <1>3, <1>4

\* The aiofh that open () makes: its number, and the buffer of its aiod_file.
NewFile(k, b, f) ==
    [b EXCEPT !.avail = IF @ = <<>> THEN @ ELSE Front(@),
              !.ctr = IF k.avail = <<>> THEN @ + 1 ELSE @,
              !.fh[f] = [st |-> "opening", no |-> FhnoAlloc(k), pos |-> b.got,
                         closed |-> FALSE, left |-> 0]]

\* The aiofh of open () and its number.
LEMMA NewFileGood ==
    ASSUME NEW k \in Good, NEW b \in Good, NEW f \in Calls
    PROVE  NewFile(k, b, f) \in Good /\ Same(b, NewFile(k, b, f)) /\ NewFile(k, b, f).got = b.got
           /\ FhnoAlloc(k) \in Nat
<1> DEFINE x == NewFile(k, b, f)
           r == [st |-> "opening", no |-> FhnoAlloc(k), pos |-> b.got, closed |-> FALSE, left |-> 0]
           av == IF b.avail = <<>> THEN b.avail ELSE Front(b.avail)
           ct == IF k.avail = <<>> THEN b.ctr + 1 ELSE b.ctr
<1>0. b \in Client /\ k \in Client
    BY GoodClient
<1>1. FhnoAlloc(k) \in Nat
  <2>1. k.avail \in Seq(Nat) /\ k.ctr \in Nat
    BY <1>0 DEF Client
  <2>2. k.avail # <<>> => k.avail[Len(k.avail)] \in Nat
    BY <2>1
  <2> QED  BY <2>1, <2>2 DEF FhnoAlloc, Last
<1>2. r \in FhRec
  <2>1. b.got \in Int
    BY <1>0 DEF Client
  <2> QED  BY <1>1, <2>1 DEF FhRec
<1>3. av \in Seq(Nat)
  <2>1. b.avail \in Seq(Nat)
    BY <1>0 DEF Client
  <2>2. b.avail # <<>> => SubSeq(b.avail, 1, Len(b.avail) - 1) \in Seq(Nat)
    BY <2>1
  <2> QED  BY <2>1, <2>2 DEF Front
<1>4. ct \in Nat
    BY <1>0 DEF Client
<1>5. x = [b EXCEPT !.avail = av, !.ctr = ct, !.fh = [b.fh EXCEPT ![f] = r]]
    BY DEF NewFile
<1> HIDE DEF x, r, av, ct
<1>6. [b.fh EXCEPT ![f] = r] \in [Calls -> FhRec]
    BY <1>0, <1>2 DEF Client
<1>7. x \in Client
    BY <1>0, <1>3, <1>4, <1>5, <1>6 DEF Client
<1>8. Same(b, x) /\ x.got = b.got
    BY <1>0, <1>5 DEF Client, Same
<1> QED  BY <1>1, <1>7, <1>8, SameGood DEF x

\* open () by cases.
LEMMA OpenCases ==
    ASSUME NEW k, NEW w
    PROVE  LET b1 == Bufalloc(k, 0)
               b2 == Bufalloc(b1, w.l)
               z1 == Write(NewFile(k, b2, w.f), w.l, Content("file", 0, FhnoAlloc(k), w.f))
               z2 == Write([z1 EXCEPT !.got = b1.got], 0, Content("open", b2.got, None, None))
           IN  /\ k.closed => Open(k, w) = Answer(k, w.call, "nothing")
               /\ ~k.closed /\ b1.got = -1 => Open(k, w) = Bufwait(b1, w)
               /\ ~k.closed /\ b1.got # -1 /\ b2.got = -1 => Open(k, w) = Free(Bufwait(b2, w), b1.got)
               /\ ~k.closed /\ b1.got # -1 /\ b2.got # -1 => Open(k, w) = Send(z2, b1.got, w)
BY DEF Open, NewFile

\* aiod::open ().
LEMMA OpenGood ==
    ASSUME NEW k \in Good, NEW w \in Waiter, w.kind = "open"
    PROVE  Open(k, w) \in Good /\ Open(k, w).closed = k.closed
<1> DEFINE b1 == Bufalloc(k, 0)
           b2 == Bufalloc(b1, w.l)
           n1 == NewFile(k, b2, w.f)
           c1 == Content("file", 0, FhnoAlloc(k), w.f)
           z1 == Write(n1, w.l, c1)
           y1 == [z1 EXCEPT !.got = b1.got]
           c2 == Content("open", b2.got, None, None)
           z2 == Write(y1, 0, c2)
<1>0. w \in Callbacks /\ w.call \in OptCalls /\ w.f \in Calls /\ w.f \in OptCalls /\ 0 \in Levels
      /\ w.l \in Levels /\ w.l = 0
    BY WaiterIsCallback, ZeroLevel DEF Waiter
<1>1. CASE k.closed
  <2>1. Open(k, w) = Answer(k, w.call, "nothing")
    BY <1>1, OpenCases
  <2>2. Answer(k, w.call, "nothing") \in Good /\ Same(k, Answer(k, w.call, "nothing"))
    BY <1>0, AnswerGood DEF Answers
  <2> QED  BY <2>1, <2>2 DEF Same
<1>2. CASE ~k.closed /\ b1.got = -1
  <2>1. Open(k, w) = Bufwait(b1, w)
    BY <1>2, OpenCases
  <2>2. ~CanAlloc(k.bb, 0) => ~FitsIn(k.bb, w)
    BY DEF FitsIn
  <2> QED  BY <1>0, <1>2, <2>1, <2>2, LacksWaits
<1>3. CASE ~k.closed /\ b1.got # -1 /\ b2.got = -1
  <2>1. Open(k, w) = Free(Bufwait(b2, w), b1.got)
    BY <1>3, OpenCases
  <2>2. b1 \in Good /\ b1.closed = k.closed
    BY <1>0, BufallocGood
  <2> HIDE DEF b1
  <2>3. ~CanAlloc(b1.bb, w.l) => ~FitsIn(b1.bb, w)
    BY <1>0 DEF FitsIn
  <2>4. Bufwait(b2, w) \in Good /\ Bufwait(b2, w).closed = b1.closed
    BY <1>0, <1>3, <2>2, <2>3, LacksWaits
  <2> QED  BY <2>1, <2>2, <2>4, FreeGood
<1>4. CASE ~k.closed /\ b1.got # -1 /\ b2.got # -1
  <2>1. Open(k, w) = Send(z2, b1.got, w)
    BY <1>4, OpenCases
  <2>2. b1 \in Good /\ b1.closed = k.closed /\ b1.got \in Pos
    BY <1>0, <1>4, BufallocGood, GotPos
  <2> HIDE DEF b1
  <2>3. b2 \in Good /\ b2.closed = k.closed /\ b2.got \in Pos
    BY <1>0, <1>4, <2>2, BufallocGood, GotPos
  <2> HIDE DEF b2
  <2>4. n1 \in Good /\ n1.closed = k.closed /\ FhnoAlloc(k) \in Nat
    BY <1>0, <2>3, NewFileGood DEF Same
  <2>5. c1 \in Contents /\ c2 \in Contents
    <3>1. b2.got \in Int
      BY <2>3, AsyncIoAssumption DEF Pos
    <3> QED  BY <1>0, <2>4, <3>1, ContentType, NoneType
  <2> HIDE DEF n1, c1, c2
  <2>6. z1 \in Good /\ z1.closed = k.closed
    BY <1>0, <2>4, <2>5, WriteGood DEF Same
  <2> HIDE DEF z1
  <2>7. y1 \in Good /\ y1.closed = k.closed
    <3>1. b1.got \in Int /\ z1 \in Client
      BY <2>2, <2>6, AsyncIoAssumption, GoodClient DEF Pos
    <3>2. y1 \in Client
      BY <3>1 DEF Client
    <3>3. Same(z1, y1)
      BY <3>1 DEF Client, Same
    <3> HIDE DEF y1
    <3> QED  BY <2>6, <3>2, <3>3, SameGood DEF Same
  <2> HIDE DEF y1
  <2>8. z2 \in Good /\ z2.closed = k.closed
    BY <1>0, <2>5, <2>7, WriteGood DEF Same
  <2> HIDE DEF z2
  <2> QED  BY <1>0, <2>1, <2>2, <2>8, SendGood DEF Same
<1> QED  BY <1>1, <1>2, <1>3, <1>4

\* Whatever a waiter tries again.
LEMMA RunOpGood ==
    ASSUME NEW k \in Good, NEW w \in Waiter
    PROVE  RunOp(k, w) \in Good /\ RunOp(k, w).closed = k.closed
<1>0. w.kind \in {"path", "open", "rw", "close"}
    BY DEF Waiter
<1>1. CASE w.kind = "path"
    BY <1>1, PathopGood DEF RunOp
<1>2. CASE w.kind = "open"
    BY <1>2, OpenGood DEF RunOp
<1>3. CASE w.kind = "rw"
    BY <1>3, RwGood DEF RunOp
<1>4. CASE w.kind = "close"
    BY <1>4, CloseGood DEF RunOp
<1> QED  BY <1>0, <1>1, <1>2, <1>3, <1>4
-----------------------------------------------------------------------------
\* A client state whose queue of waiters is taken over.
LEMMA TakeWaitGood ==
    ASSUME NEW k \in Good, NEW r \in BOOLEAN
    PROVE  [k EXCEPT !.wait = <<>>, !.req = r] \in Good
<1> DEFINE x == [k EXCEPT !.wait = <<>>, !.req = r]
<1>0. k \in Client /\ BuddyInv(k.bb, k.bufs) /\ k.bb.tot <= ShmMax
    BY DEF Good
<1>1. <<>> \in Seq(Waiter)
    OBVIOUS
<1>2. x \in Client
    BY <1>0, <1>1 DEF Client
<1>3. x.wait = <<>> /\ x.bb = k.bb /\ x.bufs = k.bufs
    BY <1>0 DEF Client
<1> HIDE DEF x
<1>4. NobodyPassedOver(x)
    BY <1>3 DEF NobodyPassedOver
<1> QED  BY <1>0, <1>2, <1>3, <1>4 DEF Good, x

\* A round of bufwake (): what still lacks memory waits again.
LEMMA RoundGood ==
    ASSUME NEW k \in Good, NEW i
    PROVE  Round(k, i) \in Good
<1> DEFINE x == [k EXCEPT !.wait = <<>>, !.req = FALSE]
<1>1. x \in Good
    BY TakeWaitGood
<1>2. k.wait \in Seq(Waiter)
    BY GoodClient DEF Client
<1>3. Round(k, i) = IF k.req THEN Steps(RunOp, x, k.wait) ELSE k
    BY DEF Round
<1> HIDE DEF x
<1>4. \A y \in Good, w \in Waiter : RunOp(y, w) \in Good
    BY RunOpGood
<1>5. Steps(RunOp, x, k.wait) \in Good
    BY <1>1, <1>2, <1>4, RunOpAll
<1> QED  BY <1>3, <1>5

\* After bufwake () nobody is passed over, unless it goes round forever.
LEMMA SettleGood ==
    ASSUME NEW k \in Good
    PROVE  Settle(k) \in Good /\ (Settle(k).req => "spin" \in Settle(k).fault)
<1> DEFINE rs == [i \in 1..(Len(k.wait) + 1) |-> i]
           e == Steps(Round, k, rs)
           f == IF e.req THEN e.fault \cup {"spin"} ELSE e.fault
           x == [e EXCEPT !.got = -1, !.fault = f]
<1>1. rs \in Seq(Nat)
  <2>1. Len(k.wait) \in Nat
    BY GoodClient DEF Client
  <2> QED  BY <2>1
<1>2. Settle(k) = x
    BY DEF Settle
<1>3. \A y \in Good, i \in Nat : Round(y, i) \in Good
    BY RoundGood
<1> HIDE DEF rs
<1>4. e \in Good
    BY <1>1, <1>3, RoundAll
<1> HIDE DEF e
<1>5. e \in Client /\ BuddyInv(e.bb, e.bufs) /\ e.bb.tot <= ShmMax /\ NobodyPassedOver(e)
    BY <1>4 DEF Good
<1>6. f \subseteq {"spin", "dangling", "nospace", "fatal"} /\ -1 \in Int /\ e.fault \subseteq f
      /\ (e.req => "spin" \in f)
    BY <1>5 DEF Client
<1> HIDE DEF f
<1>7. x \in Client
    BY <1>5, <1>6 DEF Client
<1>8. /\ x.closed = e.closed /\ x.grow = e.grow /\ x.req = e.req /\ x.bb = e.bb
      /\ x.bufs = e.bufs /\ x.wait = e.wait /\ x.fault = f
    BY <1>5 DEF Client
<1> HIDE DEF x
<1>9. NobodyPassedOver(x)
    BY <1>5, <1>6, <1>8 DEF NobodyPassedOver
<1> QED  BY <1>2, <1>5, <1>6, <1>7, <1>8, <1>9 DEF Good

\* open_cb ().
LEMMA OpenCbGood ==
    ASSUME NEW k \in Good, NEW cb \in Callbacks, cb.kind = "open", NEW err
    PROVE  OpenCb(k, cb, err) \in Good /\ OpenCb(k, cb, err).closed = k.closed
<1>0. cb.f \in Calls /\ cb.call \in OptCalls
    BY DEF Callbacks
<1>1. CASE err
  <2>1. OpenCb(k, cb, err) = Destroy(Answer(k, cb.call, "err"), cb.f)
    BY <1>1 DEF OpenCb
  <2>2. Answer(k, cb.call, "err") \in Good /\ Answer(k, cb.call, "err").closed = k.closed
    BY <1>0, AnswerGood DEF Answers, Same
  <2> QED  BY <1>0, <2>1, <2>2, DestroyGood
<1>2. CASE ~err
  <2> DEFINE a == Answer(k, cb.call, "ok")
             g == [a.fh EXCEPT ![cb.f].st = "open"]
  <2>1. OpenCb(k, cb, err) = [a EXCEPT !.fh = g]
    BY <1>2 DEF OpenCb
  <2>2. a \in Good /\ a.closed = k.closed
    BY <1>0, AnswerGood DEF Answers, Same
  <2> HIDE DEF a
  <2>3. g \in [Calls -> FhRec]
    <3>1. a.fh \in [Calls -> FhRec]
      BY <2>2, GoodClient DEF Client
    <3>2. [a.fh[cb.f] EXCEPT !.st = "open"] \in FhRec
      BY <1>0, <3>1 DEF FhRec
    <3> QED  BY <3>1, <3>2
  <2> HIDE DEF g
  <2> QED  BY <2>1, <2>2, <2>3, FhGood DEF Same
<1> QED  BY <1>1, <1>2

\* close_cb ().
LEMMA CloseCbGood ==
    ASSUME NEW k \in Good, NEW cb \in Callbacks, cb.kind = "close", NEW err
    PROVE  CloseCb(k, cb, err) \in Good /\ CloseCb(k, cb, err).closed = k.closed
<1> DEFINE g == [k.fh EXCEPT ![cb.f].left = @ - 1]
           s == [k EXCEPT !.fh = g]
           a == Answer(s, cb.call, IF err THEN "err" ELSE "ok")
<1>0. cb.f \in Calls /\ cb.call \in OptCalls
    BY DEF Callbacks
<1>1. \/ CloseCb(k, cb, err) = s \/ CloseCb(k, cb, err) = a
      \/ CloseCb(k, cb, err) = Release(a, cb.f)
    BY DEF CloseCb
<1>2. g \in [Calls -> FhRec]
  <2>1. k.fh \in [Calls -> FhRec]
    BY GoodClient DEF Client
  <2>2. [k.fh[cb.f] EXCEPT !.left = @ - 1] \in FhRec
    BY <1>0, <2>1 DEF FhRec
  <2> QED  BY <1>0, <2>1, <2>2
<1> HIDE DEF g
<1>3. s \in Good /\ s.closed = k.closed
    BY <1>2, FhGood DEF Same
<1> HIDE DEF s
<1>4. a \in Good /\ a.closed = k.closed
  <2>1. (IF err THEN "err" ELSE "ok") \in Answers
    BY DEF Answers
  <2> QED  BY <1>0, <1>3, <2>1, AnswerGood DEF Same
<1> QED  BY <1>0, <1>1, <1>3, <1>4, ReleaseGood

\* The memory grows by no more than there is.
LEMMA GrowIncFacts ==
    ASSUME NEW t \in Nat, t <= ShmMax
    PROVE  GrowInc(t) \in Nat /\ t + GrowInc(t) <= ShmMax
<1> DEFINE a == ShmMax - t
           m == Max({MaxBuf, t \div 4})
<1>1. MaxBuf \in Nat /\ t \div 4 \in Nat
    BY BuddyAssumption, SizeFacts DEF MaxBuf
<1>2. m \in Nat
  <2>1. MaxBuf >= t \div 4 \/ t \div 4 >= MaxBuf
    BY <1>1
  <2>2. \E x \in {MaxBuf, t \div 4} : \A y \in {MaxBuf, t \div 4} : x >= y
    BY <1>1, <2>1
  <2>3. m \in {MaxBuf, t \div 4}
    BY <2>2 DEF Max
  <2> QED  BY <1>1, <2>3
<1>3. a \in Nat /\ ShmMax \in Nat
    BY AsyncIoAssumption
<1>4. GrowInc(t) = Min({a, m})
    BY DEF GrowInc
<1> HIDE DEF a, m
<1>5. Min({a, m}) \in {a, m} /\ Min({a, m}) <= a
    BY <1>2, <1>3, MinFacts
<1>6. GrowInc(t) \in Nat /\ GrowInc(t) <= a
    BY <1>2, <1>3, <1>4, <1>5
<1> QED  BY <1>3, <1>6 DEF a

\* bufalloc_cb1 () and bufalloc_cb2 (): memory that grew wakes the waiters.
LEMMA GrowCbGood ==
    ASSUME NEW k \in Good, NEW cb \in Callbacks, NEW p, NEW err, err \/ p \in Pos
    PROVE  GrowCb(k, cb, p, err) \in Good /\ GrowCb(k, cb, p, err).closed = k.closed
<1>0. k \in Client /\ BuddyInv(k.bb, k.bufs) /\ k.bb.tot <= ShmMax /\ NobodyPassedOver(k)
    BY DEF Good
<1>1. CASE err \/ k.closed
  <2> DEFINE f == IF k.closed THEN k.fault ELSE k.fault \cup {"nospace"}
             x == [k EXCEPT !.grow = FALSE, !.fault = f]
  <2>1. GrowCb(k, cb, p, err) = x
    BY <1>1 DEF GrowCb
  <2>2. f \subseteq {"spin", "dangling", "nospace", "fatal"} /\ (~k.closed => "nospace" \in f)
    BY <1>0 DEF Client
  <2> HIDE DEF f
  <2>3. x \in Client
    BY <1>0, <2>2 DEF Client
  <2>4. /\ x.closed = k.closed /\ x.req = k.req /\ x.bb = k.bb
        /\ x.bufs = k.bufs /\ x.wait = k.wait /\ x.fault = f
    BY <1>0 DEF Client
  <2> HIDE DEF x
  <2>5. NobodyPassedOver(x)
    BY <1>0, <2>2, <2>4 DEF NobodyPassedOver
  <2> QED  BY <1>0, <2>1, <2>3, <2>4, <2>5 DEF Good
<1>2. CASE ~(err \/ k.closed) /\ cb.kind = "grow1"
  <2>1. GrowCb(k, cb, p, err) = Send(k, p, Cb("grow2", None, None, 0))
    BY <1>2 DEF GrowCb
  <2>2. Cb("grow2", None, None, 0) \in Callbacks
    BY ZeroLevel DEF Cb, Callbacks, OptCalls
  <2> QED  BY <1>2, <2>1, <2>2, SendGood DEF Same
<1>3. CASE ~(err \/ k.closed) /\ cb.kind # "grow1"
  <2> DEFINE ts == k.bb.tot + GrowInc(k.bb.tot)
             c == Settotsize(k.bb, ts)
             x == [k EXCEPT !.grow = FALSE, !.bb = c, !.req = TRUE]
  <2>1. GrowCb(k, cb, p, err) = x
    BY <1>3 DEF GrowCb
  <2>2. ts \in Nat /\ k.bb.tot <= ts /\ ts <= ShmMax /\ k.bb.tot \in Nat
    <3>1. k.bb.tot \in Nat
      BY <1>0 DEF Client
    <3>2. GrowInc(k.bb.tot) \in Nat /\ k.bb.tot + GrowInc(k.bb.tot) <= ShmMax
      BY <1>0, <3>1, GrowIncFacts
    <3> QED  BY <3>1, <3>2
  <2> HIDE DEF ts
  <2>3. BuddyInv(c, k.bufs) /\ c.tot <= ts
    BY <1>0, <2>2, SettotsizeFacts
  <2> HIDE DEF c
  <2>4. c \in [tot : Nat, free : [Levels -> SUBSET Nat]]
    BY <2>3 DEF BuddyInv, BuddyTypes
  <2>5. x \in Client
    BY <1>0, <2>4 DEF Client
  <2>6. x.req = TRUE /\ x.bb = c /\ x.bufs = k.bufs /\ x.closed = k.closed
    BY <1>0 DEF Client
  <2> HIDE DEF x
  <2>7. x.bb.tot <= ShmMax
    <3>1. c.tot \in Nat /\ ShmMax \in Nat
      BY <2>4, AsyncIoAssumption
    <3> QED  BY <2>2, <2>3, <2>6, <3>1
  <2> QED  BY <2>1, <2>3, <2>5, <2>6, <2>7 DEF Good, NobodyPassedOver
<1> QED  BY <1>1, <1>2, <1>3

\* Whatever callback a response calls, the buddy system stays exact.
LEMMA CallbackGood ==
    ASSUME NEW k \in Good, NEW cb \in Callbacks, NEW p, NEW err, err \/ p \in Pos
    PROVE  Callback(k, cb, p, err) \in Good /\ Callback(k, cb, p, err).closed = k.closed
<1>1. CASE cb.kind = "open"
    BY <1>1, OpenCbGood DEF Callback
<1>2. CASE cb.kind = "close"
    BY <1>2, CloseCbGood DEF Callback
<1>3. CASE cb.kind \in {"grow1", "grow2"}
  <2>1. Callback(k, cb, p, err) = GrowCb(k, cb, p, err)
    BY <1>3 DEF Callback
  <2> QED  BY <2>1, GrowCbGood
<1>4. CASE cb.kind \notin {"open", "close", "grow1", "grow2"}
  <2>1. Callback(k, cb, p, err) = Answer(k, cb.call, IF err THEN "err" ELSE "ok")
    BY <1>4 DEF Callback
  <2>2. cb.call \in OptCalls /\ (IF err THEN "err" ELSE "ok") \in Answers
    BY DEF Callbacks, Answers
  <2> QED  BY <2>1, <2>2, AnswerGood DEF Same
<1> QED  BY <1>1, <1>2, <1>3, <1>4

\* The list of callbacks of a request is assigned.
LEMMA RqtabGood ==
    ASSUME NEW k \in Good, NEW p \in Pos, NEW s \in Seq(Callbacks)
    PROVE  [k EXCEPT !.rqtab[p] = s] \in Good /\ Same(k, [k EXCEPT !.rqtab[p] = s])
<1>0. k \in Client
    BY GoodClient
<1>1. [k.rqtab EXCEPT ![p] = s] \in [Pos -> Seq(Callbacks)]
    BY <1>0 DEF Client
<1>2. [k EXCEPT !.rqtab[p] = s] \in Client
    BY <1>0, <1>1 DEF Client
<1>3. Same(k, [k EXCEPT !.rqtab[p] = s])
    BY <1>0 DEF Client, Same
<1> QED  BY <1>2, <1>3, SameGood

\* The client states after fail () has closed the aiod.
GoodClosed == {k \in Good : k.closed}

\* delreq () in fail ().
LEMMA FailReqGood ==
    ASSUME NEW k \in GoodClosed, NEW p \in Pos
    PROVE  FailReq(k, p) \in GoodClosed
<1> DEFINE x == Steps(FailCb, k, k.rqtab[p])
<1>1. k.rqtab[p] \in Seq(Callbacks)
    BY GoodClient DEF Client, GoodClosed
<1>2. \A y \in GoodClosed, cb \in Callbacks : FailCb(y, cb) \in GoodClosed
    BY CallbackGood DEF FailCb, GoodClosed
<1>3. x \in GoodClosed
    BY <1>1, <1>2, FailCbAll
<1>4. FailReq(k, p) = IF k.rqtab[p] = <<>> THEN k ELSE Free([x EXCEPT !.rqtab[p] = <<>>], p)
    BY DEF FailReq
<1> HIDE DEF x
<1> DEFINE y == [x EXCEPT !.rqtab[p] = <<>>]
<1>5. y \in Good /\ y.closed
  <2>1. <<>> \in Seq(Callbacks)
    OBVIOUS
  <2> QED  BY <1>3, <2>1, RqtabGood DEF Same, GoodClosed
<1> HIDE DEF y
<1>6. Free(y, p) \in GoodClosed
    BY <1>5, FreeGood DEF GoodClosed
<1> QED  BY <1>4, <1>6 DEF y

\* The second loop of fail ().
LEMMA FailWaitersGood ==
    ASSUME NEW k \in GoodClosed
    PROVE  FailWaiters(k) \in GoodClosed
<1> DEFINE x == [k EXCEPT !.wait = <<>>]
<1>0. k \in Client /\ k \in Good /\ k.closed
    BY GoodClient DEF GoodClosed
<1>1. x = [k EXCEPT !.wait = <<>>, !.req = k.req] /\ k.req \in BOOLEAN /\ x.closed = k.closed
    BY <1>0 DEF Client
<1> HIDE DEF x
<1>2. x \in GoodClosed
    BY <1>0, <1>1, TakeWaitGood DEF GoodClosed
<1>3. \A y \in GoodClosed, w \in Waiter : RunOp(y, w) \in GoodClosed
    BY RunOpGood DEF GoodClosed
<1>4. k.wait \in Seq(Waiter)
    BY <1>0 DEF Client
<1>5. Steps(RunOp, x, k.wait) \in GoodClosed
    BY <1>2, <1>3, <1>4, RunOpAll
<1> QED  BY <1>5 DEF FailWaiters, x

\* fail () keeps the buddy system exact; no bufwake () is due any more.
LEMMA FailGood ==
    ASSUME NEW k \in Good
    PROVE  Fail(k) \in GoodClosed /\ Fail(k).req = FALSE
<1> DEFINE s0 == [k EXCEPT !.closed = TRUE, !.cq = <<>>, !.rw = [d \in Daemons |-> <<>>]]
           ps == [i \in 1..ShmMax |-> i - 1]
           s1 == Steps(FailReq, s0, ps)
           s2 == FailWaiters(s1)
<1>0. k \in Client /\ BuddyInv(k.bb, k.bufs) /\ k.bb.tot <= ShmMax
    BY DEF Good
<1>1. Fail(k) = [s2 EXCEPT !.req = FALSE]
    BY DEF Fail
<1>2. s0 \in GoodClosed
  <2>1. <<>> \in Seq(Pos) /\ [d \in Daemons |-> <<>>] \in [Daemons -> Seq(Pos)]
    OBVIOUS
  <2>2. s0 \in Client
    BY <1>0, <2>1 DEF Client
  <2>3. s0.closed = TRUE /\ s0.bb = k.bb /\ s0.bufs = k.bufs
    BY <1>0 DEF Client
  <2> HIDE DEF s0
  <2> QED  BY <1>0, <2>2, <2>3 DEF GoodClosed, Good, NobodyPassedOver
<1>3. ps \in Seq(Pos)
    BY AsyncIoAssumption DEF Pos
<1> HIDE DEF s0, ps
<1>4. \A y \in GoodClosed, p \in Pos : FailReq(y, p) \in GoodClosed
    BY FailReqGood
<1>5. s1 \in GoodClosed
    BY <1>2, <1>3, <1>4, FailReqAll
<1> HIDE DEF s1
<1>6. s2 \in GoodClosed
    BY <1>5, FailWaitersGood
<1> HIDE DEF s2
<1> DEFINE x == [s2 EXCEPT !.req = FALSE]
<1>7. s2 \in Client /\ BuddyInv(s2.bb, s2.bufs) /\ s2.bb.tot <= ShmMax /\ s2.closed
    BY <1>6 DEF GoodClosed, Good
<1>8. x \in Client
    BY <1>7 DEF Client
<1>9. x.closed = s2.closed /\ x.bb = s2.bb /\ x.bufs = s2.bufs /\ x.req = FALSE
    BY <1>7 DEF Client
<1> HIDE DEF x
<1> QED  BY <1>1, <1>7, <1>8, <1>9 DEF GoodClosed, Good, NobodyPassedOver, x

\* A response, with the callback it calls and the buffer it frees.
LEMMA ResponseGood ==
    ASSUME NEW k \in Good, NEW p \in Pos
    PROVE  Response(k, p) \in Good
<1>1. CASE k.closed
    BY <1>1 DEF Response
<1>2. CASE ~k.closed /\ k.rqtab[p] = <<>>
    BY <1>2, FailGood DEF Response, GoodClosed
<1>3. CASE ~k.closed /\ k.rqtab[p] # <<>>
  <2> DEFINE s == Tail(k.rqtab[p])
             cb == Head(k.rqtab[p])
             x == [k EXCEPT !.rqtab[p] = s]
             y == Callback(x, cb, p, k.mem[p].err)
  <2>1. Response(k, p) = DelReq(y, p)
    BY <1>3 DEF Response
  <2>2. s \in Seq(Callbacks) /\ cb \in Callbacks
    <3>1. k.rqtab[p] \in Seq(Callbacks)
      BY GoodClient DEF Client
    <3> QED  BY <1>3, <3>1
  <2> HIDE DEF s, cb
  <2>3. x \in Good
    BY <2>2, RqtabGood
  <2> HIDE DEF x
  <2>4. y \in Good
    BY <2>2, <2>3, CallbackGood
  <2> HIDE DEF y
  <2> QED  BY <2>1, <2>4, FreeGood DEF DelReq
<1> QED  BY <1>1, <1>2, <1>3

-----------------------------------------------------------------------------
\* The inductive invariant: the client between two handlers.
ClientInv ==
    /\ cl \in Good
    /\ Sane /\ ~cl.closed => ~cl.req
    /\ cur \in [Daemons -> Pos \cup {-1}]
    /\ reply \in [Daemons -> Seq(Pos)]

\* A write that fails changes nothing but the client's end.
LEMMA WrittenFacts ==
    ASSUME NEW k, NEW x \in Good
    PROVE  /\ Written(k, x) \in Good /\ Written(k, x).req = x.req
           /\ x.fault \subseteq Written(k, x).fault
           /\ Written(k, x) = [x EXCEPT !.fault = Written(k, x).fault]
<1> DEFINE y == Fatal(x)
           g == x.fault \cup {"fatal"}
<1>0. x \in Client
    BY GoodClient
<1>1. y = [x EXCEPT !.fault = g]
    BY DEF Fatal
<1>2. g \in SUBSET {"spin", "dangling", "nospace", "fatal"} /\ x.fault \subseteq g
    BY <1>0 DEF Client
<1> HIDE DEF y, g
<1>3. y \in Client /\ y.fault = g
    BY <1>0, <1>1, <1>2 DEF Client
<1>4. /\ y.closed = x.closed /\ y.grow = x.grow /\ y.req = x.req /\ y.bb = x.bb
      /\ y.bufs = x.bufs /\ y.wait = x.wait
    BY <1>0, <1>1 DEF Client
<1>5. y \in Good
    BY <1>2, <1>3, <1>4 DEF Good, NobodyPassedOver
<1>6. x = [x EXCEPT !.fault = x.fault]
    BY <1>0 DEF Client
<1>7. Written(k, x) = y \/ Written(k, x) = x
    BY DEF Written, y
<1> QED  BY <1>1, <1>2, <1>3, <1>4, <1>5, <1>6, <1>7

\* An application's call, with all that it wakes.
LEMMA CallInv ==
    ASSUME ClientInv, NEW c \in Calls, Call(c)
    PROVE  ClientInv'
<1> USE DEF ClientInv
<1> DEFINE k == [cl EXCEPT !.ans[c] = "pending"]
<1>1. k \in Good
  <2>1. k = Answer(cl, c, "pending")
    BY DEF Answer, None, Calls
  <2>2. c \in OptCalls
    BY DEF OptCalls
  <2>3. "pending" \in Answers
    BY DEF Answers
  <2> HIDE DEF k
  <2> QED  BY <2>1, <2>2, <2>3, AnswerGood
<1>2. PICK w \in {Cb("path", c, None, PathLevel)}
            \cup {Cb("open", c, c, 0)}
            \cup {Cb("rw", c, f, 0) : f \in {g \in Calls : Usable(g)}}
            \cup {Cb("close", c, f, 0) : f \in {g \in Calls : IdleFh(g)}} :
          cl' = Written(cl, Settle(RunOp(k, w)))
    BY Zenon DEF Call
<1>3. w \in Waiter
    BY <1>2, ZeroLevel, AsyncIoAssumption DEF Cb, Waiter, OptCalls
<1> HIDE DEF k
<1>4. RunOp(k, w) \in Good
    BY <1>1, <1>3, RunOpGood
<1>5. cl' \in Good /\ (cl'.req => "spin" \in cl'.fault)
  <2> DEFINE x == Settle(RunOp(k, w))
  <2>1. x \in Good /\ (x.req => "spin" \in x.fault)
    BY <1>4, SettleGood
  <2> HIDE DEF x
  <2> QED  BY <1>2, <2>1, WrittenFacts DEF x
<1>6. UNCHANGED <<cur, reply>>
    BY DEF Call
<1> QED  BY <1>5, <1>6 DEF Sane

\* The responses that the client has read from a socket, or its end.
LEMMA InputInv ==
    ASSUME ClientInv, NEW d \in Daemons, Input(d)
    PROVE  ClientInv'
<1> USE DEF ClientInv
<1>1. reply[d] \in Seq(Pos) /\ UNCHANGED cur
    BY DEF Input
<1>2. CASE cl' = Fail(cl) /\ UNCHANGED reply
  <2>1. cl' \in GoodClosed
    BY <1>2, FailGood
  <2> QED  BY <1>1, <1>2, <2>1 DEF GoodClosed
<1>3. ASSUME NEW n \in 1..Len(reply[d]),
             cl' = Written(cl, Settle(Steps(Response, cl, SubSeq(reply[d], 1, n)))),
             reply' = [reply EXCEPT ![d] = SubSeq(@, n + 1, Len(@))]
      PROVE  ClientInv'
  <2>1. SubSeq(reply[d], 1, n) \in Seq(Pos) /\ SubSeq(reply[d], n + 1, Len(reply[d])) \in Seq(Pos)
    BY <1>1
  <2>2. \A y \in Good, p \in Pos : Response(y, p) \in Good
    BY ResponseGood
  <2>3. Steps(Response, cl, SubSeq(reply[d], 1, n)) \in Good
    BY <2>1, <2>2, ResponseAll
  <2>4. cl' \in Good /\ (cl'.req => "spin" \in cl'.fault)
    <3> DEFINE x == Settle(Steps(Response, cl, SubSeq(reply[d], 1, n)))
    <3>1. x \in Good /\ (x.req => "spin" \in x.fault)
      BY <2>3, SettleGood
    <3> HIDE DEF x
    <3> QED  BY <1>3, <3>1, WrittenFacts DEF x
  <2>5. reply' \in [Daemons -> Seq(Pos)]
    BY <1>3, <2>1
  <2> QED  BY <1>1, <2>4, <2>5 DEF Sane
<1> QED  BY <1>2, <1>3 DEF Input

\* A write that fails later.
LEMMA OutputInv ==
    ASSUME ClientInv, Output
    PROVE  ClientInv'
<1>1. cl' = Written(InitClient, cl) /\ UNCHANGED <<cur, reply>> /\ ~cl.closed /\ Sane
    BY DEF Output, Written
<1>2. cl \in Good /\ ~cl.req
    BY <1>1 DEF ClientInv
<1>3. cl' \in Good /\ ~cl'.req
    BY <1>1, <1>2, WrittenFacts
<1> QED  BY <1>1, <1>3 DEF ClientInv

\* What the daemons do to the client's memory and its queues.
LEMMA DaemonInv ==
    ASSUME ClientInv, NEW d \in Daemons, Take(d) \/ Serve(d) \/ SigioHandler(d) \/ Die(d)
    PROVE  ClientInv'
<1> USE DEF ClientInv
<1>0. cl \in Client
    BY GoodClient
<1>1. ASSUME NEW k \in Good, Same(cl, k), NEW p \in Pos, Getmsg(k, d, p)
      PROVE  cl' \in Good /\ Same(cl, cl') /\ reply' \in [Daemons -> Seq(Pos)]
  <2>1. PICK e \in BOOLEAN : cl' = [k EXCEPT !.mem[p].err = e] /\ reply' = [reply EXCEPT ![d] = Append(@, p)]
    BY <1>1, Zenon DEF Getmsg
  <2>2. k \in Client
    BY GoodClient
  <2>3. [k.mem EXCEPT ![p].err = e] \in [Pos -> Contents]
    <3>1. k.mem \in [Pos -> Contents]
      BY <2>2 DEF Client
    <3>2. [k.mem[p] EXCEPT !.err = e] \in Contents
      BY <3>1 DEF Contents
    <3> QED  BY <3>1, <3>2
  <2>4. cl' \in Client
    BY <2>1, <2>2, <2>3 DEF Client
  <2>5. Same(k, cl')
    BY <2>1, <2>2 DEF Same, Client
  <2>6. Same(cl, cl')
    BY <1>1, <2>5 DEF Same
  <2>7. reply' \in [Daemons -> Seq(Pos)]
    BY <2>1
  <2> QED  BY <1>1, <2>4, <2>5, <2>6, <2>7, SameGood
<1>2. Same(cl, cl)
    BY DEF Same
<1>3. CASE Take(d)
  <2>1. cl.cq \in Seq(Pos) /\ cl.cq # <<>>
    BY <1>0, <1>3 DEF Client, Take
  <2>2. Tail(cl.cq) \in Seq(Pos) /\ Head(cl.cq) \in Pos
    BY <2>1
  <2>3. cl' = [cl EXCEPT !.cq = Tail(cl.cq)]
    BY <1>3 DEF Take
  <2>4. cl' \in Client
    BY <1>0, <2>2, <2>3 DEF Client
  <2>5. Same(cl, cl')
    BY <1>0, <2>3 DEF Client, Same
  <2>6. cl' \in Good
    BY <2>4, <2>5, SameGood
  <2>7. cur' \in [Daemons -> Pos \cup {-1}] /\ reply' = reply
    BY <1>3, <2>2 DEF Take
  <2> QED  BY <2>5, <2>6, <2>7 DEF Same, Sane
<1>4. CASE Serve(d)
  <2>1. cur[d] \in Pos /\ Getmsg(cl, d, cur[d]) /\ cur' = [cur EXCEPT ![d] = -1]
    BY <1>4 DEF Serve
  <2>2. cl' \in Good /\ Same(cl, cl') /\ reply' \in [Daemons -> Seq(Pos)]
    BY <1>1, <1>2, <2>1
  <2> QED  BY <2>1, <2>2 DEF Same, Sane
<1>5. CASE SigioHandler(d)
  <2> DEFINE k == [cl EXCEPT !.rw[d] = Tail(@)]
             p == Head(cl.rw[d])
  <2>1. cl.rw[d] \in Seq(Pos) /\ cl.rw[d] # <<>> /\ Getmsg(k, d, p) /\ UNCHANGED cur
    BY <1>0, <1>5 DEF Client, SigioHandler
  <2>2. Tail(cl.rw[d]) \in Seq(Pos) /\ p \in Pos
    BY <2>1
  <2>3. [cl.rw EXCEPT ![d] = Tail(cl.rw[d])] \in [Daemons -> Seq(Pos)]
    BY <1>0, <2>2 DEF Client
  <2>4. k \in Client
    BY <1>0, <2>3 DEF Client
  <2>5. Same(cl, k)
    BY <1>0 DEF Client, Same
  <2> HIDE DEF k, p
  <2>6. k \in Good
    BY <2>4, <2>5, SameGood
  <2>7. cl' \in Good /\ Same(cl, cl') /\ reply' \in [Daemons -> Seq(Pos)]
    BY <1>1, <2>1, <2>2, <2>5, <2>6
  <2> QED  BY <2>1, <2>7 DEF Same, Sane
<1>6. CASE Die(d)
    BY <1>6 DEF Die, Sane
<1> QED  BY <1>3, <1>4, <1>5, <1>6

\* The constructor of aiod.
LEMMA ClientInit == Init => ClientInv
<1> SUFFICES ASSUME Init PROVE ClientInv
    OBVIOUS
<1>1. NewBuddy \in [tot : Nat, free : [Levels -> SUBSET Nat]]
    BY DEF NewBuddy
<1>2. BuddyInv(NewBuddy, {})
  <2>1. MaxBuf \in Nat
    BY BuddyAssumption, SizeFacts DEF MaxBuf
  <2>2. BuddyTypes(NewBuddy, {})
    <3>1. NewBuddy.tot = 0 * MaxBuf
      BY <2>1 DEF NewBuddy
    <3> QED  BY <1>1, <3>1 DEF BuddyTypes
  <2>3. FreeBlocks(NewBuddy) = {}
    BY DEF FreeBlocks, NewBuddy
  <2>4. Tiles({}, {}, NewBuddy.tot)
    BY DEF Tiles, NewBuddy
  <2>5. Apart(NewBuddy)
    BY DEF Apart, NewBuddy
  <2> QED  BY <2>2, <2>3, <2>4, <2>5 DEF BuddyInv
<1>3. InitClient \in Client
  <2>1. Zero \in Contents
    BY ContentType, NoneType DEF Zero
  <2>2. <<>> \in Seq(Waiter) /\ <<>> \in Seq(Callbacks) /\ <<>> \in Seq(Pos) /\ <<>> \in Seq(Nat)
    OBVIOUS
  <2>3. [st |-> "none", no |-> None, pos |-> 0, closed |-> FALSE, left |-> 0] \in FhRec
    BY DEF FhRec, None
  <2>4. /\ [p \in Pos |-> Zero] \in [Pos -> Contents]
        /\ [p \in Pos |-> <<>>] \in [Pos -> Seq(Callbacks)]
        /\ [d \in Daemons |-> <<>>] \in [Daemons -> Seq(Pos)]
        /\ [c \in Calls |-> [st |-> "none", no |-> None, pos |-> 0, closed |-> FALSE, left |-> 0]]
              \in [Calls -> FhRec]
        /\ [c \in Calls |-> "none"] \in [Calls -> Answers]
    BY <2>1, <2>2, <2>3 DEF Answers
  <2>5. -1 \in Int /\ 1 \in Nat
    OBVIOUS
  <2> QED  BY <1>1, <2>2, <2>4, <2>5 DEF InitClient, Client
<1>4. /\ InitClient.bb = NewBuddy /\ InitClient.bufs = {} /\ InitClient.wait = <<>>
      /\ InitClient.req = FALSE
    BY DEF InitClient
<1>5. NewBuddy.tot <= ShmMax
    BY AsyncIoAssumption DEF NewBuddy
<1>6. cl = InitClient /\ cur = [d \in Daemons |-> -1] /\ reply = [d \in Daemons |-> <<>>]
    BY DEF Init
<1>7. NobodyPassedOver(InitClient)
    BY <1>4 DEF NobodyPassedOver
<1>8. InitClient \in Good
    BY <1>2, <1>3, <1>4, <1>5, <1>7 DEF Good
<1> QED  BY <1>4, <1>6, <1>8 DEF ClientInv

\* The invariant of the client.
LEMMA ClientInvariance == Spec => []ClientInv
<1>1. ClientInv /\ [Next]_vars => ClientInv'
  <2> SUFFICES ASSUME ClientInv, [Next]_vars PROVE ClientInv'
    OBVIOUS
  <2>1. CASE UNCHANGED vars
    BY <2>1 DEF vars, ClientInv, Sane
  <2> QED  BY <2>1, CallInv, OutputInv, InputInv, DaemonInv DEF Next
<1> QED  BY <1>1, ClientInit, PTL DEF Spec

\* Whatever is allocated, freed, split, joined and grown, and in whatever order
\* the responses come and the daemons die, each unit of the shared memory is in
\* exactly one block, free or held, and no block is free next to its buddy.
THEOREM BuddyExactHolds == Spec => []BuddyExact
<1>1. ClientInv => BuddyExact
    BY ExactOfTiles DEF ClientInv, Good, BuddyExact
<1> QED  BY <1>1, ClientInvariance, PTL

\* What waits for memory in bbwaitq lacks it: no wakeup is lost, whether a buffer
\* is freed in input (), in bufwake () or outside of both.
THEOREM WaitersLackHolds == Spec => []WaitersLack
<1>1. ClientInv => WaitersLack
  <2> SUFFICES ASSUME ClientInv, ~cl.closed, Sane, NEW i \in 1..Len(cl.wait)
               PROVE  /\ ~Fits(cl.wait[i])
                      /\ cl.grow \/ cl.bb.tot = ShmMax \/ "nospace" \in cl.fault
    BY DEF WaitersLack
  <2>1. NobodyPassedOver(cl) /\ ~cl.req
    BY DEF ClientInv, Good
  <2>2. Fits(cl.wait[i]) = FitsIn(cl.bb, cl.wait[i])
    BY DEF Fits, FitsIn
  <2> QED  BY <2>1, <2>2 DEF NobodyPassedOver
<1> QED  BY <1>1, ClientInvariance, PTL

-----------------------------------------------------------------------------
(***************************************************************************)
(* Messages under way.                                                     *)
(***************************************************************************)

\* The places of a message, one by one.
LEMMA SlotIn ==
    ASSUME NEW Q, NEW p, NEW s
    PROVE  s \in Slots(Q, p)
             <=> \E x \in DOMAIN Q : \E i \in 1..Len(Q[x]) : Q[x][i] = p /\ s = <<x, i>>
BY DEF Slots

\* The queues Z are Q but for the queue x.
Replaced(Q, Z, x, s) ==
    DOMAIN Z = DOMAIN Q /\ Z[x] = s /\ \A y \in DOMAIN Q : y # x => Z[y] = Q[y]

\* A message is put at the end of one queue.
LEMMA SlotsAppend ==
    ASSUME NEW Q, NEW x \in DOMAIN Q, Q[x] \in Seq(Pos), NEW p \in Pos, NEW q \in Pos,
           NEW Z, Replaced(Q, Z, x, Append(Q[x], p))
    PROVE  Slots(Z, q) = IF q = p THEN Slots(Q, q) \cup {<<x, Len(Q[x]) + 1>>} ELSE Slots(Q, q)
<1> DEFINE n == Len(Q[x]) + 1
<1>1. /\ n \in Nat /\ Len(Append(Q[x], p)) = n /\ Append(Q[x], p)[n] = p
      /\ \A i \in 1..Len(Q[x]) : i \in 1..n /\ i # n /\ Append(Q[x], p)[i] = Q[x][i]
      /\ \A i \in 1..n : i = n \/ i \in 1..Len(Q[x])
      /\ n \in 1..n
    OBVIOUS
<1>2. DOMAIN Z = DOMAIN Q /\ Z[x] = Append(Q[x], p) /\ \A y \in DOMAIN Q : y # x => Z[y] = Q[y]
    BY DEF Replaced
<1> HIDE DEF n
<1>3. ASSUME NEW s \in Slots(Z, q) PROVE s \in Slots(Q, q) \/ (q = p /\ s = <<x, n>>)
  <2>0. PICK y \in DOMAIN Z : \E i \in 1..Len(Z[y]) : Z[y][i] = q /\ s = <<y, i>>
    BY SlotIn
  <2>1. PICK i \in 1..Len(Z[y]) : Z[y][i] = q /\ s = <<y, i>>
    BY <2>0
  <2>2. CASE y # x
    BY <1>2, <2>1, <2>2, SlotIn
  <2>3. CASE y = x
    BY <1>1, <1>2, <2>1, <2>3, SlotIn
  <2> QED  BY <2>2, <2>3
<1>4. ASSUME NEW s \in Slots(Q, q) PROVE s \in Slots(Z, q)
  <2>0. PICK y \in DOMAIN Q : \E i \in 1..Len(Q[y]) : Q[y][i] = q /\ s = <<y, i>>
    BY SlotIn
  <2>1. PICK i \in 1..Len(Q[y]) : Q[y][i] = q /\ s = <<y, i>>
    BY <2>0
  <2>2. CASE y # x
    BY <1>2, <2>1, <2>2, SlotIn
  <2>3. CASE y = x
    BY <1>1, <1>2, <2>1, <2>3, SlotIn
  <2> QED  BY <2>2, <2>3
<1>5. ASSUME q = p PROVE <<x, n>> \in Slots(Z, q)
  <2>1. x \in DOMAIN Z /\ n \in 1..Len(Z[x]) /\ Z[x][n] = q
    BY <1>1, <1>2, <1>5
  <2> QED  BY <2>1, SlotIn
<1> QED  BY <1>3, <1>4, <1>5 DEF n

\* One message more.
LEMMA AppendNum ==
    ASSUME NEW Q, NEW x \in DOMAIN Q, Q[x] \in Seq(Pos), NEW p \in Pos, NEW q \in Pos,
           NEW Z, Replaced(Q, Z, x, Append(Q[x], p)), IsFiniteSet(Slots(Q, q))
    PROVE  /\ IsFiniteSet(Slots(Z, q))
           /\ Cardinality(Slots(Z, q)) = Cardinality(Slots(Q, q)) + (IF q = p THEN 1 ELSE 0)
<1> DEFINE s == <<x, Len(Q[x]) + 1>>
<1>1. Slots(Z, q) = IF q = p THEN Slots(Q, q) \cup {s} ELSE Slots(Q, q)
    BY SlotsAppend
<1>2. s \notin Slots(Q, q)
  <2> SUFFICES ASSUME s \in Slots(Q, q) PROVE FALSE
    OBVIOUS
  <2>0. PICK y \in DOMAIN Q : \E i \in 1..Len(Q[y]) : Q[y][i] = q /\ s = <<y, i>>
    BY SlotIn
  <2>1. PICK i \in 1..Len(Q[y]) : Q[y][i] = q /\ s = <<y, i>>
    BY <2>0
  <2>2. y = x /\ i = Len(Q[x]) + 1
    BY <2>1
  <2> QED  BY <2>1, <2>2
<1>3. Cardinality(Slots(Q, q)) \in Nat
    BY FS_CardinalityType
<1> HIDE DEF s
<1>4. IsFiniteSet(Slots(Q, q) \cup {s})
      /\ Cardinality(Slots(Q, q) \cup {s}) = Cardinality(Slots(Q, q)) + 1
    BY <1>2, FS_AddElement
<1> QED  BY <1>1, <1>3, <1>4

\* A message is taken from the front of a queue: the others move up.
LEMMA TailNum ==
    ASSUME NEW Q, NEW x \in DOMAIN Q, Q[x] \in Seq(Pos), Q[x] # <<>>, NEW q \in Pos,
           NEW Z, Replaced(Q, Z, x, Tail(Q[x])), IsFiniteSet(Slots(Q, q))
    PROVE  /\ IsFiniteSet(Slots(Z, q))
           /\ Cardinality(Slots(Z, q))
                = Cardinality(Slots(Q, q)) - (IF q = Q[x][1] THEN 1 ELSE 0)
<1> DEFINE S == Slots(Q, q) \ {<<x, 1>>}
           T == Slots(Z, q)
           g == [t \in T |-> IF t[1] = x THEN <<x, t[2] + 1>> ELSE t]
<1>1. /\ Len(Q[x]) \in Nat /\ Len(Tail(Q[x])) = Len(Q[x]) - 1
      /\ \A i \in 1..(Len(Q[x]) - 1) : i + 1 \in 1..Len(Q[x]) /\ Tail(Q[x])[i] = Q[x][i + 1]
      /\ 1 \in 1..Len(Q[x])
    OBVIOUS
<1>2. DOMAIN Z = DOMAIN Q /\ Z[x] = Tail(Q[x]) /\ \A y \in DOMAIN Q : y # x => Z[y] = Q[y]
    BY DEF Replaced
<1>3. ASSUME NEW t \in T
      PROVE  \/ t[1] # x /\ t \in Slots(Q, q)
             \/ \E i \in 1..(Len(Q[x]) - 1) : t = <<x, i>> /\ Q[x][i + 1] = q
  <2>0. PICK y \in DOMAIN Z : \E i \in 1..Len(Z[y]) : Z[y][i] = q /\ t = <<y, i>>
    BY SlotIn
  <2>1. PICK i \in 1..Len(Z[y]) : Z[y][i] = q /\ t = <<y, i>>
    BY <2>0
  <2>2. CASE y # x
    BY <1>2, <2>1, <2>2, SlotIn
  <2>3. CASE y = x
    BY <1>1, <1>2, <2>1, <2>3
  <2> QED  BY <2>2, <2>3
<1>4. ASSUME NEW t \in T PROVE g[t] \in S
  <2>1. CASE t[1] # x /\ t \in Slots(Q, q)
    BY <2>1
  <2>2. ASSUME NEW i \in 1..(Len(Q[x]) - 1), t = <<x, i>>, Q[x][i + 1] = q PROVE g[t] \in S
    <3>1. g[t] = <<x, i + 1>>
      BY <2>2
    <3>2. <<x, i + 1>> \in Slots(Q, q)
      BY <1>1, <2>2, SlotIn
    <3>3. <<x, i + 1>> # <<x, 1>>
      OBVIOUS
    <3> HIDE DEF g
    <3> QED  BY <3>1, <3>2, <3>3
  <2> QED  BY <1>3, <2>1, <2>2
<1>5. ASSUME NEW t \in T, NEW u \in T, g[t] = g[u] PROVE t = u
  <2>0. ASSUME NEW v \in T
        PROVE  \/ v[1] # x /\ g[v] = v
               \/ \E i \in Nat : v = <<x, i>> /\ g[v] = <<x, i + 1>>
    <3>1. CASE v[1] # x
      BY <3>1
    <3>2. CASE \E i \in 1..(Len(Q[x]) - 1) : v = <<x, i>> /\ Q[x][i + 1] = q
      <4>1. PICK i \in 1..(Len(Q[x]) - 1) : v = <<x, i>>
        BY <3>2
      <4>2. i \in Nat /\ g[v] = <<x, i + 1>>
        BY <4>1
      <4> QED  BY <4>1, <4>2
    <3> QED  BY <1>3, <3>1, <3>2
  <2>1. \/ t[1] # x /\ g[t] = t
        \/ \E i \in Nat : t = <<x, i>> /\ g[t] = <<x, i + 1>>
    BY <2>0
  <2>2. \/ u[1] # x /\ g[u] = u
        \/ \E i \in Nat : u = <<x, i>> /\ g[u] = <<x, i + 1>>
    BY <2>0
  <2> HIDE DEF g
  <2> QED  BY <1>5, <2>1, <2>2
<1>6. ASSUME NEW s \in S PROVE \E t \in T : g[t] = s
  <2>0. PICK y \in DOMAIN Q : \E i \in 1..Len(Q[y]) : Q[y][i] = q /\ s = <<y, i>>
    BY SlotIn
  <2>1. PICK i \in 1..Len(Q[y]) : Q[y][i] = q /\ s = <<y, i>>
    BY <2>0
  <2>2. CASE y # x
    <3>1. s \in T
      BY <1>2, <2>1, <2>2, SlotIn
    <3> QED  BY <2>1, <2>2, <3>1
  <2>3. CASE y = x
    <3>1. i # 1 /\ i - 1 \in 1..(Len(Q[x]) - 1) /\ (i - 1) + 1 = i
      BY <1>1, <2>1, <2>3
    <3>2. <<x, i - 1>> \in T
      <4>1. x \in DOMAIN Z /\ i - 1 \in 1..Len(Z[x]) /\ Z[x][i - 1] = q
        BY <1>1, <1>2, <2>1, <2>3, <3>1
      <4> QED  BY <4>1, SlotIn
    <3>3. g[<<x, i - 1>>] = <<x, i>>
      BY <3>1, <3>2
    <3> QED  BY <2>1, <2>3, <3>2, <3>3
  <2> QED  BY <2>2, <2>3
<1>7. ExistsBijection(T, S) /\ ExistsBijection(S, T)
  <2>1. g \in Bijection(T, S)
    <3>1. g \in [T -> S]
      BY <1>4
    <3> HIDE DEF g, S, T
    <3> QED  BY <1>5, <1>6, <3>1, Zenon DEF Bijection, Injection, Surjection, IsInjective
  <2>2. ExistsBijection(T, S)
    BY <2>1, Zenon DEF ExistsBijection
  <2> QED  BY <2>2, Fun_ExistsBijSymmetric
<1>8. /\ IsFiniteSet(S)
      /\ Cardinality(S) = Cardinality(Slots(Q, q)) - (IF q = Q[x][1] THEN 1 ELSE 0)
  <2>1. <<x, 1>> \in Slots(Q, q) <=> q = Q[x][1]
    <3>1. q = Q[x][1] => <<x, 1>> \in Slots(Q, q)
      BY <1>1, SlotIn
    <3>2. ASSUME <<x, 1>> \in Slots(Q, q) PROVE q = Q[x][1]
      <4>0. PICK y \in DOMAIN Q : \E i \in 1..Len(Q[y]) : Q[y][i] = q /\ <<x, 1>> = <<y, i>>
        BY <3>2, SlotIn
      <4>1. PICK i \in 1..Len(Q[y]) : Q[y][i] = q /\ <<x, 1>> = <<y, i>>
        BY <4>0
      <4> QED  BY <4>1
    <3> QED  BY <3>1, <3>2
  <2>2. Cardinality(Slots(Q, q)) \in Nat
    BY FS_CardinalityType
  <2>3. /\ IsFiniteSet(S)
        /\ Cardinality(S) = IF <<x, 1>> \in Slots(Q, q) THEN Cardinality(Slots(Q, q)) - 1
                            ELSE Cardinality(Slots(Q, q))
    BY FS_RemoveElement, Zenon
  <2> HIDE DEF S
  <2> QED  BY <2>1, <2>2, <2>3
<1> HIDE DEF S, g
<1>9. IsFiniteSet(T) /\ Cardinality(T) = Cardinality(S)
    BY <1>7, <1>8, FS_Bijection
<1> QED  BY <1>8, <1>9

\* The queues Z are Q but for one message more to each of the daemons.
ToAll(Q, Z, p) ==
    /\ DOMAIN Z = DOMAIN Q
    /\ \A d \in Daemons : /\ <<"to", d>> \in DOMAIN Q /\ Q[<<"to", d>>] \in Seq(Pos)
                          /\ Z[<<"to", d>>] = Append(Q[<<"to", d>>], p)
    /\ \A y \in DOMAIN Q : (\A d \in Daemons : y # <<"to", d>>) => Z[y] = Q[y]

\* A message to each of the daemons.
LEMMA BroadcastNum ==
    ASSUME NEW Q, NEW Z, NEW p \in Pos, NEW q \in Pos, ToAll(Q, Z, p), IsFiniteSet(Slots(Q, q))
    PROVE  /\ IsFiniteSet(Slots(Z, q))
           /\ Cardinality(Slots(Z, q))
                = Cardinality(Slots(Q, q)) + (IF q = p THEN NDaemons ELSE 0)
<1> DEFINE n(d) == Len(Q[<<"to", d>>]) + 1
           B == {<<<<"to", d>>, n(d)>> : d \in Daemons}
           g == [d \in Daemons |-> <<<<"to", d>>, n(d)>>]
<1>0. /\ DOMAIN Z = DOMAIN Q
      /\ \A d \in Daemons : /\ <<"to", d>> \in DOMAIN Q /\ Q[<<"to", d>>] \in Seq(Pos)
                            /\ Z[<<"to", d>>] = Append(Q[<<"to", d>>], p)
      /\ \A y \in DOMAIN Q : (\A d \in Daemons : y # <<"to", d>>) => Z[y] = Q[y]
    BY DEF ToAll
<1>1. ASSUME NEW d \in Daemons
      PROVE  /\ n(d) \in Nat /\ Len(Z[<<"to", d>>]) = n(d) /\ Z[<<"to", d>>][n(d)] = p
             /\ n(d) \in 1..n(d)
             /\ \A i \in 1..Len(Q[<<"to", d>>]) :
                  i \in 1..n(d) /\ i # n(d) /\ Z[<<"to", d>>][i] = Q[<<"to", d>>][i]
             /\ \A i \in 1..n(d) : i = n(d) \/ i \in 1..Len(Q[<<"to", d>>])
  <2>1. Q[<<"to", d>>] \in Seq(Pos) /\ Z[<<"to", d>>] = Append(Q[<<"to", d>>], p)
    BY <1>0
  <2> QED  BY <2>1
<1> HIDE DEF n
<1>2. ASSUME NEW s \in Slots(Z, q) PROVE s \in Slots(Q, q) \/ (q = p /\ s \in B)
  <2>1. PICK y \in DOMAIN Z : \E i \in 1..Len(Z[y]) : Z[y][i] = q /\ s = <<y, i>>
    BY SlotIn
  <2>2. PICK i \in 1..Len(Z[y]) : Z[y][i] = q /\ s = <<y, i>>
    BY <2>1
  <2>3. CASE \A d \in Daemons : y # <<"to", d>>
    <3>1. Z[y] = Q[y] /\ y \in DOMAIN Q
      BY <1>0, <2>3
    <3> QED  BY <2>2, <3>1, SlotIn
  <2>4. ASSUME NEW d \in Daemons, y = <<"to", d>>
        PROVE  s \in Slots(Q, q) \/ (q = p /\ s \in B)
    <3>1. i \in 1..n(d)
      BY <1>1, <2>2, <2>4
    <3>2. CASE i = n(d)
      BY <1>1, <2>2, <2>4, <3>2
    <3>3. CASE i \in 1..Len(Q[<<"to", d>>])
      <4>1. Q[<<"to", d>>][i] = q /\ <<"to", d>> \in DOMAIN Q
        BY <1>0, <1>1, <2>2, <2>4, <3>3
      <4> QED  BY <2>2, <2>4, <3>3, <4>1, SlotIn
    <3> QED  BY <1>1, <3>1, <3>2, <3>3
  <2> QED  BY <2>3, <2>4
<1>3. ASSUME NEW s \in Slots(Q, q) PROVE s \in Slots(Z, q) /\ s \notin B
  <2>1. PICK y \in DOMAIN Q : \E i \in 1..Len(Q[y]) : Q[y][i] = q /\ s = <<y, i>>
    BY SlotIn
  <2>2. PICK i \in 1..Len(Q[y]) : Q[y][i] = q /\ s = <<y, i>>
    BY <2>1
  <2>3. CASE \A d \in Daemons : y # <<"to", d>>
    <3>1. Z[y] = Q[y] /\ y \in DOMAIN Z
      BY <1>0, <2>3
    <3>2. s \notin B
      BY <2>2, <2>3
    <3> QED  BY <2>2, <3>1, <3>2, SlotIn
  <2>4. ASSUME NEW d \in Daemons, y = <<"to", d>>
        PROVE  s \in Slots(Z, q) /\ s \notin B
    <3>1. i \in 1..n(d) /\ i # n(d) /\ Z[y][i] = q /\ i \in 1..Len(Z[y]) /\ y \in DOMAIN Z
      BY <1>0, <1>1, <2>2, <2>4
    <3>2. s \notin B
      BY <2>2, <2>4, <3>1
    <3> QED  BY <2>2, <3>1, <3>2, SlotIn
  <2> QED  BY <2>3, <2>4
<1>4. ASSUME q = p, NEW s \in B PROVE s \in Slots(Z, q)
  <2>1. PICK d \in Daemons : s = <<<<"to", d>>, n(d)>>
    OBVIOUS
  <2>2. <<"to", d>> \in DOMAIN Z /\ n(d) \in 1..Len(Z[<<"to", d>>]) /\ Z[<<"to", d>>][n(d)] = q
    BY <1>0, <1>1, <1>4
  <2> QED  BY <2>1, <2>2, SlotIn
<1>5. IsFiniteSet(B) /\ Cardinality(B) = NDaemons
  <2>1. g \in [Daemons -> B]
    OBVIOUS
  <2>2. \A d, e \in Daemons : g[d] = g[e] => d = e
    OBVIOUS
  <2>3. \A b \in B : \E d \in Daemons : g[d] = b
    OBVIOUS
  <2> HIDE DEF g, B
  <2>4. g \in Bijection(Daemons, B)
    BY <2>1, <2>2, <2>3, Zenon DEF Bijection, Injection, Surjection, IsInjective
  <2>5. ExistsBijection(Daemons, B)
    BY <2>4, Zenon DEF ExistsBijection
  <2>6. IsFiniteSet(Daemons) /\ Cardinality(Daemons) = NDaemons
    <3>1. NDaemons \in Int /\ ~(1 > NDaemons) /\ NDaemons - 1 + 1 = NDaemons
      BY AsyncIoAssumption
    <3>2. /\ IsFiniteSet(1..NDaemons)
          /\ Cardinality(1..NDaemons) = IF 1 > NDaemons THEN 0 ELSE NDaemons - 1 + 1
      BY <3>1, FS_Interval
    <3> QED  BY <3>1, <3>2 DEF Daemons
  <2> QED  BY <2>5, <2>6, FS_Bijection
<1> HIDE DEF B
<1>6. Cardinality(Slots(Q, q)) \in Nat /\ NDaemons \in Nat
    BY FS_CardinalityType, AsyncIoAssumption
<1>7. CASE q = p
  <2>1. Slots(Z, q) = Slots(Q, q) \cup B /\ Slots(Q, q) \cap B = {}
    BY <1>2, <1>3, <1>4, <1>7
  <2>2. /\ IsFiniteSet(Slots(Q, q) \cup B)
        /\ Cardinality(Slots(Q, q) \cup B)
             = Cardinality(Slots(Q, q)) + Cardinality(B) - Cardinality(Slots(Q, q) \cap B)
    BY <1>5, FS_Union
  <2>3. Cardinality(Slots(Q, q) \cap B) = 0
    BY <2>1, FS_EmptySet
  <2> QED  BY <1>5, <1>6, <1>7, <2>1, <2>2, <2>3
<1>8. CASE q # p
  <2>1. Slots(Z, q) = Slots(Q, q)
    BY <1>2, <1>3, <1>8
  <2> QED  BY <1>6, <1>8, <2>1
<1> QED  BY <1>7, <1>8

\* A message somewhere is counted.
LEMMA SomeSlot ==
    ASSUME NEW Q, NEW p, IsFiniteSet(Slots(Q, p)), NEW x \in DOMAIN Q,
           NEW i \in 1..Len(Q[x]), Q[x][i] = p
    PROVE  Cardinality(Slots(Q, p)) >= 1
<1>1. <<x, i>> \in Slots(Q, p)
    BY SlotIn
<1>2. {<<x, i>>} \in SUBSET Slots(Q, p)
    BY <1>1
<1>3. Cardinality({<<x, i>>}) = 1
    BY FS_Singleton
<1>4. Cardinality(Slots(Q, p)) \in Nat /\ Cardinality({<<x, i>>}) <= Cardinality(Slots(Q, p))
    BY <1>2, FS_Subset, FS_CardinalityType
<1> QED  BY <1>3, <1>4

\* Two messages in different queues are counted twice.
LEMMA TwoSlots ==
    ASSUME NEW Q, NEW p, IsFiniteSet(Slots(Q, p)), NEW x \in DOMAIN Q, NEW y \in DOMAIN Q, x # y,
           NEW i \in 1..Len(Q[x]), Q[x][i] = p, NEW j \in 1..Len(Q[y]), Q[y][j] = p
    PROVE  Cardinality(Slots(Q, p)) >= 2
<1> DEFINE s == <<x, i>>
           t == <<y, j>>
<1>1. s \in Slots(Q, p) /\ t \in Slots(Q, p) /\ s # t
    BY SlotIn
<1> HIDE DEF s, t
<1>2. IsFiniteSet({s}) /\ Cardinality({s}) = 1
    BY FS_Singleton
<1>3. Cardinality({s} \cup {t}) = 2
  <2>1. t \notin {s}
    BY <1>1
  <2>2. Cardinality({s} \cup {t}) = Cardinality({s}) + 1
    BY <1>2, <2>1, FS_AddElement
  <2>3. ASSUME NEW a, NEW b, a = 1, b = a + 1 PROVE b = 2
    BY <2>3
  <2> QED  BY <1>2, <2>2, <2>3, Zenon
<1>4. {s} \cup {t} \in SUBSET Slots(Q, p)
    BY <1>1
<1>5. /\ Cardinality(Slots(Q, p)) \in Nat
      /\ Cardinality({s} \cup {t}) <= Cardinality(Slots(Q, p))
    BY <1>4, FS_Subset, FS_CardinalityType
<1> QED  BY <1>3, <1>5

\* The queues, one by one.
LEMMA QueueFacts ==
    ASSUME NEW cq, NEW rw, NEW cu, NEW rp
    PROVE  LET Q == Queues(cq, rw, cu, rp)
           IN  /\ DOMAIN Q = {<<"pipe", 0>>} \cup ({"to", "from", "at"} \X Daemons)
               /\ Q[<<"pipe", 0>>] = cq
               /\ \A d \in Daemons :
                    /\ Q[<<"to", d>>] = rw[d] /\ Q[<<"from", d>>] = rp[d]
                    /\ Q[<<"at", d>>] = IF cu[d] = -1 THEN <<>> ELSE <<cu[d]>>
BY DEF Queues

\* A change of the pipe.
LEMMA PipeReplaced ==
    ASSUME NEW cq, NEW rw, NEW cu, NEW rp, NEW s
    PROVE  Replaced(Queues(cq, rw, cu, rp), Queues(s, rw, cu, rp), <<"pipe", 0>>, s)
BY DEF Queues, Replaced

\* A change of the socket to a daemon.
LEMMA ToReplaced ==
    ASSUME NEW cq, NEW rw, NEW cu, NEW rp, DOMAIN rw = Daemons, NEW d \in Daemons, NEW s
    PROVE  Replaced(Queues(cq, rw, cu, rp), Queues(cq, [rw EXCEPT ![d] = s], cu, rp),
                    <<"to", d>>, s)
BY DEF Queues, Replaced

\* A change of the socket from a daemon.
LEMMA FromReplaced ==
    ASSUME NEW cq, NEW rw, NEW cu, NEW rp, DOMAIN rp = Daemons, NEW d \in Daemons, NEW s
    PROVE  Replaced(Queues(cq, rw, cu, rp), Queues(cq, rw, cu, [rp EXCEPT ![d] = s]),
                    <<"from", d>>, s)
BY DEF Queues, Replaced

\* A daemon begins with a request or is done with it.
LEMMA AtReplaced ==
    ASSUME NEW cq, NEW rw, NEW cu, NEW rp, DOMAIN cu = Daemons, NEW d \in Daemons, NEW v
    PROVE  Replaced(Queues(cq, rw, cu, rp), Queues(cq, rw, [cu EXCEPT ![d] = v], rp),
                    <<"at", d>>, IF v = -1 THEN <<>> ELSE <<v>>)
BY DEF Queues, Replaced

-----------------------------------------------------------------------------
(***************************************************************************)
(* The invariant behind RequestsHeld and NoStaleHandle, part by part.  Each*)
(* part is stated of the fields of the client it is about.                 *)
(***************************************************************************)

\* The aiofh of f has a number and a struct aiod_file.
Live(fh, f) == fh[f].st \in {"opening", "open"}

\* There is a request at p, and the callback it has.
Asks(rq, p) == rq[p] # <<>>
First(rq, p) == rq[p][1]

\* A buffer at p is among the buffers A.
Holds(A, p) == \E l \in Levels : <<p, l>> \in A

\* The struct aiod_file of a live aiofh is allocated and intact.
FilesOK(fh, A, rq, mem) ==
    \A f \in Calls : Live(fh, f) =>
        /\ fh[f].pos \in Pos /\ <<fh[f].pos, 0>> \in A
        /\ ~Asks(rq, fh[f].pos)
        /\ mem[fh[f].pos].op = "file"
        /\ mem[fh[f].pos].h = fh[f].no
        /\ mem[fh[f].pos].f = f

\* n is in the list s.
InQ(s, n) == \E i \in 1..Len(s) : s[i] = n

\* Each number so far is a live file's, and that of no other, or is available.
NumbersOK(fh, avail, ctr) ==
    /\ ctr \in 1..(NCalls + 1)
    /\ \A f \in Calls : Live(fh, f) => fh[f].no \in 1..(ctr - 1) /\ ~InQ(avail, fh[f].no)
    /\ \A f, g \in Calls : Live(fh, f) /\ Live(fh, g) /\ fh[f].no = fh[g].no => f = g
    /\ \A i \in 1..Len(avail) : avail[i] \in 1..(ctr - 1)
    /\ \A i, j \in 1..Len(avail) : avail[i] = avail[j] => i = j
    /\ \A n \in 1..(ctr - 1) : InQ(avail, n) \/ \E f \in Calls : Live(fh, f) /\ fh[f].no = n

\* A request of each kind: at p, with n callbacks cb.
ReqOK(p, cb, n, fh, A, mem, tot, grow) ==
    /\ cb.kind # "close" => n = 1
    /\ cb.kind = "path" => cb.f = None
    /\ cb.kind \in {"grow1", "grow2"} => p = tot /\ grow /\ cb.f = None
    /\ cb.kind \notin {"grow1", "grow2"} => Holds(A, p) /\ mem[p].op = cb.kind
    /\ cb.kind = "open" =>
         fh[cb.f].st = "opening" /\ ~fh[cb.f].closed /\ mem[p].fh = fh[cb.f].pos
    /\ cb.kind = "rw" =>
         fh[cb.f].st = "open" /\ ~fh[cb.f].closed /\ mem[p].fh = fh[cb.f].pos
    /\ cb.kind = "close" /\ cb.call # None =>
         /\ fh[cb.f].st = "open" /\ fh[cb.f].closed /\ mem[p].fh = fh[cb.f].pos
         /\ fh[cb.f].left = n
    /\ cb.kind = "close" /\ cb.call = None => fh[cb.f].st = "gone"

\* Two requests that open, or that close, the same file are one.
OneEach(fh, rq) ==
    \A p, q \in Pos :
        /\ Asks(rq, p) /\ Asks(rq, q) /\ First(rq, p).f = First(rq, q).f
        /\ First(rq, p).kind = First(rq, q).kind /\ First(rq, p).kind \in {"open", "close"}
        /\ Live(fh, First(rq, p).f)
        => p = q

\* The requests in rqtab.
RequestsOK(fh, A, rq, mem, tot, grow) ==
    /\ \A p \in Pos : Asks(rq, p) =>
         /\ \A i \in 1..Len(rq[p]) : rq[p][i] = First(rq, p)
         /\ ReqOK(p, First(rq, p), Len(rq[p]), fh, A, mem, tot, grow)
    /\ OneEach(fh, rq)

\* What waits for memory: R, in the round of bufwake () under way, and wait.
Waiting(wait, R) == R \cup {wait[i] : i \in 1..Len(wait)}

\* A waiter of each kind, by itself.
WaiterOK(w, fh, rq, ans) ==
    /\ w \in Waiter /\ w.call \in Calls /\ ans[w.call] # "none"
    /\ w.kind = "path" => w.f = None
    /\ w.kind = "open" => w.f = w.call /\ fh[w.f].st = "none"
    /\ w.kind = "rw" => fh[w.f].st = "open" /\ ~fh[w.f].closed
    /\ w.kind = "close" =>
         fh[w.f].st = "open" /\ \A p \in Pos : Asks(rq, p) => First(rq, p).f # w.f

\* Waiters get along: they are of different calls, and a close has its file for itself.
Apiece(v, w) == v.call # w.call /\ (v.kind = "close" \/ w.kind = "close" => v.f # w.f)

\* Those that wait, and those that will run.
WaitersOK(wait, R, fh, rq, ans) ==
    /\ \A w \in Waiting(wait, R) : WaiterOK(w, fh, rq, ans)
    /\ \A v, w \in Waiting(wait, R) : v = w \/ Apiece(v, w)
    /\ \A i \in 1..Len(wait) :
         /\ wait[i] \notin R
         /\ wait[i].kind = "close" => fh[wait[i].f].closed
         /\ \A j \in 1..Len(wait) : wait[i] = wait[j] => i = j
    /\ \A c \in Calls : ans[c] = "none" => fh[c].st = "none"

\* Memory that was never handed out is a NOP.
MemoryOK(mem, tot) == \A p \in Pos : p >= tot => mem[p].op = "nop"

\* Each message under way has its callback, and while all daemons live each
\* callback its message.
CountOK(cq, rw, cu, rp, al, rq) ==
    \A p \in Pos :
        LET S == Slots(Queues(cq, rw, cu, rp), p)
        IN  /\ IsFiniteSet(S) /\ Cardinality(S) <= Len(rq[p])
            /\ al = Daemons => Cardinality(S) = Len(rq[p])

\* A daemon has a file open under its number, unless its close is done; an open
\* that has not been served, or has failed, has left nothing.
TabOK(tb, fh, rq, rw, mem, rp) ==
    \A d \in Daemons, h \in Handles : tb[d][h] # None =>
        /\ tb[d][h] \in Calls /\ Live(fh, tb[d][h]) /\ fh[tb[d][h]].no = h
        /\ \A p \in Pos : Asks(rq, p) /\ First(rq, p).f = tb[d][h] =>
             /\ First(rq, p).kind = "close" => InQ(rw[d], p)
             /\ First(rq, p).kind = "open" => ~mem[p].err /\ \E e \in Daemons : InQ(rp[e], p)

\* The client k with R still to run and the responses rp still to be read.
Intact(k, R, rp) ==
    /\ FilesOK(k.fh, k.bufs, k.rqtab, k.mem)
    /\ NumbersOK(k.fh, k.avail, k.ctr)
    /\ RequestsOK(k.fh, k.bufs, k.rqtab, k.mem, k.bb.tot, k.grow)
    /\ WaitersOK(k.wait, R, k.fh, k.rqtab, k.ans)
    /\ MemoryOK(k.mem, k.bb.tot)
    /\ CountOK(k.cq, k.rw, cur, rp, alive, k.rqtab)
    /\ TabOK(tab, k.fh, k.rqtab, k.rw, k.mem, rp)

\* As long as the aiod is not closed.
Held(k, R, rp) == ~k.closed => Intact(k, R, rp)

-----------------------------------------------------------------------------
\* A message is sent over the pipe.
LEMMA CountSend ==
    ASSUME NEW cq \in Seq(Pos), NEW rw, NEW cu, NEW rp, NEW al, NEW p \in Pos, NEW cb,
           NEW rq, NEW T, rq \in [Pos -> Seq(T)], cb \in T,
           NEW rq2, Replaced(rq, rq2, p, Append(rq[p], cb)),
           CountOK(cq, rw, cu, rp, al, rq)
    PROVE  CountOK(Append(cq, p), rw, cu, rp, al, rq2)
<1> DEFINE Q == Queues(cq, rw, cu, rp)
           Z == Queues(Append(cq, p), rw, cu, rp)
           x == <<"pipe", 0>>
<1>1. x \in DOMAIN Q /\ Q[x] = cq
    BY QueueFacts
<1>2. Replaced(Q, Z, x, Append(Q[x], p))
    BY <1>1, PipeReplaced
<1> HIDE DEF x
<1> SUFFICES ASSUME NEW q \in Pos
             PROVE  /\ IsFiniteSet(Slots(Z, q)) /\ Cardinality(Slots(Z, q)) <= Len(rq2[q])
                    /\ al = Daemons => Cardinality(Slots(Z, q)) = Len(rq2[q])
    BY DEF CountOK
<1>3. /\ IsFiniteSet(Slots(Q, q)) /\ Cardinality(Slots(Q, q)) <= Len(rq[q])
      /\ al = Daemons => Cardinality(Slots(Q, q)) = Len(rq[q])
    BY DEF CountOK
<1> HIDE DEF Q, Z
<1>4. /\ IsFiniteSet(Slots(Z, q))
      /\ Cardinality(Slots(Z, q)) = Cardinality(Slots(Q, q)) + (IF q = p THEN 1 ELSE 0)
    BY <1>1, <1>2, <1>3, AppendNum
<1>5. Len(rq2[q]) = Len(rq[q]) + (IF q = p THEN 1 ELSE 0) /\ Len(rq[q]) \in Nat
  <2>1. rq[q] \in Seq(T) /\ rq[p] \in Seq(T)
    OBVIOUS
  <2>2. Len(Append(rq[p], cb)) = Len(rq[p]) + 1
    BY <2>1
  <2> QED  BY <2>1, <2>2 DEF Replaced
<1>6. Cardinality(Slots(Q, q)) \in Nat
    BY <1>3, FS_CardinalityType
<1> QED  BY <1>3, <1>4, <1>5, <1>6

\* A message is sent to each daemon.
LEMMA CountBroadcast ==
    ASSUME NEW cq, NEW rw \in [Daemons -> Seq(Pos)], NEW cu, NEW rp, NEW al, NEW p \in Pos,
           NEW rq, rq[p] = <<>>, NEW rq2, NEW s, Replaced(rq, rq2, p, s), Len(s) = NDaemons,
           DOMAIN rq = Pos, \A q \in Pos : Len(rq[q]) \in Nat,
           NEW rw2, rw2 = [d \in Daemons |-> Append(rw[d], p)],
           CountOK(cq, rw, cu, rp, al, rq)
    PROVE  CountOK(cq, rw2, cu, rp, al, rq2)
<1> DEFINE Q == Queues(cq, rw, cu, rp)
           Z == Queues(cq, rw2, cu, rp)
<1>1. \A d \in Daemons : <<"to", d>> \in DOMAIN Q /\ Q[<<"to", d>>] \in Seq(Pos)
    BY DEF Queues
<1>2. DOMAIN Z = DOMAIN Q
    BY DEF Queues
<1>3. \A d \in Daemons : Z[<<"to", d>>] = Append(Q[<<"to", d>>], p)
    BY DEF Queues
<1>4. ASSUME NEW y \in DOMAIN Q, \A d \in Daemons : y # <<"to", d>> PROVE Z[y] = Q[y]
  <2>1. y \in {<<"pipe", 0>>} \cup ({"to", "from", "at"} \X Daemons)
    BY DEF Queues
  <2>2. CASE y = <<"pipe", 0>>
    BY <2>2, QueueFacts
  <2>3. ASSUME NEW d \in Daemons, y = <<"from", d>> \/ y = <<"at", d>> PROVE Z[y] = Q[y]
    BY <2>3 DEF Queues
  <2> QED  BY <1>4, <2>1, <2>2, <2>3
<1>41. \A y \in DOMAIN Q : (\A d \in Daemons : y # <<"to", d>>) => Z[y] = Q[y]
    BY <1>4
<1>42. ToAll(Q, Z, p)
  <2> HIDE DEF Q, Z
  <2> QED  BY <1>1, <1>2, <1>3, <1>41 DEF ToAll
<1> SUFFICES ASSUME NEW q \in Pos
             PROVE  /\ IsFiniteSet(Slots(Z, q)) /\ Cardinality(Slots(Z, q)) <= Len(rq2[q])
                    /\ al = Daemons => Cardinality(Slots(Z, q)) = Len(rq2[q])
    BY DEF CountOK
<1>5. /\ IsFiniteSet(Slots(Q, q)) /\ Cardinality(Slots(Q, q)) <= Len(rq[q])
      /\ al = Daemons => Cardinality(Slots(Q, q)) = Len(rq[q])
    BY DEF CountOK
<1> HIDE DEF Q, Z
<1>6. /\ IsFiniteSet(Slots(Z, q))
      /\ Cardinality(Slots(Z, q)) = Cardinality(Slots(Q, q)) + (IF q = p THEN NDaemons ELSE 0)
    BY <1>42, <1>5, BroadcastNum
<1>7. Len(rq2[q]) = Len(rq[q]) + (IF q = p THEN NDaemons ELSE 0) /\ Len(rq[q]) \in Nat
  <2>1. Len(<<>>) = 0 /\ NDaemons \in Nat
    BY AsyncIoAssumption
  <2> QED  BY <2>1 DEF Replaced
<1>8. Cardinality(Slots(Q, q)) \in Nat /\ NDaemons \in Nat
    BY <1>5, FS_CardinalityType, AsyncIoAssumption
<1> QED  BY <1>5, <1>6, <1>7, <1>8

\* A response is read, and its callback leaves rqtab.
LEMMA CountPop ==
    ASSUME NEW cq, NEW rw, NEW cu, NEW rp \in [Daemons -> Seq(Pos)], NEW al, NEW d \in Daemons,
           rp[d] # <<>>, NEW rq, NEW T, rq \in [Pos -> Seq(T)], rq[rp[d][1]] # <<>>,
           NEW rq2, Replaced(rq, rq2, rp[d][1], Tail(rq[rp[d][1]])),
           CountOK(cq, rw, cu, rp, al, rq)
    PROVE  CountOK(cq, rw, cu, [rp EXCEPT ![d] = Tail(rp[d])], al, rq2)
<1> DEFINE Q == Queues(cq, rw, cu, rp)
           Z == Queues(cq, rw, cu, [rp EXCEPT ![d] = Tail(rp[d])])
           x == <<"from", d>>
           p == rp[d][1]
<1>0. rp[d] \in Seq(Pos) /\ p \in Pos
    OBVIOUS
<1>1. x \in DOMAIN Q /\ Q[x] = rp[d]
    BY DEF Queues
<1>2. Replaced(Q, Z, x, Tail(Q[x]))
    BY <1>1, FromReplaced
<1> HIDE DEF x
<1> SUFFICES ASSUME NEW q \in Pos
             PROVE  /\ IsFiniteSet(Slots(Z, q)) /\ Cardinality(Slots(Z, q)) <= Len(rq2[q])
                    /\ al = Daemons => Cardinality(Slots(Z, q)) = Len(rq2[q])
    BY DEF CountOK
<1>3. /\ IsFiniteSet(Slots(Q, q)) /\ Cardinality(Slots(Q, q)) <= Len(rq[q])
      /\ al = Daemons => Cardinality(Slots(Q, q)) = Len(rq[q])
    BY DEF CountOK
<1> HIDE DEF Q, Z
<1>4. /\ IsFiniteSet(Slots(Z, q))
      /\ Cardinality(Slots(Z, q)) = Cardinality(Slots(Q, q)) - (IF q = Q[x][1] THEN 1 ELSE 0)
    BY <1>0, <1>1, <1>2, <1>3, TailNum
<1>5. Len(rq2[q]) = Len(rq[q]) - (IF q = p THEN 1 ELSE 0) /\ Len(rq[q]) \in Nat
  <2>1. rq[q] \in Seq(T) /\ rq[p] \in Seq(T) /\ rq[p] # <<>>
    BY <1>0
  <2>2. Len(Tail(rq[p])) = Len(rq[p]) - 1
    BY <2>1
  <2>3. rq2[p] = Tail(rq[p]) /\ (q # p => rq2[q] = rq[q])
    BY <1>0 DEF Replaced
  <2>4. Len(rq[q]) \in Nat
    BY <2>1
  <2> HIDE DEF p
  <2>5. CASE q = p
    BY <2>2, <2>3, <2>4, <2>5
  <2>6. CASE q # p
    BY <2>3, <2>4, <2>6
  <2> QED  BY <2>4, <2>5, <2>6
<1>6. Cardinality(Slots(Q, q)) \in Nat
    BY <1>3, FS_CardinalityType
<1>7. Q[x][1] = p
    BY <1>1
<1> HIDE DEF p
<1>8. CASE q = p
    BY <1>3, <1>4, <1>5, <1>6, <1>7, <1>8
<1>9. CASE q # p
    BY <1>3, <1>4, <1>5, <1>6, <1>7, <1>9
<1> QED  BY <1>8, <1>9

-----------------------------------------------------------------------------
(***************************************************************************)
(* What becomes of each part when one field changes.                       *)
(***************************************************************************)

\* No live file has its aiod_file at p; no request, no waiter in W, no daemon's
\* table names f.
Away(fh, p) == \A f \in Calls : Live(fh, f) => fh[f].pos # p
NoReq(rq, f) == \A p \in Pos : Asks(rq, p) => First(rq, p).f # f
NoWaiter(W, f) == \A v \in W : v.f # f
NoTab(tb, f) == \A d \in Daemons, h \in Handles : tb[d][h] # f

\* In rq2 there is a new request at p, with n callbacks cb.
NewReq(rq, rq2, p, cb, n) ==
    /\ rq[p] = <<>> /\ rq2[p] # <<>> /\ Len(rq2[p]) = n /\ rq2[p][1] = cb
    /\ \A i \in 1..n : rq2[p][i] = cb
    /\ \A q \in Pos : q # p => rq2[q] = rq[q]

\* A new request.
LEMMA NewReqOK ==
    ASSUME NEW fh, NEW A, NEW rq, NEW mem, NEW tot, NEW grow, NEW rq2, NEW p \in Pos, NEW cb, NEW n,
           FilesOK(fh, A, rq, mem), RequestsOK(fh, A, rq, mem, tot, grow),
           NewReq(rq, rq2, p, cb, n), Away(fh, p), ReqOK(p, cb, n, fh, A, mem, tot, grow),
           cb.kind \in {"open", "close"} /\ Live(fh, cb.f) => NoReq(rq, cb.f)
    PROVE  FilesOK(fh, A, rq2, mem) /\ RequestsOK(fh, A, rq2, mem, tot, grow)
<1>0. /\ rq[p] = <<>> /\ rq2[p] # <<>> /\ Len(rq2[p]) = n /\ rq2[p][1] = cb
      /\ \A i \in 1..n : rq2[p][i] = cb
      /\ \A q \in Pos : q # p => rq2[q] = rq[q]
    BY DEF NewReq
<1>1. FilesOK(fh, A, rq2, mem)
    BY <1>0 DEF FilesOK, Away, Asks
<1>2. ASSUME NEW q \in Pos, Asks(rq2, q)
      PROVE  /\ \A i \in 1..Len(rq2[q]) : rq2[q][i] = First(rq2, q)
             /\ ReqOK(q, First(rq2, q), Len(rq2[q]), fh, A, mem, tot, grow)
  <2>1. CASE q = p
    BY <1>0, <2>1 DEF First
  <2>2. CASE q # p
    BY <1>0, <1>2, <2>2 DEF First, Asks, RequestsOK
  <2> QED  BY <2>1, <2>2
<1>3. OneEach(fh, rq2)
  <2> SUFFICES ASSUME NEW q \in Pos, NEW r \in Pos, Asks(rq2, q), Asks(rq2, r),
                      First(rq2, q).f = First(rq2, r).f,
                      First(rq2, q).kind = First(rq2, r).kind,
                      First(rq2, q).kind \in {"open", "close"}, Live(fh, First(rq2, q).f)
               PROVE  q = r
    BY DEF OneEach
  <2>1. CASE q # p /\ r # p
    <3>1. rq2[q] = rq[q] /\ rq2[r] = rq[r]
      BY <1>0, <2>1
    <3> QED  BY <3>1 DEF RequestsOK, OneEach, Asks, First
  <2>2. CASE q = p /\ r # p
    <3>1. rq2[r] = rq[r] /\ First(rq2, q) = cb
      BY <1>0, <2>2 DEF First
    <3> QED  BY <3>1 DEF NoReq, Asks, First
  <2>3. CASE q # p /\ r = p
    <3>1. rq2[q] = rq[q] /\ First(rq2, r) = cb
      BY <1>0, <2>3 DEF First
    <3> QED  BY <3>1 DEF NoReq, Asks, First
  <2> QED  BY <2>1, <2>2, <2>3
<1> QED  BY <1>1, <1>2, <1>3 DEF RequestsOK

\* Waiters do not mind a request on another file than they close.
LEMMA NewReqWaiters ==
    ASSUME NEW wait, NEW R, NEW fh, NEW rq, NEW ans, NEW rq2, NEW p \in Pos, NEW cb, NEW n,
           WaitersOK(wait, R, fh, rq, ans), NewReq(rq, rq2, p, cb, n),
           \A v \in Waiting(wait, R) : v.kind = "close" => v.f # cb.f
    PROVE  WaitersOK(wait, R, fh, rq2, ans)
<1>0. rq2[p][1] = cb /\ \A q \in Pos : q # p => rq2[q] = rq[q]
    BY DEF NewReq
<1>1. ASSUME NEW w \in Waiting(wait, R) PROVE WaiterOK(w, fh, rq2, ans)
  <2>1. WaiterOK(w, fh, rq, ans) /\ (w.kind = "close" => w.f # cb.f)
    BY DEF WaitersOK
  <2> QED  BY <1>0, <2>1 DEF WaiterOK, Asks, First
<1> QED  BY <1>1 DEF WaitersOK

\* In rq2 there is no request at p any more.
Dropped(rq, rq2, p) == rq2[p] = <<>> /\ \A q \in Pos : q # p => rq2[q] = rq[q]

\* A request goes.
LEMMA DropReqOK ==
    ASSUME NEW fh, NEW A, NEW rq, NEW mem, NEW tot, NEW grow, NEW rq2, NEW p \in Pos,
           FilesOK(fh, A, rq, mem), RequestsOK(fh, A, rq, mem, tot, grow), Dropped(rq, rq2, p)
    PROVE  FilesOK(fh, A, rq2, mem) /\ RequestsOK(fh, A, rq2, mem, tot, grow)
<1>1. \A q \in Pos : Asks(rq2, q) => Asks(rq, q) /\ First(rq2, q) = First(rq, q) /\ rq2[q] = rq[q]
    BY DEF Asks, First, Dropped
<1>2. FilesOK(fh, A, rq2, mem)
    BY <1>1 DEF FilesOK
<1>3. OneEach(fh, rq2)
    BY <1>1 DEF RequestsOK, OneEach
<1>4. \A q \in Pos : Asks(rq2, q) =>
         /\ \A i \in 1..Len(rq2[q]) : rq2[q][i] = First(rq2, q)
         /\ ReqOK(q, First(rq2, q), Len(rq2[q]), fh, A, mem, tot, grow)
    BY <1>1 DEF RequestsOK
<1> QED  BY <1>2, <1>3, <1>4 DEF RequestsOK

\* Waiters do not mind that there are fewer requests.
LEMMA DropReqWaiters ==
    ASSUME NEW wait, NEW R, NEW fh, NEW rq, NEW ans, NEW rq2,
           WaitersOK(wait, R, fh, rq, ans),
           \A q \in Pos : Asks(rq2, q) => Asks(rq, q) /\ First(rq2, q) = First(rq, q)
    PROVE  WaitersOK(wait, R, fh, rq2, ans)
<1>1. ASSUME NEW w \in Waiting(wait, R) PROVE WaiterOK(w, fh, rq2, ans)
  <2>1. WaiterOK(w, fh, rq, ans)
    BY DEF WaitersOK
  <2> QED  BY <2>1 DEF WaiterOK
<1> QED  BY <1>1 DEF WaitersOK

\* Memory that no file and no request uses is written.
LEMMA MemKept ==
    ASSUME NEW fh, NEW A, NEW rq, NEW mem, NEW tot, NEW grow, NEW mem2,
           FilesOK(fh, A, rq, mem), RequestsOK(fh, A, rq, mem, tot, grow),
           \A f \in Calls : Live(fh, f) => mem2[fh[f].pos] = mem[fh[f].pos],
           \A p \in Pos : Asks(rq, p) => mem2[p] = mem[p]
    PROVE  FilesOK(fh, A, rq, mem2) /\ RequestsOK(fh, A, rq, mem2, tot, grow)
<1>1. FilesOK(fh, A, rq, mem2)
    BY DEF FilesOK
<1>2. ASSUME NEW p \in Pos, Asks(rq, p)
      PROVE  ReqOK(p, First(rq, p), Len(rq[p]), fh, A, mem2, tot, grow)
  <2>1. ReqOK(p, First(rq, p), Len(rq[p]), fh, A, mem, tot, grow) /\ mem2[p] = mem[p]
    BY <1>2 DEF RequestsOK
  <2> QED  BY <2>1 DEF ReqOK
<1> QED  BY <1>1, <1>2 DEF RequestsOK

\* There are more buffers.
LEMMA MoreBufs ==
    ASSUME NEW fh, NEW A, NEW rq, NEW mem, NEW tot, NEW grow, NEW A2, A \subseteq A2,
           FilesOK(fh, A, rq, mem), RequestsOK(fh, A, rq, mem, tot, grow)
    PROVE  FilesOK(fh, A2, rq, mem) /\ RequestsOK(fh, A2, rq, mem, tot, grow)
<1>1. FilesOK(fh, A2, rq, mem)
    BY DEF FilesOK
<1>2. ASSUME NEW p \in Pos, Asks(rq, p)
      PROVE  ReqOK(p, First(rq, p), Len(rq[p]), fh, A2, mem, tot, grow)
  <2>1. ReqOK(p, First(rq, p), Len(rq[p]), fh, A, mem, tot, grow)
    BY <1>2 DEF RequestsOK
  <2> QED  BY <2>1 DEF ReqOK, Holds
<1> QED  BY <1>1, <1>2 DEF RequestsOK

\* A buffer that no file and no request uses is freed.
LEMMA LessBufs ==
    ASSUME NEW fh, NEW A, NEW rq, NEW mem, NEW tot, NEW grow, NEW p, NEW l,
           FilesOK(fh, A, rq, mem), RequestsOK(fh, A, rq, mem, tot, grow),
           Away(fh, p), p \in Pos => ~Asks(rq, p)
    PROVE  FilesOK(fh, A \ {<<p, l>>}, rq, mem) /\ RequestsOK(fh, A \ {<<p, l>>}, rq, mem, tot, grow)
<1> DEFINE A2 == A \ {<<p, l>>}
<1>1. FilesOK(fh, A2, rq, mem)
    BY DEF FilesOK, Away
<1>2. ASSUME NEW q \in Pos, Asks(rq, q)
      PROVE  ReqOK(q, First(rq, q), Len(rq[q]), fh, A2, mem, tot, grow)
  <2>1. ReqOK(q, First(rq, q), Len(rq[q]), fh, A, mem, tot, grow)
    BY <1>2 DEF RequestsOK
  <2>2. q # p
    BY <1>2
  <2>3. Holds(A, q) => Holds(A2, q)
    BY <2>2 DEF Holds
  <2> QED  BY <2>1, <2>3 DEF ReqOK
<1> QED  BY <1>1, <1>2 DEF RequestsOK

\* Files of fh2 that are live are live in fh and where they were.
LessLive(fh, fh2) ==
    \A f \in Calls : Live(fh2, f) =>
        Live(fh, f) /\ fh2[f].pos = fh[f].pos /\ fh2[f].no = fh[f].no

\* Files that are live and where they were are intact.
LEMMA FilesLess ==
    ASSUME NEW fh, NEW A, NEW rq, NEW mem, NEW fh2, FilesOK(fh, A, rq, mem), LessLive(fh, fh2)
    PROVE  FilesOK(fh2, A, rq, mem)
BY DEF FilesOK, LessLive

\* An aiofh changes that no request is about.
LEMMA FhRequests ==
    ASSUME NEW fh, NEW A, NEW rq, NEW mem, NEW tot, NEW grow, NEW fh2, NEW f \in Calls,
           \A g \in Calls : g # f => fh2[g] = fh[g],
           rq \in [Pos -> Seq(Callbacks)],
           RequestsOK(fh, A, rq, mem, tot, grow), NoReq(rq, f)
    PROVE  RequestsOK(fh2, A, rq, mem, tot, grow)
<1>2. ASSUME NEW p \in Pos, Asks(rq, p)
      PROVE  ReqOK(p, First(rq, p), Len(rq[p]), fh2, A, mem, tot, grow)
  <2>1. ReqOK(p, First(rq, p), Len(rq[p]), fh, A, mem, tot, grow) /\ First(rq, p).f # f
    BY <1>2 DEF RequestsOK, NoReq
  <2>2. First(rq, p) \in Callbacks
    <3>1. rq[p] \in Seq(Callbacks) /\ rq[p] # <<>>
      BY <1>2 DEF Asks
    <3> QED  BY <3>1 DEF First
  <2>3. First(rq, p).kind \in {"open", "rw", "close"} => First(rq, p).f \in Calls
    BY <2>2 DEF Callbacks
  <2> HIDE DEF First
  <2>4. First(rq, p).kind \in {"open", "rw", "close"} => fh2[First(rq, p).f] = fh[First(rq, p).f]
    BY <2>1, <2>3
  <2> QED  BY <2>1, <2>4 DEF ReqOK
<1>3. OneEach(fh2, rq)
  <2> SUFFICES ASSUME NEW p \in Pos, NEW q \in Pos, Asks(rq, p), Asks(rq, q),
                      First(rq, p).f = First(rq, q).f,
                      First(rq, p).kind = First(rq, q).kind,
                      First(rq, p).kind \in {"open", "close"}, Live(fh2, First(rq, p).f)
               PROVE  p = q
    BY DEF OneEach
  <2>2. First(rq, p) \in Callbacks
    <3>1. rq[p] \in Seq(Callbacks) /\ rq[p] # <<>>
      BY DEF Asks
    <3> QED  BY <3>1 DEF First
  <2>3. First(rq, p).f \in Calls /\ First(rq, p).f # f
    BY <2>2 DEF Callbacks, NoReq
  <2>4. Live(fh, First(rq, p).f)
    BY <2>3 DEF Live
  <2> QED  BY <2>4 DEF RequestsOK, OneEach
<1> QED  BY <1>2, <1>3 DEF RequestsOK

\* An aiofh changes that no waiter is about.
LEMMA FhWaiters ==
    ASSUME NEW wait, NEW R, NEW fh, NEW rq, NEW ans, NEW fh2, NEW f \in Calls,
           \A g \in Calls : g # f => fh2[g] = fh[g],
           WaitersOK(wait, R, fh, rq, ans), NoWaiter(Waiting(wait, R), f),
           ans[f] = "none" => fh2[f].st = "none"
    PROVE  WaitersOK(wait, R, fh2, rq, ans)
<1>1. ASSUME NEW w \in Waiting(wait, R)
      PROVE  WaiterOK(w, fh2, rq, ans) /\ (w.f \in Calls => fh2[w.f] = fh[w.f])
  <2>1. WaiterOK(w, fh, rq, ans) /\ w.f # f
    BY DEF WaitersOK, NoWaiter
  <2>2. w.f \in Calls => fh2[w.f] = fh[w.f]
    BY <2>1
  <2>3. w.kind # "path" => w.f \in Calls
    BY <2>1 DEF WaiterOK, Waiter
  <2> QED  BY <2>1, <2>2, <2>3 DEF WaiterOK
<1>2. ASSUME NEW i \in 1..Len(wait), wait[i].kind = "close" PROVE fh2[wait[i].f].closed
  <2>1. wait[i] \in Waiting(wait, R)
    BY DEF Waiting
  <2>2. WaiterOK(wait[i], fh, rq, ans) /\ fh[wait[i].f].closed
    BY <1>2, <2>1 DEF WaitersOK
  <2>3. wait[i].f \in Calls
    BY <1>2, <2>2 DEF WaiterOK, Waiter
  <2> QED  BY <1>1, <2>1, <2>2, <2>3
<1>3. \A c \in Calls : ans[c] = "none" => fh2[c].st = "none"
    BY DEF WaitersOK
<1> QED  BY <1>1, <1>2, <1>3 DEF WaitersOK

\* Calls are answered.
LEMMA AnsWaiters ==
    ASSUME NEW wait, NEW R, NEW fh, NEW rq, NEW ans, NEW ans2,
           \A c \in Calls : ans2[c] = "none" => ans[c] = "none",
           WaitersOK(wait, R, fh, rq, ans)
    PROVE  WaitersOK(wait, R, fh, rq, ans2)
<1>1. ASSUME NEW w \in Waiting(wait, R) PROVE WaiterOK(w, fh, rq, ans2)
    BY DEF WaitersOK, WaiterOK
<1>2. \A c \in Calls : ans2[c] = "none" => fh[c].st = "none"
    BY DEF WaitersOK
<1> QED  BY <1>1, <1>2 DEF WaitersOK

\* w is none of those that wait, and may run or wait with them.
Joins(w, wait, R, fh, rq, ans) ==
    /\ WaiterOK(w, fh, rq, ans)
    /\ \A v \in Waiting(wait, R) : Apiece(v, w)

\* A waiter joins the queue.
LEMMA JoinQueue ==
    ASSUME NEW wait, wait \in Seq(Waiter), NEW R, NEW fh, NEW rq, NEW ans, NEW w,
           WaitersOK(wait, R, fh, rq, ans), Joins(w, wait, R, fh, rq, ans),
           w.kind = "close" => fh[w.f].closed
    PROVE  WaitersOK(Append(wait, w), R, fh, rq, ans)
<1> DEFINE ws == Append(wait, w)
           n == Len(wait)
<1>1. /\ n \in Nat /\ Len(ws) = n + 1 /\ ws[n + 1] = w /\ \A i \in 1..n : ws[i] = wait[i]
      /\ \A i \in 1..(n + 1) : i = n + 1 \/ i \in 1..n
  <2>1. w \in Waiter
    BY DEF Joins, WaiterOK
  <2> QED  BY <2>1
<1>2. \A v \in Waiting(wait, R) : v # w
    BY DEF Joins, Apiece
<1> HIDE DEF ws, n
<1>3. \A v \in Waiting(ws, R) : v = w \/ v \in Waiting(wait, R)
    BY <1>1 DEF Waiting, n
<1>4. \A i \in 1..n : wait[i] \in Waiting(wait, R)
    BY DEF Waiting, n
<1>5. \A v \in R : v \in Waiting(wait, R)
    BY DEF Waiting
<1>6. \A v \in Waiting(ws, R) : WaiterOK(v, fh, rq, ans)
    BY <1>3 DEF WaitersOK, Joins
<1>7. \A u, v \in Waiting(ws, R) : u = v \/ Apiece(u, v)
  <2>1. \A v \in Waiting(wait, R) : Apiece(v, w) /\ Apiece(w, v)
    BY DEF Joins, Apiece
  <2> QED  BY <1>3, <2>1 DEF WaitersOK
<1>8. ASSUME NEW i \in 1..Len(ws)
      PROVE  /\ ws[i] \notin R
             /\ ws[i].kind = "close" => fh[ws[i].f].closed
             /\ \A j \in 1..Len(ws) : ws[i] = ws[j] => i = j
  <2>1. CASE i = n + 1
    BY <1>1, <1>2, <1>4, <1>5, <2>1
  <2>2. CASE i \in 1..n
    <3>1. ws[i] = wait[i] /\ wait[i] # w
      BY <1>1, <1>2, <1>4, <2>2
    <3>2. wait[i] \notin R /\ (wait[i].kind = "close" => fh[wait[i].f].closed)
      BY <2>2 DEF WaitersOK, n
    <3>3. \A j \in 1..n : wait[i] = wait[j] => i = j
      BY <2>2 DEF WaitersOK, n
    <3> QED  BY <1>1, <3>1, <3>2, <3>3
  <2> QED  BY <1>1, <2>1, <2>2
<1>9. \A c \in Calls : ans[c] = "none" => fh[c].st = "none"
    BY DEF WaitersOK
<1> QED  BY <1>6, <1>7, <1>8, <1>9 DEF WaitersOK, ws

\* A waiter of the round runs.
LEMMA LeaveRound ==
    ASSUME NEW wait, NEW R, NEW fh, NEW rq, NEW ans, NEW w \in R,
           WaitersOK(wait, R, fh, rq, ans)
    PROVE  WaitersOK(wait, R \ {w}, fh, rq, ans) /\ Joins(w, wait, R \ {w}, fh, rq, ans)
<1>1. \A v \in Waiting(wait, R \ {w}) : v \in Waiting(wait, R) /\ v # w
    BY DEF Waiting, WaitersOK
<1>2. w \in Waiting(wait, R)
    BY DEF Waiting
<1>3. Joins(w, wait, R \ {w}, fh, rq, ans)
    BY <1>1, <1>2 DEF Joins, WaitersOK
<1>4. \A i \in 1..Len(wait) : wait[i] \notin R \ {w}
    BY DEF WaitersOK
<1>5. WaitersOK(wait, R \ {w}, fh, rq, ans)
    BY <1>1, <1>4 DEF WaitersOK
<1> QED  BY <1>3, <1>5

\* All waiters become those of a round.
LEMMA BeginRound ==
    ASSUME NEW wait, NEW fh, NEW rq, NEW ans, WaitersOK(wait, {}, fh, rq, ans)
    PROVE  WaitersOK(<<>>, {wait[i] : i \in 1..Len(wait)}, fh, rq, ans)
<1>1. Waiting(<<>>, {wait[i] : i \in 1..Len(wait)}) = Waiting(wait, {})
    BY DEF Waiting
<1>2. \A i \in 1..Len(<<>>) : FALSE
    OBVIOUS
<1> QED  BY <1>1, <1>2 DEF WaitersOK

\* A new request on no file, or on that of the waiter itself.
LEMMA NewReqJoins ==
    ASSUME NEW wait, NEW R, NEW fh, NEW rq, NEW ans, NEW rq2, NEW p \in Pos, NEW cb, NEW n, NEW w,
           Joins(w, wait, R, fh, rq, ans), NewReq(rq, rq2, p, cb, n), cb.f = None
    PROVE  Joins(w, wait, R, fh, rq2, ans)
<1>0. rq2[p][1] = cb /\ \A q \in Pos : q # p => rq2[q] = rq[q]
    BY DEF NewReq
<1>1. WaiterOK(w, fh, rq, ans)
    BY DEF Joins
<1>2. w.kind = "close" => w.f # None
    BY <1>1 DEF WaiterOK, Waiter, Calls, None
<1>3. WaiterOK(w, fh, rq2, ans)
    BY <1>0, <1>1, <1>2 DEF WaiterOK, Asks, First
<1> QED  BY <1>3 DEF Joins

-----------------------------------------------------------------------------
\* Numbers are those of the same files.
LEMMA NumbersSame ==
    ASSUME NEW fh, NEW fh2, NEW avail, NEW ctr, NumbersOK(fh, avail, ctr),
           \A f \in Calls : (Live(fh2, f) <=> Live(fh, f)) /\ fh2[f].no = fh[f].no
    PROVE  NumbersOK(fh2, avail, ctr)
BY DEF NumbersOK

\* The number of a file that is gone is available.
LEMMA NumbersGone ==
    ASSUME NEW fh, NEW fh2, NEW avail \in Seq(Nat), NEW ctr, NumbersOK(fh, avail, ctr),
           NEW f \in Calls, Live(fh, f), ~Live(fh2, f), \A g \in Calls : g # f => fh2[g] = fh[g],
           fh[f].no \in Nat
    PROVE  NumbersOK(fh2, Append(avail, fh[f].no), ctr)
<1> DEFINE n == Len(avail)
           no == fh[f].no
           av == Append(avail, no)
<1>1. /\ n \in Nat /\ Len(av) = n + 1 /\ av[n + 1] = no /\ \A i \in 1..n : av[i] = avail[i]
      /\ \A i \in 1..(n + 1) : i = n + 1 \/ i \in 1..n
      /\ \A i \in 1..n : i \in 1..(n + 1)
      /\ n + 1 \in 1..(n + 1)
    OBVIOUS
<1> HIDE DEF n, av, no
<1>2. \A m : InQ(av, m) <=> InQ(avail, m) \/ m = no
    BY <1>1 DEF InQ, n
<1>3. /\ ctr \in 1..(NCalls + 1)
      /\ \A g \in Calls : Live(fh, g) => fh[g].no \in 1..(ctr - 1) /\ ~InQ(avail, fh[g].no)
      /\ \A g, h \in Calls : Live(fh, g) /\ Live(fh, h) /\ fh[g].no = fh[h].no => g = h
      /\ \A i \in 1..n : avail[i] \in 1..(ctr - 1)
      /\ \A i, j \in 1..n : avail[i] = avail[j] => i = j
      /\ \A m \in 1..(ctr - 1) : InQ(avail, m) \/ \E g \in Calls : Live(fh, g) /\ fh[g].no = m
    BY DEF NumbersOK, n
<1>4. no \in 1..(ctr - 1) /\ ~InQ(avail, no)
    BY <1>3 DEF no
<1>5. \A g \in Calls : Live(fh2, g) => g # f /\ Live(fh, g) /\ fh2[g].no = fh[g].no
    BY DEF Live
<1>6. \A g \in Calls : Live(fh2, g) => fh2[g].no \in 1..(ctr - 1) /\ ~InQ(av, fh2[g].no)
    BY <1>2, <1>3, <1>5 DEF no
<1>7. \A g, h \in Calls : Live(fh2, g) /\ Live(fh2, h) /\ fh2[g].no = fh2[h].no => g = h
    BY <1>3, <1>5
<1>8. \A i \in 1..Len(av) : av[i] \in 1..(ctr - 1)
    BY <1>1, <1>3, <1>4
<1>9. \A i \in 1..n : avail[i] # no
    BY <1>4 DEF InQ, n
<1>10. \A i, j \in 1..Len(av) : av[i] = av[j] => i = j
    BY <1>1, <1>3, <1>9
<1>11. ASSUME NEW m \in 1..(ctr - 1)
       PROVE  InQ(av, m) \/ \E g \in Calls : Live(fh2, g) /\ fh2[g].no = m
  <2>1. CASE InQ(avail, m) \/ m = no
    BY <1>2, <2>1
  <2>2. CASE ~InQ(avail, m) /\ m # no
    <3>1. PICK g \in Calls : Live(fh, g) /\ fh[g].no = m
      BY <1>3, <2>2
    <3>2. g # f
      BY <2>2, <3>1 DEF no
    <3>3. fh2[g] = fh[g]
      BY <3>2
    <3> QED  BY <3>1, <3>3 DEF Live
  <2> QED  BY <2>1, <2>2
<1> QED  BY <1>3, <1>6, <1>7, <1>8, <1>10, <1>11 DEF NumbersOK, av, no

\* When no number is available there is a new one: each number so far is that
\* of another file, and the file of one call has none yet.
LEMMA NumbersLeft ==
    ASSUME NEW fh, NEW ctr, NumbersOK(fh, <<>>, ctr), NEW f \in Calls, ~Live(fh, f)
    PROVE  ctr <= NCalls
<1> DEFINE S == 1..(ctr - 1)
           T == Calls \ {f}
           g == [m \in S |-> CHOOSE h \in Calls : Live(fh, h) /\ fh[h].no = m]
<1>1. ctr \in 1..(NCalls + 1) /\ NCalls \in Nat
    BY AsyncIoAssumption DEF NumbersOK
<1>2. \A m : ~InQ(<<>>, m)
    BY DEF InQ
<1>3. \A m \in S : \E h \in Calls : Live(fh, h) /\ fh[h].no = m
    BY <1>2 DEF NumbersOK
<1>4. \A m \in S : g[m] \in Calls /\ Live(fh, g[m]) /\ fh[g[m]].no = m
    BY <1>3
<1> HIDE DEF g, S
<1>5. g \in [S -> T] /\ \A m, n \in S : g[m] = g[n] => m = n
  <2>1. \A m \in S : g[m] \in T
    BY <1>4
  <2>2. g = [m \in S |-> g[m]]
    BY DEF g
  <2> QED  BY <1>4, <2>1, <2>2
<1>6. g \in Injection(S, T)
    BY <1>5, Zenon DEF Injection, IsInjective
<1>7. IsFiniteSet(Calls) /\ Cardinality(Calls) = NCalls
  <2>1. /\ IsFiniteSet(1..NCalls)
        /\ Cardinality(1..NCalls) = IF 1 > NCalls THEN 0 ELSE NCalls - 1 + 1
    BY <1>1, FS_Interval
  <2>2. (IF 1 > NCalls THEN 0 ELSE NCalls - 1 + 1) = NCalls
    BY <1>1
  <2> QED  BY <2>1, <2>2 DEF Calls
<1>8. IsFiniteSet(T) /\ Cardinality(T) = NCalls - 1
  <2>1. /\ IsFiniteSet(T)
        /\ Cardinality(T) = IF f \in Calls THEN Cardinality(Calls) - 1 ELSE Cardinality(Calls)
    BY <1>7, FS_RemoveElement
  <2> QED  BY <1>7, <2>1
<1>9. Cardinality(S) = ctr - 1
  <2>1. ctr - 1 \in Int
    BY <1>1
  <2>2. Cardinality(1..(ctr - 1)) = IF 1 > ctr - 1 THEN 0 ELSE (ctr - 1) - 1 + 1
    BY <2>1, FS_Interval
  <2>3. (IF 1 > ctr - 1 THEN 0 ELSE (ctr - 1) - 1 + 1) = ctr - 1
    BY <1>1
  <2> QED  BY <2>2, <2>3 DEF S
<1>10. Cardinality(S) <= Cardinality(T)
    BY <1>6, <1>8, FS_Injection
<1> QED  BY <1>1, <1>8, <1>9, <1>10

\* open () takes a number: the last of those available, or a new one.
LEMMA NumbersNew ==
    ASSUME NEW fh, NEW fh2, NEW avail \in Seq(Nat), NEW ctr, NumbersOK(fh, avail, ctr),
           NEW f \in Calls, ~Live(fh, f), Live(fh2, f), \A g \in Calls : g # f => fh2[g] = fh[g],
           fh2[f].no = IF avail = <<>> THEN ctr ELSE Last(avail)
    PROVE  /\ NumbersOK(fh2, IF avail = <<>> THEN avail ELSE Front(avail),
                        IF avail = <<>> THEN ctr + 1 ELSE ctr)
           /\ fh2[f].no \in Handles
<1> DEFINE n == Len(avail)
           no == fh2[f].no
<1>1. /\ ctr \in 1..(NCalls + 1) /\ NCalls \in Nat
      /\ \A g \in Calls : Live(fh, g) => fh[g].no \in 1..(ctr - 1) /\ ~InQ(avail, fh[g].no)
      /\ \A g, h \in Calls : Live(fh, g) /\ Live(fh, h) /\ fh[g].no = fh[h].no => g = h
      /\ \A i \in 1..n : avail[i] \in 1..(ctr - 1)
      /\ \A i, j \in 1..n : avail[i] = avail[j] => i = j
      /\ \A m \in 1..(ctr - 1) : InQ(avail, m) \/ \E g \in Calls : Live(fh, g) /\ fh[g].no = m
    BY AsyncIoAssumption DEF NumbersOK
<1>2. \A g \in Calls : g # f => (Live(fh2, g) <=> Live(fh, g)) /\ fh2[g].no = fh[g].no
    BY DEF Live
<1>3. ASSUME NEW av, NEW ct, ctr - 1 <= ct - 1, ct \in 1..(NCalls + 1), no \in 1..(ct - 1),
             Len(av) \in Nat, Len(av) <= n, \A i \in 1..Len(av) : av[i] = avail[i], ~InQ(av, no),
             \A g \in Calls : Live(fh, g) => fh[g].no # no,
             \A m \in 1..(ct - 1) : m = no \/ (m \in 1..(ctr - 1) /\ (InQ(avail, m) => InQ(av, m)))
      PROVE  NumbersOK(fh2, av, ct)
  <2> HIDE DEF no
  <2>0. n \in Nat
    OBVIOUS
  <2> HIDE DEF n
  <2>1. \A i \in 1..Len(av) : i \in 1..n
    BY <1>3, <2>0
  <2>2. \A m : InQ(av, m) => InQ(avail, m)
    BY <1>3, <2>1 DEF InQ, n
  <2>3. \A m \in 1..(ctr - 1) : m \in 1..(ct - 1)
    BY <1>1, <1>3
  <2>4. ASSUME NEW g \in Calls, Live(fh2, g) PROVE fh2[g].no \in 1..(ct - 1) /\ ~InQ(av, fh2[g].no)
    <3>1. CASE g = f
      BY <1>3, <3>1 DEF no
    <3>2. CASE g # f
      BY <1>1, <1>2, <2>2, <2>3, <2>4, <3>2
    <3> QED  BY <3>1, <3>2
  <2>5. ASSUME NEW g \in Calls, NEW h \in Calls, Live(fh2, g), Live(fh2, h), fh2[g].no = fh2[h].no
        PROVE  g = h
    <3>1. CASE g # f /\ h # f
      BY <1>1, <1>2, <2>5, <3>1
    <3>2. CASE g = f /\ h # f
      BY <1>2, <1>3, <2>5, <3>2 DEF no
    <3>3. CASE g # f /\ h = f
      BY <1>2, <1>3, <2>5, <3>3 DEF no
    <3> QED  BY <3>1, <3>2, <3>3
  <2>6. \A i \in 1..Len(av) : av[i] \in 1..(ct - 1)
    BY <1>1, <1>3, <2>1, <2>3
  <2>7. \A i, j \in 1..Len(av) : av[i] = av[j] => i = j
    BY <1>1, <1>3, <2>1
  <2>8. ASSUME NEW m \in 1..(ct - 1)
        PROVE  InQ(av, m) \/ \E g \in Calls : Live(fh2, g) /\ fh2[g].no = m
    <3>1. CASE m = no
      BY <3>1 DEF no
    <3>2. CASE m # no
      <4>1. m \in 1..(ctr - 1) /\ (InQ(avail, m) => InQ(av, m))
        BY <1>3, <3>2
      <4>2. InQ(avail, m) \/ \E g \in Calls : Live(fh, g) /\ fh[g].no = m
        BY <1>1, <4>1
      <4>3. \A g \in Calls : Live(fh, g) => g # f
        OBVIOUS
      <4> QED  BY <1>2, <4>1, <4>2, <4>3
    <3> QED  BY <3>1, <3>2
  <2> QED  BY <1>3, <2>4, <2>5, <2>6, <2>7, <2>8 DEF NumbersOK
<1>4. CASE avail = <<>>
  <2>1. ctr <= NCalls
    BY <1>4, NumbersLeft
  <2>2. no = ctr /\ n = 0 /\ n \in Nat
    BY <1>4
  <2>3. \A m : ~InQ(avail, m)
    BY <1>4 DEF InQ
  <2>4. /\ ctr - 1 <= ctr + 1 - 1 /\ ctr + 1 \in 1..(NCalls + 1) /\ no \in 1..(ctr + 1 - 1)
        /\ \A m \in 1..(ctr + 1 - 1) : m = no \/ m \in 1..(ctr - 1)
        /\ no \in 1..NCalls
    BY <1>1, <2>1, <2>2
  <2>5. \A g \in Calls : Live(fh, g) => fh[g].no # no
    BY <1>1, <2>2
  <2> HIDE DEF no
  <2>6. NumbersOK(fh2, avail, ctr + 1)
    BY <1>3, <2>2, <2>3, <2>4, <2>5
  <2> QED  BY <1>4, <2>4, <2>6 DEF Handles, no
<1>5. CASE avail # <<>>
  <2> DEFINE av == Front(avail)
  <2>1. /\ n \in Nat /\ n >= 1 /\ n \in 1..n /\ Len(av) = n - 1 /\ no = avail[n]
        /\ \A i \in 1..(n - 1) : av[i] = avail[i] /\ i \in 1..n /\ i # n
        /\ \A i \in 1..n : i = n \/ i \in 1..(n - 1)
        /\ Len(av) \in Nat /\ Len(av) <= n
    <3>1. n \in Nat /\ n >= 1 /\ n \in 1..n /\ n - 1 \in Nat
      BY <1>5
    <3>2. av = SubSeq(avail, 1, n - 1) /\ no = avail[n]
      BY <1>5 DEF Front, Last
    <3>0. ASSUME NEW m \in Nat, m <= n
          PROVE  /\ Len(SubSeq(avail, 1, m)) = m
                 /\ \A i \in 1..m : SubSeq(avail, 1, m)[i] = avail[i]
      BY <3>0
    <3>5. n - 1 <= n
      BY <3>1
    <3> HIDE DEF av, n, no
    <3>6. Len(SubSeq(avail, 1, n - 1)) = n - 1
      BY <3>0, <3>1, <3>5
    <3>3. Len(av) = n - 1
      BY <3>2, <3>6
    <3>4. \A i \in 1..(n - 1) : av[i] = avail[i]
      BY <3>0, <3>1, <3>2, <3>5
    <3> QED  BY <3>1, <3>2, <3>3, <3>4
  <2>2. no \in 1..(ctr - 1) /\ no \in 1..NCalls
    BY <1>1, <2>1
  <2>3. InQ(avail, no)
    BY <2>1 DEF InQ
  <2> HIDE DEF no, av, n
  <2>4. ~InQ(av, no)
    BY <1>1, <2>1 DEF InQ, n
  <2>5. \A g \in Calls : Live(fh, g) => fh[g].no # no
    BY <1>1, <2>3
  <2>6. ASSUME NEW m, InQ(avail, m), m # no PROVE InQ(av, m)
    <3>1. PICK i \in 1..n : avail[i] = m
      BY <2>6 DEF InQ, n
    <3>2. i \in 1..(n - 1)
      BY <2>1, <2>6, <3>1
    <3> QED  BY <2>1, <3>1, <3>2 DEF InQ
  <2>7. \A m \in 1..(ctr - 1) : m = no \/ (m \in 1..(ctr - 1) /\ (InQ(avail, m) => InQ(av, m)))
    BY <2>6
  <2>71. ctr - 1 <= ctr - 1 /\ \A i \in 1..Len(av) : av[i] = avail[i]
    BY <1>1, <2>1
  <2>8. NumbersOK(fh2, av, ctr)
    BY <1>1, <1>3, <2>1, <2>2, <2>4, <2>5, <2>7, <2>71
  <2> QED  BY <1>5, <2>2, <2>8 DEF Handles, no, av
<1> QED  BY <1>4, <1>5

-----------------------------------------------------------------------------
\* The queues s2 have the messages about p that s has.
Keeps(s, s2, p) == \A d \in Daemons : InQ(s[d], p) => InQ(s2[d], p)

\* The tables of the daemons do not change, while the client goes on.
LEMMA TabKept ==
    ASSUME NEW tb, NEW fh, NEW rq, NEW rw, NEW mem, NEW rp, TabOK(tb, fh, rq, rw, mem, rp),
           NEW fh2, NEW rq2, NEW rw2, NEW mem2, NEW rp2,
           \A f \in Calls : Live(fh, f) =>
              NoTab(tb, f) \/ (Live(fh2, f) /\ fh2[f].no = fh[f].no),
           \A p \in Pos : Asks(rq2, p) /\ First(rq2, p).kind \in {"open", "close"} =>
              \/ NoTab(tb, First(rq2, p).f)
              \/ First(rq2, p).kind = "close" /\ \A d \in Daemons : InQ(rw2[d], p)
              \/ /\ Asks(rq, p) /\ First(rq2, p) = First(rq, p) /\ Keeps(rw, rw2, p)
                 /\ \/ First(rq2, p).kind = "close"
                    \/ Keeps(rp, rp2, p) /\ mem2[p].err = mem[p].err
    PROVE  TabOK(tb, fh2, rq2, rw2, mem2, rp2)
<1> SUFFICES ASSUME NEW d \in Daemons, NEW h \in Handles, tb[d][h] # None
             PROVE  /\ tb[d][h] \in Calls /\ Live(fh2, tb[d][h]) /\ fh2[tb[d][h]].no = h
                    /\ \A p \in Pos : Asks(rq2, p) /\ First(rq2, p).f = tb[d][h] =>
                         /\ First(rq2, p).kind = "close" => InQ(rw2[d], p)
                         /\ First(rq2, p).kind = "open" =>
                              ~mem2[p].err /\ \E e \in Daemons : InQ(rp2[e], p)
    BY DEF TabOK
<1> DEFINE g == tb[d][h]
<1>1. /\ g \in Calls /\ Live(fh, g) /\ fh[g].no = h
      /\ \A p \in Pos : Asks(rq, p) /\ First(rq, p).f = g =>
             /\ First(rq, p).kind = "close" => InQ(rw[d], p)
             /\ First(rq, p).kind = "open" => ~mem[p].err /\ \E e \in Daemons : InQ(rp[e], p)
    BY DEF TabOK
<1>2. ~NoTab(tb, g)
    BY DEF NoTab
<1> HIDE DEF g
<1>3. Live(fh2, g) /\ fh2[g].no = h
    BY <1>1, <1>2
<1>4. ASSUME NEW p \in Pos, Asks(rq2, p), First(rq2, p).f = g
      PROVE  /\ First(rq2, p).kind = "close" => InQ(rw2[d], p)
             /\ First(rq2, p).kind = "open" => ~mem2[p].err /\ \E e \in Daemons : InQ(rp2[e], p)
  <2>1. CASE First(rq2, p).kind \notin {"open", "close"}
    BY <2>1
  <2>2. CASE First(rq2, p).kind = "close" /\ \A e \in Daemons : InQ(rw2[e], p)
    BY <2>2
  <2>3. CASE /\ Asks(rq, p) /\ First(rq2, p) = First(rq, p) /\ Keeps(rw, rw2, p)
             /\ \/ First(rq2, p).kind = "close"
                \/ Keeps(rp, rp2, p) /\ mem2[p].err = mem[p].err
    BY <1>1, <1>4, <2>3 DEF Keeps
  <2> QED  BY <1>2, <1>4, <2>1, <2>2, <2>3
<1> QED  BY <1>1, <1>3, <1>4 DEF g

\* What is in a queue stays there when another message is added, or another one
\* is taken.
LEMMA InQFacts ==
    ASSUME NEW s \in Seq(Pos), NEW p \in Pos, NEW q
    PROVE  /\ InQ(s, q) => InQ(Append(s, p), q)
           /\ InQ(Append(s, p), p)
           /\ s # <<>> /\ q # s[1] /\ InQ(s, q) => InQ(Tail(s), q)
<1>1. ASSUME InQ(s, q) PROVE InQ(Append(s, p), q)
  <2>1. PICK i \in 1..Len(s) : s[i] = q
    BY <1>1 DEF InQ
  <2>2. i \in 1..Len(Append(s, p)) /\ Append(s, p)[i] = q
    BY <2>1
  <2> QED  BY <2>2 DEF InQ
<1>2. InQ(Append(s, p), p)
  <2>1. Len(s) + 1 \in 1..Len(Append(s, p)) /\ Append(s, p)[Len(s) + 1] = p
    OBVIOUS
  <2> QED  BY <2>1 DEF InQ
<1>3. ASSUME s # <<>>, q # s[1], InQ(s, q) PROVE InQ(Tail(s), q)
  <2>1. PICK i \in 1..Len(s) : s[i] = q
    BY <1>3 DEF InQ
  <2>2. i - 1 \in 1..Len(Tail(s)) /\ Tail(s)[i - 1] = q
    BY <1>3, <2>1
  <2> QED  BY <2>2 DEF InQ
<1> QED  BY <1>1, <1>2, <1>3

-----------------------------------------------------------------------------
(***************************************************************************)
(* What the functions of the client do to the whole.                       *)
(***************************************************************************)

\* x has the fields of k that Intact is about.
Alike(k, x) ==
    /\ x.fh = k.fh /\ x.bufs = k.bufs /\ x.rqtab = k.rqtab /\ x.mem = k.mem
    /\ x.avail = k.avail /\ x.ctr = k.ctr /\ x.bb = k.bb /\ x.grow = k.grow
    /\ x.wait = k.wait /\ x.ans = k.ans /\ x.cq = k.cq /\ x.rw = k.rw

\* Such an x is intact with k.
LEMMA AlikeIntact ==
    ASSUME NEW k, NEW x, Alike(k, x), NEW R, NEW rp, Intact(k, R, rp)
    PROVE  Intact(x, R, rp)
BY DEF Alike, Intact

\* A call is answered.
LEMMA AnswerIntact ==
    ASSUME NEW k \in Good, NEW R, NEW rp, Intact(k, R, rp), NEW c \in OptCalls,
           NEW a \in Answers \ {"none"}
    PROVE  /\ Intact(Answer(k, c, a), R, rp)
           /\ LET x == Answer(k, c, a)
              IN  /\ x.fh = k.fh /\ x.bufs = k.bufs /\ x.rqtab = k.rqtab /\ x.mem = k.mem
                  /\ x.bb = k.bb /\ x.grow = k.grow /\ x.wait = k.wait
                  /\ \A e \in Calls : x.ans[e] = "none" => k.ans[e] = "none"
<1> DEFINE x == Answer(k, c, a)
<1>0. k \in Client
    BY GoodClient
<1>1. /\ x.fh = k.fh /\ x.bufs = k.bufs /\ x.rqtab = k.rqtab /\ x.mem = k.mem
      /\ x.bb = k.bb /\ x.grow = k.grow /\ x.wait = k.wait
      /\ x.avail = k.avail /\ x.ctr = k.ctr /\ x.cq = k.cq /\ x.rw = k.rw
    BY <1>0 DEF Answer, Client
<1>2. \A e \in Calls : x.ans[e] = "none" => k.ans[e] = "none"
    BY <1>0 DEF Answer, Client, OptCalls
<1> HIDE DEF x
<1>3. WaitersOK(k.wait, R, k.fh, k.rqtab, x.ans)
    BY <1>2, AnsWaiters DEF Intact
<1>4. Intact(x, R, rp)
    BY <1>1, <1>3 DEF Intact
<1> QED  BY <1>1, <1>2, <1>4 DEF x

\* The units of a buffer are in no file and no request.
Fresh(fh, rq, tot, p, l) ==
    \A u \in Units(p, l) : u \in Pos /\ u < tot /\ rq[u] = <<>> /\ Away(fh, u)

\* Two buffers that share a unit are one.
LEMMA OneBuffer ==
    ASSUME NEW k \in Good, NEW b \in k.bufs, NEW c \in k.bufs, NEW u, In(u, b), In(u, c)
    PROVE  b = c
BY DEF Good, BuddyInv, Tiles

\* A buffer contains its first unit, and lies below tot.
LEMMA BufferUnits ==
    ASSUME NEW k \in Good, NEW p, NEW l, <<p, l>> \in k.bufs
    PROVE  /\ In(p, <<p, l>>) /\ p \in Units(p, l) /\ l \in Levels
           /\ \A u \in Units(p, l) : u \in Pos /\ u < k.bb.tot
<1>0. BuddyInv(k.bb, k.bufs) /\ k.bb.tot <= ShmMax /\ k.bb.tot \in Nat
    BY DEF Good, Client
<1>1. PICK n \in Nat, j \in Levels : <<p, l>> = <<n * Size(j), j>>
    BY <1>0 DEF BuddyInv, BuddyTypes
<1>2. p = n * Size(l) /\ l \in Levels /\ l \in Nat
    BY <1>1, LevelNat
<1>3. In(p, <<p, l>>)
    BY <1>2, InBlk, NonEmpty
<1>4. ASSUME NEW u \in Units(p, l) PROVE u \in Pos /\ u < k.bb.tot
  <2>1. In(u, <<p, l>>)
    BY DEF In
  <2>2. u \in 0..(k.bb.tot - 1)
    BY <1>0, <2>1 DEF BuddyInv, Tiles
  <2> QED  BY <1>0, <2>2, AsyncIoAssumption DEF Pos
<1> QED  BY <1>2, <1>3, <1>4 DEF In

\* bufalloc () has a buffer that nobody uses.
LEMMA GetsIntact ==
    ASSUME NEW k \in Good, NEW R, NEW rp, Intact(k, R, rp), NEW l \in Levels,
           NEW b \in Good, Gets(k, b, l)
    PROVE  /\ Intact(b, R, rp) /\ Fresh(b.fh, b.rqtab, b.bb.tot, b.got, l)
           /\ b.got \in Pos /\ <<b.got, l>> \in b.bufs /\ k.bufs \subseteq b.bufs
           /\ <<b.got, l>> \notin k.bufs
           /\ b.fh = k.fh /\ b.rqtab = k.rqtab /\ b.mem = k.mem /\ b.wait = k.wait
           /\ b.ans = k.ans /\ b.avail = k.avail /\ b.ctr = k.ctr /\ b.closed = k.closed
           /\ b.bb.tot = k.bb.tot /\ b.grow = k.grow
<1>0. k \in Client /\ b \in Client
    BY GoodClient
<1>1. /\ b.got \in Pos /\ <<b.got, l>> \notin k.bufs /\ CanAlloc(k.bb, l)
      /\ b = [k EXCEPT !.bb = Alloc(k.bb, l), !.got = b.got, !.bufs = k.bufs \cup {<<b.got, l>>}]
    BY DEF Gets
<1>2. /\ b.fh = k.fh /\ b.rqtab = k.rqtab /\ b.mem = k.mem /\ b.wait = k.wait
      /\ b.ans = k.ans /\ b.avail = k.avail /\ b.ctr = k.ctr /\ b.closed = k.closed
      /\ b.grow = k.grow /\ b.cq = k.cq /\ b.rw = k.rw
      /\ b.bb = Alloc(k.bb, l) /\ b.bufs = k.bufs \cup {<<b.got, l>>}
    BY <1>0, <1>1 DEF Client
<1>3. b.bb.tot = k.bb.tot
  <2>1. BuddyInv(k.bb, k.bufs)
    BY DEF Good
  <2>2. CanAlloc(k.bb, l)
    BY <1>1
  <2>3. Alloc(k.bb, l).tot = k.bb.tot
    BY <2>1, <2>2, AllocFacts
  <2> QED  BY <1>2, <2>3
<1>4. FilesOK(k.fh, b.bufs, k.rqtab, k.mem)
      /\ RequestsOK(k.fh, b.bufs, k.rqtab, k.mem, k.bb.tot, k.grow)
    BY <1>2, MoreBufs DEF Intact
<1>5. Intact(b, R, rp)
    BY <1>2, <1>3, <1>4 DEF Intact
<1>6. \A u, m : <<u, m>> \in k.bufs => u \notin Units(b.got, l)
  <2> SUFFICES ASSUME NEW u, NEW m, <<u, m>> \in k.bufs, u \in Units(b.got, l) PROVE FALSE
    OBVIOUS
  <2>1. <<u, m>> \in b.bufs /\ <<b.got, l>> \in b.bufs
    BY <1>2
  <2>2. In(u, <<u, m>>) /\ In(u, <<b.got, l>>)
    BY BufferUnits DEF In
  <2>3. <<u, m>> = <<b.got, l>>
    BY <2>1, <2>2, OneBuffer
  <2> QED  BY <1>1, <2>3
<1>7. ASSUME NEW u \in Units(b.got, l)
      PROVE  u \in Pos /\ u < b.bb.tot /\ b.rqtab[u] = <<>> /\ Away(b.fh, u)
  <2>1. <<b.got, l>> \in b.bufs
    BY <1>2
  <2>2. u \in Pos /\ u < b.bb.tot
    BY <2>1, BufferUnits
  <2>3. ASSUME Asks(k.rqtab, u) PROVE FALSE
    <3>1. ReqOK(u, First(k.rqtab, u), Len(k.rqtab[u]), k.fh, k.bufs, k.mem, k.bb.tot, k.grow)
      BY <2>2, <2>3 DEF Intact, RequestsOK
    <3>2. ~Holds(k.bufs, u)
      BY <1>6 DEF Holds
    <3>3. u = k.bb.tot
      BY <3>1, <3>2 DEF ReqOK
    <3>4. u \in Int
      BY <2>2, AsyncIoAssumption DEF Pos
    <3> QED  BY <1>3, <2>2, <3>3, <3>4
  <2>4. Away(k.fh, u)
    BY <1>6 DEF Away, Intact, FilesOK
  <2> QED  BY <1>2, <2>2, <2>3, <2>4 DEF Asks
<1> QED  BY <1>1, <1>2, <1>3, <1>5, <1>7 DEF Fresh

\* A buffer that nobody uses is written.
LEMMA WriteIntact ==
    ASSUME NEW b \in Good, NEW R, NEW rp, Intact(b, R, rp), NEW l \in Levels, NEW c,
           Fresh(b.fh, b.rqtab, b.bb.tot, b.got, l)
    PROVE  LET x == Write(b, l, c)
           IN  /\ Intact(x, R, rp)
               /\ \A u \in Pos : x.mem[u] = IF u \in Units(b.got, l) THEN c ELSE b.mem[u]
               /\ x.fh = b.fh /\ x.rqtab = b.rqtab /\ x.wait = b.wait /\ x.bufs = b.bufs
               /\ x.ans = b.ans /\ x.avail = b.avail /\ x.ctr = b.ctr /\ x.closed = b.closed
               /\ x.bb = b.bb /\ x.grow = b.grow /\ x.cq = b.cq /\ x.rw = b.rw
<1> DEFINE x == Write(b, l, c)
<1>0. b \in Client
    BY GoodClient
<1>1. /\ x.fh = b.fh /\ x.rqtab = b.rqtab /\ x.wait = b.wait /\ x.bufs = b.bufs
      /\ x.ans = b.ans /\ x.avail = b.avail /\ x.ctr = b.ctr /\ x.closed = b.closed
      /\ x.bb = b.bb /\ x.grow = b.grow /\ x.cq = b.cq /\ x.rw = b.rw
      /\ x.mem = [p \in Pos |-> IF p \in Units(b.got, l) THEN c ELSE b.mem[p]]
    BY <1>0 DEF Write, Client
<1>2. \A u \in Pos : x.mem[u] = IF u \in Units(b.got, l) THEN c ELSE b.mem[u]
    BY <1>1
<1> HIDE DEF x
<1>3. \A f \in Calls : Live(b.fh, f) => x.mem[b.fh[f].pos] = b.mem[b.fh[f].pos]
  <2>1. \A f \in Calls : Live(b.fh, f) => b.fh[f].pos \in Pos
    BY DEF Intact, FilesOK
  <2>2. \A f \in Calls : Live(b.fh, f) => b.fh[f].pos \notin Units(b.got, l)
    BY DEF Fresh, Away
  <2> QED  BY <1>2, <2>1, <2>2
<1>4. \A p \in Pos : Asks(b.rqtab, p) => x.mem[p] = b.mem[p]
    BY <1>2 DEF Fresh, Asks
<1>5. FilesOK(b.fh, b.bufs, b.rqtab, x.mem)
      /\ RequestsOK(b.fh, b.bufs, b.rqtab, x.mem, b.bb.tot, b.grow)
    BY <1>3, <1>4, MemKept DEF Intact
<1>6. MemoryOK(x.mem, b.bb.tot)
  <2>1. \A u \in Units(b.got, l) : ~(u >= b.bb.tot)
    <3>1. b.bb.tot \in Int /\ \A u \in Pos : u \in Int
      BY <1>0, AsyncIoAssumption DEF Client, Pos
    <3> QED  BY <3>1 DEF Fresh
  <2> QED  BY <1>2, <2>1 DEF MemoryOK, Intact
<1>7. TabOK(tab, b.fh, b.rqtab, b.rw, x.mem, rp)
  <2>1. \A p \in Pos : Keeps(b.rw, b.rw, p) /\ Keeps(rp, rp, p)
    BY DEF Keeps
  <2> QED  BY <1>4, <2>1, TabKept DEF Intact
<1>8. Intact(x, R, rp)
    BY <1>1, <1>5, <1>6, <1>7 DEF Intact
<1> QED  BY <1>1, <1>2, <1>8 DEF x

\* No waiter in W closes f.
NoClose(W, f) == \A v \in W : v.kind = "close" => v.f # f

\* A request is sent from a buffer that no other uses.
LEMMA SendIntact ==
    ASSUME NEW y \in Client, NEW R, NEW rp, Intact(y, R, rp), NEW p \in Pos, y.rqtab[p] = <<>>,
           Away(y.fh, p), NEW cb \in Callbacks,
           ReqOK(p, cb, 1, y.fh, y.bufs, y.mem, y.bb.tot, y.grow),
           cb.kind \in {"open", "close"} => NoReq(y.rqtab, cb.f) /\ NoTab(tab, cb.f),
           NoClose(Waiting(y.wait, R), cb.f)
    PROVE  LET x == Send(y, p, cb)
           IN  /\ Intact(x, R, rp) /\ NewReq(y.rqtab, x.rqtab, p, cb, 1)
               /\ x.fh = y.fh /\ x.mem = y.mem /\ x.wait = y.wait /\ x.bufs = y.bufs
               /\ x.ans = y.ans /\ x.avail = y.avail /\ x.ctr = y.ctr /\ x.closed = y.closed
               /\ x.bb = y.bb /\ x.grow = y.grow /\ x.rw = y.rw /\ x.got = y.got
<1> DEFINE x == Send(y, p, cb)
<1>1. /\ x.fh = y.fh /\ x.mem = y.mem /\ x.wait = y.wait /\ x.bufs = y.bufs
      /\ x.ans = y.ans /\ x.avail = y.avail /\ x.ctr = y.ctr /\ x.closed = y.closed
      /\ x.bb = y.bb /\ x.grow = y.grow /\ x.rw = y.rw /\ x.got = y.got
      /\ x.cq = Append(y.cq, p) /\ x.rqtab = [y.rqtab EXCEPT ![p] = Append(y.rqtab[p], cb)]
    BY DEF Send, Client
<1>2. y.rqtab \in [Pos -> Seq(Callbacks)] /\ y.cq \in Seq(Pos)
    BY DEF Client
<1>3. Replaced(y.rqtab, x.rqtab, p, Append(y.rqtab[p], cb))
    BY <1>1, <1>2 DEF Replaced
<1>4. NewReq(y.rqtab, x.rqtab, p, cb, 1)
  <2>1. x.rqtab[p] = <<cb>> /\ \A q \in Pos : q # p => x.rqtab[q] = y.rqtab[q]
    BY <1>1, <1>2
  <2>2. <<cb>> # <<>> /\ Len(<<cb>>) = 1 /\ <<cb>>[1] = cb /\ \A i \in 1..1 : <<cb>>[i] = cb
    OBVIOUS
  <2> QED  BY <2>1, <2>2 DEF NewReq
<1> HIDE DEF x
<1>5. CountOK(x.cq, y.rw, cur, rp, alive, x.rqtab)
  <2>1. CountOK(y.cq, y.rw, cur, rp, alive, y.rqtab)
    BY DEF Intact
  <2>2. CountOK(Append(y.cq, p), y.rw, cur, rp, alive, x.rqtab)
    BY <1>2, <1>3, <2>1, CountSend
  <2> QED  BY <1>1, <2>2
<1>6. FilesOK(y.fh, y.bufs, x.rqtab, y.mem)
      /\ RequestsOK(y.fh, y.bufs, x.rqtab, y.mem, y.bb.tot, y.grow)
    BY <1>4, NewReqOK DEF Intact
<1>7. WaitersOK(y.wait, R, y.fh, x.rqtab, y.ans)
    BY <1>4, NewReqWaiters DEF Intact, NoClose
<1>8. TabOK(tab, y.fh, x.rqtab, y.rw, y.mem, rp)
  <2>1. \A q \in Pos : Keeps(y.rw, y.rw, q) /\ Keeps(rp, rp, q)
    BY DEF Keeps
  <2>2. First(x.rqtab, p) = cb /\ \A q \in Pos : q # p => x.rqtab[q] = y.rqtab[q]
    BY <1>4 DEF NewReq, First
  <2>3. ASSUME NEW q \in Pos, Asks(x.rqtab, q), First(x.rqtab, q).kind \in {"open", "close"}
        PROVE  \/ NoTab(tab, First(x.rqtab, q).f)
               \/ /\ Asks(y.rqtab, q) /\ First(x.rqtab, q) = First(y.rqtab, q)
                  /\ Keeps(y.rw, y.rw, q) /\ Keeps(rp, rp, q) /\ y.mem[q].err = y.mem[q].err
    <3>1. CASE q = p
      BY <2>2, <2>3, <3>1
    <3>2. CASE q # p
      BY <2>1, <2>2, <2>3, <3>2 DEF Asks, First
    <3> QED  BY <3>1, <3>2
  <2>4. TabOK(tab, y.fh, y.rqtab, y.rw, y.mem, rp)
    BY DEF Intact
  <2> QED  BY <2>3, <2>4, TabKept
<1>9. Intact(x, R, rp)
    BY <1>1, <1>5, <1>6, <1>7, <1>8 DEF Intact
<1> QED  BY <1>1, <1>4, <1>9 DEF x

\* bufalloc () has no buffer, and may make the memory grow.
LEMMA LacksIntact ==
    ASSUME NEW k \in Good, NEW R, NEW rp, Intact(k, R, rp), NEW b, NEW l, Lacks(k, b, l)
    PROVE  /\ Intact(b, R, rp)
           /\ b.fh = k.fh /\ b.mem = k.mem /\ b.wait = k.wait /\ b.ans = k.ans
           /\ b.bufs = k.bufs /\ b.bb = k.bb /\ b.closed = k.closed
           /\ \A w : Joins(w, k.wait, R, k.fh, k.rqtab, k.ans)
                       => Joins(w, k.wait, R, k.fh, b.rqtab, k.ans)
           /\ \A p \in Pos : Asks(b.rqtab, p) => Asks(k.rqtab, p) \/ p = k.bb.tot
<1>0. k \in Client
    BY GoodClient
<1>1. CASE b = [k EXCEPT !.got = -1]
  <2>1. Alike(k, b) /\ b.closed = k.closed
    BY <1>0, <1>1 DEF Alike, Client
  <2> QED  BY <2>1, AlikeIntact DEF Alike
<1>2. ASSUME ~k.grow, k.bb.tot \in Pos,
             b = Send([k EXCEPT !.got = -1, !.grow = TRUE], k.bb.tot, Cb("grow1", None, None, 0))
      PROVE  /\ Intact(b, R, rp)
             /\ b.fh = k.fh /\ b.mem = k.mem /\ b.wait = k.wait /\ b.ans = k.ans
             /\ b.bufs = k.bufs /\ b.bb = k.bb /\ b.closed = k.closed
             /\ \A w : Joins(w, k.wait, R, k.fh, k.rqtab, k.ans)
                         => Joins(w, k.wait, R, k.fh, b.rqtab, k.ans)
             /\ \A p \in Pos : Asks(b.rqtab, p) => Asks(k.rqtab, p) \/ p = k.bb.tot
  <2> DEFINE y == [k EXCEPT !.got = -1, !.grow = TRUE]
             cb == Cb("grow1", None, None, 0)
             t == k.bb.tot
  <2>1. -1 \in Int
    OBVIOUS
  <2>2. y \in Client
    BY <1>0, <2>1 DEF Client
  <2>3. /\ y.fh = k.fh /\ y.mem = k.mem /\ y.wait = k.wait /\ y.bufs = k.bufs
        /\ y.ans = k.ans /\ y.avail = k.avail /\ y.ctr = k.ctr /\ y.closed = k.closed
        /\ y.bb = k.bb /\ y.grow = TRUE /\ y.rw = k.rw /\ y.cq = k.cq /\ y.rqtab = k.rqtab
    BY <1>0 DEF Client
  <2>4. cb \in Callbacks /\ cb.kind = "grow1" /\ cb.f = None
    BY ZeroLevel DEF Cb, Callbacks, OptCalls
  <2>5. b = Send(y, t, cb)
    BY <1>2
  <2> HIDE DEF y, cb
  <2>6. RequestsOK(k.fh, k.bufs, k.rqtab, k.mem, t, TRUE)
    <3>1. ASSUME NEW p \in Pos, Asks(k.rqtab, p)
          PROVE  ReqOK(p, First(k.rqtab, p), Len(k.rqtab[p]), k.fh, k.bufs, k.mem, t, TRUE)
      <4>1. ReqOK(p, First(k.rqtab, p), Len(k.rqtab[p]), k.fh, k.bufs, k.mem, t, k.grow)
        BY <3>1 DEF Intact, RequestsOK
      <4> QED  BY <4>1 DEF ReqOK
    <3> QED  BY <3>1 DEF Intact, RequestsOK
  <2>7. Intact(y, R, rp)
    BY <2>3, <2>6 DEF Intact
  <2>8. \A m : <<t, m>> \notin k.bufs
    <3> SUFFICES ASSUME NEW m, <<t, m>> \in k.bufs PROVE FALSE
      OBVIOUS
    <3>1. t < t
      BY BufferUnits
    <3>2. t \in Int
      BY <1>0 DEF Client
    <3> HIDE DEF t
    <3> QED  BY <3>1, <3>2
  <2>9. k.rqtab[t] = <<>>
    <3> SUFFICES ASSUME Asks(k.rqtab, t) PROVE FALSE
      BY DEF Asks
    <3>1. ReqOK(t, First(k.rqtab, t), Len(k.rqtab[t]), k.fh, k.bufs, k.mem, t, k.grow)
      BY <1>2 DEF Intact, RequestsOK
    <3>2. ~Holds(k.bufs, t)
      BY <2>8 DEF Holds
    <3> QED  BY <1>2, <3>1, <3>2, Zenon DEF ReqOK
  <2>10. Away(k.fh, t)
    BY <2>8 DEF Away, Intact, FilesOK
  <2>11. ReqOK(t, cb, 1, k.fh, k.bufs, k.mem, t, TRUE)
    BY <2>4 DEF ReqOK
  <2>12. NoClose(Waiting(k.wait, R), None)
    <3>1. \A v \in Waiting(k.wait, R) : WaiterOK(v, k.fh, k.rqtab, k.ans)
      BY DEF Intact, WaitersOK
    <3>2. \A v \in Waiting(k.wait, R) : v.kind = "close" => v.f \in Calls
      BY <3>1 DEF WaiterOK, Waiter
    <3>3. None \notin Calls
      BY AsyncIoAssumption DEF None, Calls
    <3> QED  BY <3>2, <3>3 DEF NoClose
  <2> HIDE DEF t
  <2>13. t \in Pos
    BY <1>2 DEF t
  <2>14. /\ Intact(b, R, rp) /\ NewReq(y.rqtab, b.rqtab, t, cb, 1)
         /\ b.fh = y.fh /\ b.mem = y.mem /\ b.wait = y.wait /\ b.bufs = y.bufs
         /\ b.ans = y.ans /\ b.closed = y.closed /\ b.bb = y.bb
    <3>1. y.rqtab[t] = <<>> /\ Away(y.fh, t) /\ NoClose(Waiting(y.wait, R), cb.f)
      BY <2>3, <2>4, <2>9, <2>10, <2>12
    <3>2. ReqOK(t, cb, 1, y.fh, y.bufs, y.mem, y.bb.tot, y.grow)
      BY <2>3, <2>11 DEF t
    <3>3. cb.kind \notin {"open", "close"}
      BY <2>4
    <3> QED  BY <2>2, <2>4, <2>5, <2>7, <2>13, <3>1, <3>2, <3>3, SendIntact
  <2>15. \A w : Joins(w, k.wait, R, k.fh, k.rqtab, k.ans)
                   => Joins(w, k.wait, R, k.fh, b.rqtab, k.ans)
    BY <2>3, <2>4, <2>13, <2>14, NewReqJoins
  <2>16. \A p \in Pos : Asks(b.rqtab, p) => Asks(k.rqtab, p) \/ p = t
    BY <2>3, <2>14 DEF NewReq, Asks
  <2> QED  BY <2>3, <2>14, <2>15, <2>16 DEF t
<1> QED  BY <1>1, <1>2 DEF Lacks

\* A buffer that nobody uses is freed.
LEMMA FreeIntact ==
    ASSUME NEW k \in Good, NEW R, NEW rp, Intact(k, R, rp), NEW p, Away(k.fh, p),
           p \in Pos => ~Asks(k.rqtab, p)
    PROVE  LET x == Free(k, p)
           IN  /\ Intact(x, R, rp)
               /\ x.fh = k.fh /\ x.rqtab = k.rqtab /\ x.mem = k.mem /\ x.wait = k.wait
               /\ x.ans = k.ans /\ x.closed = k.closed /\ x.bb.tot = k.bb.tot
<1> DEFINE x == Free(k, p)
<1>0. k \in Client
    BY GoodClient
<1>1. CASE x = k
    BY <1>1
<1>2. CASE Frees(k, x, p)
  <2> HIDE DEF x
  <2>1. PICK l \in Levels :
           /\ <<p, l>> \in k.bufs
           /\ x = [k EXCEPT !.bb = Dealloc(k.bb, p, l), !.bufs = k.bufs \ {<<p, l>>},
                            !.req = k.req \/ k.wait # <<>>]
    BY <1>2 DEF Frees
  <2>2. Dealloc(k.bb, p, l).tot = k.bb.tot
    <3>1. BuddyInv(k.bb, k.bufs)
      BY DEF Good
    <3>2. <<p, l>> \in k.bufs
      BY <2>1
    <3>3. BuddyInv(Dealloc(k.bb, p, l), k.bufs \ {<<p, l>>}) /\ Dealloc(k.bb, p, l).tot = k.bb.tot
      BY <3>1, <3>2, DeallocFacts
    <3> QED  BY <3>3
  <2>3. /\ x.fh = k.fh /\ x.rqtab = k.rqtab /\ x.mem = k.mem /\ x.wait = k.wait
        /\ x.ans = k.ans /\ x.closed = k.closed /\ x.bb = Dealloc(k.bb, p, l)
        /\ x.avail = k.avail /\ x.ctr = k.ctr /\ x.grow = k.grow /\ x.cq = k.cq /\ x.rw = k.rw
        /\ x.bufs = k.bufs \ {<<p, l>>}
    BY <1>0, <2>1 DEF Client
  <2>4. FilesOK(k.fh, x.bufs, k.rqtab, k.mem)
        /\ RequestsOK(k.fh, x.bufs, k.rqtab, k.mem, k.bb.tot, k.grow)
    <3>1. FilesOK(k.fh, k.bufs, k.rqtab, k.mem)
          /\ RequestsOK(k.fh, k.bufs, k.rqtab, k.mem, k.bb.tot, k.grow)
      BY DEF Intact
    <3>2. /\ FilesOK(k.fh, k.bufs \ {<<p, l>>}, k.rqtab, k.mem)
          /\ RequestsOK(k.fh, k.bufs \ {<<p, l>>}, k.rqtab, k.mem, k.bb.tot, k.grow)
      BY <3>1, LessBufs, Zenon
    <3> QED  BY <2>3, <3>2, Zenon
  <2> QED  BY <2>2, <2>3, <2>4 DEF Intact, x
<1> QED  BY <1>1, <1>2, FreeCases DEF x

\* A call waits for memory.
LEMMA WaitIntact ==
    ASSUME NEW b \in Client, NEW R, NEW rp, Intact(b, R, rp), NEW w,
           Joins(w, b.wait, R, b.fh, b.rqtab, b.ans), w.kind = "close" => b.fh[w.f].closed
    PROVE  LET x == Bufwait(b, w)
           IN  Intact(x, R, rp) /\ x.fh = b.fh /\ x.rqtab = b.rqtab
<1> DEFINE x == Bufwait(b, w)
<1>1. /\ x.fh = b.fh /\ x.mem = b.mem /\ x.bufs = b.bufs /\ x.wait = Append(b.wait, w)
      /\ x.ans = b.ans /\ x.avail = b.avail /\ x.ctr = b.ctr /\ x.rqtab = b.rqtab
      /\ x.bb = b.bb /\ x.grow = b.grow /\ x.rw = b.rw /\ x.cq = b.cq
    BY DEF Bufwait, Client
<1> HIDE DEF x
<1>2. WaitersOK(Append(b.wait, w), R, b.fh, b.rqtab, b.ans)
  <2>1. b.wait \in Seq(Waiter) /\ WaitersOK(b.wait, R, b.fh, b.rqtab, b.ans)
    BY DEF Client, Intact
  <2> QED  BY <2>1, JoinQueue
<1>3. Intact(x, R, rp)
    BY <1>1, <1>2 DEF Intact
<1> QED  BY <1>1, <1>3 DEF x

\* A pathop, a read or a write has its buffer.
LEMMA AskIntact ==
    ASSUME NEW k \in Good, NEW R, NEW rp, Intact(k, R, rp), NEW l \in Levels, NEW b \in Good,
           Gets(k, b, l), NEW w \in Waiter, Joins(w, k.wait, R, k.fh, k.rqtab, k.ans),
           w.kind \in {"path", "rw"}, NEW c \in Contents, c.op = w.kind,
           w.kind = "rw" => c.fh = k.fh[w.f].pos
    PROVE  Intact(Send(Write(b, l, c), b.got, w), R, rp)
<1> DEFINE x == Write(b, l, c)
           p == b.got
<1>1. /\ Intact(b, R, rp) /\ Fresh(b.fh, b.rqtab, b.bb.tot, p, l)
      /\ p \in Pos /\ <<p, l>> \in b.bufs
      /\ b.fh = k.fh /\ b.rqtab = k.rqtab /\ b.wait = k.wait /\ b.ans = k.ans
    BY GetsIntact
<1>2. /\ Intact(x, R, rp)
      /\ \A u \in Pos : x.mem[u] = IF u \in Units(p, l) THEN c ELSE b.mem[u]
      /\ x.fh = b.fh /\ x.rqtab = b.rqtab /\ x.wait = b.wait /\ x.bufs = b.bufs
    BY <1>1, WriteIntact
<1>3. x \in Client
    BY WriteGood, GoodClient
<1>4. p \in Units(p, l)
    BY <1>1, BufferUnits
<1> HIDE DEF x, p
<1>5. x.mem[p] = c /\ x.rqtab[p] = <<>> /\ Away(x.fh, p)
    BY <1>1, <1>2, <1>4 DEF Fresh
<1>6. w \in Callbacks
    BY WaiterIsCallback
<1>7. WaiterOK(w, k.fh, k.rqtab, k.ans) /\ \A v \in Waiting(k.wait, R) : Apiece(v, w)
    BY DEF Joins
<1>8. ReqOK(p, w, 1, x.fh, x.bufs, x.mem, x.bb.tot, x.grow)
  <2>1. Holds(x.bufs, p)
    BY <1>1, <1>2 DEF Holds
  <2> QED  BY <1>1, <1>2, <1>5, <1>7, <2>1 DEF ReqOK, WaiterOK
<1>9. NoClose(Waiting(x.wait, R), w.f)
    BY <1>1, <1>2, <1>7 DEF NoClose, Apiece
<1>10. w.kind \notin {"open", "close"}
    OBVIOUS
<1>11. Intact(Send(x, p, w), R, rp)
    BY <1>1, <1>2, <1>3, <1>5, <1>6, <1>8, <1>9, <1>10, SendIntact
<1> QED  BY <1>11 DEF x, p

\* bufalloc () has no buffer for a call that is not a close.
LEMMA LackIntact ==
    ASSUME NEW k \in Good, NEW R, NEW rp, Intact(k, R, rp), NEW l \in Levels,
           Bufalloc(k, l).got = -1, NEW w \in Waiter,
           Joins(w, k.wait, R, k.fh, k.rqtab, k.ans), w.kind = "close" => k.fh[w.f].closed
    PROVE  LET x == Bufwait(Bufalloc(k, l), w)
           IN  /\ Intact(x, R, rp) /\ x.fh = k.fh
               /\ \A p \in Pos : Asks(x.rqtab, p) => Asks(k.rqtab, p) \/ p = k.bb.tot
<1> DEFINE b == Bufalloc(k, l)
<1>1. b \in Client
    BY BufallocGood, GoodClient
<1>2. Lacks(k, b, l)
  <2>1. -1 \notin Pos
    BY AsyncIoAssumption DEF Pos
  <2>2. ~Gets(k, b, l)
    BY <2>1 DEF Gets
  <2> QED  BY <2>2, BufallocCases
<1> HIDE DEF b
<1>3. /\ Intact(b, R, rp)
      /\ b.fh = k.fh /\ b.wait = k.wait /\ b.ans = k.ans
      /\ Joins(w, k.wait, R, k.fh, b.rqtab, k.ans)
      /\ \A p \in Pos : Asks(b.rqtab, p) => Asks(k.rqtab, p) \/ p = k.bb.tot
    BY <1>2, LacksIntact
<1>4. Intact(Bufwait(b, w), R, rp) /\ Bufwait(b, w).fh = b.fh /\ Bufwait(b, w).rqtab = b.rqtab
    BY <1>1, <1>3, WaitIntact
<1> QED  BY <1>3, <1>4 DEF b

\* aiod::pathop ().
LEMMA PathopIntact ==
    ASSUME NEW k \in Good, ~k.closed, NEW R, NEW rp, Intact(k, R, rp), NEW w \in Waiter,
           w.kind = "path", Joins(w, k.wait, R, k.fh, k.rqtab, k.ans)
    PROVE  Intact(Pathop(k, w), R, rp)
<1> DEFINE b == Bufalloc(k, w.l)
           c == Content("path", 0, None, None)
<1>0. w.l \in Levels
    BY WaiterIsCallback
<1>1. CASE b.got = -1
  <2>1. Pathop(k, w) = Bufwait(b, w)
    BY <1>1 DEF Pathop
  <2> QED  BY <1>0, <1>1, <2>1, LackIntact
<1>2. CASE b.got # -1
  <2>1. Pathop(k, w) = Send(Write(b, w.l, c), b.got, w)
    BY <1>2 DEF Pathop
  <2>2. b \in Good /\ Gets(k, b, w.l)
    BY <1>0, <1>2, BufallocGood, GotPos
  <2>3. c \in Contents /\ c.op = "path"
    BY ContentType, NoneType DEF Content
  <2> HIDE DEF b, c
  <2> QED  BY <1>0, <2>1, <2>2, <2>3, AskIntact
<1> QED  BY <1>1, <1>2

\* aiofh::rw () and simpleop ().
LEMMA RwIntact ==
    ASSUME NEW k \in Good, ~k.closed, NEW R, NEW rp, Intact(k, R, rp), NEW w \in Waiter,
           w.kind = "rw", k.fh[w.f].closed \/ Joins(w, k.wait, R, k.fh, k.rqtab, k.ans)
    PROVE  Intact(Rw(k, w), R, rp)
<1> DEFINE b == Bufalloc(k, 0)
           c == Content("rw", k.fh[w.f].pos, None, None)
<1>0. 0 \in Levels /\ w.call \in OptCalls /\ w.f \in Calls
    BY ZeroLevel, WaiterIsCallback DEF Waiter
<1>1. CASE k.fh[w.f].closed
  <2>1. Rw(k, w) = Answer(k, w.call, "err")
    BY <1>1 DEF Rw
  <2>2. "err" \in Answers \ {"none"}
    BY DEF Answers
  <2> QED  BY <1>0, <2>1, <2>2, AnswerIntact
<1>2. CASE ~k.fh[w.f].closed /\ b.got = -1
  <2>1. Rw(k, w) = Bufwait(b, w)
    BY <1>2 DEF Rw
  <2> QED  BY <1>0, <1>2, <2>1, LackIntact
<1>3. CASE ~k.fh[w.f].closed /\ b.got # -1
  <2>1. Rw(k, w) = Send(Write(b, 0, c), b.got, w)
    BY <1>3 DEF Rw
  <2>2. b \in Good /\ Gets(k, b, 0)
    BY <1>0, <1>3, BufallocGood, GotPos
  <2>3. c \in Contents /\ c.op = "rw" /\ c.fh = k.fh[w.f].pos
    <3>1. k.fh[w.f].pos \in Int
      BY <1>0, GoodClient DEF Client, FhRec
    <3> QED  BY <3>1, ContentType, NoneType DEF Content
  <2> HIDE DEF b, c
  <2> QED  BY <1>0, <1>3, <2>1, <2>2, <2>3, AskIntact
<1> QED  BY <1>1, <1>2, <1>3

-----------------------------------------------------------------------------
\* An aiofh that no request and no waiter is about changes, but for its number
\* and place.
LEMMA FhIntact ==
    ASSUME NEW k, NEW R, NEW rp, Intact(k, R, rp), NEW f \in Calls,
           k.rqtab \in [Pos -> Seq(Callbacks)], NoReq(k.rqtab, f), NoWaiter(Waiting(k.wait, R), f),
           NEW fh2, \A g \in Calls : g # f => fh2[g] = k.fh[g],
           fh2[f].st = k.fh[f].st \/ (Live(fh2, f) /\ Live(k.fh, f)), fh2[f].no = k.fh[f].no, fh2[f].pos = k.fh[f].pos,
           NEW x, Alike([k EXCEPT !.fh = fh2], x), k \in Client
    PROVE  Intact(x, R, rp)
<1>0. /\ x.fh = fh2 /\ x.bufs = k.bufs /\ x.rqtab = k.rqtab /\ x.mem = k.mem
      /\ x.avail = k.avail /\ x.ctr = k.ctr /\ x.bb = k.bb /\ x.grow = k.grow
      /\ x.wait = k.wait /\ x.ans = k.ans /\ x.cq = k.cq /\ x.rw = k.rw
    BY DEF Alike, Client
<1>1. \A g \in Calls : /\ Live(fh2, g) <=> Live(k.fh, g)
                       /\ fh2[g].no = k.fh[g].no /\ fh2[g].pos = k.fh[g].pos
    BY DEF Live
<1>2. FilesOK(fh2, k.bufs, k.rqtab, k.mem)
    BY <1>1, FilesLess DEF LessLive, Intact
<1>3. NumbersOK(fh2, k.avail, k.ctr)
    BY <1>1, NumbersSame DEF Intact
<1>4. RequestsOK(fh2, k.bufs, k.rqtab, k.mem, k.bb.tot, k.grow)
  <2>1. RequestsOK(k.fh, k.bufs, k.rqtab, k.mem, k.bb.tot, k.grow)
    BY DEF Intact
  <2> QED  BY <2>1, FhRequests
<1>5. WaitersOK(k.wait, R, fh2, k.rqtab, k.ans)
  <2>1. WaitersOK(k.wait, R, k.fh, k.rqtab, k.ans)
    BY DEF Intact
  <2>2. k.ans[f] = "none" => fh2[f].st = "none"
    BY <2>1 DEF WaitersOK, Live
  <2> QED  BY <2>1, <2>2, FhWaiters
<1>6. TabOK(tab, fh2, k.rqtab, k.rw, k.mem, rp)
  <2>1. \A q \in Pos : Keeps(k.rw, k.rw, q) /\ Keeps(rp, rp, q)
    BY DEF Keeps
  <2>2. TabOK(tab, k.fh, k.rqtab, k.rw, k.mem, rp)
    BY DEF Intact
  <2> QED  BY <1>1, <2>1, <2>2, TabKept
<1> QED  BY <1>0, <1>2, <1>3, <1>4, <1>5, <1>6 DEF Intact

\* close () marks the aiofh first.
Mark(k, f) == [k EXCEPT !.fh[f].closed = TRUE]

\* A file that nobody uses is marked.
LEMMA MarkIntact ==
    ASSUME NEW k \in Good, NEW R, NEW rp, Intact(k, R, rp), NEW f \in Calls,
           NoReq(k.rqtab, f), NoWaiter(Waiting(k.wait, R), f)
    PROVE  LET x == Mark(k, f)
           IN  /\ x \in Good /\ x.closed = k.closed /\ Intact(x, R, rp)
               /\ x.rqtab = k.rqtab /\ x.wait = k.wait /\ x.ans = k.ans /\ x.mem = k.mem
               /\ \A g \in Calls : g # f => x.fh[g] = k.fh[g]
               /\ x.fh[f].st = k.fh[f].st /\ x.fh[f].no = k.fh[f].no
               /\ x.fh[f].pos = k.fh[f].pos /\ x.fh[f].closed
<1> DEFINE g == [k.fh EXCEPT ![f].closed = TRUE]
           x == Mark(k, f)
<1>0. k \in Client /\ k.rqtab \in [Pos -> Seq(Callbacks)] /\ k.fh \in [Calls -> FhRec]
    BY GoodClient DEF Client
<1>1. x = [k EXCEPT !.fh = g]
    BY DEF Mark
<1>2. /\ \A h \in Calls : h # f => g[h] = k.fh[h]
      /\ g[f].st = k.fh[f].st /\ g[f].no = k.fh[f].no /\ g[f].pos = k.fh[f].pos
      /\ g[f].closed
    BY <1>0 DEF FhRec
<1>3. x \in Good /\ x.closed = k.closed
    BY MarkGood DEF Mark
<1>4. x.fh = g /\ x.rqtab = k.rqtab /\ x.wait = k.wait /\ x.ans = k.ans /\ x.mem = k.mem
    BY <1>0, <1>1 DEF Client
<1>5. Alike([k EXCEPT !.fh = g], x)
    BY <1>1 DEF Alike
<1> HIDE DEF g, x
<1>6. Intact(x, R, rp)
    BY <1>0, <1>2, <1>5, FhIntact
<1> QED  BY <1>2, <1>3, <1>4, <1>6 DEF x

\* The aiofh is gone, and its number can be used again.
Retire(k, f) == [k EXCEPT !.avail = Append(@, k.fh[f].no), !.fh[f].st = "gone"]

\* A file is gone of which no daemon knows any more.
LEMMA RetireIntact ==
    ASSUME NEW k \in Client, NEW R, NEW rp, Intact(k, R, rp), NEW f \in Calls, Live(k.fh, f),
           NoReq(k.rqtab, f), NoWaiter(Waiting(k.wait, R), f), NoTab(tab, f)
    PROVE  LET x == Retire(k, f)
           IN  /\ Intact(x, R, rp)
               /\ x.rqtab = k.rqtab /\ x.wait = k.wait /\ x.ans = k.ans /\ x.mem = k.mem
               /\ x.bufs = k.bufs /\ x.closed = k.closed
               /\ \A g \in Calls : g # f => x.fh[g] = k.fh[g]
               /\ x.fh[f].st = "gone" /\ Away(x.fh, k.fh[f].pos)
               /\ ~Asks(x.rqtab, k.fh[f].pos)
<1> DEFINE x == Retire(k, f)
           fh2 == [k.fh EXCEPT ![f].st = "gone"]
           av == Append(k.avail, k.fh[f].no)
<1>0. k.rqtab \in [Pos -> Seq(Callbacks)] /\ k.fh \in [Calls -> FhRec] /\ k.avail \in Seq(Nat)
    BY DEF Client
<1>1. x = [k EXCEPT !.avail = av, !.fh = fh2]
    BY DEF Retire
<1>2. /\ \A g \in Calls : g # f => fh2[g] = k.fh[g]
      /\ fh2[f].st = "gone" /\ ~Live(fh2, f)
    BY <1>0 DEF FhRec, Live
<1>3. /\ x.fh = fh2 /\ x.bufs = k.bufs /\ x.rqtab = k.rqtab /\ x.mem = k.mem
      /\ x.avail = av /\ x.ctr = k.ctr /\ x.bb = k.bb /\ x.grow = k.grow
      /\ x.wait = k.wait /\ x.ans = k.ans /\ x.cq = k.cq /\ x.rw = k.rw /\ x.closed = k.closed
    BY <1>1 DEF Client
<1> HIDE DEF x, fh2
<1>4. \A g \in Calls : g # f => (Live(fh2, g) <=> Live(k.fh, g))
    BY <1>2 DEF Live
<1>5. FilesOK(fh2, k.bufs, k.rqtab, k.mem)
    BY <1>2, <1>4, FilesLess DEF LessLive, Intact
<1>6. NumbersOK(fh2, av, k.ctr)
  <2>1. k.fh[f].no \in Nat
    BY <1>0 DEF FhRec
  <2>2. NumbersOK(k.fh, k.avail, k.ctr)
    BY DEF Intact
  <2> QED  BY <1>0, <1>2, <2>1, <2>2, NumbersGone
<1> HIDE DEF av
<1>7. RequestsOK(fh2, k.bufs, k.rqtab, k.mem, k.bb.tot, k.grow)
  <2>1. RequestsOK(k.fh, k.bufs, k.rqtab, k.mem, k.bb.tot, k.grow)
    BY DEF Intact
  <2> QED  BY <1>0, <1>2, <2>1, FhRequests
<1>8. WaitersOK(k.wait, R, fh2, k.rqtab, k.ans)
  <2>1. WaitersOK(k.wait, R, k.fh, k.rqtab, k.ans)
    BY DEF Intact
  <2>2. k.ans[f] # "none"
    BY <2>1 DEF WaitersOK, Live
  <2> QED  BY <1>2, <2>1, <2>2, FhWaiters
<1>9. TabOK(tab, fh2, k.rqtab, k.rw, k.mem, rp)
  <2>1. \A q \in Pos : Keeps(k.rw, k.rw, q) /\ Keeps(rp, rp, q)
    BY DEF Keeps
  <2>2. TabOK(tab, k.fh, k.rqtab, k.rw, k.mem, rp)
    BY DEF Intact
  <2>3. \A g \in Calls : Live(k.fh, g) => NoTab(tab, g) \/ (Live(fh2, g) /\ fh2[g].no = k.fh[g].no)
    BY <1>2, <1>4
  <2> QED  BY <2>1, <2>2, <2>3, TabKept
<1>10. Intact(x, R, rp)
    BY <1>3, <1>5, <1>6, <1>7, <1>8, <1>9 DEF Intact
<1>11. Away(fh2, k.fh[f].pos) /\ ~Asks(k.rqtab, k.fh[f].pos)
  <2>1. ASSUME NEW g \in Calls, Live(fh2, g) PROVE fh2[g].pos # k.fh[f].pos
    <3>1. g # f /\ Live(k.fh, g) /\ fh2[g] = k.fh[g]
      BY <1>2, <1>4, <2>1
    <3>2. k.mem[k.fh[g].pos].f = g /\ k.mem[k.fh[f].pos].f = f
      BY <3>1 DEF Intact, FilesOK
    <3> QED  BY <3>1, <3>2
  <2> QED  BY <2>1 DEF Away, Intact, FilesOK
<1> QED  BY <1>2, <1>3, <1>10, <1>11 DEF x

\* sendclose () tells every daemon.
LEMMA BroadcastIntact ==
    ASSUME NEW y \in Client, NEW R, NEW rp, Intact(y, R, rp), NEW p \in Pos, y.rqtab[p] = <<>>,
           Away(y.fh, p), Holds(y.bufs, p), y.mem[p].op = "close",
           NEW cb \in Callbacks, cb.kind = "close",
           NoReq(y.rqtab, cb.f), NoWaiter(Waiting(y.wait, R), cb.f),
           cb.call # None => y.fh[cb.f].st = "open" /\ y.fh[cb.f].closed /\ y.mem[p].fh = y.fh[cb.f].pos,
           cb.call = None => y.fh[cb.f].st = "gone"
    PROVE  LET x == Broadcast(y, p, cb)
           IN  /\ Intact(x, R, rp) /\ x.closed = y.closed
               /\ \A g \in Calls : /\ x.fh[g].st = y.fh[g].st /\ x.fh[g].pos = y.fh[g].pos
                                    /\ x.fh[g].no = y.fh[g].no
               /\ \A q \in Pos : q # p => x.rqtab[q] = y.rqtab[q]
<1> DEFINE x == Broadcast(y, p, cb)
           f == cb.f
           fh2 == [y.fh EXCEPT ![f].left = NDaemons]
           s == [d \in Daemons |-> cb]
           rq2 == [y.rqtab EXCEPT ![p] = y.rqtab[p] \o s]
           rw2 == [d \in Daemons |-> Append(y.rw[d], p)]
           z == [y EXCEPT !.fh = fh2]
<1>0. /\ y.rqtab \in [Pos -> Seq(Callbacks)] /\ y.fh \in [Calls -> FhRec] /\ f \in Calls
      /\ y.rw \in [Daemons -> Seq(Pos)]
    BY DEF Client, Callbacks
<1>1. x = [y EXCEPT !.rqtab = rq2, !.fh = fh2, !.rw = rw2]
    BY DEF Broadcast
<1>2. /\ \A g \in Calls : g # f => fh2[g] = y.fh[g]
      /\ fh2[f].st = y.fh[f].st /\ fh2[f].no = y.fh[f].no /\ fh2[f].pos = y.fh[f].pos
      /\ fh2[f].closed = y.fh[f].closed /\ fh2[f].left = NDaemons
    BY <1>0 DEF FhRec
<1>3. /\ x.fh = fh2 /\ x.bufs = y.bufs /\ x.rqtab = rq2 /\ x.mem = y.mem
      /\ x.avail = y.avail /\ x.ctr = y.ctr /\ x.bb = y.bb /\ x.grow = y.grow
      /\ x.wait = y.wait /\ x.ans = y.ans /\ x.cq = y.cq /\ x.rw = rw2 /\ x.closed = y.closed
    BY <1>1 DEF Client
<1>4. s \in Seq(Callbacks) /\ Len(s) = NDaemons /\ s # <<>> /\ s[1] = cb
      /\ (\A i \in 1..NDaemons : s[i] = cb)
    BY AsyncIoAssumption DEF Daemons
<1>5. rq2[p] = s /\ DOMAIN rq2 = Pos /\ \A q \in Pos : q # p => rq2[q] = y.rqtab[q]
  <2>1. <<>> \o s = s
    BY <1>4
  <2> QED  BY <1>0, <2>1
<1> HIDE DEF x, fh2, s, rq2
<1>6. NewReq(y.rqtab, rq2, p, cb, NDaemons)
    BY <1>4, <1>5 DEF NewReq
<1>7. Intact(z, R, rp)
  <2>1. Alike([y EXCEPT !.fh = fh2], z)
    BY DEF Alike
  <2> HIDE DEF z
  <2> QED  BY <1>0, <1>2, <2>1, FhIntact
<1>8. /\ z.fh = fh2 /\ z.bufs = y.bufs /\ z.rqtab = y.rqtab /\ z.mem = y.mem
      /\ z.avail = y.avail /\ z.ctr = y.ctr /\ z.bb = y.bb /\ z.grow = y.grow
      /\ z.wait = y.wait /\ z.ans = y.ans /\ z.cq = y.cq /\ z.rw = y.rw
    BY DEF Client
<1> HIDE DEF z
<1>9. ReqOK(p, cb, NDaemons, fh2, y.bufs, y.mem, y.bb.tot, y.grow)
    BY <1>2 DEF ReqOK
<1>10. Away(fh2, p)
  <2>1. \A g \in Calls : Live(fh2, g) => Live(y.fh, g) /\ fh2[g].pos = y.fh[g].pos
    BY <1>2 DEF Live
  <2> QED  BY <2>1 DEF Away
<1>11. FilesOK(fh2, y.bufs, rq2, y.mem) /\ RequestsOK(fh2, y.bufs, rq2, y.mem, y.bb.tot, y.grow)
  <2>1. FilesOK(fh2, y.bufs, y.rqtab, y.mem)
        /\ RequestsOK(fh2, y.bufs, y.rqtab, y.mem, y.bb.tot, y.grow)
    BY <1>7, <1>8 DEF Intact
  <2> QED  BY <1>6, <1>9, <1>10, <2>1, NewReqOK
<1>12. WaitersOK(y.wait, R, fh2, rq2, y.ans)
  <2>1. WaitersOK(y.wait, R, fh2, y.rqtab, y.ans)
    BY <1>7, <1>8 DEF Intact
  <2> QED  BY <1>6, <2>1, NewReqWaiters DEF NoWaiter
<1>13. CountOK(y.cq, rw2, cur, rp, alive, rq2)
  <2>1. CountOK(y.cq, y.rw, cur, rp, alive, y.rqtab)
    BY DEF Intact
  <2>2. Replaced(y.rqtab, rq2, p, s)
    BY <1>0, <1>5 DEF Replaced
  <2>3. DOMAIN y.rqtab = Pos /\ \A q \in Pos : Len(y.rqtab[q]) \in Nat
    BY <1>0
  <2> QED  BY <1>0, <1>4, <2>1, <2>2, <2>3, CountBroadcast
<1>14. TabOK(tab, fh2, rq2, rw2, y.mem, rp)
  <2>1. TabOK(tab, fh2, y.rqtab, y.rw, y.mem, rp)
    BY <1>7, <1>8 DEF Intact
  <2>2. ASSUME NEW d \in Daemons
        PROVE  InQ(rw2[d], p) /\ \A q : InQ(y.rw[d], q) => InQ(rw2[d], q)
    <3>1. y.rw[d] \in Seq(Pos) /\ rw2[d] = Append(y.rw[d], p)
      BY <1>0
    <3> HIDE DEF rw2
    <3> QED  BY <3>1, InQFacts
  <2> HIDE DEF rw2
  <2>3. \A q \in Pos : Keeps(y.rw, rw2, q) /\ Keeps(rp, rp, q)
    BY <2>2 DEF Keeps
  <2>4. First(rq2, p) = cb
    BY <1>4, <1>5 DEF First
  <2>5. ASSUME NEW q \in Pos, Asks(rq2, q), First(rq2, q).kind \in {"open", "close"}
        PROVE  \/ First(rq2, q).kind = "close" /\ \A d \in Daemons : InQ(rw2[d], q)
               \/ /\ Asks(y.rqtab, q) /\ First(rq2, q) = First(y.rqtab, q)
                  /\ Keeps(y.rw, rw2, q) /\ Keeps(rp, rp, q) /\ y.mem[q].err = y.mem[q].err
    <3>1. CASE q = p
      BY <2>2, <2>4, <3>1
    <3>2. CASE q # p
      BY <1>5, <2>3, <2>5, <3>2 DEF Asks, First
    <3> QED  BY <3>1, <3>2
  <2> QED  BY <2>1, <2>5, TabKept
<1> HIDE DEF rw2
<1>15. Intact(x, R, rp)
  <2>1. NumbersOK(fh2, y.avail, y.ctr) /\ MemoryOK(y.mem, y.bb.tot)
    BY <1>7, <1>8 DEF Intact
  <2> QED  BY <1>3, <1>11, <1>12, <1>13, <1>14, <2>1 DEF Intact
<1> QED  BY <1>2, <1>3, <1>5, <1>15 DEF x

\* The aiofh and its number.
LEMMA RetireGood ==
    ASSUME NEW k \in Good, NEW f \in Calls
    PROVE  Retire(k, f) \in Good /\ Same(k, Retire(k, f))
<1> DEFINE x == Retire(k, f)
<1>0. k \in Client
    BY GoodClient
<1>1. x \in Client
  <2>1. k.fh[f] \in FhRec /\ k.fh[f].no \in Nat
    BY <1>0 DEF Client, FhRec
  <2>2. Append(k.avail, k.fh[f].no) \in Seq(Nat)
    BY <1>0, <2>1 DEF Client
  <2>3. [k.fh EXCEPT ![f].st = "gone"] \in [Calls -> FhRec]
    <3>1. [k.fh[f] EXCEPT !.st = "gone"] \in FhRec
      BY <2>1 DEF FhRec
    <3> QED  BY <1>0, <3>1 DEF Client
  <2> QED  BY <1>0, <2>2, <2>3 DEF Client, Retire
<1>2. Same(k, x)
    BY <1>0 DEF Client, Same, Retire
<1> QED  BY <1>1, <1>2, SameGood

\* The request of sendclose () is written.
LEMMA CloseWritten ==
    ASSUME NEW k \in Good, NEW R, NEW rp, Intact(k, R, rp), NEW b \in Good, Gets(k, b, 0),
           NEW f \in Calls
    PROVE  LET y == Write(b, 0, Content("close", b.fh[f].pos, None, None))
           IN  /\ y \in Good /\ y.closed = k.closed /\ Intact(y, R, rp)
               /\ b.got \in Pos /\ y.rqtab[b.got] = <<>> /\ Away(y.fh, b.got)
               /\ Holds(y.bufs, b.got) /\ y.mem[b.got].op = "close"
               /\ y.mem[b.got].fh = y.fh[f].pos
               /\ y.fh = k.fh /\ y.rqtab = k.rqtab /\ y.wait = k.wait /\ y.ans = k.ans
<1> DEFINE c == Content("close", b.fh[f].pos, None, None)
           y == Write(b, 0, c)
           p == b.got
<1>0. 0 \in Levels
    BY ZeroLevel
<1>1. /\ Intact(b, R, rp) /\ Fresh(b.fh, b.rqtab, b.bb.tot, p, 0)
      /\ p \in Pos /\ <<p, 0>> \in b.bufs /\ b.closed = k.closed
      /\ b.fh = k.fh /\ b.rqtab = k.rqtab /\ b.wait = k.wait /\ b.ans = k.ans
    BY <1>0, GetsIntact
<1>2. c \in Contents /\ c.op = "close" /\ c.fh = b.fh[f].pos
  <2>1. b.fh[f].pos \in Int
    BY GoodClient DEF Client, FhRec
  <2> QED  BY <2>1, ContentType, NoneType DEF Content
<1> HIDE DEF c
<1>3. /\ Intact(y, R, rp)
      /\ \A u \in Pos : y.mem[u] = IF u \in Units(p, 0) THEN c ELSE b.mem[u]
      /\ y.fh = b.fh /\ y.rqtab = b.rqtab /\ y.wait = b.wait /\ y.bufs = b.bufs
      /\ y.ans = b.ans /\ y.closed = b.closed
    BY <1>0, <1>1, WriteIntact
<1>4. y \in Good
    BY <1>0, <1>2, WriteGood
<1>5. p \in Units(p, 0)
    BY <1>1, BufferUnits
<1> HIDE DEF y, p
<1>6. y.mem[p] = c /\ y.rqtab[p] = <<>> /\ Away(y.fh, p)
    BY <1>1, <1>3, <1>5 DEF Fresh
<1>7. Holds(y.bufs, p)
    BY <1>0, <1>1, <1>3 DEF Holds
<1> QED  BY <1>1, <1>2, <1>3, <1>4, <1>6, <1>7, Zenon DEF y, p, c

\* aiofh::sendclose (), from close (), when the application keeps the aiofh.
LEMMA CloseIntact ==
    ASSUME Careful, NEW k \in Good, ~k.closed, NEW R, NEW rp, Intact(k, R, rp), NEW w \in Waiter,
           w.kind = "close", Joins(w, k.wait, R, k.fh, k.rqtab, k.ans)
    PROVE  Intact(Close(k, w), R, rp)
<1> DEFINE f == w.f
           x == Mark(k, f)
           b == Bufalloc(x, 0)
<1>0. w \in Callbacks /\ f \in Calls /\ 0 \in Levels
    BY WaiterIsCallback, ZeroLevel DEF Waiter
<1>1. /\ WaiterOK(w, k.fh, k.rqtab, k.ans) /\ k.fh[f].st = "open" /\ w.call \in Calls
      /\ NoReq(k.rqtab, f) /\ NoWaiter(Waiting(k.wait, R), f)
    BY DEF Joins, WaiterOK, NoReq, NoWaiter, Apiece
<1>2. /\ x \in Good /\ x.closed = k.closed /\ Intact(x, R, rp)
      /\ x.rqtab = k.rqtab /\ x.wait = k.wait /\ x.ans = k.ans
      /\ x.fh[f].st = "open" /\ x.fh[f].closed
    BY <1>0, <1>1, MarkIntact
<1>3. /\ b.got = -1 => Close(k, w) = Bufwait(b, w)
      /\ b.got # -1 => Close(k, w) = SendClose(b, w)
    BY DEF Close, Mark
<1> HIDE DEF x
<1>4. Joins(w, x.wait, R, x.fh, x.rqtab, x.ans)
    BY <1>1, <1>2 DEF Joins, WaiterOK
<1>5. CASE b.got = -1
    BY <1>0, <1>2, <1>3, <1>4, <1>5, LackIntact
<1>6. CASE b.got # -1
  <2> DEFINE y == Write(b, 0, Content("close", b.fh[f].pos, None, None))
  <2>1. b \in Good /\ Gets(x, b, 0)
    BY <1>0, <1>2, <1>6, BufallocGood, GotPos
  <2>2. Close(k, w) = Broadcast(y, b.got, w)
    BY <1>3, <1>6 DEF SendClose
  <2> HIDE DEF b
  <2>3. /\ y \in Good /\ Intact(y, R, rp)
        /\ b.got \in Pos /\ y.rqtab[b.got] = <<>> /\ Away(y.fh, b.got)
        /\ Holds(y.bufs, b.got) /\ y.mem[b.got].op = "close"
        /\ y.mem[b.got].fh = y.fh[f].pos
        /\ y.fh = x.fh /\ y.rqtab = x.rqtab /\ y.wait = x.wait /\ y.ans = x.ans
    <3>1. x \in Good /\ Intact(x, R, rp) /\ f \in Calls
      BY <1>0, <1>2
    <3> HIDE DEF f
    <3> QED  BY <2>1, <3>1, CloseWritten
  <2> HIDE DEF y
  <2>4. w.call # None /\ y \in Client
    BY <1>1, <2>3, GoodClient, AsyncIoAssumption DEF None, Calls
  <2>5. NoReq(y.rqtab, f) /\ NoWaiter(Waiting(y.wait, R), f)
        /\ y.fh[f].st = "open" /\ y.fh[f].closed
    BY <1>1, <1>2, <2>3
  <2> HIDE DEF f
  <2>6. Intact(Broadcast(y, b.got, w), R, rp)
    BY <1>0, <2>3, <2>4, <2>5, BroadcastIntact DEF f
  <2> QED  BY <2>2, <2>6
<1> QED  BY <1>5, <1>6

\* ~aiofh () of a file whose open failed everywhere.
LEMMA DestroyIntact ==
    ASSUME NEW k \in Good, ~k.closed, NEW R, NEW rp, Intact(k, R, rp), NEW f \in Calls,
           k.fh[f].st = "opening", NoReq(k.rqtab, f), NoTab(tab, f)
    PROVE  Intact(Destroy(k, f), R, rp) /\ LessLive(k.fh, Destroy(k, f).fh)
<1> DEFINE x == Mark(k, f)
           b == Bufalloc(x, 0)
           cb == Cb("close", None, f, 0)
<1>0. cb \in Callbacks /\ cb.f = f /\ cb.kind = "close" /\ cb.call = None /\ 0 \in Levels
    BY ZeroLevel DEF Callbacks, Cb, None, OptCalls
<1>1. NoWaiter(Waiting(k.wait, R), f)
  <2> SUFFICES ASSUME NEW v \in Waiting(k.wait, R), v.f = f PROVE FALSE
    BY DEF NoWaiter
  <2>1. WaiterOK(v, k.fh, k.rqtab, k.ans)
    BY DEF Intact, WaitersOK
  <2>2. f # None
    BY AsyncIoAssumption DEF None, Calls
  <2> QED  BY <2>1, <2>2 DEF WaiterOK, Waiter
<1>2. /\ x \in Good /\ x.closed = k.closed /\ Intact(x, R, rp)
      /\ x.rqtab = k.rqtab /\ x.wait = k.wait
      /\ x.fh[f].st = "opening" /\ x.fh[f].no = k.fh[f].no /\ x.fh[f].pos = k.fh[f].pos
      /\ \A g \in Calls : g # f => x.fh[g] = k.fh[g]
    BY <1>1, MarkIntact
<1>3. /\ b.got = -1 => Destroy(k, f) = [b EXCEPT !.fault = @ \cup {"dangling"}]
      /\ b.got # -1 => Destroy(k, f) = Release(SendClose(b, cb), f)
    BY DEF Destroy, Mark
<1> HIDE DEF x, cb
<1>4. LessLive(k.fh, x.fh)
    BY <1>2 DEF LessLive, Live
<1>5. CASE b.got = -1
  <2>1. b \in Client
    BY <1>0, <1>2, BufallocGood, GoodClient
  <2>2. Lacks(x, b, 0)
    <3>1. -1 \notin Pos
      BY AsyncIoAssumption DEF Pos
    <3>2. ~Gets(x, b, 0)
      BY <1>5, <3>1 DEF Gets
    <3> QED  BY <1>0, <1>2, <3>2, BufallocCases
  <2> HIDE DEF b
  <2>3. Intact(b, R, rp) /\ b.fh = x.fh
    BY <1>2, <2>2, LacksIntact
  <2> DEFINE z == [b EXCEPT !.fault = @ \cup {"dangling"}]
  <2>4. Alike(b, z)
    BY <2>1 DEF Alike, Client
  <2>5. Destroy(k, f) = z
    BY <1>3, <1>5
  <2> HIDE DEF z
  <2>6. Intact(z, R, rp) /\ z.fh = b.fh
    BY <2>3, <2>4, AlikeIntact DEF Alike
  <2> QED  BY <1>4, <2>3, <2>5, <2>6
<1>6. CASE b.got # -1
  <2> DEFINE y == Write(b, 0, Content("close", b.fh[f].pos, None, None))
             r == Retire(y, f)
             u == Retire(Broadcast(y, b.got, cb), f)
             v == Broadcast(r, b.got, cb)
             q == y.fh[f].pos
  <2>1. b \in Good /\ Gets(x, b, 0)
    BY <1>0, <1>2, <1>6, BufallocGood, GotPos
  <2>2. Destroy(k, f) = Free(u, Broadcast(y, b.got, cb).fh[f].pos)
    BY <1>0, <1>3, <1>6 DEF SendClose, Release, Retire
  <2> HIDE DEF b
  <2>3. /\ y \in Good /\ Intact(y, R, rp)
        /\ b.got \in Pos /\ y.rqtab[b.got] = <<>> /\ Away(y.fh, b.got)
        /\ Holds(y.bufs, b.got) /\ y.mem[b.got].op = "close"
        /\ y.fh = x.fh /\ y.rqtab = x.rqtab /\ y.wait = x.wait
    BY <1>2, <2>1, CloseWritten
  <2> HIDE DEF y
  <2>4. y \in Client
    BY <2>3, GoodClient
  <2>5. Live(y.fh, f) /\ NoReq(y.rqtab, f) /\ NoWaiter(Waiting(y.wait, R), f)
    BY <1>1, <1>2, <2>3 DEF Live
  <2>6. /\ Intact(r, R, rp)
        /\ r.rqtab = y.rqtab /\ r.wait = y.wait /\ r.mem = y.mem /\ r.bufs = y.bufs
        /\ \A g \in Calls : g # f => r.fh[g] = y.fh[g]
        /\ r.fh[f].st = "gone" /\ Away(r.fh, q) /\ ~Asks(r.rqtab, q)
    BY <2>3, <2>4, <2>5, RetireIntact
  <2>7. r \in Client
    BY <2>3, RetireGood, GoodClient
  <2>8. Alike(v, u) /\ Broadcast(y, b.got, cb).fh[f].pos = q
    <3>1. y.fh \in [Calls -> FhRec] /\ y.fh[f] \in FhRec
      BY <2>4 DEF Client
    <3> DEFINE b1 == Broadcast(y, b.got, cb)
               s == [d \in Daemons |-> cb]
               rq2 == [y.rqtab EXCEPT ![b.got] = y.rqtab[b.got] \o s]
               rw2 == [d \in Daemons |-> Append(y.rw[d], b.got)]
               f1 == [y.fh EXCEPT ![f].left = NDaemons]
               f2 == [y.fh EXCEPT ![f].st = "gone"]
    <3>2. /\ b1.fh = f1 /\ b1.bufs = y.bufs /\ b1.rqtab = rq2 /\ b1.mem = y.mem
          /\ b1.avail = y.avail /\ b1.ctr = y.ctr /\ b1.bb = y.bb /\ b1.grow = y.grow
          /\ b1.wait = y.wait /\ b1.ans = y.ans /\ b1.cq = y.cq /\ b1.rw = rw2
      BY <1>0, <2>4 DEF Broadcast, Client
    <3>3. /\ r.fh = f2 /\ r.bufs = y.bufs /\ r.rqtab = y.rqtab /\ r.mem = y.mem
          /\ r.avail = Append(y.avail, y.fh[f].no) /\ r.ctr = y.ctr /\ r.bb = y.bb
          /\ r.grow = y.grow /\ r.wait = y.wait /\ r.ans = y.ans /\ r.cq = y.cq /\ r.rw = y.rw
      BY <2>4 DEF Retire, Client
    <3>4. b1 \in Client
      BY <1>0, <2>3, BroadcastGood, GoodClient
    <3>5. f1[f].no = y.fh[f].no /\ f1[f].pos = y.fh[f].pos
      BY <3>1 DEF FhRec
    <3>6. [f1 EXCEPT ![f].st = "gone"] = [f2 EXCEPT ![f].left = NDaemons]
      BY <3>1 DEF FhRec
    <3> HIDE DEF b1, r, rq2, rw2, f1, f2
    <3>7. /\ u.fh = [f1 EXCEPT ![f].st = "gone"] /\ u.bufs = y.bufs /\ u.rqtab = rq2
          /\ u.mem = y.mem /\ u.avail = Append(y.avail, f1[f].no) /\ u.ctr = y.ctr /\ u.bb = y.bb
          /\ u.grow = y.grow /\ u.wait = y.wait /\ u.ans = y.ans /\ u.cq = y.cq /\ u.rw = rw2
      <4>1. u = Retire(b1, f)
        BY DEF b1
      <4> HIDE DEF u
      <4> QED  BY <3>2, <3>4, <4>1 DEF Retire, Client
    <3>8. /\ v.fh = [f2 EXCEPT ![f].left = NDaemons] /\ v.bufs = r.bufs /\ v.rqtab = rq2
          /\ v.mem = r.mem /\ v.avail = r.avail /\ v.ctr = r.ctr /\ v.bb = r.bb
          /\ v.grow = r.grow /\ v.wait = r.wait /\ v.ans = r.ans /\ v.cq = r.cq /\ v.rw = rw2
      BY <1>0, <2>7, <3>3 DEF Broadcast, Client, rq2, rw2
    <3> HIDE DEF u, v
    <3> QED  BY <3>2, <3>3, <3>5, <3>6, <3>7, <3>8 DEF Alike, b1
  <2>9. u \in Good
    BY <1>0, <2>3, BroadcastGood, RetireGood
  <2> HIDE DEF r, u
  <2>10. /\ Intact(v, R, rp)
         /\ \A g \in Calls : /\ v.fh[g].st = r.fh[g].st /\ v.fh[g].pos = r.fh[g].pos
                                /\ v.fh[g].no = r.fh[g].no
         /\ \A e \in Pos : e # b.got => v.rqtab[e] = r.rqtab[e]
    <3>1. Away(r.fh, b.got)
      BY <2>3, <2>6 DEF Away, Live
    <3>2. NoReq(r.rqtab, f) /\ NoWaiter(Waiting(r.wait, R), f) /\ r.mem[b.got].op = "close"
          /\ Holds(r.bufs, b.got) /\ r.rqtab[b.got] = <<>>
      BY <2>3, <2>5, <2>6
    <3> HIDE DEF v
    <3> QED  BY <1>0, <2>3, <2>6, <2>7, <3>1, <3>2, BroadcastIntact DEF v
  <2> HIDE DEF v
  <2>11. Intact(u, R, rp) /\ u.fh = v.fh /\ u.rqtab = v.rqtab
    BY <2>8, <2>10, AlikeIntact DEF Alike
  <2>12. Away(u.fh, q)
    BY <2>6, <2>10, <2>11 DEF Away, Live
  <2>13. q \in Pos => ~Asks(u.rqtab, q)
    <3>1. q # b.got
      BY <2>3, <2>5 DEF Away
    <3> QED  BY <2>6, <2>10, <2>11, <3>1 DEF Asks
  <2>14. Destroy(k, f) = Free(u, q)
    BY <2>2, <2>8
  <2> HIDE DEF q
  <2>15. Intact(Free(u, q), R, rp) /\ Free(u, q).fh = u.fh
    BY <2>9, <2>11, <2>12, <2>13, FreeIntact
  <2>16. LessLive(k.fh, u.fh)
    <3> SUFFICES ASSUME NEW g \in Calls, Live(u.fh, g)
                 PROVE  Live(k.fh, g) /\ u.fh[g].pos = k.fh[g].pos /\ u.fh[g].no = k.fh[g].no
      BY DEF LessLive
    <3>1. Live(r.fh, g) /\ u.fh[g].pos = r.fh[g].pos /\ u.fh[g].no = r.fh[g].no
      BY <2>10, <2>11 DEF Live
    <3>2. g # f
      BY <2>6, <3>1 DEF Live
    <3>3. r.fh[g] = k.fh[g]
      BY <1>2, <2>3, <2>6, <3>2
    <3> QED  BY <3>1, <3>3 DEF Live
  <2> QED  BY <2>14, <2>15, <2>16
<1> QED  BY <1>5, <1>6

\* Nobody knows a file that was never opened.
LEMMA NobodyKnows ==
    ASSUME NEW k, NEW R, NEW rp, Intact(k, R, rp), NEW f \in Calls, k.fh[f].st = "none",
           k.rqtab \in [Pos -> Seq(Callbacks)]
    PROVE  NoReq(k.rqtab, f) /\ NoTab(tab, f) /\ ~Live(k.fh, f)
<1>0. f # None /\ ~Live(k.fh, f)
    BY AsyncIoAssumption DEF None, Calls, Live
<1>1. ASSUME NEW p \in Pos, Asks(k.rqtab, p), First(k.rqtab, p).f = f PROVE FALSE
  <2>1. ReqOK(p, First(k.rqtab, p), Len(k.rqtab[p]), k.fh, k.bufs, k.mem, k.bb.tot, k.grow)
    BY <1>1 DEF Intact, RequestsOK
  <2>2. First(k.rqtab, p).kind \in {"path", "open", "rw", "close", "grow1", "grow2"}
    <3>1. k.rqtab[p] \in Seq(Callbacks) /\ k.rqtab[p] # <<>>
      BY <1>1 DEF Asks
    <3>2. First(k.rqtab, p) \in Callbacks
      BY <3>1 DEF First
    <3> QED  BY <3>2 DEF Callbacks
  <2> QED  BY <1>0, <1>1, <2>1, <2>2 DEF ReqOK
<1>2. NoTab(tab, f)
    BY <1>0 DEF Intact, TabOK, NoTab
<1> QED  BY <1>0, <1>1, <1>2 DEF NoReq

\* The aiofh of open () with its struct aiod_file.
LEMMA NewFileIntact ==
    ASSUME NEW k \in Good, NEW b \in Good, NEW R, NEW rp, Intact(b, R, rp), NEW f \in Calls,
           b.avail = k.avail, b.ctr = k.ctr, b.got \in Pos, <<b.got, 0>> \in b.bufs,
           Fresh(b.fh, b.rqtab, b.bb.tot, b.got, 0), b.fh[f].st = "none", b.ans[f] # "none",
           NoWaiter(Waiting(b.wait, R), f)
    PROVE  LET x == Write(NewFile(k, b, f), 0, Content("file", 0, FhnoAlloc(k), f))
           IN  /\ x \in Good /\ x.closed = b.closed /\ Intact(x, R, rp)
               /\ \A g \in Calls : g # f => x.fh[g] = b.fh[g]
               /\ x.fh[f].st = "opening" /\ ~x.fh[f].closed /\ x.fh[f].pos = b.got
               /\ x.rqtab = b.rqtab /\ x.bufs = b.bufs /\ x.bb = b.bb /\ x.wait = b.wait
<1> DEFINE c == Content("file", 0, FhnoAlloc(k), f)
           y == Write(b, 0, c)
           n == NewFile(k, b, f)
           x == Write(n, 0, c)
           r == [st |-> "opening", no |-> FhnoAlloc(k), pos |-> b.got, closed |-> FALSE, left |-> 0]
           fh2 == [b.fh EXCEPT ![f] = r]
           av == IF b.avail = <<>> THEN b.avail ELSE Front(b.avail)
           ct == IF b.avail = <<>> THEN b.ctr + 1 ELSE b.ctr
<1>0. b \in Client /\ b.fh \in [Calls -> FhRec] /\ 0 \in Levels /\ b.avail \in Seq(Nat)
      /\ b.rqtab \in [Pos -> Seq(Callbacks)]
    BY ZeroLevel, GoodClient DEF Client
<1>1. n = [b EXCEPT !.avail = av, !.ctr = ct, !.fh = fh2]
    BY DEF NewFile
<1>2. n \in Good /\ Same(b, n) /\ n.got = b.got /\ FhnoAlloc(k) \in Nat
    BY NewFileGood
<1>3. c \in Contents /\ c.op = "file" /\ c.h = FhnoAlloc(k) /\ c.f = f
  <2>1. f \in OptCalls
    BY DEF OptCalls
  <2> QED  BY <1>2, <2>1, ContentType, NoneType DEF Content
<1>4. /\ \A g \in Calls : g # f => fh2[g] = b.fh[g]
      /\ fh2[f].st = "opening" /\ ~fh2[f].closed /\ fh2[f].pos = b.got
      /\ fh2[f].no = FhnoAlloc(k)
    BY <1>0
<1>5. FhnoAlloc(k) = IF b.avail = <<>> THEN b.ctr ELSE Last(b.avail)
    BY DEF FhnoAlloc
<1> HIDE DEF c, av, ct, fh2
<1>6. /\ n.fh = fh2 /\ n.bufs = b.bufs /\ n.rqtab = b.rqtab /\ n.mem = b.mem
      /\ n.avail = av /\ n.ctr = ct /\ n.bb = b.bb /\ n.grow = b.grow /\ n.closed = b.closed
      /\ n.wait = b.wait /\ n.ans = b.ans /\ n.cq = b.cq /\ n.rw = b.rw
    BY <1>0, <1>1 DEF Client
<1>7. n \in Client
    BY <1>2, GoodClient
<1> HIDE DEF n
<1>8. /\ Intact(y, R, rp)
      /\ \A u \in Pos : y.mem[u] = IF u \in Units(b.got, 0) THEN c ELSE b.mem[u]
      /\ y.fh = b.fh /\ y.rqtab = b.rqtab /\ y.wait = b.wait /\ y.bufs = b.bufs
      /\ y.ans = b.ans /\ y.avail = b.avail /\ y.ctr = b.ctr
      /\ y.bb = b.bb /\ y.grow = b.grow /\ y.cq = b.cq /\ y.rw = b.rw
    BY <1>0, WriteIntact
<1>9. x.mem = y.mem
    BY <1>0, <1>2, <1>6, <1>7 DEF Write, Client
<1>10. /\ x.fh = fh2 /\ x.bufs = b.bufs /\ x.rqtab = b.rqtab
       /\ x.avail = av /\ x.ctr = ct /\ x.bb = b.bb /\ x.grow = b.grow /\ x.closed = b.closed
       /\ x.wait = b.wait /\ x.ans = b.ans /\ x.cq = b.cq /\ x.rw = b.rw
    BY <1>6, <1>7 DEF Write, Client
<1>11. x \in Good
    BY <1>0, <1>2, <1>3, WriteGood
<1>12. b.got \in Units(b.got, 0)
    BY BufferUnits
<1> HIDE DEF x, y
<1>13. y.mem[b.got] = c /\ b.rqtab[b.got] = <<>> /\ Away(b.fh, b.got)
    BY <1>8, <1>12 DEF Fresh
<1>14. NoReq(b.rqtab, f) /\ NoTab(tab, f) /\ ~Live(b.fh, f)
    BY <1>0, NobodyKnows
<1>15. Live(fh2, f) /\ \A g \in Calls : g # f => (Live(fh2, g) <=> Live(b.fh, g))
    BY <1>4 DEF Live
<1>16. FilesOK(fh2, b.bufs, b.rqtab, y.mem)
  <2>1. FilesOK(b.fh, b.bufs, b.rqtab, y.mem)
    BY <1>8 DEF Intact
  <2> SUFFICES ASSUME NEW g \in Calls, Live(fh2, g)
               PROVE  /\ fh2[g].pos \in Pos /\ <<fh2[g].pos, 0>> \in b.bufs
                      /\ ~Asks(b.rqtab, fh2[g].pos)
                      /\ y.mem[fh2[g].pos].op = "file"
                      /\ y.mem[fh2[g].pos].h = fh2[g].no
                      /\ y.mem[fh2[g].pos].f = g
    BY DEF FilesOK
  <2>2. CASE g = f
    BY <1>3, <1>4, <1>13, <2>2 DEF Asks
  <2>3. CASE g # f
    BY <1>4, <1>15, <2>1, <2>3 DEF FilesOK
  <2> QED  BY <2>2, <2>3
<1>17. NumbersOK(fh2, av, ct)
  <2>1. NumbersOK(b.fh, b.avail, b.ctr)
    BY DEF Intact
  <2>2. fh2[f].no = IF b.avail = <<>> THEN b.ctr ELSE Last(b.avail)
    BY <1>4, <1>5
  <2> QED  BY <1>0, <1>4, <1>14, <1>15, <2>1, <2>2, NumbersNew DEF av, ct
<1>18. RequestsOK(fh2, b.bufs, b.rqtab, y.mem, b.bb.tot, b.grow)
  <2>1. RequestsOK(b.fh, b.bufs, b.rqtab, y.mem, b.bb.tot, b.grow)
    BY <1>8 DEF Intact
  <2> QED  BY <1>0, <1>4, <1>14, <2>1, FhRequests
<1>19. WaitersOK(b.wait, R, fh2, b.rqtab, b.ans)
  <2>1. WaitersOK(b.wait, R, b.fh, b.rqtab, b.ans)
    BY DEF Intact
  <2> QED  BY <1>4, <2>1, FhWaiters
<1>20. TabOK(tab, fh2, b.rqtab, b.rw, y.mem, rp)
  <2>1. \A q \in Pos : Keeps(b.rw, b.rw, q) /\ Keeps(rp, rp, q)
    BY DEF Keeps
  <2>2. TabOK(tab, b.fh, b.rqtab, b.rw, y.mem, rp)
    BY <1>8 DEF Intact
  <2>3. \A g \in Calls : Live(b.fh, g) => NoTab(tab, g) \/ (Live(fh2, g) /\ fh2[g].no = b.fh[g].no)
    BY <1>4, <1>14, <1>15
  <2> QED  BY <2>1, <2>2, <2>3, TabKept
<1>21. MemoryOK(y.mem, b.bb.tot) /\ CountOK(b.cq, b.rw, cur, rp, alive, b.rqtab)
    BY <1>8 DEF Intact
<1>22. Intact(x, R, rp)
    BY <1>9, <1>10, <1>16, <1>17, <1>18, <1>19, <1>20, <1>21 DEF Intact
<1> QED  BY <1>4, <1>10, <1>11, <1>22 DEF x, n, c

\* aiod::open ().
LEMMA OpenIntact ==
    ASSUME NEW k \in Good, ~k.closed, NEW R, NEW rp, Intact(k, R, rp), NEW w \in Waiter,
           w.kind = "open", Joins(w, k.wait, R, k.fh, k.rqtab, k.ans)
    PROVE  Intact(Open(k, w), R, rp)
<1> DEFINE f == w.f
           b1 == Bufalloc(k, 0)
           b2 == Bufalloc(b1, w.l)
           c1 == Content("file", 0, FhnoAlloc(k), f)
           z1 == Write(NewFile(k, b2, f), 0, c1)
           y1 == [z1 EXCEPT !.got = b1.got]
           c2 == Content("open", b2.got, None, None)
           z2 == Write(y1, 0, c2)
<1>0. w \in Callbacks /\ f \in Calls /\ 0 \in Levels /\ w.l = 0
    BY WaiterIsCallback, ZeroLevel DEF Waiter
<1>1. CASE b1.got = -1
  <2>1. Open(k, w) = Bufwait(b1, w)
    BY <1>1, OpenCases
  <2> QED  BY <1>0, <1>1, <2>1, LackIntact
<1>2. WaiterOK(w, k.fh, k.rqtab, k.ans) /\ \A v \in Waiting(k.wait, R) : Apiece(v, w)
    BY DEF Joins
<1>3. ASSUME b1.got # -1
      PROVE  /\ b1 \in Good /\ Gets(k, b1, 0)
             /\ Intact(b1, R, rp) /\ Fresh(b1.fh, b1.rqtab, b1.bb.tot, b1.got, 0)
             /\ b1.got \in Pos /\ <<b1.got, 0>> \in b1.bufs /\ b1.closed = k.closed
             /\ b1.fh = k.fh /\ b1.rqtab = k.rqtab /\ b1.mem = k.mem /\ b1.wait = k.wait
             /\ b1.ans = k.ans /\ b1.avail = k.avail /\ b1.ctr = k.ctr
  <2>1. b1 \in Good /\ Gets(k, b1, 0)
    BY <1>0, <1>3, BufallocGood, GotPos
  <2> HIDE DEF b1
  <2> QED  BY <1>0, <2>1, GetsIntact
<1>4. CASE b1.got # -1 /\ b2.got = -1
  <2> DEFINE x == Bufwait(b2, w)
  <2>1. Open(k, w) = Free(x, b1.got)
    BY <1>4, OpenCases
  <2>2. b2.got = -1 /\ b2 = Bufalloc(b1, 0)
    BY <1>0, <1>4
  <2>3. /\ b1 \in Good
        /\ Intact(b1, R, rp) /\ Fresh(b1.fh, b1.rqtab, b1.bb.tot, b1.got, 0)
        /\ b1.got \in Pos /\ <<b1.got, 0>> \in b1.bufs
        /\ b1.fh = k.fh /\ b1.rqtab = k.rqtab /\ b1.wait = k.wait /\ b1.ans = k.ans
    BY <1>3, <1>4
  <2> HIDE DEF b1, b2
  <2>4. /\ Intact(x, R, rp) /\ x.fh = b1.fh
        /\ \A p \in Pos : Asks(x.rqtab, p) => Asks(b1.rqtab, p) \/ p = b1.bb.tot
    BY <1>0, <2>2, <2>3, LackIntact
  <2>5. x \in Good
    <3>1. ~CanAlloc(b1.bb, 0) => ~FitsIn(b1.bb, w)
      BY <1>0 DEF FitsIn
    <3> QED  BY <1>0, <2>2, <2>3, <3>1, LacksWaits
  <2>6. b1.got \in Units(b1.got, 0)
    BY <2>3, BufferUnits
  <2>7. Away(b1.fh, b1.got) /\ b1.rqtab[b1.got] = <<>> /\ b1.got < b1.bb.tot
    BY <2>3, <2>6 DEF Fresh
  <2>8. ~Asks(x.rqtab, b1.got)
    <3>1. b1.got # b1.bb.tot
      <4>1. b1.got \in Int /\ b1.bb.tot \in Int
        BY <2>3, GoodClient DEF Client
      <4> QED  BY <2>7, <4>1
    <3> QED  BY <2>3, <2>4, <2>7, <3>1 DEF Asks
  <2> HIDE DEF x
  <2> QED  BY <2>1, <2>4, <2>5, <2>7, <2>8, FreeIntact
<1>5. CASE b1.got # -1 /\ b2.got # -1
  <2>1. Open(k, w) = Send(z2, b1.got, w)
    BY <1>0, <1>5, OpenCases
  <2>2. b2.got # -1 /\ b2 = Bufalloc(b1, 0)
    BY <1>0, <1>5
  <2>3. /\ b1 \in Good
        /\ Intact(b1, R, rp) /\ Fresh(b1.fh, b1.rqtab, b1.bb.tot, b1.got, 0)
        /\ b1.got \in Pos /\ <<b1.got, 0>> \in b1.bufs
        /\ b1.fh = k.fh /\ b1.rqtab = k.rqtab /\ b1.wait = k.wait /\ b1.ans = k.ans
        /\ b1.avail = k.avail /\ b1.ctr = k.ctr
    BY <1>3, <1>5
  <2> HIDE DEF b1
  <2>4. b2 \in Good /\ Gets(b1, b2, 0)
    BY <1>0, <2>2, <2>3, BufallocGood, GotPos
  <2> HIDE DEF b2
  <2>5. /\ Intact(b2, R, rp) /\ Fresh(b2.fh, b2.rqtab, b2.bb.tot, b2.got, 0)
        /\ b2.got \in Pos /\ <<b2.got, 0>> \in b2.bufs /\ b1.bufs \subseteq b2.bufs
        /\ <<b2.got, 0>> \notin b1.bufs /\ b2.bb.tot = b1.bb.tot
        /\ b2.fh = k.fh /\ b2.rqtab = k.rqtab /\ b2.wait = k.wait
        /\ b2.ans = k.ans /\ b2.avail = k.avail /\ b2.ctr = k.ctr
    BY <1>0, <2>3, <2>4, GetsIntact
  <2>6. k.fh[f].st = "none" /\ k.ans[f] # "none" /\ f = w.call
    BY <1>2 DEF WaiterOK
  <2>7. NoWaiter(Waiting(k.wait, R), f)
    <3> SUFFICES ASSUME NEW v \in Waiting(k.wait, R), v.f = f PROVE FALSE
      BY DEF NoWaiter
    <3>1. WaiterOK(v, k.fh, k.rqtab, k.ans)
      BY DEF Intact, WaitersOK
    <3>2. f # None
      BY <1>0, AsyncIoAssumption DEF None, Calls
    <3> HIDE DEF f
    <3>3. v.kind = "open"
      BY <2>6, <3>1, <3>2 DEF WaiterOK, Waiter
    <3>4. v.call = w.call
      BY <2>6, <3>1, <3>3 DEF WaiterOK
    <3> QED  BY <1>2, <3>4 DEF Apiece
  <2> HIDE DEF f
  <2>8. /\ z1 \in Good /\ z1.closed = b2.closed /\ Intact(z1, R, rp)
        /\ \A g \in Calls : g # f => z1.fh[g] = b2.fh[g]
        /\ z1.fh[f].st = "opening" /\ ~z1.fh[f].closed /\ z1.fh[f].pos = b2.got
        /\ z1.rqtab = b2.rqtab /\ z1.bufs = b2.bufs /\ z1.bb = b2.bb /\ z1.wait = b2.wait
    BY <1>0, <2>4, <2>5, <2>6, <2>7, NewFileIntact
  <2> HIDE DEF z1
  <2>9. z1 \in Client /\ b1.got \in Int
    BY <2>3, <2>8, GoodClient, AsyncIoAssumption DEF Pos
  <2>10. y1 \in Client /\ Same(z1, y1) /\ Alike(z1, y1) /\ y1.got = b1.got
    <3>1. y1 \in Client
      BY <2>9 DEF Client
    <3>2. Same(z1, y1) /\ Alike(z1, y1) /\ y1.got = b1.got
      BY <2>9 DEF Same, Alike, Client
    <3> QED  BY <3>1, <3>2
  <2> HIDE DEF y1
  <2>11. y1 \in Good /\ Intact(y1, R, rp)
    BY <2>8, <2>10, SameGood, AlikeIntact
  <2>12. Fresh(y1.fh, y1.rqtab, y1.bb.tot, y1.got, 0)
    <3> SUFFICES ASSUME NEW u \in Units(b1.got, 0)
                 PROVE  u \in Pos /\ u < y1.bb.tot /\ y1.rqtab[u] = <<>> /\ Away(y1.fh, u)
      BY <2>10 DEF Fresh
    <3>1. u \in Pos /\ u < b1.bb.tot /\ b1.rqtab[u] = <<>> /\ Away(b1.fh, u)
      BY <2>3 DEF Fresh
    <3>2. u # b2.got
      <4> SUFFICES ASSUME u = b2.got PROVE FALSE
        OBVIOUS
      <4>1. <<b1.got, 0>> \in b2.bufs /\ In(u, <<b1.got, 0>>)
        BY <2>3, <2>5 DEF In
      <4>2. In(u, <<b2.got, 0>>)
        BY <2>4, <2>5, BufferUnits
      <4>3. <<b1.got, 0>> = <<b2.got, 0>>
        BY <2>4, <2>5, <4>1, <4>2, OneBuffer
      <4> QED  BY <2>3, <2>5, <4>3
    <3>3. ASSUME NEW g \in Calls, Live(y1.fh, g) PROVE y1.fh[g].pos # u
      <4>1. CASE g = f
        BY <2>8, <2>10, <3>2, <4>1 DEF Alike
      <4>2. CASE g # f
        <5>1. y1.fh[g] = b1.fh[g]
          BY <2>3, <2>5, <2>8, <2>10, <4>2 DEF Alike
        <5> QED  BY <3>1, <3>3, <5>1 DEF Away, Live
      <4> QED  BY <4>1, <4>2
    <3>4. y1.rqtab = b1.rqtab /\ y1.bb.tot = b1.bb.tot
      BY <2>3, <2>5, <2>8, <2>10 DEF Alike
    <3> QED  BY <3>1, <3>3, <3>4 DEF Away
  <2>13. c2 \in Contents /\ c2.op = "open" /\ c2.fh = b2.got
    <3>1. b2.got \in Int
      BY <2>5, AsyncIoAssumption DEF Pos
    <3> QED  BY <3>1, ContentType, NoneType DEF Content
  <2> HIDE DEF c2
  <2>14. /\ Intact(z2, R, rp)
         /\ \A u \in Pos : z2.mem[u] = IF u \in Units(y1.got, 0) THEN c2 ELSE y1.mem[u]
         /\ z2.fh = y1.fh /\ z2.rqtab = y1.rqtab /\ z2.wait = y1.wait /\ z2.bufs = y1.bufs
    BY <1>0, <2>11, <2>12, WriteIntact
  <2>15. z2 \in Client
    BY <1>0, <2>11, <2>13, WriteGood, GoodClient
  <2> HIDE DEF z2
  <2>16. b1.got \in Units(b1.got, 0)
    BY <2>3, BufferUnits
  <2>17. /\ z2.mem[b1.got] = c2 /\ z2.rqtab[b1.got] = <<>> /\ Away(z2.fh, b1.got)
    BY <2>3, <2>10, <2>12, <2>14, <2>16 DEF Fresh
  <2>18. /\ z2.fh[f].st = "opening" /\ ~z2.fh[f].closed /\ z2.fh[f].pos = b2.got
         /\ z2.rqtab = k.rqtab /\ z2.wait = k.wait /\ <<b1.got, 0>> \in z2.bufs
    BY <2>3, <2>5, <2>8, <2>10, <2>14 DEF Alike
  <2>19. ReqOK(b1.got, w, 1, z2.fh, z2.bufs, z2.mem, z2.bb.tot, z2.grow)
    <3>1. Holds(z2.bufs, b1.got)
      BY <1>0, <2>18 DEF Holds
    <3> QED  BY <2>13, <2>17, <2>18, <3>1 DEF ReqOK, f
  <2>20. NoReq(z2.rqtab, w.f) /\ NoTab(tab, w.f)
    <3>1. k.rqtab \in [Pos -> Seq(Callbacks)]
      BY GoodClient DEF Client
    <3> QED  BY <1>0, <2>6, <2>18, <3>1, NobodyKnows DEF f
  <2>21. NoClose(Waiting(z2.wait, R), w.f)
    BY <2>7, <2>18 DEF NoClose, NoWaiter, f
  <2>22. Intact(Send(z2, b1.got, w), R, rp)
    BY <1>0, <2>3, <2>14, <2>15, <2>17, <2>19, <2>20, <2>21, SendIntact
  <2> QED  BY <2>1, <2>22
<1> QED  BY <1>1, <1>4, <1>5

\* Whatever a waiter tries again.
LEMMA RunOpHeld ==
    ASSUME Careful, NEW k \in Good, NEW R, NEW rp, Held(k, R, rp), NEW w \in Waiter,
           ~k.closed => \/ Joins(w, k.wait, R, k.fh, k.rqtab, k.ans)
                        \/ w.kind = "rw" /\ k.fh[w.f].closed
    PROVE  Held(RunOp(k, w), R, rp)
<1>0. w.kind \in {"path", "open", "rw", "close"}
    BY DEF Waiter
<1> SUFFICES ASSUME ~k.closed PROVE Intact(RunOp(k, w), R, rp)
    BY RunOpGood DEF Held
<1>1. Intact(k, R, rp)
    BY DEF Held
<1>2. CASE w.kind = "path"
    BY <1>1, <1>2, PathopIntact DEF RunOp
<1>3. CASE w.kind = "open"
    BY <1>1, <1>3, OpenIntact DEF RunOp
<1>4. CASE w.kind = "rw"
    BY <1>1, <1>4, RwIntact DEF RunOp
<1>5. CASE w.kind = "close"
    BY <1>1, <1>5, CloseIntact DEF RunOp
<1> QED  BY <1>0, <1>2, <1>3, <1>4, <1>5

-----------------------------------------------------------------------------
(***************************************************************************)
(* A response: the callback that has waited for it goes, and is called.    *)
(***************************************************************************)

\* The first response of daemon d is read, and a callback of the request at p
\* is taken.
Read(rp, d) == [rp EXCEPT ![d] = Tail(rp[d])]
Pop(k, p) == [k EXCEPT !.rqtab[p] = Tail(@)]

\* The other responses are still to be read.
LEMMA ReadKeeps ==
    ASSUME NEW rp \in [Daemons -> Seq(Pos)], NEW d \in Daemons, rp[d] # <<>>, NEW q \in Pos,
           q # rp[d][1]
    PROVE  Keeps(rp, Read(rp, d), q)
<1> SUFFICES ASSUME NEW e \in Daemons, InQ(rp[e], q) PROVE InQ(Read(rp, d)[e], q)
    BY DEF Keeps
<1>1. CASE e = d
  <2>1. Read(rp, d)[e] = Tail(rp[e]) /\ rp[e] \in Seq(Pos)
    BY <1>1 DEF Read
  <2> QED  BY <1>1, <2>1, InQFacts
<1>2. CASE e # d
    BY <1>2 DEF Read
<1> QED  BY <1>1, <1>2

\* A request has a callback of a known kind.
LEMMA FirstType ==
    ASSUME NEW rq \in [Pos -> Seq(Callbacks)], NEW p \in Pos, Asks(rq, p)
    PROVE  /\ First(rq, p) \in Callbacks /\ First(rq, p) = Head(rq[p])
           /\ First(rq, p).kind \in {"path", "open", "rw", "close", "grow1", "grow2"}
           /\ First(rq, p).call \in OptCalls
<1>1. rq[p] \in Seq(Callbacks) /\ rq[p] # <<>>
    BY DEF Asks
<1>2. First(rq, p) \in Callbacks /\ First(rq, p) = Head(rq[p])
    BY <1>1 DEF First
<1> QED  BY <1>2 DEF Callbacks

\* A request that opens or closes a live file is the only one on that file.
LEMMA Alone ==
    ASSUME NEW fh, NEW A, NEW rq \in [Pos -> Seq(Callbacks)], NEW mem, NEW tot, NEW grow,
           RequestsOK(fh, A, rq, mem, tot, grow), NEW p \in Pos, NEW q \in Pos,
           Asks(rq, p), Asks(rq, q), First(rq, p).kind \in {"open", "close"},
           First(rq, q).f = First(rq, p).f, Live(fh, First(rq, p).f)
    PROVE  q = p
<1>1. /\ ReqOK(p, First(rq, p), Len(rq[p]), fh, A, mem, tot, grow)
      /\ ReqOK(q, First(rq, q), Len(rq[q]), fh, A, mem, tot, grow)
    BY DEF RequestsOK
<1>2. First(rq, p).f # None
  <2>1. First(rq, p).f \in Calls
    BY FirstType DEF Callbacks
  <2> QED  BY <2>1, AsyncIoAssumption DEF Calls, None
<1>3. First(rq, q).kind \in {"path", "open", "rw", "close", "grow1", "grow2"}
    BY FirstType
<1>4. First(rq, q).kind = First(rq, p).kind
    BY <1>1, <1>2, <1>3 DEF ReqOK, Live
<1> QED  BY <1>4 DEF RequestsOK, OneEach

\* Nobody waits with a file that is being opened.
LEMMA NoWaiterOpening ==
    ASSUME NEW wait, NEW R, NEW fh, NEW rq, NEW ans, WaitersOK(wait, R, fh, rq, ans),
           NEW f \in Calls, fh[f].st = "opening"
    PROVE  NoWaiter(Waiting(wait, R), f)
<1> SUFFICES ASSUME NEW v \in Waiting(wait, R), v.f = f PROVE FALSE
    BY DEF NoWaiter
<1>1. WaiterOK(v, fh, rq, ans)
    BY DEF WaitersOK
<1>2. f # None
    BY AsyncIoAssumption DEF None, Calls
<1> QED  BY <1>1, <1>2 DEF WaiterOK, Waiter

\* What the invariant says of a request that is not a close, when it goes.
LEMMA PopIntact ==
    ASSUME NEW k \in Good, NEW R, NEW rp \in [Daemons -> Seq(Pos)], Intact(k, R, rp),
           NEW d \in Daemons, rp[d] # <<>>, NEW p \in Pos, p = rp[d][1], Asks(k.rqtab, p),
           First(k.rqtab, p).kind # "close"
    PROVE  LET x == Pop(k, p)
           IN  /\ x \in Good /\ x.closed = k.closed /\ Intact(x, R, Read(rp, d))
               /\ x.rqtab[p] = <<>> /\ Away(x.fh, p)
               /\ \A q \in Pos : q # p => x.rqtab[q] = k.rqtab[q]
               /\ x.fh = k.fh /\ x.bufs = k.bufs /\ x.mem = k.mem /\ x.bb = k.bb
               /\ x.grow = k.grow /\ x.wait = k.wait /\ x.ans = k.ans
<1> DEFINE x == Pop(k, p)
           rq == k.rqtab
           s == Tail(rq[p])
           rq2 == [rq EXCEPT ![p] = s]
<1>0. k \in Client /\ rq \in [Pos -> Seq(Callbacks)]
    BY GoodClient DEF Client
<1>1. rq[p] \in Seq(Callbacks) /\ rq[p] # <<>>
    BY <1>0 DEF Asks
<1>2. s \in Seq(Callbacks) /\ Len(s) = Len(rq[p]) - 1
    BY <1>1
<1>3. Len(rq[p]) = 1
  <2>1. ReqOK(p, First(rq, p), Len(rq[p]), k.fh, k.bufs, k.mem, k.bb.tot, k.grow)
    BY DEF Intact, RequestsOK
  <2> QED  BY <2>1 DEF ReqOK
<1>4. s = <<>>
  <2>1. Len(s) = 0
    BY <1>2, <1>3
  <2> HIDE DEF s
  <2> QED  BY <1>2, <2>1
<1>5. x = [k EXCEPT !.rqtab = rq2] /\ x = [k EXCEPT !.rqtab[p] = s]
    BY DEF Pop
<1>6. x \in Good /\ x.closed = k.closed
  <2> HIDE DEF s, x
  <2> QED  BY <1>2, <1>5, RqtabGood DEF Same
<1>7. Replaced(rq, rq2, p, s) /\ DOMAIN rq = Pos
    BY <1>0 DEF Replaced
<1>8. /\ x.fh = k.fh /\ x.bufs = k.bufs /\ x.rqtab = rq2 /\ x.mem = k.mem
      /\ x.avail = k.avail /\ x.ctr = k.ctr /\ x.bb = k.bb /\ x.grow = k.grow
      /\ x.wait = k.wait /\ x.ans = k.ans /\ x.cq = k.cq /\ x.rw = k.rw
    BY <1>0, <1>5 DEF Client
<1> HIDE DEF x, rq2, s
<1>9. rq2[p] = <<>> /\ \A q \in Pos : q # p => rq2[q] = rq[q]
    BY <1>4, <1>7 DEF Replaced
<1>10. /\ FilesOK(k.fh, k.bufs, rq, k.mem) /\ RequestsOK(k.fh, k.bufs, rq, k.mem, k.bb.tot, k.grow)
       /\ WaitersOK(k.wait, R, k.fh, rq, k.ans) /\ CountOK(k.cq, k.rw, cur, rp, alive, rq)
       /\ TabOK(tab, k.fh, rq, k.rw, k.mem, rp)
       /\ NumbersOK(k.fh, k.avail, k.ctr) /\ MemoryOK(k.mem, k.bb.tot)
    BY DEF Intact
<1> HIDE DEF rq
<1>11. /\ FilesOK(k.fh, k.bufs, rq2, k.mem) /\ RequestsOK(k.fh, k.bufs, rq2, k.mem, k.bb.tot, k.grow)
       /\ WaitersOK(k.wait, R, k.fh, rq2, k.ans)
  <2>1. Dropped(rq, rq2, p)
    BY <1>9 DEF Dropped
  <2>2. \A q \in Pos : Asks(rq2, q) => Asks(rq, q) /\ First(rq2, q) = First(rq, q)
    BY <1>9 DEF Asks, First
  <2>3. FilesOK(k.fh, k.bufs, rq2, k.mem) /\ RequestsOK(k.fh, k.bufs, rq2, k.mem, k.bb.tot, k.grow)
    BY <1>10, <2>1, DropReqOK
  <2>4. WaitersOK(k.wait, R, k.fh, rq2, k.ans)
    BY <1>10, <2>2, DropReqWaiters
  <2> QED  BY <2>3, <2>4
<1>12. CountOK(k.cq, k.rw, cur, Read(rp, d), alive, rq2)
    BY <1>0, <1>1, <1>7, <1>10, CountPop DEF Read, s
<1>13. TabOK(tab, k.fh, rq2, k.rw, k.mem, Read(rp, d))
  <2>1. ASSUME NEW q \in Pos, Asks(rq2, q)
        PROVE  /\ Asks(rq, q) /\ First(rq2, q) = First(rq, q) /\ Keeps(k.rw, k.rw, q)
               /\ Keeps(rp, Read(rp, d), q) /\ k.mem[q].err = k.mem[q].err
    <3>1. q # p
      BY <1>9, <2>1 DEF Asks
    <3>2. Keeps(rp, Read(rp, d), q) /\ Keeps(k.rw, k.rw, q)
      BY <3>1, ReadKeeps DEF Keeps
    <3> QED  BY <1>9, <2>1, <3>1, <3>2 DEF Asks, First
  <2> QED  BY <1>10, <2>1, TabKept
<1>14. Intact(x, R, Read(rp, d))
    BY <1>8, <1>10, <1>11, <1>12, <1>13 DEF Intact
<1>15. Away(k.fh, p)
  <2>1. Asks(rq, p)
    BY DEF rq
  <2> QED  BY <1>10, <2>1 DEF FilesOK, Away
<1> QED  BY <1>6, <1>8, <1>9, <1>14, <1>15 DEF x, rq

-----------------------------------------------------------------------------
\* The request is over with its last callback.
LEMMA DelReqIntact ==
    ASSUME NEW y \in Good, NEW R, NEW rp, Intact(y, R, rp), NEW p \in Pos, Away(y.fh, p)
    PROVE  Intact(DelReq(y, p), R, rp)
<1>1. CASE y.rqtab[p] = <<>>
  <2>1. ~Asks(y.rqtab, p)
    BY <1>1 DEF Asks
  <2>2. Intact(Free(y, p), R, rp)
    BY <2>1, FreeIntact
  <2> QED  BY <1>1, <2>2 DEF DelReq
<1>2. CASE y.rqtab[p] # <<>>
    BY <1>2 DEF DelReq
<1> QED  BY <1>1, <1>2

\* A place that no file has.
LEMMA AwayLess ==
    ASSUME NEW fh, NEW fh2, NEW p, Away(fh, p), LessLive(fh, fh2)
    PROVE  Away(fh2, p)
BY DEF Away, LessLive

\* open_cb ().
LEMMA OpenCbIntact ==
    ASSUME NEW k \in Good, ~k.closed, NEW R, NEW rp \in [Daemons -> Seq(Pos)], Intact(k, R, rp),
           NEW d \in Daemons, rp[d] # <<>>, NEW p \in Pos, p = rp[d][1], Asks(k.rqtab, p),
           First(k.rqtab, p).kind = "open"
    PROVE  LET y == OpenCb(Pop(k, p), First(k.rqtab, p), k.mem[p].err)
           IN  Intact(y, R, Read(rp, d)) /\ Away(y.fh, p)
<1> DEFINE cb == First(k.rqtab, p)
           f == cb.f
           err == k.mem[p].err
           x == Pop(k, p)
           y == OpenCb(x, cb, err)
           rp2 == Read(rp, d)
<1>0. k.rqtab \in [Pos -> Seq(Callbacks)]
    BY GoodClient DEF Client
<1>1. cb \in Callbacks /\ f \in Calls /\ cb.call \in OptCalls /\ f # None
  <2>1. cb \in Callbacks
    BY <1>0, FirstType
  <2> QED  BY <2>1, AsyncIoAssumption DEF Callbacks, Calls, None
<1>2. k.fh[f].st = "opening"
  <2>1. ReqOK(p, First(k.rqtab, p), Len(k.rqtab[p]), k.fh, k.bufs, k.mem, k.bb.tot, k.grow)
    BY DEF Intact, RequestsOK
  <2> QED  BY <2>1 DEF ReqOK
<1>3. /\ x \in Good /\ x.closed = k.closed /\ Intact(x, R, rp2)
      /\ x.rqtab[p] = <<>> /\ Away(x.fh, p)
      /\ \A q \in Pos : q # p => x.rqtab[q] = k.rqtab[q]
      /\ x.fh = k.fh
    BY PopIntact
<1>4. NoReq(x.rqtab, f)
  <2> SUFFICES ASSUME NEW q \in Pos, Asks(x.rqtab, q), First(x.rqtab, q).f = f PROVE FALSE
    BY DEF NoReq
  <2>1. q # p
    BY <1>3 DEF Asks
  <2>2. Asks(k.rqtab, q) /\ First(k.rqtab, q).f = f
    BY <1>3, <2>1 DEF Asks, First
  <2>3. RequestsOK(k.fh, k.bufs, k.rqtab, k.mem, k.bb.tot, k.grow)
    BY DEF Intact
  <2>4. Live(k.fh, f)
    BY <1>2 DEF Live
  <2> QED  BY <1>0, <2>1, <2>2, <2>3, <2>4, Alone
<1>5. err => NoTab(tab, f)
  <2>1. TabOK(tab, k.fh, k.rqtab, k.rw, k.mem, rp)
    BY DEF Intact
  <2> QED  BY <1>1, <2>1 DEF TabOK, NoTab
<1> HIDE DEF x, cb, f, err, rp2
<1>6. CASE err
  <2> DEFINE a == Answer(x, cb.call, "err")
  <2>1. y = Destroy(a, f)
    BY <1>6 DEF OpenCb, f
  <2>2. "err" \in Answers \ {"none"}
    BY DEF Answers
  <2>3. a \in Good /\ a.closed = x.closed
    BY <1>1, <1>3, <2>2, AnswerGood DEF Same
  <2>4. Intact(a, R, rp2) /\ a.fh = x.fh /\ a.rqtab = x.rqtab
    BY <1>1, <1>3, <2>2, AnswerIntact
  <2> HIDE DEF a
  <2>5. Intact(Destroy(a, f), R, rp2) /\ LessLive(a.fh, Destroy(a, f).fh)
    <3>1. ~a.closed /\ a.fh[f].st = "opening" /\ NoReq(a.rqtab, f) /\ NoTab(tab, f)
      BY <1>2, <1>3, <1>4, <1>5, <1>6, <2>3, <2>4
    <3> QED  BY <1>1, <2>3, <2>4, <3>1, DestroyIntact
  <2>6. Away(Destroy(a, f).fh, p)
    BY <1>3, <2>4, <2>5, AwayLess
  <2> QED  BY <2>1, <2>5, <2>6 DEF x, cb, err, rp2
<1>7. CASE ~err
  <2> DEFINE a == Answer(x, cb.call, "ok")
             fh2 == [a.fh EXCEPT ![f].st = "open"]
             z == [a EXCEPT !.fh = fh2]
  <2>1. y = z
    BY <1>7 DEF OpenCb, f
  <2>2. "ok" \in Answers \ {"none"}
    BY DEF Answers
  <2>3. a \in Good /\ a.closed = x.closed
    BY <1>1, <1>3, <2>2, AnswerGood DEF Same
  <2>4. Intact(a, R, rp2) /\ a.fh = x.fh /\ a.rqtab = x.rqtab /\ a.wait = x.wait
    BY <1>1, <1>3, <2>2, AnswerIntact
  <2> HIDE DEF a, y
  <2>5. a \in Client /\ a.rqtab \in [Pos -> Seq(Callbacks)] /\ a.fh \in [Calls -> FhRec]
    BY <2>3, GoodClient DEF Client
  <2>6. /\ \A g \in Calls : g # f => fh2[g] = a.fh[g]
        /\ fh2[f].st = "open" /\ fh2[f].no = a.fh[f].no /\ fh2[f].pos = a.fh[f].pos
    BY <1>1, <2>5 DEF FhRec
  <2>7. a.fh[f].st = "opening"
    BY <1>2, <1>3, <2>4
  <2>8. NoWaiter(Waiting(a.wait, R), f)
    <3>1. WaitersOK(a.wait, R, a.fh, a.rqtab, a.ans)
      BY <2>4 DEF Intact
    <3> QED  BY <1>1, <2>7, <3>1, NoWaiterOpening
  <2>9. Alike([a EXCEPT !.fh = fh2], z) /\ z.fh = fh2
    BY <2>5 DEF Alike, Client
  <2> HIDE DEF fh2, z
  <2>10. Live(fh2, f) /\ Live(a.fh, f) /\ NoReq(a.rqtab, f)
    BY <1>4, <2>4, <2>6, <2>7 DEF Live
  <2>11. Intact(z, R, rp2)
    BY <1>1, <2>4, <2>5, <2>6, <2>8, <2>9, <2>10, FhIntact
  <2>12. LessLive(x.fh, fh2)
    BY <2>4, <2>6, <2>10 DEF LessLive, Live
  <2>13. Away(z.fh, p)
    BY <1>3, <2>9, <2>12, AwayLess
  <2> QED  BY <2>1, <2>11, <2>13 DEF y, x, cb, err, rp2
<1> QED  BY <1>6, <1>7

\* No request makes the memory grow.
NoGrow(rq) == \A q \in Pos : Asks(rq, q) => First(rq, q).kind \notin {"grow1", "grow2"}

\* Then the size of the memory may change.
LEMMA GrowIntact ==
    ASSUME NEW x \in Client, NEW R, NEW rp, Intact(x, R, rp), NoGrow(x.rqtab), NEW g, NEW bb,
           bb.tot \in Nat, x.bb.tot <= bb.tot, NEW z, Alike([x EXCEPT !.grow = g, !.bb = bb], z)
    PROVE  Intact(z, R, rp)
<1>0. /\ z.fh = x.fh /\ z.bufs = x.bufs /\ z.rqtab = x.rqtab /\ z.mem = x.mem
      /\ z.avail = x.avail /\ z.ctr = x.ctr /\ z.bb = bb /\ z.grow = g
      /\ z.wait = x.wait /\ z.ans = x.ans /\ z.cq = x.cq /\ z.rw = x.rw
    BY DEF Alike, Client
<1>1. RequestsOK(x.fh, x.bufs, x.rqtab, x.mem, bb.tot, g)
  <2>1. RequestsOK(x.fh, x.bufs, x.rqtab, x.mem, x.bb.tot, x.grow)
    BY DEF Intact
  <2>2. ASSUME NEW q \in Pos, Asks(x.rqtab, q)
        PROVE  ReqOK(q, First(x.rqtab, q), Len(x.rqtab[q]), x.fh, x.bufs, x.mem, bb.tot, g)
    <3>1. ReqOK(q, First(x.rqtab, q), Len(x.rqtab[q]), x.fh, x.bufs, x.mem, x.bb.tot, x.grow)
      BY <2>1, <2>2 DEF RequestsOK
    <3>2. First(x.rqtab, q).kind \notin {"grow1", "grow2"}
      BY <2>2 DEF NoGrow
    <3> QED  BY <3>1, <3>2 DEF ReqOK
  <2> QED  BY <2>1, <2>2 DEF RequestsOK
<1>2. MemoryOK(x.mem, bb.tot)
  <2>1. MemoryOK(x.mem, x.bb.tot) /\ x.bb.tot \in Nat
    BY DEF Intact, Client
  <2> SUFFICES ASSUME NEW q \in Pos, q >= bb.tot PROVE x.mem[q].op = "nop"
    BY DEF MemoryOK
  <2>2. q \in Int
    BY AsyncIoAssumption DEF Pos
  <2>3. q >= x.bb.tot
    BY <2>1, <2>2
  <2> QED  BY <2>1, <2>3 DEF MemoryOK
<1> QED  BY <1>0, <1>1, <1>2 DEF Intact

\* bufalloc_cb1 () and bufalloc_cb2 ().
LEMMA GrowCbIntact ==
    ASSUME NEW k \in Good, ~k.closed, NEW R, NEW rp \in [Daemons -> Seq(Pos)], Intact(k, R, rp),
           NEW d \in Daemons, rp[d] # <<>>, NEW p \in Pos, p = rp[d][1], Asks(k.rqtab, p),
           First(k.rqtab, p).kind \in {"grow1", "grow2"}, NEW err
    PROVE  LET y == GrowCb(Pop(k, p), First(k.rqtab, p), p, err)
           IN  Intact(y, R, Read(rp, d)) /\ Away(y.fh, p)
<1> DEFINE cb == First(k.rqtab, p)
           x == Pop(k, p)
           y == GrowCb(x, cb, p, err)
           rp2 == Read(rp, d)
<1>0. k.rqtab \in [Pos -> Seq(Callbacks)]
    BY GoodClient DEF Client
<1>1. p = k.bb.tot /\ k.grow
  <2>1. ReqOK(p, First(k.rqtab, p), Len(k.rqtab[p]), k.fh, k.bufs, k.mem, k.bb.tot, k.grow)
    BY DEF Intact, RequestsOK
  <2> QED  BY <2>1 DEF ReqOK
<1>2. /\ x \in Good /\ x.closed = k.closed /\ Intact(x, R, rp2)
      /\ x.rqtab[p] = <<>> /\ Away(x.fh, p)
      /\ \A q \in Pos : q # p => x.rqtab[q] = k.rqtab[q]
      /\ x.fh = k.fh /\ x.bb = k.bb /\ x.grow = k.grow /\ x.wait = k.wait
    BY PopIntact
<1>3. NoGrow(x.rqtab)
  <2> SUFFICES ASSUME NEW q \in Pos, Asks(x.rqtab, q), First(x.rqtab, q).kind \in {"grow1", "grow2"}
               PROVE  FALSE
    BY DEF NoGrow
  <2>1. q # p
    BY <1>2 DEF Asks
  <2>2. ReqOK(q, First(x.rqtab, q), Len(x.rqtab[q]), x.fh, x.bufs, x.mem, x.bb.tot, x.grow)
    BY <1>2 DEF Intact, RequestsOK
  <2> QED  BY <1>1, <1>2, <2>1, <2>2, Zenon DEF ReqOK
<1> HIDE DEF x, cb, rp2
<1>4. x \in Client /\ x.bb.tot \in Nat /\ x.bb.tot <= ShmMax /\ BuddyInv(x.bb, x.bufs)
    BY <1>2 DEF Client, Good
<1>5. CASE err
  <2> DEFINE z == [x EXCEPT !.grow = FALSE, !.fault = IF x.closed THEN @ ELSE @ \cup {"nospace"}]
  <2>1. y = z
    BY <1>5 DEF GrowCb
  <2>2. Alike([x EXCEPT !.grow = FALSE, !.bb = x.bb], z) /\ z.fh = x.fh
    BY <1>4 DEF Alike, Client
  <2> HIDE DEF z, y
  <2>3. Intact(z, R, rp2)
    <3>1. x.bb.tot <= x.bb.tot
      BY <1>4
    <3> QED  BY <1>2, <1>3, <1>4, <2>2, <3>1, GrowIntact
  <2> QED  BY <1>2, <2>1, <2>2, <2>3 DEF x, y, cb, rp2
<1>6. CASE ~err /\ cb.kind = "grow1"
  <2> DEFINE c == Cb("grow2", None, None, 0)
  <2>1. y = Send(x, p, c)
    BY <1>2, <1>6 DEF GrowCb
  <2>2. c \in Callbacks /\ c.kind = "grow2" /\ c.f = None
    BY ZeroLevel DEF Cb, Callbacks, OptCalls
  <2> HIDE DEF c, y
  <2>3. ReqOK(p, c, 1, x.fh, x.bufs, x.mem, x.bb.tot, x.grow)
    BY <1>1, <1>2, <2>2 DEF ReqOK
  <2>4. NoClose(Waiting(x.wait, R), c.f)
    <3>1. \A v \in Waiting(x.wait, R) : v \in Waiter
      BY <1>2 DEF Intact, WaitersOK, WaiterOK
    <3>2. None \notin Calls
      BY AsyncIoAssumption DEF None, Calls
    <3> QED  BY <2>2, <3>1, <3>2 DEF NoClose, Waiter
  <2>5. Intact(Send(x, p, c), R, rp2) /\ Send(x, p, c).fh = x.fh
    BY <1>2, <1>4, <2>2, <2>3, <2>4, SendIntact
  <2> QED  BY <1>2, <2>1, <2>5 DEF x, y, cb, rp2
<1>7. CASE ~err /\ cb.kind # "grow1"
  <2> DEFINE ts == x.bb.tot + GrowInc(x.bb.tot)
             b == Settotsize(x.bb, ts)
             z == [x EXCEPT !.grow = FALSE, !.bb = b, !.req = TRUE]
  <2>1. y = z
    BY <1>2, <1>7 DEF GrowCb
  <2>2. ts \in Nat /\ x.bb.tot <= ts
    <3>1. GrowInc(x.bb.tot) \in Nat
      BY <1>4, GrowIncFacts
    <3> QED  BY <1>4, <3>1
  <2> HIDE DEF ts
  <2>3. BuddyInv(b, x.bufs) /\ x.bb.tot <= b.tot
    BY <1>4, <2>2, SettotsizeFacts
  <2> HIDE DEF b
  <2>4. b.tot \in Nat
    BY <2>3 DEF BuddyInv, BuddyTypes
  <2>5. Alike([x EXCEPT !.grow = FALSE, !.bb = b], z) /\ z.fh = x.fh
    BY <1>4 DEF Alike, Client
  <2> HIDE DEF z, y
  <2>6. Intact(z, R, rp2)
    BY <1>2, <1>3, <1>4, <2>3, <2>4, <2>5, GrowIntact
  <2> QED  BY <1>2, <2>1, <2>5, <2>6 DEF x, y, cb, rp2
<1> QED  BY <1>5, <1>6, <1>7

-----------------------------------------------------------------------------
\* One of the replies to a close has come.
Counted(k, p, f) == [Pop(k, p) EXCEPT !.fh[f].left = @ - 1]

\* The count of the replies to a close that are still to come.
LEMMA CountedFacts ==
    ASSUME NEW k \in Good, NEW p \in Pos, Asks(k.rqtab, p), NEW f \in Calls
    PROVE  LET x == Counted(k, p, f)
           IN  /\ x \in Good
               /\ x.rqtab[p] = Tail(k.rqtab[p]) /\ DOMAIN x.rqtab = Pos
               /\ \A q \in Pos : q # p => x.rqtab[q] = k.rqtab[q]
               /\ x.fh[f].left = k.fh[f].left - 1
               /\ x.fh[f].st = k.fh[f].st /\ x.fh[f].no = k.fh[f].no
               /\ x.fh[f].pos = k.fh[f].pos /\ x.fh[f].closed = k.fh[f].closed
               /\ \A g \in Calls : g # f => x.fh[g] = k.fh[g]
               /\ x.bufs = k.bufs /\ x.mem = k.mem /\ x.avail = k.avail /\ x.ctr = k.ctr
               /\ x.bb = k.bb /\ x.grow = k.grow /\ x.wait = k.wait /\ x.ans = k.ans
               /\ x.cq = k.cq /\ x.rw = k.rw /\ x.closed = k.closed
<1> DEFINE x == Counted(k, p, f)
           s == Tail(k.rqtab[p])
           y == [k EXCEPT !.rqtab[p] = s]
           rq2 == [k.rqtab EXCEPT ![p] = s]
           fh2 == [y.fh EXCEPT ![f].left = @ - 1]
<1>0. k \in Client /\ k.rqtab \in [Pos -> Seq(Callbacks)] /\ k.fh \in [Calls -> FhRec]
    BY GoodClient DEF Client
<1>1. s \in Seq(Callbacks)
  <2>1. k.rqtab[p] \in Seq(Callbacks) /\ k.rqtab[p] # <<>>
    BY <1>0 DEF Asks
  <2> QED  BY <2>1
<1>2. x = [y EXCEPT !.fh = fh2] /\ y = [k EXCEPT !.rqtab = rq2]
    BY DEF Counted, Pop
<1> HIDE DEF s
<1>3. y \in Good
    BY <1>1, RqtabGood
<1>4. rq2[p] = s /\ DOMAIN rq2 = Pos /\ \A q \in Pos : q # p => rq2[q] = k.rqtab[q]
    BY <1>0
<1>5. y.fh = k.fh
    BY <1>0 DEF Client
<1>6. /\ fh2[f].left = k.fh[f].left - 1
      /\ fh2[f].st = k.fh[f].st /\ fh2[f].no = k.fh[f].no
      /\ fh2[f].pos = k.fh[f].pos /\ fh2[f].closed = k.fh[f].closed
      /\ \A g \in Calls : g # f => fh2[g] = k.fh[g]
    BY <1>0, <1>5 DEF FhRec
<1>7. fh2 \in [Calls -> FhRec]
  <2>1. [k.fh[f] EXCEPT !.left = @ - 1] \in FhRec
    BY <1>0 DEF FhRec
  <2> QED  BY <1>0, <1>5, <2>1
<1> HIDE DEF fh2, rq2
<1>8. x \in Good
  <2> HIDE DEF x, y
  <2> QED  BY <1>2, <1>3, <1>7, FhGood
<1>9. /\ x.rqtab = rq2 /\ x.fh = fh2
      /\ x.bufs = k.bufs /\ x.mem = k.mem /\ x.avail = k.avail /\ x.ctr = k.ctr
      /\ x.bb = k.bb /\ x.grow = k.grow /\ x.wait = k.wait /\ x.ans = k.ans
      /\ x.cq = k.cq /\ x.rw = k.rw /\ x.closed = k.closed
    BY <1>0, <1>2 DEF Client
<1> HIDE DEF x
<1> QED  BY <1>4, <1>6, <1>8, <1>9 DEF x, s

\* A reply to a close is counted.
LEMMA CountedIntact ==
    ASSUME NEW k \in Good, NEW R, NEW rp \in [Daemons -> Seq(Pos)], Intact(k, R, rp),
           NEW d \in Daemons, rp[d] # <<>>, NEW p \in Pos, p = rp[d][1], Asks(k.rqtab, p),
           First(k.rqtab, p).kind = "close", NEW f \in Calls, f = First(k.rqtab, p).f
    PROVE  Intact(Counted(k, p, f), R, Read(rp, d)) /\ LessLive(k.fh, Counted(k, p, f).fh)
<1> DEFINE x == Counted(k, p, f)
           rq == k.rqtab
           rq2 == x.rqtab
           fh2 == x.fh
<1>0. k \in Client /\ rq \in [Pos -> Seq(Callbacks)]
    BY GoodClient DEF Client
<1>1. /\ rq2[p] = Tail(rq[p]) /\ DOMAIN rq2 = Pos
      /\ \A q \in Pos : q # p => rq2[q] = rq[q]
      /\ fh2[f].left = k.fh[f].left - 1
      /\ fh2[f].st = k.fh[f].st /\ fh2[f].no = k.fh[f].no
      /\ fh2[f].pos = k.fh[f].pos /\ fh2[f].closed = k.fh[f].closed
      /\ \A g \in Calls : g # f => fh2[g] = k.fh[g]
    BY CountedFacts
<1>2. /\ x.bufs = k.bufs /\ x.mem = k.mem /\ x.avail = k.avail /\ x.ctr = k.ctr
      /\ x.bb = k.bb /\ x.grow = k.grow /\ x.wait = k.wait /\ x.ans = k.ans
      /\ x.cq = k.cq /\ x.rw = k.rw
    BY CountedFacts
<1>3. /\ FilesOK(k.fh, k.bufs, rq, k.mem) /\ RequestsOK(k.fh, k.bufs, rq, k.mem, k.bb.tot, k.grow)
      /\ WaitersOK(k.wait, R, k.fh, rq, k.ans) /\ CountOK(k.cq, k.rw, cur, rp, alive, rq)
      /\ TabOK(tab, k.fh, rq, k.rw, k.mem, rp)
      /\ NumbersOK(k.fh, k.avail, k.ctr) /\ MemoryOK(k.mem, k.bb.tot)
    BY DEF Intact
<1>4. Asks(rq, p) /\ First(rq, p).kind = "close" /\ f = First(rq, p).f
      /\ rq[p] \in Seq(Callbacks) /\ rq[p] # <<>>
    BY <1>0 DEF Asks
<1> HIDE DEF x, rq, rq2, fh2
<1>5. ReqOK(p, First(rq, p), Len(rq[p]), k.fh, k.bufs, k.mem, k.bb.tot, k.grow)
      /\ \A i \in 1..Len(rq[p]) : rq[p][i] = First(rq, p)
    BY <1>3, <1>4 DEF RequestsOK
<1>6. /\ Len(Tail(rq[p])) = Len(rq[p]) - 1 /\ Len(rq[p]) \in Nat
      /\ \A i \in 1..Len(Tail(rq[p])) : Tail(rq[p])[i] = rq[p][i + 1] /\ i + 1 \in 1..Len(rq[p])
    BY <1>4
<1>7. ASSUME Asks(rq2, p)
      PROVE  /\ First(rq2, p) = First(rq, p) /\ Len(rq2[p]) = Len(rq[p]) - 1
             /\ \A i \in 1..Len(rq2[p]) : rq2[p][i] = First(rq2, p)
  <2>1. Tail(rq[p]) # <<>> /\ Tail(rq[p]) \in Seq(Callbacks)
    BY <1>1, <1>4, <1>7 DEF Asks
  <2>2. 1 \in 1..Len(Tail(rq[p]))
    BY <2>1
  <2>3. \A i \in 1..Len(Tail(rq[p])) : Tail(rq[p])[i] = First(rq, p)
    BY <1>5, <1>6
  <2>4. First(rq2, p) = First(rq, p)
    BY <1>1, <2>2, <2>3, Zenon DEF First
  <2> QED  BY <1>1, <1>6, <2>3, <2>4, Zenon
<1>8. \A q \in Pos : Asks(rq2, q) => Asks(rq, q) /\ First(rq2, q) = First(rq, q)
  <2> SUFFICES ASSUME NEW q \in Pos, Asks(rq2, q)
               PROVE  Asks(rq, q) /\ First(rq2, q) = First(rq, q)
    OBVIOUS
  <2>1. CASE q = p
    BY <1>4, <1>7, <2>1
  <2>2. CASE q # p
    BY <1>1, <2>2, Zenon DEF Asks, First
  <2> QED  BY <2>1, <2>2
<1>9. \A g \in Calls : /\ Live(fh2, g) <=> Live(k.fh, g)
                       /\ fh2[g].no = k.fh[g].no /\ fh2[g].pos = k.fh[g].pos
                       /\ fh2[g].st = k.fh[g].st /\ fh2[g].closed = k.fh[g].closed
    BY <1>1 DEF Live
<1>10. LessLive(k.fh, fh2)
    BY <1>9 DEF LessLive
<1>11. FilesOK(fh2, k.bufs, rq2, k.mem)
  <2>1. FilesOK(fh2, k.bufs, rq, k.mem)
    BY <1>3, <1>10, FilesLess
  <2> QED  BY <1>8, <2>1 DEF FilesOK
<1>12. NumbersOK(fh2, k.avail, k.ctr)
    BY <1>3, <1>9, NumbersSame
<1>13. RequestsOK(fh2, k.bufs, rq2, k.mem, k.bb.tot, k.grow)
  <2>1. OneEach(fh2, rq2)
    <3>1. OneEach(k.fh, rq)
      BY <1>3 DEF RequestsOK
    <3>2. ASSUME NEW q \in Pos, Asks(rq2, q), First(rq2, q).kind \in {"open", "close"},
                 Live(fh2, First(rq2, q).f)
          PROVE  Live(k.fh, First(rq2, q).f)
      <4>1. First(rq2, q) \in Callbacks
        BY <1>0, <1>8, <3>2, FirstType
      <4>2. First(rq2, q).f \in Calls
        BY <3>2, <4>1 DEF Callbacks
      <4> QED  BY <1>9, <3>2, <4>2
    <3> QED  BY <1>8, <3>1, <3>2 DEF OneEach
  <2>2. ASSUME NEW q \in Pos, Asks(rq2, q)
        PROVE  /\ \A i \in 1..Len(rq2[q]) : rq2[q][i] = First(rq2, q)
               /\ ReqOK(q, First(rq2, q), Len(rq2[q]), fh2, k.bufs, k.mem, k.bb.tot, k.grow)
    <3>1. CASE q = p
      <4>1. ReqOK(p, First(rq, p), Len(rq[p]) - 1, fh2, k.bufs, k.mem, k.bb.tot, k.grow)
        BY <1>1, <1>4, <1>5 DEF ReqOK
      <4> QED  BY <1>7, <2>2, <3>1, <4>1
    <3>2. CASE q # p
      <4> DEFINE cb == First(rq, q)
                 n == Len(rq[q])
      <4>1. Asks(rq, q) /\ rq2[q] = rq[q] /\ First(rq2, q) = cb
        BY <1>1, <1>8, <2>2, <3>2
      <4>2. /\ \A i \in 1..n : rq[q][i] = cb
            /\ ReqOK(q, cb, n, k.fh, k.bufs, k.mem, k.bb.tot, k.grow)
        BY <1>3, <4>1 DEF RequestsOK
      <4>3. cb \in Callbacks
        BY <1>0, <4>1, FirstType
      <4>4. cb.kind = "close" /\ cb.call # None => cb.f # f
        <5> SUFFICES ASSUME cb.kind = "close", cb.call # None, cb.f = f PROVE FALSE
          OBVIOUS
        <5>1. k.fh[f].st = "open"
          BY <4>2 DEF ReqOK
        <5>2. Live(k.fh, First(rq, p).f)
          BY <1>4, <5>1 DEF Live
        <5>3. First(rq, q).f = First(rq, p).f
          BY <1>4
        <5> QED  BY <1>0, <1>3, <1>4, <3>2, <4>1, <5>2, <5>3, Alone
      <4>5. cb.kind \in {"open", "rw", "close"} =>
              /\ cb.f \in Calls
              /\ fh2[cb.f].st = k.fh[cb.f].st /\ fh2[cb.f].closed = k.fh[cb.f].closed
              /\ fh2[cb.f].pos = k.fh[cb.f].pos
              /\ cb.f # f => fh2[cb.f] = k.fh[cb.f]
        BY <1>1, <1>9, <4>3 DEF Callbacks
      <4> HIDE DEF cb, n
      <4>6. ReqOK(q, cb, n, fh2, k.bufs, k.mem, k.bb.tot, k.grow)
        BY <4>2, <4>4, <4>5 DEF ReqOK
      <4> QED  BY <4>1, <4>2, <4>6 DEF n
    <3> QED  BY <3>1, <3>2
  <2> QED  BY <2>1, <2>2 DEF RequestsOK
<1>14. WaitersOK(k.wait, R, fh2, rq2, k.ans)
  <2>1. WaitersOK(k.wait, R, k.fh, rq2, k.ans)
    BY <1>3, <1>8, DropReqWaiters
  <2>2. ASSUME NEW w \in Waiting(k.wait, R)
        PROVE  WaiterOK(w, fh2, rq2, k.ans) /\ (w.kind = "close" => fh2[w.f].closed = k.fh[w.f].closed)
    <3>1. WaiterOK(w, k.fh, rq2, k.ans)
      BY <2>1 DEF WaitersOK
    <3>2. w.kind # "path" => w.f \in Calls
      BY <3>1 DEF WaiterOK, Waiter
    <3> QED  BY <1>9, <3>1, <3>2 DEF WaiterOK
  <2>3. \A i \in 1..Len(k.wait) : k.wait[i] \in Waiting(k.wait, R)
    BY DEF Waiting
  <2> QED  BY <1>9, <2>1, <2>2, <2>3 DEF WaitersOK
<1>15. CountOK(k.cq, k.rw, cur, Read(rp, d), alive, rq2)
  <2>1. Replaced(rq, rq2, p, Tail(rq[p]))
    BY <1>0, <1>1 DEF Replaced
  <2> QED  BY <1>0, <1>3, <1>4, <2>1, CountPop DEF Read
<1>16. TabOK(tab, fh2, rq2, k.rw, k.mem, Read(rp, d))
  <2>1. ASSUME NEW q \in Pos, Asks(rq2, q)
        PROVE  /\ Asks(rq, q) /\ First(rq2, q) = First(rq, q) /\ Keeps(k.rw, k.rw, q)
               /\ \/ First(rq2, q).kind = "close"
                  \/ Keeps(rp, Read(rp, d), q) /\ k.mem[q].err = k.mem[q].err
    <3>1. Keeps(k.rw, k.rw, q)
      BY DEF Keeps
    <3>2. q # p => Keeps(rp, Read(rp, d), q)
      BY ReadKeeps
    <3> QED  BY <1>4, <1>8, <2>1, <3>1, <3>2
  <2> QED  BY <1>3, <1>9, <2>1, TabKept
<1>17. Intact(x, R, Read(rp, d))
    BY <1>2, <1>3, <1>11, <1>12, <1>13, <1>14, <1>15, <1>16 DEF Intact, rq2, fh2
<1> QED  BY <1>10, <1>17 DEF x, fh2

\* With the last reply to its close no daemon has the file open.
LEMMA LastClose ==
    ASSUME NEW k \in Good, NEW R, NEW rp \in [Daemons -> Seq(Pos)], Intact(k, R, rp),
           NEW d \in Daemons, rp[d] # <<>>, NEW p \in Pos, p = rp[d][1], Asks(k.rqtab, p),
           Len(k.rqtab[p]) = 1,
           First(k.rqtab, p).kind = "close", NEW f \in Calls, f = First(k.rqtab, p).f
    PROVE  NoTab(tab, f)
<1> SUFFICES ASSUME NEW e \in Daemons, NEW h \in Handles, tab[e][h] = f PROVE FALSE
    BY DEF NoTab
<1> DEFINE Q == Queues(k.cq, k.rw, cur, rp)
           x == <<"to", e>>
           y == <<"from", d>>
<1>1. f # None
    BY AsyncIoAssumption DEF None, Calls
<1>2. InQ(k.rw[e], p)
    BY <1>1 DEF Intact, TabOK
<1>3. x \in DOMAIN Q /\ y \in DOMAIN Q /\ Q[x] = k.rw[e] /\ Q[y] = rp[d] /\ x # y
    BY DEF Queues
<1>4. IsFiniteSet(Slots(Q, p)) /\ Cardinality(Slots(Q, p)) <= 1
    BY DEF Intact, CountOK
<1> HIDE DEF x, y, Q
<1>5. PICK i \in 1..Len(Q[x]) : Q[x][i] = p
    BY <1>2, <1>3 DEF InQ
<1>6. 1 \in 1..Len(Q[y]) /\ Q[y][1] = p
  <2>1. rp[d] \in Seq(Pos) /\ rp[d] # <<>>
    OBVIOUS
  <2> QED  BY <1>3, <2>1
<1>7. Cardinality(Slots(Q, p)) >= 2
    BY <1>3, <1>4, <1>5, <1>6, TwoSlots
<1>8. Cardinality(Slots(Q, p)) \in Nat
    BY <1>4, FS_CardinalityType
<1> QED  BY <1>4, <1>7, <1>8

\* close_cb (), when the application keeps the aiofh until then.
LEMMA CloseCbIntact ==
    ASSUME NEW k \in Good, ~k.closed, NEW R, NEW rp \in [Daemons -> Seq(Pos)], Intact(k, R, rp),
           NEW d \in Daemons, rp[d] # <<>>, NEW p \in Pos, p = rp[d][1], Asks(k.rqtab, p),
           First(k.rqtab, p).kind = "close", NEW err
    PROVE  LET y == CloseCb(Pop(k, p), First(k.rqtab, p), err)
           IN  Intact(y, R, Read(rp, d)) /\ Away(y.fh, p)
<1> DEFINE cb == First(k.rqtab, p)
           f == cb.f
           s == Counted(k, p, f)
           v == IF err THEN "err" ELSE "ok"
           a == Answer(s, cb.call, v)
           y == CloseCb(Pop(k, p), cb, err)
           rp2 == Read(rp, d)
<1>0. k \in Client /\ k.rqtab \in [Pos -> Seq(Callbacks)] /\ k.rqtab[p] \in Seq(Callbacks)
    BY GoodClient DEF Client
<1>1. cb \in Callbacks /\ f \in Calls /\ cb.call \in OptCalls /\ f # None
  <2>1. cb \in Callbacks
    BY <1>0, FirstType
  <2> QED  BY <2>1, AsyncIoAssumption DEF Callbacks, Calls, None
<1>2. y = IF s.fh[f].left > 0 THEN s
          ELSE IF cb.call # None /\ Careful THEN Release(a, f) ELSE a
    BY DEF CloseCb, Counted
<1>3. Intact(s, R, rp2) /\ LessLive(k.fh, s.fh)
    BY <1>1, CountedIntact
<1>4. /\ s \in Good /\ s.rqtab[p] = Tail(k.rqtab[p])
      /\ \A q \in Pos : q # p => s.rqtab[q] = k.rqtab[q]
      /\ s.fh[f].left = k.fh[f].left - 1 /\ s.fh[f].st = k.fh[f].st
      /\ s.wait = k.wait
    BY <1>1, CountedFacts
<1>5. v \in Answers \ {"none"}
    BY DEF Answers
<1>6. Away(k.fh, p)
    BY DEF Away, Intact, FilesOK
<1> HIDE DEF s, v, rp2
<1>7. a \in Good /\ Intact(a, R, rp2) /\ a.fh = s.fh /\ a.rqtab = s.rqtab /\ a.wait = s.wait
    BY <1>1, <1>3, <1>4, <1>5, AnswerGood, AnswerIntact
<1>8. Away(s.fh, p)
    BY <1>3, <1>6, AwayLess
<1>9. ASSUME cb.call # None, ~(s.fh[f].left > 0)
      PROVE  Intact(Release(a, f), R, rp2) /\ Away(Release(a, f).fh, p)
  <2>1. /\ k.fh[f].st = "open" /\ k.fh[f].closed /\ k.fh[f].left = Len(k.rqtab[p])
    <3>1. ReqOK(p, cb, Len(k.rqtab[p]), k.fh, k.bufs, k.mem, k.bb.tot, k.grow)
      BY DEF Intact, RequestsOK
    <3> QED  BY <1>9, <3>1 DEF ReqOK
  <2>2. Len(k.rqtab[p]) = 1
    <3>1. Len(k.rqtab[p]) \in Nat /\ Len(k.rqtab[p]) >= 1
      BY <1>0 DEF Asks
    <3>2. ~(Len(k.rqtab[p]) - 1 > 0)
      BY <1>4, <1>9, <2>1, Zenon
    <3>3. \A n \in Nat : n >= 1 /\ ~(n - 1 > 0) => n = 1
      OBVIOUS
    <3> QED  BY <3>1, <3>2, <3>3, Zenon
  <2>3. s.rqtab[p] = <<>>
    <3>1. Tail(k.rqtab[p]) \in Seq(Callbacks) /\ Len(Tail(k.rqtab[p])) = 0
      BY <1>0, <2>2 DEF Asks
    <3> DEFINE t == Tail(k.rqtab[p])
    <3>2. t \in Seq(Callbacks) /\ Len(t) = 0
      BY <3>1
    <3> HIDE DEF t
    <3>3. t = <<>>
      BY <3>2
    <3> QED  BY <1>4, <3>3 DEF t
  <2>4. Live(k.fh, f)
    BY <2>1 DEF Live
  <2>5. NoReq(s.rqtab, f)
    <3> SUFFICES ASSUME NEW q \in Pos, Asks(s.rqtab, q), First(s.rqtab, q).f = f PROVE FALSE
      BY DEF NoReq
    <3>1. q # p
      BY <2>3 DEF Asks
    <3>2. Asks(k.rqtab, q) /\ First(k.rqtab, q).f = f
      BY <1>4, <3>1, Zenon DEF Asks, First
    <3>3. RequestsOK(k.fh, k.bufs, k.rqtab, k.mem, k.bb.tot, k.grow)
      BY DEF Intact
    <3> QED  BY <1>0, <2>4, <3>1, <3>2, <3>3, Alone
  <2>6. NoWaiter(Waiting(k.wait, R), f)
    <3> SUFFICES ASSUME NEW w \in Waiting(k.wait, R), w.f = f PROVE FALSE
      BY DEF NoWaiter
    <3>1. WaiterOK(w, k.fh, k.rqtab, k.ans)
      BY DEF Intact, WaitersOK
    <3> QED  BY <1>1, <2>1, <3>1 DEF WaiterOK, Waiter
  <2>7. NoTab(tab, f)
    BY <1>1, <2>2, LastClose
  <2> DEFINE r == Retire(a, f)
             q == a.fh[f].pos
  <2>8. Release(a, f) = Free(r, q)
    BY DEF Release, Retire
  <2> HIDE DEF a, f
  <2>9. a \in Client /\ Live(a.fh, f) /\ NoReq(a.rqtab, f) /\ NoWaiter(Waiting(a.wait, R), f)
    BY <1>4, <1>7, <2>4, <2>5, <2>6, GoodClient DEF Live
  <2>10. /\ Intact(r, R, rp2)
         /\ \A g \in Calls : g # f => r.fh[g] = a.fh[g]
         /\ r.fh[f].st = "gone" /\ Away(r.fh, q) /\ ~Asks(r.rqtab, q)
    BY <1>1, <1>7, <2>7, <2>9, RetireIntact
  <2>11. r \in Good
    BY <1>1, <1>7, RetireGood
  <2> HIDE DEF r, q
  <2>12. Intact(Free(r, q), R, rp2) /\ Free(r, q).fh = r.fh
    BY <2>10, <2>11, FreeIntact
  <2>13. Away(r.fh, p)
    <3>1. LessLive(a.fh, r.fh)
      BY <2>10 DEF LessLive, Live
    <3> QED  BY <1>7, <1>8, <3>1, AwayLess
  <2> QED  BY <2>8, <2>12, <2>13
<1>10. Intact(y, R, rp2) /\ Away(y.fh, p)
  <2> HIDE DEF y, a
  <2> QED  BY <1>2, <1>3, <1>7, <1>8, <1>9
<1> QED  BY <1>10 DEF y, rp2

\* One response.
LEMMA ResponseHeld ==
    ASSUME NEW k \in Good, NEW R, NEW rp \in [Daemons -> Seq(Pos)], Held(k, R, rp),
           NEW d \in Daemons, rp[d] # <<>>, NEW p \in Pos, p = rp[d][1]
    PROVE  Held(Response(k, p), R, Read(rp, d))
<1>1. CASE k.closed
    BY <1>1 DEF Response, Held
<1>2. CASE ~k.closed /\ k.rqtab[p] = <<>>
    BY <1>2, FailGood DEF Response, GoodClosed, Held
<1>3. CASE ~k.closed /\ k.rqtab[p] # <<>>
  <2> DEFINE cb == First(k.rqtab, p)
             x == Pop(k, p)
             err == k.mem[p].err
             y == Callback(x, cb, p, err)
             rp2 == Read(rp, d)
  <2>0. k.rqtab \in [Pos -> Seq(Callbacks)] /\ Asks(k.rqtab, p) /\ Intact(k, R, rp)
    BY <1>3, GoodClient DEF Client, Asks, Held
  <2>1. /\ cb \in Callbacks /\ cb = Head(k.rqtab[p])
        /\ cb.kind \in {"path", "open", "rw", "close", "grow1", "grow2"} /\ cb.call \in OptCalls
    BY <2>0, FirstType
  <2>2. Response(k, p) = DelReq(y, p)
    BY <1>3, <2>1 DEF Response, Pop
  <2>3. y \in Good
    <3>1. Tail(k.rqtab[p]) \in Seq(Callbacks)
      <4>1. k.rqtab[p] \in Seq(Callbacks)
        BY <2>0
      <4> QED  BY <1>3, <4>1
    <3>2. x \in Good
      BY <3>1, RqtabGood DEF Pop
    <3> HIDE DEF x, cb, err
    <3> QED  BY <2>1, <3>2, CallbackGood
  <2>4. Intact(y, R, rp2) /\ Away(y.fh, p)
    <3>1. CASE cb.kind = "open"
      <4>1. y = OpenCb(x, cb, err)
        BY <3>1 DEF Callback
      <4> QED  BY <1>3, <2>0, <3>1, <4>1, OpenCbIntact
    <3>2. CASE cb.kind = "close"
      <4>1. y = CloseCb(x, cb, err)
        BY <3>2 DEF Callback
      <4> QED  BY <1>3, <2>0, <3>2, <4>1, CloseCbIntact
    <3>3. CASE cb.kind \in {"grow1", "grow2"}
      <4>1. y = GrowCb(x, cb, p, err)
        BY <3>3 DEF Callback
      <4> QED  BY <1>3, <2>0, <3>3, <4>1, GrowCbIntact
    <3>4. CASE cb.kind \in {"path", "rw"}
      <4> DEFINE v == IF err THEN "err" ELSE "ok"
      <4>1. y = Answer(x, cb.call, v)
        BY <3>4 DEF Callback
      <4>2. v \in Answers \ {"none"}
        BY DEF Answers
      <4>3. x \in Good /\ Intact(x, R, rp2) /\ Away(x.fh, p)
        BY <2>0, <3>4, PopIntact, Zenon
      <4> HIDE DEF x, v, rp2, cb, y
      <4>4. Intact(Answer(x, cb.call, v), R, rp2) /\ Answer(x, cb.call, v).fh = x.fh
        BY <2>1, <4>2, <4>3, AnswerIntact
      <4> QED  BY <4>1, <4>3, <4>4
    <3> QED  BY <2>1, <3>1, <3>2, <3>3, <3>4
  <2> HIDE DEF y, rp2
  <2>5. Intact(DelReq(y, p), R, rp2)
    BY <2>3, <2>4, DelReqIntact
  <2> QED  BY <2>2, <2>5 DEF Held, rp2
<1> QED  BY <1>1, <1>2, <1>3

-----------------------------------------------------------------------------
(***************************************************************************)
(* The rounds of bufwake () and the responses of a read, one after another.*)
(***************************************************************************)

\* f is the way of the client from k through the waiters, or the responses, ws.
RunOpPath(f, k, ws) == f[0] = k /\ \A i \in 1..Len(ws) : f[i] = RunOp(f[i - 1], ws[i])
ResponsePath(f, k, ws) == f[0] = k /\ \A i \in 1..Len(ws) : f[i] = Response(f[i - 1], ws[i])

\* The waiters run, each from what the one before left.
LEMMA RunOpTrail ==
    ASSUME NEW K, NEW W, NEW k \in K, NEW ws \in Seq(W), \A x \in K, w \in W : RunOp(x, w) \in K
    PROVE  \E f : RunOpPath(f, k, ws) /\ Steps(RunOp, k, ws) = f[Len(ws)]
<1> DEFINE n == Len(ws)
           Body(g) == [i \in 0..n |-> IF i = 0 THEN k ELSE RunOp(g[i - 1], ws[i])]
           F == [i \in 1..n |-> [x \in K |-> RunOp(x, ws[i])]]
           f == CHOOSE g : g = Body(g)
<1>1. n \in Nat /\ \A i \in 1..n : ws[i] \in W
    OBVIOUS
<1>2. Steps(RunOp, k, ws) = f[n]
    BY DEF Steps
<1> HIDE DEF n
<1>3. F \in [1..n -> [K -> K]]
    BY <1>1
<1>4. PICK g : Trail(g, n, k, K, F)
  <2> HIDE DEF F
  <2> QED  BY <1>1, <1>3, StepsExist
<1>5. \A i \in 1..n : g[i] = RunOp(g[i - 1], ws[i])
  <2>1. \A i \in 1..n : i - 1 \in 0..n
    BY <1>1
  <2> QED  BY <1>4, <2>1 DEF Trail
<1>6. g = Body(g)
    BY <1>1, <1>4, <1>5 DEF Trail
<1>7. f = Body(f)
  <2> HIDE DEF Body
  <2> QED  BY <1>6
<1> HIDE DEF f
<1>8. f[0] = k /\ \A i \in 1..n : f[i] = RunOp(f[i - 1], ws[i])
    BY <1>1, <1>7
<1>9. RunOpPath(f, k, ws)
    BY <1>8 DEF RunOpPath, n
<1> QED  BY <1>2, <1>9 DEF n

\* So do responses.
LEMMA ResponseTrail ==
    ASSUME NEW K, NEW W, NEW k \in K, NEW ws \in Seq(W), \A x \in K, w \in W : Response(x, w) \in K
    PROVE  \E f : ResponsePath(f, k, ws) /\ Steps(Response, k, ws) = f[Len(ws)]
<1> DEFINE n == Len(ws)
           Body(g) == [i \in 0..n |-> IF i = 0 THEN k ELSE Response(g[i - 1], ws[i])]
           F == [i \in 1..n |-> [x \in K |-> Response(x, ws[i])]]
           f == CHOOSE g : g = Body(g)
<1>1. n \in Nat /\ \A i \in 1..n : ws[i] \in W
    OBVIOUS
<1>2. Steps(Response, k, ws) = f[n]
    BY DEF Steps
<1> HIDE DEF n
<1>3. F \in [1..n -> [K -> K]]
    BY <1>1
<1>4. PICK g : Trail(g, n, k, K, F)
  <2> HIDE DEF F
  <2> QED  BY <1>1, <1>3, StepsExist
<1>5. \A i \in 1..n : g[i] = Response(g[i - 1], ws[i])
  <2>1. \A i \in 1..n : i - 1 \in 0..n
    BY <1>1
  <2> QED  BY <1>4, <2>1 DEF Trail
<1>6. g = Body(g)
    BY <1>1, <1>4, <1>5 DEF Trail
<1>7. f = Body(f)
  <2> HIDE DEF Body
  <2> QED  BY <1>6
<1> HIDE DEF f
<1>8. f[0] = k /\ \A i \in 1..n : f[i] = Response(f[i - 1], ws[i])
    BY <1>1, <1>7
<1>9. ResponsePath(f, k, ws)
    BY <1>8 DEF ResponsePath, n
<1> QED  BY <1>2, <1>9 DEF n

\* What holds before the first and is kept by each holds after the last.
LEMMA Throughout ==
    ASSUME NEW n \in Nat, NEW S, 0 \in S, \A i \in 1..n : i - 1 \in S => i \in S
    PROVE  n \in S
<1> DEFINE f == [i \in 0..n |-> i]
<1>1. f[0] = 0 /\ f[n] = n /\ \A i \in 1..n : f[i] = i /\ f[i - 1] = i - 1
    OBVIOUS
<1> HIDE DEF f
<1>2. f[0] \in S /\ \A i \in 1..n : f[i - 1] \in S => f[i] \in S
    BY <1>1
<1>3. f[n] \in S
    BY <1>2, StepsStay
<1> QED  BY <1>1, <1>3

\* A round of bufwake ().
LEMMA RoundHeld ==
    ASSUME Careful, NEW k \in Good, NEW rp, Held(k, {}, rp), NEW r
    PROVE  Held(Round(k, r), {}, rp)
<1> DEFINE x == [k EXCEPT !.wait = <<>>, !.req = FALSE]
           ws == k.wait
           n == Len(ws)
           Rest(i) == {ws[j] : j \in (i + 1)..n}
<1>0. k \in Client /\ ws \in Seq(Waiter) /\ n \in Nat
    BY GoodClient DEF Client
<1>1. x \in Good
    BY TakeWaitGood
<1>2. Round(k, r) = IF k.req THEN Steps(RunOp, x, ws) ELSE k
    BY DEF Round
<1>3. /\ x.fh = k.fh /\ x.bufs = k.bufs /\ x.rqtab = k.rqtab /\ x.mem = k.mem
      /\ x.avail = k.avail /\ x.ctr = k.ctr /\ x.bb = k.bb /\ x.grow = k.grow
      /\ x.wait = <<>> /\ x.ans = k.ans /\ x.cq = k.cq /\ x.rw = k.rw /\ x.closed = k.closed
    BY <1>0 DEF Client
<1> HIDE DEF x
<1>4. \A i \in 1..n : ws[i] \in Waiter
    BY <1>0
<1>5. CASE ~k.req
    BY <1>2, <1>5
<1>6. CASE k.closed
  <2>1. \A y \in GoodClosed, w \in Waiter : RunOp(y, w) \in GoodClosed
    BY RunOpGood DEF GoodClosed
  <2>2. x \in GoodClosed
    BY <1>1, <1>3, <1>6 DEF GoodClosed
  <2>3. Steps(RunOp, x, ws) \in GoodClosed
    BY <1>0, <2>1, <2>2, RunOpAll
  <2> QED  BY <1>2, <1>6, <2>3 DEF GoodClosed, Held
<1>7. CASE k.req /\ ~k.closed
  <2>1. Intact(k, {}, rp)
    BY <1>7 DEF Held
  <2>2. WaitersOK(ws, {}, k.fh, k.rqtab, k.ans)
    BY <2>1 DEF Intact
  <2>3. \A i, j \in 1..n : ws[i] = ws[j] => i = j
    BY <2>2 DEF WaitersOK
  <2>4. Intact(x, Rest(0), rp)
    <3>1. Rest(0) = {ws[i] : i \in 1..Len(ws)}
      OBVIOUS
    <3> HIDE DEF Rest, ws
    <3>2. WaitersOK(<<>>, Rest(0), k.fh, k.rqtab, k.ans)
      BY <2>2, <3>1, BeginRound
    <3> QED  BY <1>3, <2>1, <3>2 DEF Intact
  <2>5. PICK f : RunOpPath(f, x, ws) /\ Steps(RunOp, x, ws) = f[n]
    <3>1. \A y \in Good, w \in Waiter : RunOp(y, w) \in Good
      BY RunOpGood
    <3> HIDE DEF ws
    <3> QED  BY <1>0, <1>1, <3>1, RunOpTrail
  <2>6. f[0] = x /\ \A i \in 1..n : f[i] = RunOp(f[i - 1], ws[i])
    BY <2>5 DEF RunOpPath
  <2> DEFINE S == {i \in 0..n : f[i] \in Good /\ Held(f[i], Rest(i), rp)}
  <2>7. 0 \in S
    <3>1. 0 \in 0..n
      BY <1>0
    <3> HIDE DEF Rest
    <3> QED  BY <1>1, <2>4, <2>6, <3>1 DEF Held
  <2>8. ASSUME NEW i \in 1..n, i - 1 \in S PROVE i \in S
    <3> DEFINE y == f[i - 1]
               w == ws[i]
               Q == Rest(i - 1)
    <3>1. y \in Good /\ Held(y, Q, rp) /\ w \in Waiter /\ f[i] = RunOp(y, w)
      BY <1>4, <2>6, <2>8
    <3>2. w \in Q /\ Q \ {w} = Rest(i)
      <4>1. i \in (i - 1 + 1)..n
        BY <1>0
      <4>2. \A j \in (i - 1 + 1)..n : j \in 1..n /\ (j = i \/ j \in (i + 1)..n)
        BY <1>0
      <4>3. \A j \in (i + 1)..n : j \in (i - 1 + 1)..n /\ j # i /\ j \in 1..n
        BY <1>0
      <4> HIDE DEF ws, n
      <4> QED  BY <2>3, <4>1, <4>2, <4>3
    <3> HIDE DEF y, w, Q, Rest
    <3>3. ~y.closed => Intact(y, Rest(i), rp) /\ Joins(w, y.wait, Rest(i), y.fh, y.rqtab, y.ans)
      <4> SUFFICES ASSUME ~y.closed
                   PROVE  Intact(y, Rest(i), rp) /\ Joins(w, y.wait, Rest(i), y.fh, y.rqtab, y.ans)
        OBVIOUS
      <4>1. Intact(y, Q, rp)
        BY <3>1 DEF Held
      <4>2. WaitersOK(y.wait, Q, y.fh, y.rqtab, y.ans)
        BY <4>1 DEF Intact
      <4>3. WaitersOK(y.wait, Rest(i), y.fh, y.rqtab, y.ans)
            /\ Joins(w, y.wait, Rest(i), y.fh, y.rqtab, y.ans)
        BY <3>2, <4>2, LeaveRound
      <4> QED  BY <4>1, <4>3 DEF Intact
    <3>4. Held(RunOp(y, w), Rest(i), rp)
      <4>1. Held(y, Rest(i), rp)
        BY <3>3 DEF Held
      <4> QED  BY <3>1, <3>3, <4>1, RunOpHeld
    <3>5. RunOp(y, w) \in Good /\ i \in 0..n
      BY <1>0, <3>1, RunOpGood
    <3> QED  BY <3>1, <3>4, <3>5
  <2>9. n \in S
    <3> HIDE DEF S, n
    <3> QED  BY <1>0, <2>7, <2>8, Throughout
  <2>10. Rest(n) = {}
    BY <1>0
  <2> HIDE DEF Rest, ws
  <2> QED  BY <1>2, <1>7, <2>5, <2>9, <2>10
<1> QED  BY <1>5, <1>6, <1>7

\* aiod::bufwake ().
LEMMA SettleHeld ==
    ASSUME Careful, NEW k \in Good, NEW rp, Held(k, {}, rp)
    PROVE  Held(Settle(k), {}, rp)
<1> DEFINE rs == [i \in 1..(Len(k.wait) + 1) |-> i]
           e == Steps(Round, k, rs)
           x == [e EXCEPT !.got = -1, !.fault = IF e.req THEN @ \cup {"spin"} ELSE @]
           K == {y \in Good : Held(y, {}, rp)}
<1>1. rs \in Seq(Nat)
  <2>1. Len(k.wait) \in Nat
    BY GoodClient DEF Client
  <2> QED  BY <2>1
<1>2. Settle(k) = x
    BY DEF Settle
<1>3. \A y \in K, i \in Nat : Round(y, i) \in K
    BY RoundGood, RoundHeld
<1>4. k \in K
    OBVIOUS
<1> HIDE DEF rs, K
<1>5. e \in K
    BY <1>1, <1>3, <1>4, RoundAll
<1> HIDE DEF e
<1>6. e \in Client /\ Held(e, {}, rp)
    BY <1>5, GoodClient DEF K
<1>7. Alike(e, x) /\ x.closed = e.closed
    BY <1>6 DEF Client, Alike
<1> HIDE DEF x
<1> QED  BY <1>2, <1>6, <1>7, AlikeIntact DEF Held

-----------------------------------------------------------------------------
(***************************************************************************)
(* The steps of the system.                                                *)
(***************************************************************************)

\* A write that fails takes nothing away.
LEMMA WrittenHeld ==
    ASSUME NEW k, NEW x \in Good, NEW rp, Held(x, {}, rp)
    PROVE  Held(Written(k, x), {}, rp)
<1> DEFINE y == Written(k, x)
<1>0. x \in Client /\ y = [x EXCEPT !.fault = y.fault]
    BY GoodClient, WrittenFacts
<1> HIDE DEF y
<1>1. /\ y.fh = x.fh /\ y.bufs = x.bufs /\ y.rqtab = x.rqtab /\ y.mem = x.mem
      /\ y.avail = x.avail /\ y.ctr = x.ctr /\ y.bb = x.bb /\ y.grow = x.grow
      /\ y.wait = x.wait /\ y.ans = x.ans /\ y.cq = x.cq /\ y.rw = x.rw
      /\ y.closed = x.closed
    BY <1>0 DEF Client
<1>2. Held(y, {}, rp)
    BY <1>1 DEF Held, Intact
<1> QED  BY <1>2 DEF y

\* A call of the application.
LEMMA CallHeld ==
    ASSUME Careful, ClientInv, Held(cl, {}, reply), NEW c \in Calls, Call(c)
    PROVE  Held(cl', {}, reply)
<1> DEFINE k == [cl EXCEPT !.ans[c] = "pending"]
<1>0. cl \in Good /\ cl \in Client
    BY GoodClient DEF ClientInv
<1>1. k = Answer(cl, c, "pending") /\ c \in OptCalls /\ "pending" \in Answers \ {"none"}
      /\ c # None
    BY AsyncIoAssumption DEF Answer, None, Calls, OptCalls, Answers
<1>2. PICK w \in {Cb("path", c, None, PathLevel)}
            \cup {Cb("open", c, c, 0)}
            \cup {Cb("rw", c, f, 0) : f \in {g \in Calls : Usable(g)}}
            \cup {Cb("close", c, f, 0) : f \in {g \in Calls : IdleFh(g)}} :
          cl' = Written(cl, Settle(RunOp(k, w)))
    BY Zenon DEF Call
<1>3. w \in Waiter /\ w.call = c
    BY <1>2, ZeroLevel, AsyncIoAssumption DEF Cb, Waiter, OptCalls
<1>4. /\ w.kind \in {"path", "open", "rw", "close"}
      /\ w.kind = "path" => w.f = None
      /\ w.kind = "open" => w.f = c
      /\ w.kind = "rw" => w.f \in Calls /\ Usable(w.f)
      /\ w.kind = "close" => w.f \in Calls /\ IdleFh(w.f)
    BY <1>2 DEF Cb
<1>5. /\ k.fh = cl.fh /\ k.wait = cl.wait /\ k.rqtab = cl.rqtab /\ k.closed = cl.closed
      /\ k.ans[c] = "pending"
    BY <1>0 DEF Client
<1>6. cl.ans[c] = "none"
    BY DEF Call
<1> HIDE DEF k
<1>7. k \in Good
    BY <1>0, <1>1, AnswerGood
<1>8. Held(k, {}, reply)
    BY <1>0, <1>1, <1>5, AnswerIntact DEF Held
<1>9. ASSUME ~k.closed, ~(w.kind = "rw" /\ k.fh[w.f].closed)
      PROVE  Joins(w, k.wait, {}, k.fh, k.rqtab, k.ans)
  <2>1. WaitersOK(cl.wait, {}, cl.fh, cl.rqtab, cl.ans)
    BY <1>5, <1>9 DEF Held, Intact
  <2>2. WaiterOK(w, k.fh, k.rqtab, k.ans)
    <3>1. cl.fh[c].st = "none"
      BY <1>6, <2>1 DEF WaitersOK
    <3>2. w.kind = "close" =>
             cl.fh[w.f].st = "open" /\ \A p \in Pos : Asks(cl.rqtab, p) => First(cl.rqtab, p).f # w.f
      <4> SUFFICES ASSUME w.kind = "close", NEW p \in Pos, Asks(cl.rqtab, p)
                   PROVE  First(cl.rqtab, p).f # w.f
        BY <1>4 DEF IdleFh
      <4>1. cl.rqtab[p] \in Seq(Callbacks) /\ cl.rqtab[p] # <<>>
        BY <1>0 DEF Client, Asks
      <4>2. 1 \in 1..Len(cl.rqtab[p])
        BY <4>1
      <4> QED  BY <1>4, <4>2 DEF IdleFh, First
    <3>3. w.kind = "rw" => cl.fh[w.f].st = "open" /\ ~cl.fh[w.f].closed
      BY <1>4, <1>5, <1>9 DEF Usable
    <3> QED  BY <1>3, <1>4, <1>5, <3>1, <3>2, <3>3 DEF WaiterOK
  <2>3. ASSUME NEW v \in Waiting(cl.wait, {}) PROVE Apiece(v, w)
    <3>1. PICK i \in 1..Len(cl.wait) : v = cl.wait[i]
      BY DEF Waiting
    <3>2. WaiterOK(v, cl.fh, cl.rqtab, cl.ans) /\ (v.kind = "close" => cl.fh[v.f].closed)
      BY <2>1, <3>1 DEF WaitersOK
    <3>3. v.call # w.call
      BY <1>3, <1>6, <3>2 DEF WaiterOK
    <3>4. w.kind = "close" => v.f # w.f
      BY <1>4, <3>1 DEF IdleFh
    <3>5. v.kind = "close" => v.f # w.f
      <4> SUFFICES ASSUME v.kind = "close", v.f = w.f PROVE FALSE
        OBVIOUS
      <4>1. v.f \in Calls /\ v.f # None /\ cl.fh[v.f].st = "open" /\ cl.fh[v.f].closed
        <5>1. v.f \in Calls
          BY <3>2 DEF WaiterOK, Waiter
        <5> QED  BY <3>2, <5>1, AsyncIoAssumption DEF WaiterOK, None, Calls
      <4>2. cl.fh[c].st = "none"
        BY <1>6, <2>1 DEF WaitersOK
      <4> QED  BY <1>4, <1>5, <1>9, <3>4, <4>1, <4>2
    <3> QED  BY <3>3, <3>4, <3>5 DEF Apiece
  <2> QED  BY <1>5, <2>2, <2>3 DEF Joins
<1>10. Held(RunOp(k, w), {}, reply) /\ RunOp(k, w) \in Good
    BY <1>3, <1>7, <1>8, <1>9, RunOpHeld, RunOpGood
<1>11. Settle(RunOp(k, w)) \in Good /\ Held(Settle(RunOp(k, w)), {}, reply)
    BY <1>10, SettleHeld, SettleGood
<1> QED  BY <1>2, <1>11, WrittenHeld

\* The responses that the client has read, or the end.
LEMMA InputHeld ==
    ASSUME Careful, ClientInv, Held(cl, {}, reply), NEW d \in Daemons, Input(d)
    PROVE  Held(cl', {}, reply')
<1>0. cl \in Good /\ reply \in [Daemons -> Seq(Pos)]
    BY DEF ClientInv
<1>1. CASE cl' = Fail(cl)
    BY <1>0, <1>1, FailGood DEF GoodClosed, Held
<1>2. ASSUME NEW n \in 1..Len(reply[d]),
             cl' = Written(cl, Settle(Steps(Response, cl, SubSeq(reply[d], 1, n)))),
             reply' = [reply EXCEPT ![d] = SubSeq(@, n + 1, Len(@))]
      PROVE  Held(cl', {}, reply')
  <2> DEFINE s == reply[d]
             m == Len(s)
             ws == SubSeq(s, 1, n)
             From(i) == [reply EXCEPT ![d] = SubSeq(s, i + 1, m)]
  <2>0. s \in Seq(Pos) /\ m \in Nat /\ n \in Nat /\ n <= m
    BY <1>0
  <2>1. ws \in Seq(Pos) /\ Len(ws) = n /\ \A i \in 1..n : ws[i] = s[i] /\ s[i] \in Pos
    <3> HIDE DEF s
    <3> QED  BY <2>0
  <2>2. \A i \in 0..n : SubSeq(s, i + 1, m) \in Seq(Pos)
    <3> HIDE DEF s
    <3> QED  BY <2>0
  <2>3. ASSUME NEW i \in 1..n
        PROVE  /\ SubSeq(s, i - 1 + 1, m) # <<>> /\ SubSeq(s, i - 1 + 1, m)[1] = s[i]
               /\ Tail(SubSeq(s, i - 1 + 1, m)) = SubSeq(s, i + 1, m)
    <3> HIDE DEF s
    <3> DEFINE t == SubSeq(s, i, m)
    <3>0. i - 1 + 1 = i /\ i \in Nat /\ i >= 1 /\ i <= m
      BY <2>0
    <3>1. t \in Seq(Pos) /\ Len(t) = m - i + 1 /\ \A j \in 1..Len(t) : t[j] = s[i + j - 1]
      BY <2>0, <3>0
    <3>2. Len(t) >= 1 /\ t # <<>> /\ t[1] = s[i]
      <4>1. m - i + 1 >= 1 /\ i + 1 - 1 = i
        BY <2>0, <3>0
      <4> HIDE DEF t
      <4>2. Len(t) >= 1 /\ t # <<>> /\ 1 \in 1..Len(t)
        BY <3>1, <4>1
      <4>3. t[1] = s[i + 1 - 1]
        BY <3>1, <4>2
      <4> QED  BY <4>1, <4>2, <4>3
    <3>3. Tail(t) = SubSeq(s, i + 1, m)
      BY <2>0, <3>0
    <3> QED  BY <3>0, <3>2, <3>3
  <2>4. From(0) = reply
    <3>1. SubSeq(s, 0 + 1, m) = s
      <4> HIDE DEF s
      <4> QED  BY <2>0
    <3> QED  BY <1>0, <3>1
  <2>5. \A i \in 0..n : From(i) \in [Daemons -> Seq(Pos)] /\ From(i)[d] = SubSeq(s, i + 1, m)
    BY <1>0, <2>2
  <2>6. ASSUME NEW i \in 1..n PROVE Read(From(i - 1), d) = From(i)
    BY <1>0, <2>3 DEF Read
  <2>7. reply' = From(n)
    BY <1>2
  <2>8. PICK f : ResponsePath(f, cl, ws) /\ Steps(Response, cl, ws) = f[Len(ws)]
    <3>1. \A y \in Good, p \in Pos : Response(y, p) \in Good
      BY ResponseGood
    <3>2. ws \in Seq(Pos) /\ cl \in Good
      BY <1>0, <2>1
    <3> HIDE DEF ws
    <3> QED  BY <3>1, <3>2, ResponseTrail
  <2>9. f[0] = cl /\ \A i \in 1..n : f[i] = Response(f[i - 1], s[i])
    BY <2>1, <2>8 DEF ResponsePath
  <2>10. cl' = Written(cl, Settle(f[n]))
    BY <1>2, <2>1, <2>8
  <2> DEFINE S == {i \in 0..n : f[i] \in Good /\ Held(f[i], {}, From(i))}
  <2>11. 0 \in S
    <3>1. 0 \in 0..n
      BY <2>0
    <3> HIDE DEF From
    <3> QED  BY <1>0, <2>4, <2>9, <3>1
  <2>12. ASSUME NEW i \in 1..n, i - 1 \in S PROVE i \in S
    <3>1. i - 1 \in 0..n /\ i \in 0..n
      BY <2>0
    <3> DEFINE rp == From(i - 1)
    <3>2. /\ rp \in [Daemons -> Seq(Pos)] /\ rp[d] # <<>> /\ rp[d][1] = s[i]
          /\ Read(rp, d) = From(i) /\ s[i] \in Pos
      <4> HIDE DEF From, s
      <4> QED  BY <2>1, <2>3, <2>5, <2>6, <3>1
    <3>3. f[i - 1] \in Good /\ Held(f[i - 1], {}, rp)
      BY <2>12
    <3> HIDE DEF rp, From, s
    <3>4. Held(Response(f[i - 1], s[i]), {}, From(i))
      BY <3>2, <3>3, ResponseHeld
    <3>5. Response(f[i - 1], s[i]) \in Good
      BY <3>2, <3>3, ResponseGood
    <3> QED  BY <2>9, <3>1, <3>4, <3>5
  <2>13. n \in S
    <3> HIDE DEF S
    <3> QED  BY <2>0, <2>11, <2>12, Throughout
  <2>14. f[n] \in Good /\ Held(f[n], {}, From(n))
    BY <2>13
  <2> HIDE DEF From
  <2>15. Settle(f[n]) \in Good /\ Held(Settle(f[n]), {}, From(n))
    BY <2>14, SettleHeld, SettleGood
  <2> QED  BY <2>7, <2>10, <2>15, WrittenHeld
<1> QED  BY <1>1, <1>2 DEF Input

-----------------------------------------------------------------------------
(***************************************************************************)
(* The daemons.                                                            *)
(***************************************************************************)

\* Each position is as often in the queues Z as in Q.
SameCount(Q, Z) ==
    \A q \in Pos : IsFiniteSet(Slots(Q, q)) =>
        IsFiniteSet(Slots(Z, q)) /\ Cardinality(Slots(Z, q)) = Cardinality(Slots(Q, q))

\* A message goes from the head of one queue to the end of another one.
LEMMA MoveNum ==
    ASSUME NEW Q, NEW Y, NEW Z, NEW x \in DOMAIN Q, NEW y \in DOMAIN Q,
           Q[x] \in Seq(Pos), Q[x] # <<>>, Replaced(Q, Y, x, Tail(Q[x])),
           Y[y] \in Seq(Pos), Replaced(Y, Z, y, Append(Y[y], Q[x][1]))
    PROVE  SameCount(Q, Z)
<1> SUFFICES ASSUME NEW q \in Pos, IsFiniteSet(Slots(Q, q))
             PROVE  IsFiniteSet(Slots(Z, q)) /\ Cardinality(Slots(Z, q)) = Cardinality(Slots(Q, q))
    BY DEF SameCount
<1> DEFINE p == Q[x][1]
<1>0. p \in Pos
    OBVIOUS
<1>1. /\ IsFiniteSet(Slots(Y, q))
      /\ Cardinality(Slots(Y, q)) = Cardinality(Slots(Q, q)) - (IF q = p THEN 1 ELSE 0)
    BY TailNum
<1>2. y \in DOMAIN Y
    BY DEF Replaced
<1> HIDE DEF p
<1>3. /\ IsFiniteSet(Slots(Z, q))
      /\ Cardinality(Slots(Z, q)) = Cardinality(Slots(Y, q)) + (IF q = p THEN 1 ELSE 0)
    BY <1>0, <1>1, <1>2, AppendNum DEF p
<1>4. Cardinality(Slots(Q, q)) \in Nat /\ Cardinality(Slots(Y, q)) \in Nat
    BY <1>1, FS_CardinalityType
<1>5. CASE q = p
    BY <1>1, <1>3, <1>4, <1>5
<1>6. CASE q # p
    BY <1>1, <1>3, <1>4, <1>6
<1> QED  BY <1>3, <1>5, <1>6

\* The places of messages change so that there are as many as before.
LEMMA CountSame ==
    ASSUME NEW cq, NEW rw, NEW cu, NEW rp, NEW al, NEW rq, CountOK(cq, rw, cu, rp, al, rq),
           NEW cq2, NEW rw2, NEW cu2, NEW rp2,
           SameCount(Queues(cq, rw, cu, rp), Queues(cq2, rw2, cu2, rp2))
    PROVE  CountOK(cq2, rw2, cu2, rp2, al, rq)
BY DEF CountOK, SameCount

\* msg_loop () takes a message from the pipe.
LEMMA CountTake ==
    ASSUME NEW cq \in Seq(Pos), cq # <<>>, NEW rw, NEW cu, DOMAIN cu = Daemons, NEW rp, NEW al,
           NEW rq, NEW d \in Daemons, cu[d] = -1, CountOK(cq, rw, cu, rp, al, rq)
    PROVE  CountOK(Tail(cq), rw, [cu EXCEPT ![d] = cq[1]], rp, al, rq)
<1> DEFINE p == cq[1]
           cu2 == [cu EXCEPT ![d] = p]
           Q == Queues(cq, rw, cu, rp)
           Y == Queues(Tail(cq), rw, cu, rp)
           Z == Queues(Tail(cq), rw, cu2, rp)
           x == <<"pipe", 0>>
           y == <<"at", d>>
<1>1. p \in Pos /\ p # -1
  <2>1. p \in Pos
    OBVIOUS
  <2> QED  BY <2>1, AsyncIoAssumption DEF Pos
<1>2. x \in DOMAIN Q /\ y \in DOMAIN Q /\ Q[x] = cq /\ Y[y] = <<>>
    BY DEF Queues
<1>3. Replaced(Q, Y, x, Tail(Q[x]))
    BY <1>2, PipeReplaced
<1>4. Replaced(Y, Z, y, <<p>>)
  <2>1. Replaced(Y, Z, y, IF p = -1 THEN <<>> ELSE <<p>>)
    BY AtReplaced
  <2> HIDE DEF Y, Z, y, p
  <2> QED  BY <1>1, <2>1
<1>5. Y[y] \in Seq(Pos) /\ Append(Y[y], p) = <<p>>
  <2>1. <<>> \in Seq(Pos) /\ Append(<<>>, p) = <<p>>
    BY <1>1
  <2> QED  BY <1>2, <2>1
<1> HIDE DEF p, cu2, Q, Y, Z, x, y
<1>6. SameCount(Q, Z)
  <2>1. p = Q[x][1] /\ Q[x] \in Seq(Pos) /\ Q[x] # <<>>
    BY <1>2 DEF p
  <2>2. Replaced(Y, Z, y, Append(Y[y], Q[x][1]))
    BY <1>4, <1>5, <2>1
  <2> QED  BY <1>2, <1>3, <1>5, <2>1, <2>2, MoveNum
<1> QED  BY <1>6, CountSame DEF Q, Z, cu2, p

\* msg_loop () has carried out its request.
LEMMA CountServe ==
    ASSUME NEW cq, NEW rw, NEW cu \in [Daemons -> Pos \cup {-1}],
           NEW rp \in [Daemons -> Seq(Pos)], NEW al, NEW rq, NEW d \in Daemons, cu[d] # -1,
           CountOK(cq, rw, cu, rp, al, rq)
    PROVE  CountOK(cq, rw, [cu EXCEPT ![d] = -1], [rp EXCEPT ![d] = Append(rp[d], cu[d])], al, rq)
<1> DEFINE p == cu[d]
           cu2 == [cu EXCEPT ![d] = -1]
           rp2 == [rp EXCEPT ![d] = Append(rp[d], p)]
           Q == Queues(cq, rw, cu, rp)
           Y == Queues(cq, rw, cu2, rp)
           Z == Queues(cq, rw, cu2, rp2)
           x == <<"at", d>>
           y == <<"from", d>>
<1>1. p \in Pos /\ DOMAIN cu = Daemons /\ DOMAIN rp = Daemons /\ rp[d] \in Seq(Pos)
    OBVIOUS
<1>2. x \in DOMAIN Q /\ y \in DOMAIN Q /\ Q[x] = <<p>> /\ Y[y] = rp[d]
    BY DEF Queues
<1>3. Replaced(Q, Y, x, <<>>)
  <2>1. Replaced(Q, Y, x, IF -1 = -1 THEN <<>> ELSE <<-1>>)
    BY <1>1, AtReplaced
  <2> HIDE DEF Q, Y, x
  <2> QED  BY <2>1
<1>4. Replaced(Y, Z, y, Append(rp[d], p))
    BY <1>1, FromReplaced
<1>5. Tail(<<p>>) = <<>> /\ <<p>> \in Seq(Pos) /\ <<p>> # <<>> /\ <<p>>[1] = p
    BY <1>1
<1> HIDE DEF p, cu2, rp2, Q, Y, Z, x, y
<1>6. SameCount(Q, Z)
  <2>1. p = Q[x][1] /\ Q[x] \in Seq(Pos) /\ Q[x] # <<>> /\ Tail(Q[x]) = <<>>
    BY <1>2, <1>5
  <2>2. Replaced(Y, Z, y, Append(Y[y], Q[x][1])) /\ Y[y] \in Seq(Pos)
    BY <1>1, <1>2, <1>4, <2>1
  <2>3. Replaced(Q, Y, x, Tail(Q[x]))
    BY <1>3, <2>1
  <2> QED  BY <1>2, <2>1, <2>2, <2>3, MoveNum
<1> QED  BY <1>6, CountSame DEF Q, Z, cu2, rp2, p

\* sigio_handler () has carried out a request from the daemon's own socket.
LEMMA CountSigio ==
    ASSUME NEW cq, NEW rw \in [Daemons -> Seq(Pos)], NEW cu,
           NEW rp \in [Daemons -> Seq(Pos)], NEW al, NEW rq, NEW d \in Daemons, rw[d] # <<>>,
           CountOK(cq, rw, cu, rp, al, rq)
    PROVE  CountOK(cq, [rw EXCEPT ![d] = Tail(rw[d])], cu,
                   [rp EXCEPT ![d] = Append(rp[d], rw[d][1])], al, rq)
<1> DEFINE p == rw[d][1]
           rw2 == [rw EXCEPT ![d] = Tail(rw[d])]
           rp2 == [rp EXCEPT ![d] = Append(rp[d], p)]
           Q == Queues(cq, rw, cu, rp)
           Y == Queues(cq, rw2, cu, rp)
           Z == Queues(cq, rw2, cu, rp2)
           x == <<"to", d>>
           y == <<"from", d>>
<1>1. p \in Pos /\ DOMAIN rw = Daemons /\ DOMAIN rp = Daemons /\ rp[d] \in Seq(Pos)
      /\ rw[d] \in Seq(Pos)
    OBVIOUS
<1>2. x \in DOMAIN Q /\ y \in DOMAIN Q /\ Q[x] = rw[d] /\ Y[y] = rp[d]
    BY DEF Queues
<1>3. Replaced(Q, Y, x, Tail(rw[d]))
    BY <1>1, ToReplaced
<1>4. Replaced(Y, Z, y, Append(rp[d], p))
    BY <1>1, FromReplaced
<1>5. p = rw[d][1]
    OBVIOUS
<1> HIDE DEF p, rw2, rp2, Q, Y, Z, x, y
<1>6. SameCount(Q, Z)
  <2>1. p = Q[x][1] /\ Q[x] \in Seq(Pos) /\ Q[x] # <<>>
    BY <1>1, <1>2, <1>5
  <2>2. Replaced(Y, Z, y, Append(Y[y], Q[x][1])) /\ Y[y] \in Seq(Pos)
    BY <1>1, <1>2, <1>4, <2>1
  <2>3. Replaced(Q, Y, x, Tail(Q[x]))
    BY <1>2, <1>3
  <2> QED  BY <1>2, <2>1, <2>2, <2>3, MoveNum
<1> QED  BY <1>6, CountSame DEF Q, Z, rw2, rp2, p

\* A daemon dies with what it was doing.
LEMMA CountDie ==
    ASSUME NEW cq, NEW rw, NEW cu \in [Daemons -> Pos \cup {-1}], NEW rp, NEW al, NEW al2,
           al2 # Daemons, NEW rq, NEW d \in Daemons, CountOK(cq, rw, cu, rp, al, rq),
           \A q \in Pos : Len(rq[q]) \in Nat
    PROVE  CountOK(cq, rw, [cu EXCEPT ![d] = -1], rp, al2, rq)
<1> DEFINE p == cu[d]
           cu2 == [cu EXCEPT ![d] = -1]
           Q == Queues(cq, rw, cu, rp)
           Z == Queues(cq, rw, cu2, rp)
           x == <<"at", d>>
<1>1. DOMAIN cu = Daemons
    OBVIOUS
<1>2. x \in DOMAIN Q /\ Q[x] = IF p = -1 THEN <<>> ELSE <<p>>
    BY DEF Queues
<1>3. Replaced(Q, Z, x, <<>>)
  <2>1. Replaced(Q, Z, x, IF -1 = -1 THEN <<>> ELSE <<-1>>)
    BY <1>1, AtReplaced
  <2> HIDE DEF Q, Z, x
  <2> QED  BY <2>1
<1>4. p = -1 \/ p \in Pos
    OBVIOUS
<1> SUFFICES ASSUME NEW q \in Pos
             PROVE  IsFiniteSet(Slots(Z, q)) /\ Cardinality(Slots(Z, q)) <= Len(rq[q])
    BY DEF CountOK
<1>5. IsFiniteSet(Slots(Q, q)) /\ Cardinality(Slots(Q, q)) <= Len(rq[q])
    BY DEF CountOK
<1> HIDE DEF p, cu2, Q, Z, x
<1>6. CASE p = -1
  <2>1. \A y \in DOMAIN Q : Z[y] = Q[y]
    BY <1>2, <1>3, <1>6 DEF Replaced
  <2>2. Slots(Z, q) = Slots(Q, q)
    BY <1>3, <2>1 DEF Slots, Replaced
  <2> QED  BY <1>5, <2>2
<1>7. CASE p \in Pos
  <2>1. p # -1
    BY <1>7, AsyncIoAssumption DEF Pos
  <2>2. Q[x] = <<p>>
    BY <1>2, <2>1
  <2>3. Q[x] \in Seq(Pos) /\ Q[x] # <<>> /\ Tail(Q[x]) = <<>>
    BY <1>7, <2>2
  <2>4. Replaced(Q, Z, x, Tail(Q[x]))
    BY <1>3, <2>3
  <2>5. /\ IsFiniteSet(Slots(Z, q))
        /\ Cardinality(Slots(Z, q)) = Cardinality(Slots(Q, q)) - (IF q = Q[x][1] THEN 1 ELSE 0)
    BY <1>2, <1>5, <2>3, <2>4, TailNum
  <2>6. /\ Cardinality(Slots(Q, q)) \in Nat /\ Cardinality(Slots(Z, q)) \in Nat
        /\ Len(rq[q]) \in Nat
    BY <1>5, <2>5, FS_CardinalityType
  <2>7. Cardinality(Slots(Z, q)) <= Cardinality(Slots(Q, q))
    BY <2>5, <2>6
  <2> QED  BY <1>5, <2>5, <2>6, <2>7
<1> QED  BY <1>4, <1>6, <1>7

-----------------------------------------------------------------------------
\* Daemon d has carried out the request at p: the message is now in rp2.
Delivered(rw, rw2, rp, rp2, p, d) ==
    /\ \A q \in Pos : q # p => Keeps(rw, rw2, q)
    /\ \A e \in Daemons : e # d => rw2[e] = rw[e]
    /\ \A q \in Pos : Keeps(rp, rp2, q)
    /\ InQ(rp2[d], p)

\* Of the memory only the error at p has changed.
ErrOnly(mem, mem2, p) ==
    /\ \A q \in Pos : /\ mem2[q].op = mem[q].op /\ mem2[q].fh = mem[q].fh
                      /\ mem2[q].h = mem[q].h /\ mem2[q].f = mem[q].f
    /\ \A q \in Pos : q # p => mem2[q] = mem[q]

\* The entry of daemon e under handle h after the request at p: none, or the
\* old one, or a file that was opened for that request.
Entry(tb, tb2, fh, rq, mem2, p, d, e, h) ==
    \/ tb2[e][h] = None
    \/ /\ tb2[e][h] = tb[e][h]
       /\ First(rq, p).f = tb[e][h] => /\ First(rq, p).kind # "open"
                                       /\ First(rq, p).kind = "close" => e # d
    \/ /\ tb2[e][h] \in Calls /\ Live(fh, tb2[e][h]) /\ fh[tb2[e][h]].no = h
       /\ \A q \in Pos : Asks(rq, q) /\ First(rq, q).f = tb2[e][h] =>
            /\ First(rq, q).kind # "close"
            /\ First(rq, q).kind = "open" => q = p /\ ~mem2[p].err

\* The parts about memory do not look at errors.
LEMMA ErrKept ==
    ASSUME NEW fh, NEW A, NEW rq, NEW mem, NEW tot, NEW grow, NEW mem2, NEW p, ErrOnly(mem, mem2, p),
           FilesOK(fh, A, rq, mem), RequestsOK(fh, A, rq, mem, tot, grow), MemoryOK(mem, tot)
    PROVE  /\ FilesOK(fh, A, rq, mem2) /\ RequestsOK(fh, A, rq, mem2, tot, grow)
           /\ MemoryOK(mem2, tot)
<1>1. FilesOK(fh, A, rq, mem2) /\ MemoryOK(mem2, tot)
    BY DEF FilesOK, MemoryOK, ErrOnly
<1>2. ASSUME NEW q \in Pos, Asks(rq, q)
      PROVE  ReqOK(q, First(rq, q), Len(rq[q]), fh, A, mem2, tot, grow)
  <2>1. ReqOK(q, First(rq, q), Len(rq[q]), fh, A, mem, tot, grow)
    BY <1>2 DEF RequestsOK
  <2>2. mem2[q].op = mem[q].op /\ mem2[q].fh = mem[q].fh
    BY DEF ErrOnly
  <2> QED  BY <2>1, <2>2 DEF ReqOK
<1> QED  BY <1>1, <1>2 DEF RequestsOK

\* The tables of the daemons after a request.
LEMMA TabServed ==
    ASSUME NEW tb, NEW fh, NEW rq, NEW rw, NEW mem, NEW rp, TabOK(tb, fh, rq, rw, mem, rp),
           NEW tb2, NEW rw2, NEW mem2, NEW rp2, NEW p \in Pos, NEW d \in Daemons,
           Delivered(rw, rw2, rp, rp2, p, d), ErrOnly(mem, mem2, p),
           \A e \in Daemons, h \in Handles : Entry(tb, tb2, fh, rq, mem2, p, d, e, h)
    PROVE  TabOK(tb2, fh, rq, rw2, mem2, rp2)
<1> SUFFICES ASSUME NEW e \in Daemons, NEW h \in Handles, tb2[e][h] # None
             PROVE  /\ tb2[e][h] \in Calls /\ Live(fh, tb2[e][h]) /\ fh[tb2[e][h]].no = h
                    /\ \A q \in Pos : Asks(rq, q) /\ First(rq, q).f = tb2[e][h] =>
                         /\ First(rq, q).kind = "close" => InQ(rw2[e], q)
                         /\ First(rq, q).kind = "open" =>
                              ~mem2[q].err /\ \E g \in Daemons : InQ(rp2[g], q)
    BY DEF TabOK
<1>1. Entry(tb, tb2, fh, rq, mem2, p, d, e, h)
    OBVIOUS
<1>2. CASE /\ tb2[e][h] = tb[e][h]
           /\ First(rq, p).f = tb[e][h] => /\ First(rq, p).kind # "open"
                                           /\ First(rq, p).kind = "close" => e # d
  <2> DEFINE g == tb[e][h]
  <2>1. /\ g \in Calls /\ Live(fh, g) /\ fh[g].no = h
        /\ \A q \in Pos : Asks(rq, q) /\ First(rq, q).f = g =>
             /\ First(rq, q).kind = "close" => InQ(rw[e], q)
             /\ First(rq, q).kind = "open" => ~mem[q].err /\ \E c \in Daemons : InQ(rp[c], q)
    BY <1>2 DEF TabOK
  <2>2. tb2[e][h] = g /\ (First(rq, p).f = g => /\ First(rq, p).kind # "open"
                                                /\ First(rq, p).kind = "close" => e # d)
    BY <1>2
  <2> HIDE DEF g
  <2>3. ASSUME NEW q \in Pos, Asks(rq, q), First(rq, q).f = g
        PROVE  /\ First(rq, q).kind = "close" => InQ(rw2[e], q)
               /\ First(rq, q).kind = "open" =>
                    ~mem2[q].err /\ \E c \in Daemons : InQ(rp2[c], q)
    <3>1. CASE q = p
      BY <2>1, <2>2, <2>3, <3>1 DEF Delivered
    <3>2. CASE q # p
      <4>1. Keeps(rw, rw2, q) /\ Keeps(rp, rp2, q) /\ mem2[q] = mem[q]
        BY <3>2 DEF Delivered, ErrOnly
      <4> QED  BY <2>1, <2>3, <4>1 DEF Keeps
    <3> QED  BY <3>1, <3>2
  <2> QED  BY <2>1, <2>2, <2>3
<1>3. CASE /\ tb2[e][h] \in Calls /\ Live(fh, tb2[e][h]) /\ fh[tb2[e][h]].no = h
           /\ \A q \in Pos : Asks(rq, q) /\ First(rq, q).f = tb2[e][h] =>
                /\ First(rq, q).kind # "close"
                /\ First(rq, q).kind = "open" => q = p /\ ~mem2[p].err
    BY <1>3 DEF Delivered
<1> QED  BY <1>1, <1>2, <1>3 DEF Entry

\* The message about p is somewhere on its way to a daemon, or at one.
Carried(cq, rw, cu, rp, p) ==
    LET Q == Queues(cq, rw, cu, rp)
    IN  \E x \in DOMAIN Q : (\A e \in Daemons : x # <<"from", e>>) /\ InQ(Q[x], p)

\* It has a request; and when that has one message only, this is not answered.
LEMMA CarriedFacts ==
    ASSUME NEW cq, NEW rw, NEW cu, NEW rp, NEW al, NEW rq \in [Pos -> Seq(Callbacks)],
           CountOK(cq, rw, cu, rp, al, rq), NEW p \in Pos, Carried(cq, rw, cu, rp, p)
    PROVE  Asks(rq, p) /\ (Len(rq[p]) = 1 => \A e \in Daemons : ~InQ(rp[e], p))
<1> DEFINE Q == Queues(cq, rw, cu, rp)
<1>1. PICK x \in DOMAIN Q : (\A e \in Daemons : x # <<"from", e>>) /\ InQ(Q[x], p)
    BY DEF Carried
<1>2. IsFiniteSet(Slots(Q, p)) /\ Cardinality(Slots(Q, p)) <= Len(rq[p])
    BY DEF CountOK
<1>3. \A e \in Daemons : <<"from", e>> \in DOMAIN Q /\ Q[<<"from", e>>] = rp[e]
    BY DEF Queues
<1> HIDE DEF Q
<1>4. PICK i \in 1..Len(Q[x]) : Q[x][i] = p
    BY <1>1 DEF InQ
<1>5. Cardinality(Slots(Q, p)) \in Nat
    BY <1>2, FS_CardinalityType
<1>6. Asks(rq, p)
  <2>1. Cardinality(Slots(Q, p)) >= 1
    BY <1>2, <1>4, SomeSlot
  <2>2. rq[p] \in Seq(Callbacks)
    OBVIOUS
  <2>3. rq[p] # <<>>
    BY <1>2, <1>5, <2>1, <2>2
  <2> QED  BY <2>3 DEF Asks
<1>7. ASSUME Len(rq[p]) = 1, NEW e \in Daemons, InQ(rp[e], p) PROVE FALSE
  <2> DEFINE y == <<"from", e>>
  <2>1. y \in DOMAIN Q /\ Q[y] = rp[e] /\ x # y
    BY <1>1, <1>3
  <2> HIDE DEF y
  <2>2. PICK j \in 1..Len(Q[y]) : Q[y][j] = p
    BY <1>7, <2>1 DEF InQ
  <2>3. Cardinality(Slots(Q, p)) >= 2
    BY <1>2, <1>4, <2>1, <2>2, TwoSlots
  <2> QED  BY <1>2, <1>5, <1>7, <2>3
<1> QED  BY <1>6, <1>7

-----------------------------------------------------------------------------
\* The tables of the daemons.
Tables == [Daemons -> [Handles -> OptCalls]]

\* What getmsg () needs to know of the request it has: its struct aiod_file is
\* that of the file which it opens, reads or writes, or closes for close ().
LEMMA RequestFile ==
    ASSUME NEW k \in Client, NEW R, NEW rp, Intact(k, R, rp), NEW p \in Pos, Asks(k.rqtab, p)
    PROVE  LET m == k.mem[p]
               cb == First(k.rqtab, p)
           IN  /\ cb \in Callbacks
               /\ cb.kind # "close" => Len(k.rqtab[p]) = 1
               /\ m.op \in {"nop", "path", "open", "rw", "close"}
               /\ m.op \in {"nop", "path"} => cb.kind \in {"path", "grow1", "grow2"}
               /\ m.op \in {"open", "rw", "close"} => cb.kind = m.op /\ cb.f \in Calls
               /\ m.op \in {"open", "rw"} \/ (m.op = "close" /\ Live(k.fh, cb.f)) =>
                    /\ Live(k.fh, cb.f) /\ m.fh = k.fh[cb.f].pos /\ m.fh \in Pos
                    /\ k.mem[m.fh].op = "file" /\ k.mem[m.fh].f = cb.f
                    /\ k.mem[m.fh].h = k.fh[cb.f].no /\ k.fh[cb.f].no \in Handles
               /\ m.op = "rw" => k.fh[cb.f].st = "open" /\ ~k.fh[cb.f].closed
<1> DEFINE m == k.mem[p]
           cb == First(k.rqtab, p)
           f == cb.f
<1>0. k.rqtab \in [Pos -> Seq(Callbacks)]
    BY DEF Client
<1>1. cb \in Callbacks /\ cb.kind \in {"path", "open", "rw", "close", "grow1", "grow2"}
    BY <1>0, FirstType
<1>2. ReqOK(p, cb, Len(k.rqtab[p]), k.fh, k.bufs, k.mem, k.bb.tot, k.grow)
    BY DEF Intact, RequestsOK
<1>3. cb.kind \in {"open", "rw", "close"} => f \in Calls
    BY <1>1 DEF Callbacks
<1>4. cb.kind \in {"grow1", "grow2"} => m.op = "nop"
  <2> SUFFICES ASSUME cb.kind \in {"grow1", "grow2"} PROVE m.op = "nop"
    OBVIOUS
  <2>1. p = k.bb.tot /\ MemoryOK(k.mem, k.bb.tot)
    BY <1>2 DEF ReqOK, Intact
  <2>2. p \in Int
    BY AsyncIoAssumption DEF Pos
  <2>3. p >= k.bb.tot
    BY <2>1, <2>2
  <2> QED  BY <2>1, <2>3 DEF MemoryOK
<1>5. cb.kind \notin {"grow1", "grow2"} => m.op = cb.kind
    BY <1>2 DEF ReqOK
<1>6. cb.kind # "close" => Len(k.rqtab[p]) = 1
    BY <1>2 DEF ReqOK
<1>7. /\ cb.kind \in {"open", "rw"} => Live(k.fh, f) /\ m.fh = k.fh[f].pos
      /\ cb.kind = "close" /\ Live(k.fh, f) => m.fh = k.fh[f].pos
      /\ cb.kind = "rw" => k.fh[f].st = "open" /\ ~k.fh[f].closed
    BY <1>2 DEF ReqOK, Live
<1>8. ASSUME f \in Calls, Live(k.fh, f)
      PROVE  /\ k.fh[f].pos \in Pos /\ k.mem[k.fh[f].pos].op = "file"
             /\ k.mem[k.fh[f].pos].f = f
             /\ k.mem[k.fh[f].pos].h = k.fh[f].no /\ k.fh[f].no \in Handles
  <2> HIDE DEF f
  <2>1. FilesOK(k.fh, k.bufs, k.rqtab, k.mem) /\ NumbersOK(k.fh, k.avail, k.ctr)
    BY DEF Intact
  <2>2. k.fh[f].no \in 1..(k.ctr - 1) /\ k.ctr \in 1..(NCalls + 1)
    BY <1>8, <2>1 DEF NumbersOK
  <2>3. \A n \in 1..(NCalls + 1) : \A i \in 1..(n - 1) : i \in 1..NCalls
    BY AsyncIoAssumption
  <2>4. k.fh[f].no \in Handles
    BY <2>2, <2>3 DEF Handles
  <2> QED  BY <1>8, <2>1, <2>4 DEF FilesOK
<1> HIDE DEF m, cb, f
<1>9. /\ m.op \in {"nop", "path", "open", "rw", "close"}
      /\ m.op \in {"nop", "path"} => cb.kind \in {"path", "grow1", "grow2"}
      /\ m.op \in {"open", "rw", "close"} => cb.kind = m.op /\ f \in Calls
    BY <1>1, <1>3, <1>4, <1>5
<1>10. m.op \in {"open", "rw"} \/ (m.op = "close" /\ Live(k.fh, f)) =>
          Live(k.fh, f) /\ m.fh = k.fh[f].pos
    BY <1>7, <1>9
<1>11. m.op = "rw" => k.fh[f].st = "open" /\ ~k.fh[f].closed
    BY <1>7, <1>9
<1> QED  BY <1>1, <1>6, <1>8, <1>9, <1>10, <1>11, Zenon DEF m, cb, f

\* Requests on a file that is read or written neither open nor close it.
LEMMA OthersOpen ==
    ASSUME NEW k \in Client, NEW R, NEW rp, Intact(k, R, rp), NEW f \in Calls,
           k.fh[f].st = "open", ~k.fh[f].closed, NEW q \in Pos, Asks(k.rqtab, q),
           First(k.rqtab, q).f = f
    PROVE  First(k.rqtab, q).kind \notin {"open", "close"}
<1>1. ReqOK(q, First(k.rqtab, q), Len(k.rqtab[q]), k.fh, k.bufs, k.mem, k.bb.tot, k.grow)
    BY DEF Intact, RequestsOK
<1> QED  BY <1>1 DEF ReqOK

\* An entry of the table of daemon d is assigned.
Assign(tb, d, h, v) == [tb EXCEPT ![d][h] = v]

\* That entry is v, and the others are as before.
LEMMA TableSet ==
    ASSUME NEW tb \in Tables, NEW d \in Daemons, NEW h, NEW v \in OptCalls
    PROVE  /\ Assign(tb, d, h, v) \in Tables
           /\ h \in Handles => Assign(tb, d, h, v)[d][h] = v
           /\ \A e \in Daemons, g \in Handles :
                e # d \/ g # h => Assign(tb, d, h, v)[e][g] = tb[e][g]
<1>1. tb[d] \in [Handles -> OptCalls]
    BY DEF Tables
<1>2. [tb[d] EXCEPT ![h] = v] \in [Handles -> OptCalls]
    BY <1>1
<1> QED  BY <1>1, <1>2 DEF Tables, Assign

\* The tables after fhtab::create (), lookup () and close (), and after a NOP.
LEMMA ServedTable ==
    ASSUME cl \in Client, Intact(cl, {}, reply), tab \in Tables, ~stale,
           NEW d \in Daemons, NEW p \in Pos, Asks(cl.rqtab, p),
           Len(cl.rqtab[p]) = 1 => \A e \in Daemons : ~InQ(reply[e], p),
           NEW err \in BOOLEAN, NEW mem2, mem2[p].err = err,
           \/ AiosrvNop(cl.mem[p]) \/ AiosrvPathop(cl.mem[p], err) \/ FhtabCreate(d, cl.mem[p], err)
           \/ FhtabLookup(d, cl.mem[p], err) \/ FhtabClose(d, cl.mem[p], err)
    PROVE  /\ tab' \in Tables /\ ~stale'
           /\ \A e \in Daemons, h \in Handles :
                Entry(tab, tab', cl.fh, cl.rqtab, mem2, p, d, e, h)
<1> DEFINE m == cl.mem[p]
           cb == First(cl.rqtab, p)
           f == cb.f
           rq == cl.rqtab
           fh == cl.fh
<1>0. cl \in Client /\ rq \in [Pos -> Seq(Callbacks)]
    BY DEF Client
<1>1. /\ cb \in Callbacks
      /\ cb.kind # "close" => Len(rq[p]) = 1
      /\ m.op \in {"nop", "path", "open", "rw", "close"}
      /\ m.op \in {"nop", "path"} => cb.kind \in {"path", "grow1", "grow2"}
      /\ m.op \in {"open", "rw", "close"} => cb.kind = m.op /\ f \in Calls
      /\ m.op \in {"open", "rw"} \/ (m.op = "close" /\ Live(fh, f)) =>
           /\ Live(fh, f) /\ m.fh = fh[f].pos /\ m.fh \in Pos
           /\ cl.mem[m.fh].op = "file" /\ cl.mem[m.fh].f = f
           /\ cl.mem[m.fh].h = fh[f].no /\ fh[f].no \in Handles
      /\ m.op = "rw" => fh[f].st = "open" /\ ~fh[f].closed
    BY <1>0, RequestFile
<1>2. TabOK(tab, fh, rq, cl.rw, cl.mem, reply)
    BY DEF Intact
<1>3. None \notin Calls /\ None \in OptCalls /\ Calls \subseteq OptCalls
    BY AsyncIoAssumption DEF None, Calls, OptCalls
<1> DEFINE Left(e, h) == /\ tab'[e][h] = tab[e][h]
                         /\ f = tab[e][h] => cb.kind # "open" /\ (cb.kind = "close" => e # d)
<1>4. \A e \in Daemons, h \in Handles : Left(e, h) => Entry(tab, tab', fh, rq, mem2, p, d, e, h)
    BY DEF Entry
<1>5. CASE AiosrvNop(m) \/ AiosrvPathop(m, err)
  <2>1. tab' = tab /\ stale' = stale /\ m.op \in {"nop", "path"}
    BY <1>5 DEF AiosrvNop, AiosrvPathop
  <2>2. \A e \in Daemons, h \in Handles : Left(e, h)
    BY <1>1, <2>1
  <2> QED  BY <1>4, <2>1, <2>2
<1>6. CASE FhtabCreate(d, m, err)
  <2> DEFINE n == fh[f].no
             v == IF err THEN None ELSE f
  <2>1. m.op = "open" /\ tab' = [tab EXCEPT ![d][cl.mem[m.fh].h] = IF err THEN None ELSE cl.mem[m.fh].f]
        /\ stale' = stale
    BY <1>6 DEF FhtabCreate, FhtabAlloc
  <2>2. tab' = [tab EXCEPT ![d][n] = v] /\ v \in OptCalls /\ n \in Handles
        /\ cb.kind = "open" /\ f \in Calls /\ Live(fh, f) /\ Len(rq[p]) = 1
    BY <1>1, <1>3, <2>1, Zenon
  <2>3. /\ tab' \in Tables /\ tab'[d][n] = v
        /\ \A e \in Daemons, g \in Handles : e # d \/ g # n => tab'[e][g] = tab[e][g]
    <3>1. tab' = Assign(tab, d, n, v)
      BY <2>2 DEF Assign
    <3>2. v \in OptCalls /\ n \in Handles
      BY <2>2
    <3> HIDE DEF n, v
    <3> QED  BY <3>1, <3>2, TableSet
  <2>4. ASSUME NEW e \in Daemons, NEW h \in Handles, e # d \/ h # n PROVE Left(e, h)
    <3>1. tab'[e][h] = tab[e][h]
      BY <2>3, <2>4
    <3>2. f # tab[e][h]
      <4> SUFFICES ASSUME f = tab[e][h] PROVE FALSE
        OBVIOUS
      <4>1. \E c \in Daemons : InQ(reply[c], p)
        BY <1>2, <1>3, <2>2 DEF TabOK
      <4> QED  BY <2>2, <4>1
    <3> QED  BY <3>1, <3>2
  <2>5. Entry(tab, tab', fh, rq, mem2, p, d, d, n)
    <3>1. CASE err
      BY <2>3, <3>1 DEF Entry
    <3>2. CASE ~err
      <4>1. tab'[d][n] = f
        BY <2>3, <3>2
      <4>2. ASSUME NEW q \in Pos, Asks(rq, q), First(rq, q).f = f PROVE q = p
        <5>1. RequestsOK(cl.fh, cl.bufs, cl.rqtab, cl.mem, cl.bb.tot, cl.grow)
          BY DEF Intact
        <5> QED  BY <1>0, <2>2, <4>2, <5>1, Alone
      <4> QED  BY <2>2, <3>2, <4>1, <4>2, Zenon DEF Entry
    <3> QED  BY <3>1, <3>2
  <2> HIDE DEF Left
  <2>6. \A e \in Daemons, h \in Handles : Entry(tab, tab', fh, rq, mem2, p, d, e, h)
    BY <1>4, <2>4, <2>5
  <2> QED  BY <2>1, <2>3, <2>6, Zenon
<1>7. CASE FhtabLookup(d, m, err)
  <2> DEFINE n == fh[f].no
             v == IF err THEN None ELSE f
  <2>1. m.op = "rw"
    BY <1>7 DEF FhtabLookup
  <2>2. /\ cl.mem[m.fh].h = n /\ cl.mem[m.fh].f = f /\ v \in OptCalls /\ n \in Handles
        /\ cb.kind = "rw" /\ f \in Calls /\ Live(fh, f) /\ fh[f].st = "open" /\ ~fh[f].closed
    BY <1>1, <1>3, <2>1
  <2>3. CASE tab[d][n] = f
    <3>1. tab' = tab /\ stale' = stale
      BY <1>7, <2>2, <2>3 DEF FhtabLookup
    <3>2. \A e \in Daemons, h \in Handles : Left(e, h)
      BY <2>2, <3>1
    <3> QED  BY <1>4, <3>1, <3>2
  <2>4. CASE tab[d][n] # f
    <3>1. tab' = [tab EXCEPT ![d][n] = v] /\ stale' = (stale \/ tab[d][n] # None)
      BY <1>7, <2>2, <2>4, Zenon DEF FhtabLookup, FhtabAlloc
    <3>2. tab[d][n] = None
      <4> SUFFICES ASSUME tab[d][n] # None PROVE FALSE
        OBVIOUS
      <4>1. tab[d][n] \in Calls /\ Live(fh, tab[d][n]) /\ fh[tab[d][n]].no = n
        BY <1>2, <2>2, Zenon DEF TabOK
      <4>2. NumbersOK(cl.fh, cl.avail, cl.ctr)
        BY DEF Intact
      <4> QED  BY <2>2, <2>4, <4>1, <4>2, Zenon DEF NumbersOK
    <3>3. /\ tab' \in Tables /\ tab'[d][n] = v
          /\ \A e \in Daemons, g \in Handles : e # d \/ g # n => tab'[e][g] = tab[e][g]
      <4>1. tab' = Assign(tab, d, n, v)
        BY <3>1 DEF Assign
      <4> HIDE DEF n, v
      <4> QED  BY <2>2, <4>1, TableSet
    <3>4. \A e \in Daemons, h \in Handles : e # d \/ h # n => Left(e, h)
      BY <2>2, <3>3
    <3>5. Entry(tab, tab', fh, rq, mem2, p, d, d, n)
      <4>1. CASE err
        BY <3>3, <4>1 DEF Entry
      <4>2. CASE ~err
        <5>1. tab'[d][n] = f
          BY <3>3, <4>2
        <5>2. ASSUME NEW q \in Pos, Asks(rq, q), First(rq, q).f = f
              PROVE  First(rq, q).kind \notin {"open", "close"}
          BY <1>0, <2>2, <5>2, OthersOpen
        <5> QED  BY <2>2, <5>1, <5>2 DEF Entry
      <4> QED  BY <4>1, <4>2
    <3> HIDE DEF Left
    <3>6. \A e \in Daemons, h \in Handles : Entry(tab, tab', fh, rq, mem2, p, d, e, h)
      BY <1>4, <3>4, <3>5
    <3> QED  BY <3>1, <3>2, <3>3, <3>6, Zenon
  <2> QED  BY <2>3, <2>4
<1>8. CASE FhtabClose(d, m, err)
  <2>1. PICK g \in HandleAt(m.fh) : tab' = IF g = None THEN tab ELSE [tab EXCEPT ![d][g] = None]
    BY <1>8, Zenon DEF FhtabClose
  <2>2. m.op = "close" /\ stale' = stale
    BY <1>8 DEF FhtabClose
  <2>3. cb.kind = "close" /\ f \in Calls
    BY <1>1, <2>2
  <2>4. tab' \in Tables /\ \A e \in Daemons, h \in Handles :
             /\ e # d => tab'[e][h] = tab[e][h]
             /\ tab'[e][h] = tab[e][h] \/ tab'[e][h] = None
             /\ e = d /\ h = g /\ g # None => tab'[e][h] = None
    <3>1. CASE g = None
      BY <2>1, <3>1
    <3>2. CASE g # None
      <4>1. tab' = Assign(tab, d, g, None)
        BY <2>1, <3>2 DEF Assign
      <4>2. /\ tab' \in Tables /\ (g \in Handles => tab'[d][g] = None)
            /\ \A e \in Daemons, h \in Handles : e # d \/ h # g => tab'[e][h] = tab[e][h]
        BY <1>3, <4>1, TableSet
      <4> QED  BY <4>2
    <3> QED  BY <3>1, <3>2
  <2>5. ASSUME NEW h \in Handles, tab[d][h] = f PROVE tab'[d][h] = None
    <3>1. Live(fh, f) /\ fh[f].no = h
      BY <1>2, <1>3, <2>3, <2>5 DEF TabOK
    <3>2. cl.mem[m.fh].op = "file" /\ cl.mem[m.fh].h = h
      BY <1>1, <2>2, <3>1
    <3>3. g = h
      BY <2>1, <3>2 DEF HandleAt
    <3>4. h # None
      BY DEF Handles, None
    <3> QED  BY <2>4, <3>3, <3>4
  <2>6. ASSUME NEW e \in Daemons, NEW h \in Handles
        PROVE  Entry(tab, tab', fh, rq, mem2, p, d, e, h)
    <3>1. CASE tab'[e][h] = None
      BY <3>1 DEF Entry
    <3>2. CASE tab'[e][h] # None
      <4>1. tab'[e][h] = tab[e][h]
        BY <2>4, <3>2
      <4>2. f = tab[e][h] => e # d
        BY <2>5, <3>2
      <4> QED  BY <1>4, <2>3, <4>1, <4>2
    <3> QED  BY <3>1, <3>2
  <2> QED  BY <2>2, <2>4, <2>6
<1> QED  BY <1>5, <1>6, <1>7, <1>8

-----------------------------------------------------------------------------
\* The invariant of the system, for an application that is careful.
RequestsInv == Held(cl, {}, reply) /\ tab \in Tables /\ ~stale

\* Queue q of daemon d has one more element.
Delivery(rp, d, p) == [rp EXCEPT ![d] = Append(rp[d], p)]

\* All that was delivered is there still.
LEMMA DeliveryKeeps ==
    ASSUME NEW rp \in [Daemons -> Seq(Pos)], NEW d \in Daemons, NEW p \in Pos
    PROVE  InQ(Delivery(rp, d, p)[d], p) /\ \A q \in Pos : Keeps(rp, Delivery(rp, d, p), q)
<1>1. Delivery(rp, d, p)[d] = Append(rp[d], p)
      /\ \A e \in Daemons : e # d => Delivery(rp, d, p)[e] = rp[e]
    BY DEF Delivery
<1>2. rp[d] \in Seq(Pos)
    OBVIOUS
<1> QED  BY <1>1, <1>2, InQFacts, Zenon DEF Keeps

\* The rest of the invariant when getmsg () has changed an error.
LEMMA ServedIntact ==
    ASSUME NEW k \in Client, NEW x \in Client, Intact(k, {}, reply), NEW p \in Pos,
           x = [k EXCEPT !.rw = x.rw, !.mem = x.mem], ErrOnly(k.mem, x.mem, p),
           CountOK(x.cq, x.rw, cur', reply', alive', x.rqtab),
           TabOK(tab', x.fh, x.rqtab, x.rw, x.mem, reply'), cl' = x
    PROVE  Held(cl, {}, reply)'
<1>1. /\ x.fh = k.fh /\ x.bufs = k.bufs /\ x.rqtab = k.rqtab /\ x.avail = k.avail
      /\ x.ctr = k.ctr /\ x.bb = k.bb /\ x.grow = k.grow /\ x.wait = k.wait /\ x.ans = k.ans
    BY DEF Client
<1>2. /\ FilesOK(k.fh, k.bufs, k.rqtab, k.mem) /\ NumbersOK(k.fh, k.avail, k.ctr)
      /\ RequestsOK(k.fh, k.bufs, k.rqtab, k.mem, k.bb.tot, k.grow)
      /\ WaitersOK(k.wait, {}, k.fh, k.rqtab, k.ans) /\ MemoryOK(k.mem, k.bb.tot)
    BY DEF Intact
<1>3. /\ FilesOK(k.fh, k.bufs, k.rqtab, x.mem) /\ MemoryOK(x.mem, k.bb.tot)
      /\ RequestsOK(k.fh, k.bufs, k.rqtab, x.mem, k.bb.tot, k.grow)
    BY <1>2, ErrKept
<1> QED  BY <1>1, <1>2, <1>3 DEF Held, Intact

\* aiosrv::getmsg () at daemon d.
LEMMA GetmsgHeld ==
    ASSUME ClientInv, ~cl.closed, RequestsInv, NEW d \in Daemons, NEW p \in Pos,
           NEW rw2 \in [Daemons -> Seq(Pos)], Getmsg([cl EXCEPT !.rw = rw2], d, p),
           \A q \in Pos : q # p => Keeps(cl.rw, rw2, q),
           \A e \in Daemons : e # d => rw2[e] = cl.rw[e],
           Carried(cl.cq, cl.rw, cur, reply, p),
           CountOK(cl.cq, rw2, cur', Delivery(reply, d, p), alive', cl.rqtab)
    PROVE  RequestsInv'
<1>0. /\ cl \in Client /\ Intact(cl, {}, reply) /\ tab \in Tables /\ ~stale
      /\ reply \in [Daemons -> Seq(Pos)] /\ cl.rqtab \in [Pos -> Seq(Callbacks)]
    BY GoodClient DEF ClientInv, RequestsInv, Held, Client
<1>1. CountOK(cl.cq, cl.rw, cur, reply, alive, cl.rqtab)
      /\ TabOK(tab, cl.fh, cl.rqtab, cl.rw, cl.mem, reply)
    BY <1>0 DEF Intact
<1>2. Asks(cl.rqtab, p) /\ (Len(cl.rqtab[p]) = 1 => \A e \in Daemons : ~InQ(reply[e], p))
    BY <1>0, <1>1, CarriedFacts
<1>3. PICK err \in BOOLEAN :
          /\ cl' = [[cl EXCEPT !.rw = rw2] EXCEPT !.mem[p].err = err]
          /\ reply' = [reply EXCEPT ![d] = Append(@, p)]
          /\ \/ AiosrvNop(cl.mem[p]) \/ AiosrvPathop(cl.mem[p], err) \/ FhtabCreate(d, cl.mem[p], err)
             \/ FhtabLookup(d, cl.mem[p], err) \/ FhtabClose(d, cl.mem[p], err)
    BY Zenon DEF Getmsg
<1> DEFINE m == [cl.mem[p] EXCEPT !.err = err]
           mem2 == [cl.mem EXCEPT ![p] = m]
           x == [cl EXCEPT !.rw = rw2, !.mem = mem2]
<1>4. cl' = x
    BY <1>0, <1>3 DEF Client
<1>5. /\ m.err = err /\ m.op = cl.mem[p].op /\ m.fh = cl.mem[p].fh /\ m.h = cl.mem[p].h
      /\ m.f = cl.mem[p].f /\ m \in Contents /\ cl.mem \in [Pos -> Contents]
  <2>1. cl.mem \in [Pos -> Contents]
    BY <1>0 DEF Client
  <2>2. cl.mem[p] \in Contents
    BY <2>1
  <2> QED  BY <2>1, <2>2 DEF Contents
<1>6. mem2 \in [Pos -> Contents] /\ mem2[p].err = err /\ ErrOnly(cl.mem, mem2, p)
  <2> HIDE DEF m
  <2> QED  BY <1>5 DEF ErrOnly
<1> HIDE DEF m, mem2
<1>7. x \in Client /\ x.rw = rw2 /\ x.mem = mem2 /\ x = [cl EXCEPT !.rw = x.rw, !.mem = x.mem]
      /\ x.cq = cl.cq /\ x.rqtab = cl.rqtab /\ x.fh = cl.fh
    BY <1>0, <1>6 DEF Client
<1>8. reply' = Delivery(reply, d, p)
    BY <1>3 DEF Delivery
<1>9. Delivered(cl.rw, rw2, reply, reply', p, d)
  <2>1. InQ(reply'[d], p) /\ \A q \in Pos : Keeps(reply, reply', q)
    BY <1>0, <1>8, DeliveryKeeps
  <2> QED  BY <2>1 DEF Delivered
<1>10. /\ tab' \in Tables /\ ~stale'
       /\ \A e \in Daemons, h \in Handles :
            Entry(tab, tab', cl.fh, cl.rqtab, mem2, p, d, e, h)
    BY <1>0, <1>2, <1>3, <1>6, ServedTable
<1>11. TabOK(tab', cl.fh, cl.rqtab, rw2, mem2, reply')
    BY <1>1, <1>6, <1>9, <1>10, TabServed
<1> HIDE DEF x
<1>12. Held(cl, {}, reply)'
    BY <1>0, <1>4, <1>6, <1>7, <1>8, <1>11, ServedIntact
<1> QED  BY <1>10, <1>12 DEF RequestsInv

-----------------------------------------------------------------------------
\* msg_loop () carries out the request it has read.
LEMMA ServeHeld ==
    ASSUME ClientInv, RequestsInv, NEW d \in Daemons, Serve(d)
    PROVE  RequestsInv'
<1> DEFINE p == cur[d]
<1>0. cl \in Client /\ cur \in [Daemons -> Pos \cup {-1}] /\ reply \in [Daemons -> Seq(Pos)]
    BY GoodClient DEF ClientInv
<1>1. /\ ~cl.closed /\ p # -1 /\ Getmsg(cl, d, p) /\ cur' = [cur EXCEPT ![d] = -1]
      /\ alive' = alive
    BY DEF Serve
<1>2. p \in Pos /\ cl = [cl EXCEPT !.rw = cl.rw] /\ cl.rw \in [Daemons -> Seq(Pos)]
    BY <1>0, <1>1 DEF Client
<1>3. CountOK(cl.cq, cl.rw, cur, reply, alive, cl.rqtab)
    BY <1>1 DEF RequestsInv, Held, Intact
<1>4. CountOK(cl.cq, cl.rw, cur', Delivery(reply, d, p), alive', cl.rqtab)
  <2>1. CountOK(cl.cq, cl.rw, [cur EXCEPT ![d] = -1], [reply EXCEPT ![d] = Append(reply[d], cur[d])],
                alive, cl.rqtab)
    BY <1>0, <1>1, <1>3, CountServe
  <2> QED  BY <1>1, <2>1 DEF Delivery
<1>5. Carried(cl.cq, cl.rw, cur, reply, p)
  <2> DEFINE Q == Queues(cl.cq, cl.rw, cur, reply)
             x == <<"at", d>>
  <2>1. x \in DOMAIN Q /\ Q[x] = <<p>> /\ \A e \in Daemons : x # <<"from", e>>
    BY <1>1 DEF Queues
  <2>2. InQ(<<p>>, p)
    BY DEF InQ
  <2> HIDE DEF Q, x
  <2>3. \E y \in DOMAIN Q : (\A e \in Daemons : y # <<"from", e>>) /\ InQ(Q[y], p)
    BY <2>1, <2>2
  <2> QED  BY <2>3 DEF Carried, Q
<1>6. Getmsg([cl EXCEPT !.rw = cl.rw], d, p)
    BY <1>1, <1>2
<1>7. \A q \in Pos : q # p => Keeps(cl.rw, cl.rw, q)
    BY DEF Keeps
<1> HIDE DEF p
<1> QED  BY <1>1, <1>2, <1>4, <1>5, <1>6, <1>7, GetmsgHeld

\* sigio_handler () carries out a request from the daemon's socket.
LEMMA SigioHeld ==
    ASSUME ClientInv, RequestsInv, NEW d \in Daemons, SigioHandler(d)
    PROVE  RequestsInv'
<1> DEFINE p == cl.rw[d][1]
           rw2 == [cl.rw EXCEPT ![d] = Tail(cl.rw[d])]
<1>0. cl \in Client /\ cl.rw \in [Daemons -> Seq(Pos)] /\ reply \in [Daemons -> Seq(Pos)]
    BY GoodClient DEF ClientInv, Client
<1>1. /\ ~cl.closed /\ cl.rw[d] # <<>> /\ Getmsg([cl EXCEPT !.rw[d] = Tail(@)], d, Head(cl.rw[d]))
      /\ cur' = cur /\ alive' = alive
    BY DEF SigioHandler
<1>2. cl.rw[d] \in Seq(Pos) /\ p \in Pos /\ Head(cl.rw[d]) = p /\ Tail(cl.rw[d]) \in Seq(Pos)
      /\ 1 \in 1..Len(cl.rw[d])
    BY <1>0, <1>1
<1>3. [cl EXCEPT !.rw[d] = Tail(@)] = [cl EXCEPT !.rw = rw2] /\ rw2 \in [Daemons -> Seq(Pos)]
    BY <1>0, <1>2 DEF Client
<1>4. Getmsg([cl EXCEPT !.rw = rw2], d, p)
    BY <1>1, <1>2, <1>3
<1>5. CountOK(cl.cq, cl.rw, cur, reply, alive, cl.rqtab)
    BY <1>1 DEF RequestsInv, Held, Intact
<1>6. CountOK(cl.cq, rw2, cur', Delivery(reply, d, p), alive', cl.rqtab)
  <2>1. CountOK(cl.cq, [cl.rw EXCEPT ![d] = Tail(cl.rw[d])], cur,
                [reply EXCEPT ![d] = Append(reply[d], cl.rw[d][1])], alive, cl.rqtab)
    BY <1>0, <1>1, <1>5, CountSigio
  <2> QED  BY <1>1, <2>1 DEF Delivery
<1>7. Carried(cl.cq, cl.rw, cur, reply, p)
  <2> DEFINE Q == Queues(cl.cq, cl.rw, cur, reply)
             x == <<"to", d>>
  <2>1. x \in DOMAIN Q /\ Q[x] = cl.rw[d] /\ \A e \in Daemons : x # <<"from", e>>
    BY DEF Queues
  <2>2. InQ(cl.rw[d], p)
    BY <1>2 DEF InQ
  <2> HIDE DEF Q, x, p
  <2>3. \E y \in DOMAIN Q : (\A e \in Daemons : y # <<"from", e>>) /\ InQ(Q[y], p)
    BY <2>1, <2>2
  <2> QED  BY <2>3 DEF Carried, Q
<1>8. rw2[d] = Tail(cl.rw[d]) /\ \A e \in Daemons : e # d => rw2[e] = cl.rw[e]
    BY <1>0
<1>9. ASSUME NEW q \in Pos, q # p PROVE Keeps(cl.rw, rw2, q)
  <2>1. InQ(cl.rw[d], q) => InQ(Tail(cl.rw[d]), q)
    BY <1>1, <1>2, <1>9, InQFacts
  <2> HIDE DEF rw2
  <2> QED  BY <1>8, <2>1 DEF Keeps
<1> HIDE DEF p, rw2
<1> QED  BY <1>1, <1>2, <1>3, <1>4, <1>6, <1>7, <1>8, <1>9, GetmsgHeld

\* msg_loop () takes a request from the pipe.
LEMMA TakeHeld ==
    ASSUME ClientInv, RequestsInv, NEW d \in Daemons, Take(d)
    PROVE  RequestsInv'
<1>0. cl \in Client /\ cur \in [Daemons -> Pos \cup {-1}] /\ cl.cq \in Seq(Pos)
    BY GoodClient DEF ClientInv, Client
<1>1. /\ ~cl.closed /\ cur[d] = -1 /\ cl.cq # <<>> /\ cur' = [cur EXCEPT ![d] = Head(cl.cq)]
      /\ cl' = [cl EXCEPT !.cq = Tail(@)] /\ UNCHANGED <<tab, reply, alive, stale>>
    BY DEF Take
<1>2. Intact(cl, {}, reply) /\ tab \in Tables /\ ~stale
    BY <1>1 DEF RequestsInv, Held
<1>3. Head(cl.cq) = cl.cq[1]
    BY <1>0, <1>1
<1>4. CountOK(Tail(cl.cq), cl.rw, cur', reply', alive', cl.rqtab)
  <2>1. CountOK(cl.cq, cl.rw, cur, reply, alive, cl.rqtab) /\ DOMAIN cur = Daemons
    BY <1>0, <1>2 DEF Intact
  <2>2. CountOK(Tail(cl.cq), cl.rw, [cur EXCEPT ![d] = cl.cq[1]], reply, alive, cl.rqtab)
    BY <1>0, <1>1, <2>1, CountTake
  <2> QED  BY <1>1, <1>3, <2>2
<1>5. /\ cl'.cq = Tail(cl.cq) /\ cl'.rw = cl.rw /\ cl'.rqtab = cl.rqtab /\ cl'.fh = cl.fh
      /\ cl'.bufs = cl.bufs /\ cl'.mem = cl.mem /\ cl'.avail = cl.avail /\ cl'.ctr = cl.ctr
      /\ cl'.bb = cl.bb /\ cl'.grow = cl.grow /\ cl'.wait = cl.wait /\ cl'.ans = cl.ans
    BY <1>0, <1>1 DEF Client
<1>6. tab' = tab /\ reply' = reply /\ stale' = stale
    BY <1>1
<1>7. Intact(cl, {}, reply)'
    BY <1>2, <1>4, <1>5, <1>6 DEF Intact
<1> QED  BY <1>2, <1>6, <1>7 DEF RequestsInv, Held

\* A daemon dies.
LEMMA DieHeld ==
    ASSUME ClientInv, RequestsInv, NEW d \in Daemons, Die(d)
    PROVE  RequestsInv'
<1>0. /\ cl \in Client /\ cur \in [Daemons -> Pos \cup {-1}]
      /\ cl.rqtab \in [Pos -> Seq(Callbacks)]
    BY GoodClient DEF ClientInv, Client
<1>1. /\ alive' = alive \ {d} /\ cur' = [cur EXCEPT ![d] = -1] /\ cl' = cl /\ tab' = tab
      /\ reply' = reply /\ stale' = stale
    BY DEF Die
<1>2. alive' # Daemons /\ \A q \in Pos : Len(cl.rqtab[q]) \in Nat
    BY <1>0, <1>1
<1>3. ASSUME ~cl.closed PROVE Intact(cl, {}, reply)'
  <2>1. Intact(cl, {}, reply)
    BY <1>3 DEF RequestsInv, Held
  <2>2. CountOK(cl.cq, cl.rw, cur, reply, alive, cl.rqtab)
    BY <2>1 DEF Intact
  <2>3. CountOK(cl.cq, cl.rw, cur', reply, alive', cl.rqtab)
    BY <1>0, <1>1, <1>2, <2>2, CountDie
  <2> QED  BY <1>1, <2>1, <2>3 DEF Intact
<1> QED  BY <1>1, <1>3 DEF RequestsInv, Held

\* At first nothing is under way.
LEMMA RequestsInit ==
    ASSUME Init
    PROVE  RequestsInv
<1> DEFINE k == InitClient
<1>0. /\ cl = k /\ tab = [d \in Daemons |-> [h \in Handles |-> None]]
      /\ cur = [d \in Daemons |-> -1] /\ reply = [d \in Daemons |-> <<>>] /\ ~stale
    BY DEF Init
<1>1. /\ k.mem = [p \in Pos |-> Zero] /\ k.wait = <<>> /\ k.rqtab = [p \in Pos |-> <<>>]
      /\ k.cq = <<>> /\ k.rw = [d \in Daemons |-> <<>>] /\ k.avail = <<>> /\ k.ctr = 1
      /\ k.bb = NewBuddy /\ \A c \in Calls : k.fh[c].st = "none"
    BY DEF InitClient
<1> HIDE DEF k
<1>2. (\A f \in Calls : ~Live(k.fh, f)) /\ (\A p \in Pos : ~Asks(k.rqtab, p))
    BY <1>1 DEF Live, Asks
<1>3. FilesOK(k.fh, k.bufs, k.rqtab, k.mem)
    BY <1>2 DEF FilesOK
<1>4. NumbersOK(k.fh, k.avail, k.ctr)
  <2>1. 1 \in 1..(NCalls + 1)
    BY AsyncIoAssumption
  <2> QED  BY <1>1, <1>2, <2>1 DEF NumbersOK, InQ
<1>5. RequestsOK(k.fh, k.bufs, k.rqtab, k.mem, k.bb.tot, k.grow)
    BY <1>2 DEF RequestsOK, OneEach
<1>6. WaitersOK(k.wait, {}, k.fh, k.rqtab, k.ans)
    BY <1>1 DEF WaitersOK, Waiting
<1>7. MemoryOK(k.mem, k.bb.tot)
    BY <1>1 DEF MemoryOK, Zero, Content
<1>8. CountOK(k.cq, k.rw, cur, reply, alive, k.rqtab)
  <2> DEFINE Q == Queues(k.cq, k.rw, cur, reply)
  <2>1. ASSUME NEW x \in DOMAIN Q PROVE Q[x] = <<>>
    BY <1>0, <1>1, <2>1 DEF Queues
  <2> HIDE DEF Q
  <2>2. \A p \in Pos : Slots(Q, p) = {}
    BY <2>1 DEF Slots
  <2>3. \A p \in Pos : Len(k.rqtab[p]) = 0
    BY <1>1
  <2>4. IsFiniteSet({}) /\ Cardinality({}) = 0
    BY FS_EmptySet
  <2>5. \A p \in Pos : /\ IsFiniteSet(Slots(Q, p)) /\ Cardinality(Slots(Q, p)) <= Len(k.rqtab[p])
                       /\ Cardinality(Slots(Q, p)) = Len(k.rqtab[p])
    BY <2>2, <2>3, <2>4
  <2> QED  BY <2>5, Zenon DEF CountOK, Q
<1>9. tab \in Tables /\ TabOK(tab, k.fh, k.rqtab, k.rw, k.mem, reply)
    BY <1>0 DEF Tables, TabOK, OptCalls, None
<1> QED  BY <1>0, <1>3, <1>4, <1>5, <1>6, <1>7, <1>8, <1>9 DEF RequestsInv, Held, Intact

\* The steps together.
LEMMA RequestsStep ==
    ASSUME Careful, ClientInv, RequestsInv, [Next]_vars
    PROVE  RequestsInv'
<1>1. CASE UNCHANGED vars
  <2>1. cl' = cl /\ tab' = tab /\ cur' = cur /\ reply' = reply /\ alive' = alive /\ stale' = stale
    BY <1>1 DEF vars
  <2> QED  BY <2>1 DEF RequestsInv, Held, Intact
<1>2. ASSUME NEW c \in Calls, Call(c) PROVE RequestsInv'
  <2>1. Held(cl', {}, reply)
    BY <1>2, CallHeld DEF RequestsInv
  <2>2. tab' = tab /\ cur' = cur /\ reply' = reply /\ alive' = alive /\ stale' = stale
    BY <1>2 DEF Call
  <2> QED  BY <2>1, <2>2 DEF RequestsInv, Held, Intact
<1>3. ASSUME NEW d \in Daemons, Input(d) PROVE RequestsInv'
  <2>1. Held(cl', {}, reply')
    BY <1>3, InputHeld DEF RequestsInv
  <2>2. tab' = tab /\ cur' = cur /\ alive' = alive /\ stale' = stale
    BY <1>3 DEF Input
  <2> QED  BY <2>1, <2>2 DEF RequestsInv, Held, Intact
<1>4. CASE Output
  <2>1. /\ cl' = Written(InitClient, cl) /\ tab' = tab /\ cur' = cur /\ reply' = reply
        /\ alive' = alive /\ stale' = stale
    BY <1>4 DEF Output, Written
  <2>2. Held(cl', {}, reply)
    BY <2>1, WrittenHeld DEF RequestsInv, ClientInv
  <2> QED  BY <2>1, <2>2 DEF RequestsInv, Held, Intact
<1> QED  BY <1>1, <1>2, <1>3, <1>4, ServeHeld, SigioHeld, TakeHeld, DieHeld DEF Next

\* The invariant of a careful application.
LEMMA RequestsInvariance ==
    ASSUME Careful
    PROVE  Spec => []RequestsInv
<1>1. ClientInv /\ RequestsInv /\ [Next]_vars => RequestsInv'
    BY RequestsStep
<1> QED  BY <1>1, RequestsInit, ClientInvariance, PTL DEF Spec

\* When the application keeps an aiofh until close () has called back, every
\* message in flight has its callback in rqtab and its buffer, whatever the
\* order of the daemons' answers and of the waiters that bufwake () runs; while
\* all daemons live no callback is without its message; and the struct aiod_file
\* that an open, a read or a write under way refers to is that of its file.
THEOREM RequestsHeldHolds ==
    ASSUME Careful
    PROVE  Spec => []RequestsHeld
<1>1. ClientInv /\ RequestsInv => RequestsHeld
  <2> SUFFICES ASSUME ClientInv, RequestsInv, ~cl.closed, NEW p \in Pos
               PROVE  LET m == cl.mem[p]
                          n == Copies(p)
                      IN  /\ n <= Len(cl.rqtab[p])
                          /\ alive = Daemons => n = Len(cl.rqtab[p])
                          /\ n > 0 =>
                               /\ p = cl.bb.tot \/ \E b \in cl.bufs : b[1] = p
                               /\ m.op \in {"open", "rw"} =>
                                    LET file == cl.mem[m.fh]
                                    IN  /\ file.op = "file"
                                        /\ cl.fh[file.f].st \in {"opening", "open"}
                                        /\ cl.fh[file.f].no = file.h
                                        /\ cl.fh[file.f].pos = m.fh
    BY Zenon DEF RequestsHeld
  <2>0. cl \in Client /\ cl.rqtab \in [Pos -> Seq(Callbacks)] /\ Intact(cl, {}, reply)
    BY GoodClient DEF ClientInv, Client, RequestsInv, Held
  <2> DEFINE n == Copies(p)
             m == cl.mem[p]
  <2>1. n <= Len(cl.rqtab[p]) /\ (alive = Daemons => n = Len(cl.rqtab[p])) /\ n \in Nat
    <3>1. CountOK(cl.cq, cl.rw, cur, reply, alive, cl.rqtab)
      BY <2>0 DEF Intact
    <3> QED  BY <3>1, FS_CardinalityType DEF CountOK, Copies
  <2> HIDE DEF n
  <2>2. ASSUME n > 0
        PROVE  /\ p = cl.bb.tot \/ \E b \in cl.bufs : b[1] = p
               /\ m.op \in {"open", "rw"} =>
                    /\ cl.mem[m.fh].op = "file"
                    /\ cl.fh[cl.mem[m.fh].f].st \in {"opening", "open"}
                    /\ cl.fh[cl.mem[m.fh].f].no = cl.mem[m.fh].h
                    /\ cl.fh[cl.mem[m.fh].f].pos = m.fh
    <3>1. Asks(cl.rqtab, p)
      <4>1. cl.rqtab[p] \in Seq(Callbacks)
        BY <2>0
      <4> QED  BY <2>1, <2>2, <4>1 DEF Asks
    <3>2. ReqOK(p, First(cl.rqtab, p), Len(cl.rqtab[p]), cl.fh, cl.bufs, cl.mem, cl.bb.tot, cl.grow)
      BY <2>0, <3>1 DEF Intact, RequestsOK
    <3>3. p = cl.bb.tot \/ Holds(cl.bufs, p)
      BY <3>2 DEF ReqOK
    <3>4. m.op \in {"open", "rw"} =>
            LET f == First(cl.rqtab, p).f
            IN  /\ Live(cl.fh, f) /\ m.fh = cl.fh[f].pos /\ cl.mem[m.fh].op = "file"
                /\ cl.mem[m.fh].f = f /\ cl.mem[m.fh].h = cl.fh[f].no
      BY <2>0, <3>1, RequestFile
    <3> QED  BY <3>3, <3>4, Zenon DEF Holds, Live
  <2> QED  BY <2>1, <2>2, Zenon DEF n
<1> QED  BY <1>1, ClientInvariance, RequestsInvariance, PTL

\* For such an application the comment in fhtab::lookup () is right: no daemon
\* ever finds another file open under the handle of a request.
THEOREM NoStaleHandleHolds ==
    ASSUME Careful
    PROVE  Spec => []NoStaleHandle
<1>1. RequestsInv => NoStaleHandle
    BY DEF RequestsInv, NoStaleHandle
<1> QED  BY <1>1, RequestsInvariance, PTL
=============================================================================
