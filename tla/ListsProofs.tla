---------------------------- MODULE ListsProofs -----------------------------
(***************************************************************************)
(* What taking elements out of a list, and inserting one, preserves.       *)
(***************************************************************************)
EXTENDS Lists, FiniteSetTheorems, WellFoundedInduction, TLAPS

\* A nonempty set of naturals has a least element.
LEMMA LeastNat ==
    ASSUME NEW T, T \subseteq Nat, T # {}
    PROVE  \E x \in T : \A y \in T : x <= y
<1>1. PICK x \in T : \A y \in T : ~(<<y, x>> \in OpToRel(<, Nat))
    BY NatLessThanWellFounded, WFMin, Zenon
<1>2. \A y \in T : ~(y < x)
    BY <1>1 DEF OpToRel
<1> QED  BY <1>2

\* A set of positions of a list is finite.
LEMMA PositionsFinite ==
    ASSUME NEW n \in Nat, NEW K, \A x \in K : x \in 1..n
    PROVE  IsFiniteSet(K) /\ Cardinality(K) \in Nat
<1>1. IsFiniteSet(1..n)
    BY FS_Interval
<1>2. K \subseteq 1..n
    BY Zenon
<1> QED  BY <1>1, <1>2, FS_Subset, FS_CardinalityType, Zenon

\* Every rank up to the number of positions is the rank of some position.
LEMMA RankOnto ==
    ASSUME NEW n \in Nat, NEW K, \A x \in K : x \in 1..n, NEW r \in 1..Cardinality(K)
    PROVE  \E k \in K : Rank(K, k) = r
<1> DEFINE Upto(m) == {j \in K : j <= m}
           T == {m \in Nat : Cardinality(Upto(m)) >= r}
<1>1. IsFiniteSet(K) /\ Cardinality(K) \in Nat
    BY PositionsFinite
<1>2. \A m \in Nat : IsFiniteSet(Upto(m)) /\ Cardinality(Upto(m)) \in Nat
    BY <1>1, FS_Subset, FS_CardinalityType
<1>3. Upto(n) = K
    OBVIOUS
<1>4. n \in T
    BY <1>1, <1>3
<1>5. PICK m \in T : \A y \in T : m <= y
  <2> HIDE DEF T
  <2>1. T \subseteq Nat
    BY DEF T
  <2> QED  BY <1>4, <2>1, LeastNat
<1>6. m \in Nat /\ Cardinality(Upto(m)) >= r
    BY <1>5
<1>7. m # 0
  <2>1. Upto(0) = {}
    OBVIOUS
  <2> QED  BY <1>6, <2>1, FS_EmptySet
<1>8. ~(Cardinality(Upto(m - 1)) >= r) /\ m - 1 \in Nat
    BY <1>5, <1>6, <1>7
<1>9. m \in K
  <2>1. SUFFICES ASSUME m \notin K PROVE FALSE
    OBVIOUS
  <2>2. Upto(m) = Upto(m - 1)
    BY <1>6, <2>1
  <2> QED  BY <1>6, <1>8, <2>2
<1>10. Cardinality(Upto(m)) = Cardinality(Upto(m - 1)) + 1
  <2>1. Upto(m) = Upto(m - 1) \cup {m} /\ m \notin Upto(m - 1)
    <3>1. \A j \in K : j <= m <=> j <= m - 1 \/ j = m
        BY <1>6
    <3>2. ~(m <= m - 1)
        BY <1>6
    <3> QED  BY <1>9, <3>1, <3>2, Zenon
  <2> HIDE DEF Upto
  <2> QED  BY <1>2, <1>8, <2>1, FS_AddElement
<1> QED
  <2>1. Cardinality(Upto(m)) = r
    BY <1>2, <1>6, <1>8, <1>10
  <2> QED  BY <1>9, <2>1 DEF Rank

\* Ranks grow with positions.
LEMMA RankGrows ==
    ASSUME NEW n \in Nat, NEW K, \A x \in K : x \in 1..n, NEW j \in K, NEW k \in K, j < k
    PROVE  Rank(K, j) < Rank(K, k)
<1> DEFINE A == {i \in K : i <= j}
           B == {i \in K : i <= k}
<1>1. IsFiniteSet(B)
    BY PositionsFinite, FS_Subset
<1>2. A \subseteq B /\ A # B
    OBVIOUS
<1> QED  BY <1>1, <1>2, FS_Subset, FS_CardinalityType DEF Rank

\* Ranks count from 1 to the number of positions.
LEMMA RankType ==
    ASSUME NEW n \in Nat, NEW K, \A x \in K : x \in 1..n, NEW k \in K
    PROVE  Rank(K, k) \in 1..Cardinality(K)
<1> DEFINE A == {i \in K : i <= k}
<1>1. IsFiniteSet(K) /\ A \subseteq K /\ A # {}
    BY PositionsFinite
<1>2. Cardinality(A) \in Nat /\ Cardinality(A) # 0 /\ Cardinality(A) <= Cardinality(K)
    BY <1>1, FS_Subset, FS_CardinalityType, FS_EmptySet
<1> QED  BY <1>2, <1>1, FS_CardinalityType DEF Rank

-----------------------------------------------------------------------------
\* Keep picks the positions of s that hold members of S, in their order.
LEMMA KeepIndex ==
    ASSUME NEW A, NEW s \in Seq(A), NEW S
    PROVE  /\ Keep(s, S) \in Seq(A)
           /\ \E f \in [1..Len(Keep(s, S)) -> 1..Len(s)] :
                /\ \A i \in 1..Len(Keep(s, S)) : Keep(s, S)[i] = s[f[i]] /\ s[f[i]] \in S
                /\ \A i, j \in 1..Len(Keep(s, S)) : i < j => f[i] < f[j]
                /\ \A k \in 1..Len(s) : s[k] \in S => \E i \in 1..Len(Keep(s, S)) : f[i] = k
<1> DEFINE K == {k \in DOMAIN s : s[k] \in S}
           c == Cardinality(K)
           f == [i \in 1..c |-> CHOOSE k \in K : Rank(K, k) = i]
<1>1. Len(s) \in Nat /\ DOMAIN s = 1..Len(s) /\ \A k \in 1..Len(s) : s[k] \in A
    OBVIOUS
<1>2. \A x \in K : x \in 1..Len(s)
    BY <1>1
<1> HIDE DEF K
<1>3. c \in Nat
    BY <1>1, <1>2, PositionsFinite
<1>4. ASSUME NEW i \in 1..c PROVE f[i] \in K /\ Rank(K, f[i]) = i
  <2>1. \E k \in K : Rank(K, k) = i
    BY <1>1, <1>2, RankOnto
  <2> QED  BY <2>1
<1>5. Keep(s, S) = [i \in 1..c |-> s[f[i]]]
  <2>1. Keep(s, S) = [i \in 1..c |-> s[CHOOSE k \in K : Rank(K, k) = i]]
    BY DEF Keep, K
  <2> QED  BY <2>1, Zenon
<1> HIDE DEF c
<1> HIDE DEF f
<1>6. \A i \in 1..c : f[i] \in 1..Len(s) /\ s[f[i]] \in A /\ s[f[i]] \in S
    BY <1>1, <1>2, <1>4 DEF K
<1>7. Keep(s, S) \in Seq(A) /\ Len(Keep(s, S)) = c
    BY <1>3, <1>5, <1>6
<1>8. f \in [1..c -> 1..Len(s)]
  <2>1. f = [i \in 1..c |-> f[i]]
    BY DEF f
  <2> QED  BY <2>1, <1>6
<1>9. ASSUME NEW i \in 1..c, NEW j \in 1..c, i < j PROVE f[i] < f[j]
  <2>1. f[i] \in K /\ f[j] \in K /\ Rank(K, f[i]) = i /\ Rank(K, f[j]) = j
    BY <1>4
  <2>2. f[i] \in Nat /\ f[j] \in Nat
    BY <1>6
  <2>3. CASE f[j] < f[i]
    <3>1. j < i
        BY <1>1, <1>2, <2>1, <2>3, RankGrows
    <3> QED  BY <1>9, <1>3, <3>1
  <2>4. CASE f[j] = f[i]
    BY <1>9, <1>3, <2>1, <2>4
  <2> QED  BY <2>2, <2>3, <2>4
<1>10. ASSUME NEW k \in 1..Len(s), s[k] \in S PROVE \E i \in 1..c : f[i] = k
  <2>1. k \in K
    BY <1>1, <1>10 DEF K
  <2>2. Rank(K, k) \in 1..c
    BY <1>1, <1>2, <2>1, RankType DEF c
  <2> DEFINE r == Rank(K, k)
  <2>3. f[r] \in K /\ Rank(K, f[r]) = r
    BY <1>4, <2>2
  <2>4. k \in Nat /\ f[r] \in Nat /\ r \in Nat
    BY <1>6, <2>2, <1>3
  <2>5. CASE k < f[r]
    <3>1. Rank(K, k) < Rank(K, f[r])
        BY <1>1, <1>2, <2>1, <2>3, <2>5, RankGrows
    <3> QED  BY <3>1, <2>3, <2>4
  <2>6. CASE f[r] < k
    <3>1. Rank(K, f[r]) < Rank(K, k)
        BY <1>1, <1>2, <2>1, <2>3, <2>6, RankGrows
    <3> QED  BY <3>1, <2>3, <2>4
  <2> QED  BY <2>2, <2>4, <2>5, <2>6
<1>11. \A i \in 1..c : Keep(s, S)[i] = s[f[i]]
    BY <1>5
<1>12. \E g \in [1..c -> 1..Len(s)] :
          /\ \A i \in 1..c : Keep(s, S)[i] = s[g[i]] /\ s[g[i]] \in S
          /\ \A i, j \in 1..c : i < j => g[i] < g[j]
          /\ \A k \in 1..Len(s) : s[k] \in S => \E i \in 1..c : g[i] = k
    BY <1>6, <1>8, <1>9, <1>10, <1>11, Zenon
<1> QED  BY <1>7, <1>12, Zenon

\* What is in a list is at a position of it.
LEMMA ToSetIndex ==
    ASSUME NEW A, NEW s \in Seq(A)
    PROVE  /\ \A x : x \in ToSet(s) <=> \E k \in 1..Len(s) : s[k] = x
           /\ \A x \in ToSet(s) : x \in A
           /\ s = <<>> <=> ToSet(s) = {}
<1>1. Len(s) \in Nat /\ DOMAIN s = 1..Len(s) /\ \A k \in 1..Len(s) : s[k] \in A
    OBVIOUS
<1>2. s = <<>> <=> Len(s) = 0
    OBVIOUS
<1>3. Len(s) # 0 => 1 \in 1..Len(s)
    BY <1>1
<1>4. Len(s) = 0 => \A k \in 1..Len(s) : FALSE
    OBVIOUS
<1> QED  BY <1>1, <1>2, <1>3, <1>4, Zenon DEF ToSet

\* What is kept of a list is a list of the same elements.
LEMMA KeepType ==
    ASSUME NEW A, NEW s \in Seq(A), NEW S
    PROVE  Keep(s, S) \in Seq(A)
BY KeepIndex, Zenon

\* The elements that stay are those of s in S.
LEMMA KeepMembers ==
    ASSUME NEW A, NEW s \in Seq(A), NEW S
    PROVE  ToSet(Keep(s, S)) = ToSet(s) \cap S
<1> DEFINE r == Keep(s, S)
<1>1. r \in Seq(A)
    BY KeepIndex, Zenon
<1>2. PICK f \in [1..Len(r) -> 1..Len(s)] :
         /\ \A i \in 1..Len(r) : r[i] = s[f[i]] /\ s[f[i]] \in S
         /\ \A i, j \in 1..Len(r) : i < j => f[i] < f[j]
         /\ \A k \in 1..Len(s) : s[k] \in S => \E i \in 1..Len(r) : f[i] = k
    BY KeepIndex
<1> HIDE DEF r
<1>3. \A x : x \in ToSet(r) <=> \E k \in 1..Len(r) : r[k] = x
    BY <1>1, ToSetIndex, Zenon
<1>4. \A x : x \in ToSet(s) <=> \E k \in 1..Len(s) : s[k] = x
    BY ToSetIndex, Zenon
<1>5. ASSUME NEW x \in ToSet(r) PROVE x \in ToSet(s) \cap S
  <2>1. PICK i \in 1..Len(r) : r[i] = x
    BY <1>3
  <2> QED  BY <1>2, <1>4, <2>1
<1>6. ASSUME NEW x \in ToSet(s) \cap S PROVE x \in ToSet(r)
  <2>1. PICK k \in 1..Len(s) : s[k] = x
    BY <1>4
  <2>2. PICK i \in 1..Len(r) : f[i] = k
    BY <1>2, <2>1
  <2> QED  BY <1>2, <1>3, <2>1, <2>2
<1>7. ToSet(r) = ToSet(s) \cap S
    BY <1>5, <1>6, Zenon
<1> QED  BY <1>7 DEF r

\* A list without repetitions stays one.
LEMMA KeepInjective ==
    ASSUME NEW A, NEW s \in Seq(A), NEW S, IsInjective(s)
    PROVE  IsInjective(Keep(s, S))
<1> DEFINE r == Keep(s, S)
<1>1. r \in Seq(A)
    BY KeepIndex, Zenon
<1>2. PICK f \in [1..Len(r) -> 1..Len(s)] :
         /\ \A i \in 1..Len(r) : r[i] = s[f[i]] /\ s[f[i]] \in S
         /\ \A i, j \in 1..Len(r) : i < j => f[i] < f[j]
         /\ \A k \in 1..Len(s) : s[k] \in S => \E i \in 1..Len(r) : f[i] = k
    BY KeepIndex
<1> HIDE DEF r
<1>3. ASSUME NEW i \in 1..Len(r), NEW j \in 1..Len(r), r[i] = r[j] PROVE i = j
  <2>1. f[i] = f[j]
    BY <1>2, <1>3 DEF IsInjective
  <2>2. i \in Nat /\ j \in Nat /\ f[i] \in Nat
    BY <1>1
  <2> QED  BY <1>2, <2>1, <2>2
<1>4. IsInjective(r)
    BY <1>1, <1>3 DEF IsInjective
<1> QED  BY <1>4 DEF r

\* Two elements that stay keep their order.
LEMMA KeepOrder ==
    ASSUME NEW A, NEW s \in Seq(A), NEW S,
           NEW i \in 1..Len(Keep(s, S)), NEW j \in 1..Len(Keep(s, S)), i < j
    PROVE  \E k, l \in 1..Len(s) : k < l /\ Keep(s, S)[i] = s[k] /\ Keep(s, S)[j] = s[l]
BY KeepIndex

\* Removal takes out that element and no other.
LEMMA WithoutFacts ==
    ASSUME NEW A, NEW s \in Seq(A), NEW x
    PROVE  /\ Without(s, x) \in Seq(A)
           /\ ToSet(Without(s, x)) = ToSet(s) \ {x}
           /\ IsInjective(s) => IsInjective(Without(s, x))
<1>1. ToSet(s) \cap (ToSet(s) \ {x}) = ToSet(s) \ {x}
    BY Zenon
<1> QED  BY <1>1, KeepType, KeepMembers, KeepInjective, Zenon DEF Without

\* insert_tail () adds one element.
LEMMA AppendFacts ==
    ASSUME NEW A, NEW s \in Seq(A), NEW x \in A
    PROVE  /\ Append(s, x) \in Seq(A)
           /\ ToSet(Append(s, x)) = ToSet(s) \cup {x}
           /\ IsInjective(s) /\ x \notin ToSet(s) => IsInjective(Append(s, x))
<1>1. Append(s, x) \in Seq(A) /\ Len(Append(s, x)) = Len(s) + 1 /\ Len(s) \in Nat
    OBVIOUS
<1>2. \A i \in 1..(Len(s) + 1) : Append(s, x)[i] = IF i = Len(s) + 1 THEN x ELSE s[i]
    OBVIOUS
<1>3. \A y : y \in ToSet(s) <=> \E k \in 1..Len(s) : s[k] = y
    BY ToSetIndex, Zenon
<1>4. \A y : y \in ToSet(Append(s, x)) <=> \E k \in 1..(Len(s) + 1) : Append(s, x)[k] = y
    BY <1>1, ToSetIndex
<1>5. ASSUME NEW y PROVE y \in ToSet(Append(s, x)) <=> y \in ToSet(s) \/ y = x
  <2>1. \A k : k \in 1..(Len(s) + 1) <=> k \in 1..Len(s) \/ k = Len(s) + 1
    BY <1>1
  <2>2. Len(s) + 1 \notin 1..Len(s)
    BY <1>1
  <2> QED  BY <1>2, <1>3, <1>4, <2>1, <2>2, Zenon
<1>6. IsInjective(s) /\ x \notin ToSet(s) => IsInjective(Append(s, x))
    BY <1>1, <1>2, <1>3 DEF IsInjective
<1> QED  BY <1>1, <1>5, <1>6, Zenon

\* The tails and heads of a list without repetitions.
LEMMA TailFacts ==
    ASSUME NEW A, NEW s \in Seq(A), s # <<>>
    PROVE  /\ Tail(s) \in Seq(A) /\ Head(s) \in ToSet(s)
           /\ \A y \in ToSet(Tail(s)) : y \in ToSet(s)
           /\ IsInjective(s) => IsInjective(Tail(s)) /\ ToSet(Tail(s)) = ToSet(s) \ {Head(s)}
<1>1. /\ Tail(s) \in Seq(A) /\ Len(s) \in Nat /\ Len(s) >= 1 /\ Len(Tail(s)) = Len(s) - 1
      /\ DOMAIN s = 1..Len(s) /\ DOMAIN Tail(s) = 1..(Len(s) - 1)
    OBVIOUS
<1>2. \A k \in 1..(Len(s) - 1) : Tail(s)[k] = s[k + 1]
    OBVIOUS
<1>3. Head(s) = s[1] /\ 1 \in 1..Len(s)
    BY <1>1
<1>4. \A y : y \in ToSet(s) <=> \E k \in 1..Len(s) : s[k] = y
    BY ToSetIndex, Zenon
<1>5. \A y : y \in ToSet(Tail(s)) <=> \E k \in 1..(Len(s) - 1) : Tail(s)[k] = y
    BY <1>1, Zenon DEF ToSet
<1>6. \A k \in 1..(Len(s) - 1) : k + 1 \in 1..Len(s) /\ k + 1 # 1
    BY <1>1
<1>7. \A k \in 1..Len(s) : k = 1 \/ (k - 1 \in 1..(Len(s) - 1) /\ Tail(s)[k - 1] = s[k])
    BY <1>1, <1>2
<1>8. Head(s) \in ToSet(s)
    BY <1>3, <1>4
<1>9. \A y \in ToSet(Tail(s)) : y \in ToSet(s)
    BY <1>2, <1>4, <1>5, <1>6
<1>10. ASSUME IsInjective(s) PROVE IsInjective(Tail(s)) /\ ToSet(Tail(s)) = ToSet(s) \ {Head(s)}
  <2>1. IsInjective(Tail(s))
    BY <1>1, <1>2, <1>10 DEF IsInjective
  <2>2. ASSUME NEW y PROVE y \in ToSet(Tail(s)) <=> y \in ToSet(s) /\ y # Head(s)
    <3>1. \A k \in 1..Len(s) : s[k] = s[1] => k = 1
        BY <1>1, <1>3, <1>10 DEF IsInjective
    <3> QED  BY <1>2, <1>3, <1>4, <1>5, <1>6, <1>7, <3>1
  <2> QED  BY <2>1, <2>2, Zenon
<1> QED  BY <1>1, <1>8, <1>9, <1>10, Zenon

\* Two lists in a row have the elements of both.
LEMMA ConcatFacts ==
    ASSUME NEW A, NEW s \in Seq(A), NEW t \in Seq(A)
    PROVE  /\ s \o t \in Seq(A)
           /\ ToSet(s \o t) = ToSet(s) \cup ToSet(t)
           /\ IsInjective(s) /\ IsInjective(t) /\ ToSet(s) \cap ToSet(t) = {} => IsInjective(s \o t)
<1>1. s \o t \in Seq(A) /\ Len(s \o t) = Len(s) + Len(t) /\ Len(s) \in Nat /\ Len(t) \in Nat
    OBVIOUS
<1>2. \A i \in 1..(Len(s) + Len(t)) : (s \o t)[i] = IF i <= Len(s) THEN s[i] ELSE t[i - Len(s)]
    OBVIOUS
<1>3. \A y : y \in ToSet(s) <=> \E k \in 1..Len(s) : s[k] = y
    BY ToSetIndex, Zenon
<1>4. \A y : y \in ToSet(t) <=> \E k \in 1..Len(t) : t[k] = y
    BY ToSetIndex, Zenon
<1>5. \A y : y \in ToSet(s \o t) <=> \E k \in 1..(Len(s) + Len(t)) : (s \o t)[k] = y
    BY <1>1, ToSetIndex
<1>6. ASSUME NEW y PROVE y \in ToSet(s \o t) <=> y \in ToSet(s) \/ y \in ToSet(t)
  <2>1. ASSUME y \in ToSet(s) PROVE y \in ToSet(s \o t)
    BY <1>1, <1>2, <1>3, <1>5, <2>1
  <2>2. ASSUME y \in ToSet(t) PROVE y \in ToSet(s \o t)
    <3>1. PICK k \in 1..Len(t) : t[k] = y
        BY <1>4, <2>2
    <3>2. (s \o t)[k + Len(s)] = y /\ k + Len(s) \in 1..(Len(s) + Len(t))
        BY <1>1, <1>2, <3>1
    <3> QED  BY <1>5, <3>2
  <2>3. ASSUME y \in ToSet(s \o t) PROVE y \in ToSet(s) \/ y \in ToSet(t)
    <3>1. PICK k \in 1..(Len(s) + Len(t)) : (s \o t)[k] = y
        BY <1>5, <2>3
    <3>2. k <= Len(s) => k \in 1..Len(s)
        BY <1>1
    <3>3. ~(k <= Len(s)) => k - Len(s) \in 1..Len(t)
        BY <1>1
    <3> QED  BY <1>2, <1>3, <1>4, <3>1, <3>2, <3>3
  <2> QED  BY <2>1, <2>2, <2>3
<1>7. ASSUME IsInjective(s), IsInjective(t), ToSet(s) \cap ToSet(t) = {} PROVE IsInjective(s \o t)
  <2>1. SUFFICES ASSUME NEW i \in 1..(Len(s) + Len(t)), NEW j \in 1..(Len(s) + Len(t)),
                        (s \o t)[i] = (s \o t)[j], i < j
                 PROVE  FALSE
    BY <1>1 DEF IsInjective
  <2>2. CASE j <= Len(s)
    BY <1>1, <1>2, <1>7, <2>1, <2>2 DEF IsInjective
  <2>3. CASE ~(i <= Len(s))
    <3>1. i - Len(s) \in 1..Len(t) /\ j - Len(s) \in 1..Len(t) /\ t[i - Len(s)] = t[j - Len(s)]
        BY <1>1, <1>2, <2>1, <2>3
    <3>2. i - Len(s) = j - Len(s)
        BY <1>7, <3>1 DEF IsInjective
    <3> QED  BY <1>1, <2>1, <3>2
  <2>4. CASE i <= Len(s) /\ ~(j <= Len(s))
    <3>1. i \in 1..Len(s) /\ j - Len(s) \in 1..Len(t) /\ s[i] = t[j - Len(s)]
        BY <1>1, <1>2, <2>1, <2>4
    <3>2. s[i] \in ToSet(s) /\ s[i] \in ToSet(t)
        BY <1>3, <1>4, <3>1
    <3> QED  BY <1>7, <3>2
  <2> QED  BY <1>1, <2>1, <2>2, <2>3, <2>4
<1> QED  BY <1>1, <1>6, <1>7, Zenon

\* Insertion anywhere adds one element.
LEMMA InsertFacts ==
    ASSUME NEW A, NEW s \in Seq(A), NEW k \in 1..(Len(s) + 1), NEW x \in A
    PROVE  /\ InsertAt(s, k, x) \in Seq(A)
           /\ ToSet(InsertAt(s, k, x)) = ToSet(s) \cup {x}
           /\ IsInjective(s) /\ x \notin ToSet(s) => IsInjective(InsertAt(s, k, x))
<1> DEFINE r == InsertAt(s, k, x)
           a == SubSeq(s, 1, k - 1)
           b == SubSeq(s, k, Len(s))
<1>a. /\ a \in Seq(A) /\ Len(a) = k - 1
      /\ \A i \in 1..(k - 1) : a[i] = s[i]
    OBVIOUS
<1>b. /\ b \in Seq(A) /\ Len(b) = Len(s) + 1 - k
      /\ \A i \in 1..(Len(s) + 1 - k) : b[i] = s[k + i - 1]
    OBVIOUS
<1>c. r = (a \o <<x>>) \o b
    BY DEF InsertAt
<1> HIDE DEF a, b, r
<1>d. /\ a \o <<x>> \in Seq(A) /\ Len(a \o <<x>>) = k
      /\ \A i \in 1..k : (a \o <<x>>)[i] = IF i < k THEN s[i] ELSE x
    BY <1>a
<1> DEFINE c == a \o <<x>>
<1> HIDE DEF c
<1>e. r = c \o b /\ c \in Seq(A) /\ Len(c) = k
    BY <1>c, <1>d DEF c
<1>f. Len(s) \in Nat /\ k \in Nat
    OBVIOUS
<1>1. r \in Seq(A) /\ Len(r) = Len(s) + 1 /\ Len(s) \in Nat /\ k \in Nat
  <2>1. c \o b \in Seq(A) /\ Len(c \o b) = Len(c) + Len(b)
    <3>1. c \in Seq(A) /\ b \in Seq(A)
        BY <1>b, <1>e
    <3> QED  BY <3>1
  <2>2. Len(c) + Len(b) = Len(s) + 1
    BY <1>b, <1>e, <1>f
  <2> QED  BY <1>e, <1>f, <2>1, <2>2
<1>g. \A i \in 1..(Len(s) + 1) : r[i] = IF i <= k THEN c[i] ELSE b[i - k]
  <2>1. \A i \in 1..(Len(c) + Len(b)) : (c \o b)[i] = IF i <= Len(c) THEN c[i] ELSE b[i - Len(c)]
    BY <1>b, <1>e
  <2>2. Len(c) + Len(b) = Len(s) + 1
    BY <1>b, <1>e, <1>f
  <2> QED  BY <1>e, <2>1, <2>2
<1>2. \A i \in 1..(Len(s) + 1) : r[i] = IF i < k THEN s[i] ELSE IF i = k THEN x ELSE s[i - 1]
  <2>1. TAKE i \in 1..(Len(s) + 1)
  <2>2. CASE i <= k
    BY <1>d, <1>f, <1>g, <2>2 DEF c
  <2>3. CASE ~(i <= k)
    <3>1. i - k \in 1..(Len(s) + 1 - k) /\ b[i - k] = s[k + (i - k) - 1] /\ k + (i - k) - 1 = i - 1
        BY <1>b, <1>f, <2>3
    <3> QED  BY <1>f, <1>g, <2>3, <3>1
  <2> QED  BY <2>2, <2>3
<1> HIDE DEF r
<1>3. \A y : y \in ToSet(s) <=> \E j \in 1..Len(s) : s[j] = y
    BY ToSetIndex, Zenon
<1>4. \A y : y \in ToSet(r) <=> \E j \in 1..(Len(s) + 1) : r[j] = y
    BY <1>1, ToSetIndex
<1>5. ASSUME NEW y PROVE y \in ToSet(r) <=> y \in ToSet(s) \/ y = x
  <2>1. ASSUME y \in ToSet(s) PROVE y \in ToSet(r)
    <3>1. PICK j \in 1..Len(s) : s[j] = y
        BY <1>3, <2>1
    <3>2. CASE j < k
        BY <1>1, <1>2, <1>4, <3>1, <3>2
    <3>3. CASE ~(j < k)
      <4>1. j + 1 \in 1..(Len(s) + 1) /\ r[j + 1] = y
        BY <1>1, <1>2, <3>1, <3>3
      <4> QED  BY <1>4, <4>1
    <3> QED  BY <3>2, <3>3
  <2>2. x \in ToSet(r)
    BY <1>1, <1>2, <1>4
  <2>3. ASSUME y \in ToSet(r), y # x PROVE y \in ToSet(s)
    <3>1. PICK j \in 1..(Len(s) + 1) : r[j] = y
        BY <1>4, <2>3
    <3>2. j # k
        BY <1>2, <2>3, <3>1
    <3>3. j < k => j \in 1..Len(s) /\ s[j] = y
        BY <1>1, <1>2, <3>1
    <3>4. ~(j < k) => j - 1 \in 1..Len(s) /\ s[j - 1] = y
        BY <1>1, <1>2, <3>1, <3>2
    <3> QED  BY <1>3, <3>3, <3>4
  <2> QED  BY <2>1, <2>2, <2>3
<1>6. ASSUME IsInjective(s), x \notin ToSet(s) PROVE IsInjective(r)
  <2>1. SUFFICES ASSUME NEW i \in 1..(Len(s) + 1), NEW j \in 1..(Len(s) + 1), r[i] = r[j], i < j
                 PROVE  FALSE
    BY <1>1 DEF IsInjective
  <2>2. \A m \in 1..Len(s) : s[m] # x
    BY <1>3, <1>6
  <2>3. \A m, n \in 1..Len(s) : s[m] = s[n] => m = n
    BY <1>6 DEF IsInjective
  <2>4. CASE i = k
    <3>1. r[i] = x /\ r[j] = s[j - 1] /\ j - 1 \in 1..Len(s)
        BY <1>1, <1>2, <2>1, <2>4
    <3> QED  BY <2>1, <2>2, <3>1
  <2>5. CASE j = k
    <3>1. r[j] = x /\ r[i] = s[i] /\ i \in 1..Len(s)
        BY <1>1, <1>2, <2>1, <2>5
    <3> QED  BY <2>1, <2>2, <3>1
  <2>6. CASE i # k /\ j # k
    <3>1. CASE j < k
        BY <1>1, <1>2, <2>1, <2>3, <3>1
    <3>2. CASE k < i
      <4>1. r[i] = s[i - 1] /\ r[j] = s[j - 1] /\ i - 1 \in 1..Len(s) /\ j - 1 \in 1..Len(s)
        BY <1>1, <1>2, <2>1, <3>2
      <4>2. i - 1 = j - 1
        BY <2>1, <2>3, <4>1
      <4> QED  BY <2>1, <4>2
    <3>3. CASE i < k /\ k < j
      <4>1. r[i] = s[i] /\ r[j] = s[j - 1] /\ i \in 1..Len(s) /\ j - 1 \in 1..Len(s)
        BY <1>1, <1>2, <2>1, <3>3
      <4>2. i = j - 1
        BY <2>1, <2>3, <4>1
      <4> QED  BY <1>1, <2>1, <3>3, <4>2
    <3> QED  BY <1>1, <2>1, <2>6, <3>1, <3>2, <3>3
  <2> QED  BY <2>4, <2>5, <2>6
<1>7. r \in Seq(A) /\ ToSet(r) = ToSet(s) \cup {x}
    BY <1>1, <1>5, Zenon
<1> QED  BY <1>6, <1>7 DEF r

\* The first element stays the first unless it is taken out; then the second
\* one is.
LEMMA WithoutHead ==
    ASSUME NEW A, NEW s \in Seq(A), NEW x, s # <<>>, IsInjective(s)
    PROVE  /\ x # s[1] => Without(s, x) # <<>> /\ Without(s, x)[1] = s[1]
           /\ x = s[1] /\ Len(s) >= 2 => Without(s, x) # <<>> /\ Without(s, x)[1] = s[2]
           /\ x = s[1] /\ Len(s) = 1 => Without(s, x) = <<>>
<1> DEFINE S == ToSet(s) \ {x}
           r == Keep(s, S)
<1>1. r \in Seq(A)
    BY KeepIndex, Zenon
<1>2. PICK f \in [1..Len(r) -> 1..Len(s)] :
         /\ \A i \in 1..Len(r) : r[i] = s[f[i]] /\ s[f[i]] \in S
         /\ \A i, j \in 1..Len(r) : i < j => f[i] < f[j]
         /\ \A k \in 1..Len(s) : s[k] \in S => \E i \in 1..Len(r) : f[i] = k
  <2> HIDE DEF S
  <2> QED  BY KeepIndex
<1>3. Without(s, x) = r
    BY DEF Without
<1>4. \A y : y \in ToSet(s) <=> \E k \in 1..Len(s) : s[k] = y
    BY ToSetIndex, Zenon
<1>5. \A k \in 1..Len(s) : s[k] \in S <=> s[k] # x
    BY <1>4
<1>6. Len(s) \in Nat /\ Len(s) >= 1 /\ Len(r) \in Nat /\ (r = <<>> <=> Len(r) = 0)
    BY <1>1
<1> HIDE DEF S, r
<1>7. ASSUME x # s[1] PROVE r # <<>> /\ r[1] = s[1]
  <2>1. 1 \in 1..Len(s)
    BY <1>6
  <2>2. PICK i \in 1..Len(r) : f[i] = 1
    BY <1>2, <1>5, <1>7, <2>1
  <2>3. 1 \in 1..Len(r) /\ f[1] \in 1..Len(s)
    BY <1>2, <1>6, <2>2
  <2>4. ~(1 < i)
    BY <1>2, <2>2, <2>3
  <2>5. i = 1
    BY <1>6, <2>4
  <2> QED  BY <1>2, <1>6, <2>2, <2>3, <2>5
<1>8. ASSUME x = s[1], Len(s) >= 2 PROVE r # <<>> /\ r[1] = s[2]
  <2>1. 2 \in 1..Len(s) /\ 1 \in 1..Len(s)
    BY <1>6, <1>8
  <2>2. s[2] # s[1]
    BY <2>1 DEF IsInjective
  <2>3. PICK i \in 1..Len(r) : f[i] = 2
    BY <1>2, <1>5, <1>8, <2>1, <2>2
  <2>4. 1 \in 1..Len(r) /\ f[1] \in 1..Len(s)
    BY <1>2, <1>6, <2>3
  <2>5. s[f[1]] # x
    BY <1>2, <1>5, <2>4
  <2>6. f[1] # 1
    BY <1>8, <2>5
  <2>7. ~(1 < i)
    BY <1>2, <1>6, <2>3, <2>4, <2>6
  <2>8. i = 1
    BY <1>6, <2>7
  <2> QED  BY <1>2, <1>6, <2>3, <2>4, <2>8
<1>9. ASSUME x = s[1], Len(s) = 1 PROVE r = <<>>
  <2>1. SUFFICES ASSUME Len(r) # 0 PROVE FALSE
    BY <1>6
  <2>2. 1 \in 1..Len(r) /\ f[1] \in 1..Len(s)
    BY <1>2, <1>6, <2>1
  <2>3. f[1] = 1
    BY <1>9, <2>2
  <2> QED  BY <1>2, <1>5, <1>9, <2>2, <2>3
<1> QED  BY <1>3, <1>7, <1>8, <1>9
=============================================================================
