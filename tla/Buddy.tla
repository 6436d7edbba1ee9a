------------------------------- MODULE Buddy --------------------------------
(***************************************************************************)
(* The buddy allocator of async/bbuddy.C, which hands out the shared       *)
(* memory of an aiod.  Offsets and sizes are in units of the smallest      *)
(* block (minalloc); level l stands for blocks of 2^l units, so l is       *)
(* log2 of the size less log2minalloc.  A bitmap (bbfree) is the set of    *)
(* the block numbers whose bit is set.  The bitmaps are shorter than one   *)
(* map_t: the hint of findbit () then always names it.                     *)
(***************************************************************************)
EXTENDS Integers, FiniteSets, FiniteSetsExt

CONSTANT LogMax     \* log2maxalloc - log2minalloc

ASSUME BuddyAssumption == LogMax \in Nat

Levels == 0..LogMax

\* The units of a block of level l.
Size(l) == 2^l
MaxBuf == Size(LogMax)

NewBuddy == [tot |-> 0, free |-> [l \in Levels |-> {}]]

-----------------------------------------------------------------------------
\* The levels at which alloc () finds a block for one of level l.
Found(bb, l) == {k \in l..LogMax : bb.free[k] # {}}

CanAlloc(bb, l) == Found(bb, l) # {}

\* The block that alloc () takes: the first of the smallest level that has one.
Taken(bb, l) == LET k == Min(Found(bb, l)) IN <<k, Min(bb.free[k])>>

\* The offset that alloc () returns.
AllocOff(bb, l) == LET b == Taken(bb, l) IN b[2] * Size(b[1])

\* alloc (): the block is split, and the second halves become free.
Alloc(bb, l) ==
    LET k   == Taken(bb, l)[1]
        pos == Taken(bb, l)[2]
    IN  [bb EXCEPT !.free =
            [j \in Levels |->
               CASE j = k             -> @[j] \ {pos}
                 [] j >= l /\ j < k   -> @[j] \cup {pos * Size(k - j) + 1}
                 [] OTHER             -> @[j]]]

\* pos ^ 1.
BuddyOf(pos) == IF pos % 2 = 0 THEN pos + 1 ELSE pos - 1

\* Mutant: a buddy that is free is not looked for.
JoinLevelNever(bb, off, l) == l

\* The level up to which dealloc () joins the block with its free buddies.
JoinLevel(bb, off, l) ==
    Min({k \in l..LogMax :
            k = LogMax \/ BuddyOf(off \div Size(k)) \notin bb.free[k]})

Dealloc(bb, off, l) ==
    LET top == JoinLevel(bb, off, l)
    IN  [bb EXCEPT !.free =
            [j \in Levels |->
               CASE j = top            -> @[j] \cup {off \div Size(j)}
                 [] j >= l /\ j < top  -> @[j] \ {BuddyOf(off \div Size(j))}
                 [] OTHER              -> @[j]]]

\* settotsize (): the memory grows to ts units, rounded down to whole blocks
\* of the largest size, which become free.
Settotsize(bb, ts) ==
    LET n == ts \div MaxBuf
    IN  [tot |-> n * MaxBuf,
         free |-> [bb.free EXCEPT ![LogMax] =
                      @ \cup (bb.tot \div MaxBuf)..(n - 1)]]

-----------------------------------------------------------------------------
Units(off, l) == off..(off + Size(l) - 1)

\* The free blocks, as <<offset, level>>.
FreeBlocks(bb) == UNION {{<<p * Size(l), l>> : p \in bb.free[l]} : l \in Levels}

\* What _check () asserts, and more: the free blocks and the allocated ones
\* ({<<offset, level>>}) tile the memory, no block is both, and no block is
\* free next to its free buddy.
Exact(bb, allocated) ==
    LET At(u, blocks) == Cardinality({b \in blocks : u \in Units(b[1], b[2])})
    IN  /\ \A u \in 0..(bb.tot - 1) : At(u, allocated) + At(u, FreeBlocks(bb)) = 1
        /\ \A b \in allocated \cup FreeBlocks(bb) : Units(b[1], b[2]) \subseteq 0..(bb.tot - 1)
        /\ \A l \in Levels \ {LogMax} : \A p \in bb.free[l] :
              BuddyOf(p) \notin bb.free[l]
=============================================================================
