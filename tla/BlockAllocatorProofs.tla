------------------------- MODULE BlockAllocatorProofs -------------------------
(***************************************************************************)
(* Proofs, for every number of threads, blocks and every MaxCount, that   *)
(* the block allocator of src/src/core/block_manager.cpp keeps its type    *)
(* and never hands out a block twice, never hands out the superblock and  *)
(* never leaks a block, as long as callers release only blocks they hold. *)
(*                                                                         *)
(* The three invariants are not inductive alone: a contiguous run is read *)
(* at scan positions from next_free_block, and when the hint equals       *)
(* TotalBlocks position 0 is read past the end of the bitmap (see         *)
(* OutOfRangeReads) and may look free.  Without defragment_blocks the      *)
(* hint is always taken modulo TotalBlocks, so HintInRange is the          *)
(* strengthening that makes them inductive.                                *)
(*                                                                         *)
(* The last part proves the action property AllocationReturnsFreshBlocks: *)
(* a successful allocation returns as many distinct free blocks as its     *)
(* vector has entries.                                                     *)
(***************************************************************************)
EXTENDS BlockAllocator, FiniteSetTheorems, TLAPS

Inv == NoDoubleAllocation /\ SuperblockReserved /\ NoLeakedBlocks

IInv == TypeOK /\ HintInRange /\ Inv

-----------------------------------------------------------------------------
(* Granting blocks that are all free, with a hint inside the bitmap,       *)
(* preserves the inductive invariant: the step behind allocate_block and   *)
(* both successful paths of allocate_blocks.                               *)
LEMMA GrantPreservesIInv ==
    ASSUME IInv,
           NEW t \in Threads, NEW S \in SUBSET FreeSet,
           NEW hint \in Blocks, NEW len \in Nat,
           Grant(t, S, hint, len)
    PROVE  IInv'
<1>1. TypeOK'
    <2>1. S \subseteq Blocks
        BY DEF FreeSet
    <2>2. block_bitmap' \in [Blocks -> BOOLEAN]
        BY DEF Grant
    <2>3. next_free_block' \in 0 .. TotalBlocks
        BY TotalBlocksAssumption DEF Grant, Blocks
    <2>4. owned' \in [Threads -> SUBSET Blocks]
        BY <2>1 DEF IInv, TypeOK, Grant
    <2>5. Result(TRUE, S, len) \in [ok : BOOLEAN, blocks : SUBSET Blocks, len : Nat]
        BY <2>1 DEF Result
    <2>6. ret' \in [Threads -> [ok : BOOLEAN, blocks : SUBSET Blocks, len : Nat]]
        BY <2>5 DEF IInv, TypeOK, Grant
    <2>7. checked' \in [Threads -> SUBSET Blocks]
        BY DEF IInv, TypeOK, Grant
    <2>8. bitmap_mutex' \in Threads \cup {NoThread}
        BY DEF IInv, TypeOK, Grant
    <2>9. QED
        BY <2>2, <2>3, <2>4, <2>6, <2>7, <2>8 DEF TypeOK
<1>2. HintInRange'
    BY DEF Grant, HintInRange
<1>3. NoDoubleAllocation'
    BY DEF IInv, TypeOK, Inv, NoDoubleAllocation, Grant, FreeSet
<1>4. SuperblockReserved'
    <2>1. 0 \in Blocks
        BY TotalBlocksAssumption DEF Blocks
    <2>2. QED
        BY <2>1 DEF IInv, TypeOK, Inv, SuperblockReserved, Grant, FreeSet
<1>5. NoLeakedBlocks'
    BY DEF IInv, TypeOK, Inv, NoLeakedBlocks, Grant, FreeSet
<1>6. QED
    BY <1>1, <1>2, <1>3, <1>4, <1>5 DEF IInv, Inv

(* A call that runs out of space and blocks in the nested lock changes    *)
(* neither the bitmap nor what a thread holds; the hint stays inside the  *)
(* bitmap.                                                                 *)
LEMMA ThrowPreservesIInv ==
    ASSUME IInv, NEW t \in Threads, ThrowInsufficientSpace(t),
           next_free_block' \in Blocks
    PROVE  IInv'
<1>1. TypeOK'
    BY TotalBlocksAssumption DEF IInv, TypeOK, ThrowInsufficientSpace, Blocks
<1>2. Inv'
    BY DEF IInv, Inv, ThrowInsufficientSpace, NoDoubleAllocation,
           SuperblockReserved, NoLeakedBlocks
<1>3. QED
    BY <1>1, <1>2 DEF IInv, HintInRange

(* A run found by the contiguous scan consists of free blocks: with the    *)
(* hint inside the bitmap, scan position k+j is block                      *)
(* (next_free_block + k + j) % TotalBlocks and nothing is read past the    *)
(* end.                                                                    *)
LEMMA RunIsFree ==
    ASSUME IInv, NEW n \in Nat \ {0}, NEW g \in OutOfRangeReads,
           NEW k \in RunStarts(n, g)
    PROVE  RunBlocks(k, n) \subseteq FreeSet
<1>1. g = FALSE
    <2>1. next_free_block < TotalBlocks
        BY TotalBlocksAssumption DEF IInv, HintInRange, Blocks
    <2>2. OutOfRangeReads = {FALSE}
        BY <2>1, Zenon DEF OutOfRangeReads
    <2>3. QED
        BY <2>2, Zenon
<1>2. k \in 0 .. TotalBlocks - n /\ RunAt(k, n, g)
    BY Zenon DEF RunStarts
<1>3. SUFFICES ASSUME NEW j \in 0 .. n - 1
               PROVE  (next_free_block + k + j) % TotalBlocks \in FreeSet
    BY DEF RunBlocks
<1>4. ScanPos(k + j) = (next_free_block + k + j) % TotalBlocks
    BY <1>2, TotalBlocksAssumption DEF IInv, HintInRange, Blocks, ScanPos
<1>5. (next_free_block + k + j) % TotalBlocks \in Blocks
    BY <1>2, TotalBlocksAssumption DEF IInv, HintInRange, Blocks
<1>6. ScanFree(ScanPos(k + j), g)
    BY <1>2 DEF RunAt
<1>7. block_bitmap[(next_free_block + k + j) % TotalBlocks]
    BY <1>4, <1>5, <1>6, TotalBlocksAssumption DEF ScanFree, Blocks
<1>8. QED
    BY <1>5, <1>7 DEF FreeSet

(* The blocks the scattered fallback takes are free, by construction.      *)
LEMMA ScatterIsFree ==
    ASSUME NEW n \in Nat
    PROVE  ScatterTaken(n) \subseteq FreeSet
BY DEF ScatterTaken

-----------------------------------------------------------------------------
(* Each operation of a thread preserves the inductive invariant.           *)

LEMMA AllocateBlockPreserves ==
    ASSUME IInv, NEW t \in Threads, AllocateBlock(t)
    PROVE  IInv'
<1>1. CASE \E b \in FreeSet : IsNextFree(b, next_free_block)
                              /\ Grant(t, {b}, (b + 1) % TotalBlocks, 1)
    <2>1. PICK b \in FreeSet : Grant(t, {b}, (b + 1) % TotalBlocks, 1)
        BY <1>1
    <2>2. (b + 1) % TotalBlocks \in Blocks
        BY TotalBlocksAssumption DEF FreeSet, Blocks
    <2>3. QED
        BY <2>1, <2>2, GrantPreservesIInv
<1>2. CASE FreeSet = {} /\ ThrowInsufficientSpace(t) /\ UNCHANGED next_free_block
    BY <1>2, ThrowPreservesIInv DEF IInv, HintInRange
<1>3. QED
    BY <1>1, <1>2 DEF AllocateBlock

LEMMA AllocateBlocksPreserves ==
    ASSUME IInv, NEW t \in Threads, NEW n \in Nat, AllocateBlocks(t, n)
    PROVE  IInv'
<1>1. CASE n = 0 /\ ret' = [ret EXCEPT ![t] = Result(TRUE, {}, 0)]
            /\ UNCHANGED <<block_bitmap, next_free_block, owned, checked, bitmap_mutex>>
    BY <1>1 DEF IInv, Inv, TypeOK, HintInRange, Result,
                NoDoubleAllocation, SuperblockReserved, NoLeakedBlocks
<1>2. CASE n > 0 /\ \E g \in OutOfRangeReads : ContiguousAlloc(t, n, g)
    <2>0. PICK g \in OutOfRangeReads : ContiguousAlloc(t, n, g)
        BY <1>2
    <2>1. PICK k \in RunStarts(n, g) :
                 Grant(t, RunBlocks(k, n),
                       (next_free_block + k + n) % TotalBlocks, n)
        BY <2>0 DEF ContiguousAlloc
    <2>2. RunBlocks(k, n) \subseteq FreeSet
        BY <1>2, RunIsFree
    <2>3. (next_free_block + k + n) % TotalBlocks \in Blocks
        BY TotalBlocksAssumption DEF IInv, HintInRange, Blocks, RunStarts
    <2>4. QED
        BY <2>1, <2>2, <2>3, GrantPreservesIInv
<1>3. CASE n > 0 /\ ScatteredAlloc(t, n)
    <2> DEFINE taken == ScatterTaken(n)
    <2>1. taken \subseteq FreeSet
        BY ScatterIsFree
    <2>2. taken \subseteq Blocks
        BY <2>1 DEF FreeSet
    <2>3. CASE \E last \in taken :
                  Grant(t, taken, (last + 1) % TotalBlocks, n)
        <3>1. PICK last \in taken : Grant(t, taken, (last + 1) % TotalBlocks, n)
            BY <2>3
        <3>2. (last + 1) % TotalBlocks \in Blocks
            BY <2>2, TotalBlocksAssumption DEF Blocks
        <3>3. QED
            BY <2>1, <3>1, <3>2, GrantPreservesIInv
    <2>4. CASE ThrowInsufficientSpace(t) /\ taken = {} /\ UNCHANGED next_free_block
        BY <2>4, ThrowPreservesIInv DEF IInv, HintInRange
    <2>5. CASE ThrowInsufficientSpace(t) /\ \E last \in taken :
                              next_free_block' = (last + 1) % TotalBlocks
        <3>1. next_free_block' \in Blocks
            BY <2>2, <2>5, TotalBlocksAssumption DEF Blocks
        <3>2. QED
            BY <2>5, <3>1, ThrowPreservesIInv
    <2>6. QED
        BY <1>3, <2>3, <2>4, <2>5 DEF ScatteredAlloc
<1>4. QED
    BY <1>1, <1>2, <1>3 DEF AllocateBlocks

LEMMA DeallocateBlockPreserves ==
    ASSUME IInv, NEW t \in Threads, NEW id \in owned[t] \cup {TotalBlocks},
           DeallocateBlock(t, id)
    PROVE  IInv'
<1>a. CASE id >= TotalBlocks /\ ret' = [ret EXCEPT ![t] = Failed]
           /\ UNCHANGED <<block_bitmap, next_free_block, owned, checked, bitmap_mutex>>
    <2>1. TypeOK'
        BY <1>a DEF IInv, TypeOK, Result, Failed
    <2>2. QED
        BY <1>a, <2>1 DEF IInv, HintInRange, Inv, NoDoubleAllocation,
                          SuperblockReserved, NoLeakedBlocks
<1>b. CASE id < TotalBlocks /\ Unlocked
           /\ ret' = [ret EXCEPT ![t] = Result(TRUE, {}, 0)]
           /\ owned' = [owned EXCEPT ![t] = @ \ {id}]
           /\ block_bitmap' = [block_bitmap EXCEPT ![id] = TRUE]
           /\ UNCHANGED <<next_free_block, checked, bitmap_mutex>>
    <2>0. \A b \in Blocks : block_bitmap'[b] = (block_bitmap[b] \/ b = id)
        BY <1>b, TotalBlocksAssumption DEF IInv, TypeOK, Blocks
    <2>1. TypeOK'
        BY <1>b DEF IInv, TypeOK, Result
    <2>2. HintInRange'
        BY <1>b DEF IInv, HintInRange
    <2>3. \A u \in Threads : u # t => id \notin owned[u]
        BY DEF IInv, Inv, NoDoubleAllocation, TypeOK, Blocks
    <2>4. NoDoubleAllocation'
        BY <1>b, <2>3 DEF IInv, TypeOK, Inv, NoDoubleAllocation
    <2>5. SuperblockReserved'
        <3>1. id # 0
            BY TotalBlocksAssumption DEF IInv, Inv, SuperblockReserved
        <3>2. 0 \in Blocks
            BY TotalBlocksAssumption DEF Blocks
        <3>3. ~block_bitmap[0]
            BY DEF IInv, Inv, SuperblockReserved
        <3>4. ~block_bitmap'[0]
            BY <2>0, <3>1, <3>2, <3>3, Zenon
        <3>5. QED
            BY <1>b, <3>4 DEF IInv, Inv, SuperblockReserved
    <2>6. NoLeakedBlocks'
        <3> SUFFICES ASSUME NEW b \in Blocks \ {0}, ~block_bitmap'[b]
                     PROVE  \E u \in Threads : b \in owned'[u]
            BY DEF NoLeakedBlocks
        <3>1. b # id /\ ~block_bitmap[b]
            BY <2>0
        <3>2. PICK u \in Threads : b \in owned[u]
            BY <3>1 DEF IInv, Inv, NoLeakedBlocks
        <3>3. b \in owned'[u]
            BY <1>b, <3>1, <3>2 DEF IInv, TypeOK
        <3>4. QED
            BY <3>3
    <2>7. QED
        BY <2>1, <2>2, <2>4, <2>5, <2>6 DEF IInv, Inv
<1>c. QED
    BY <1>a, <1>b DEF DeallocateBlock

LEMMA DeallocateBlocksPreserves ==
    ASSUME IInv, NEW t \in Threads,
           NEW ids \in SUBSET (owned[t] \cup {TotalBlocks}),
           DeallocateBlocks(t, ids)
    PROVE  IInv'
<1>1. TypeOK'
    BY DEF IInv, TypeOK, DeallocateBlocks, Result
<1>2. HintInRange'
    BY DEF DeallocateBlocks, IInv, HintInRange
<1>3. \A u \in Threads : u # t => ids \cap owned[u] = {}
    BY DEF IInv, Inv, NoDoubleAllocation, TypeOK, Blocks
<1>4. NoDoubleAllocation'
    BY <1>3 DEF IInv, TypeOK, Inv, NoDoubleAllocation, DeallocateBlocks
<1>5. SuperblockReserved'
    <2>1. 0 \notin ids
        BY TotalBlocksAssumption DEF IInv, Inv, SuperblockReserved
    <2>2. QED
        BY <2>1, TotalBlocksAssumption
           DEF IInv, TypeOK, Inv, SuperblockReserved, DeallocateBlocks, Blocks
<1>6. NoLeakedBlocks'
    BY DEF IInv, TypeOK, Inv, NoLeakedBlocks, DeallocateBlocks
<1>7. QED
    BY <1>1, <1>2, <1>4, <1>5, <1>6 DEF IInv, Inv

-----------------------------------------------------------------------------
LEMMA InitIInv == Init => IInv
<1> SUFFICES ASSUME Init PROVE IInv
    OBVIOUS
<1>1. TypeOK
    BY TotalBlocksAssumption DEF Init, TypeOK, Blocks, Result
<1>2. HintInRange
    BY TotalBlocksAssumption DEF Init, HintInRange, Blocks
<1>3. NoDoubleAllocation
    BY DEF Init, NoDoubleAllocation
<1>4. SuperblockReserved
    <2>1. 0 \in Blocks
        BY TotalBlocksAssumption DEF Blocks
    <2>2. QED
        BY <2>1 DEF Init, SuperblockReserved
<1>5. NoLeakedBlocks
    BY DEF Init, NoLeakedBlocks, Blocks
<1>6. QED
    BY <1>1, <1>2, <1>3, <1>4, <1>5 DEF IInv, Inv

LEMMA NextIInv == IInv /\ [Next]_vars => IInv'
<1> SUFFICES ASSUME IInv, [Next]_vars PROVE IInv'
    OBVIOUS
<1>1. CASE UNCHANGED vars
    BY <1>1 DEF vars, IInv, TypeOK, HintInRange, Inv, FreeSet,
                NoDoubleAllocation, SuperblockReserved, NoLeakedBlocks
<1>2. ASSUME NEW t \in Threads, ThreadStep(t) PROVE IInv'
    <2>1. CASE AllocateBlock(t)
        BY <2>1, AllocateBlockPreserves
    <2>2. CASE \E n \in 0 .. MaxCount : AllocateBlocks(t, n)
        BY <2>2, AllocateBlocksPreserves, MaxCountAssumption
    <2>3. CASE \E id \in owned[t] \cup {TotalBlocks} : DeallocateBlock(t, id)
        BY <2>3, DeallocateBlockPreserves
    <2>4. CASE \E ids \in SUBSET (owned[t] \cup {TotalBlocks}) :
                  DeallocateBlocks(t, ids)
        BY <2>4, DeallocateBlocksPreserves
    <2>5. QED
        BY <1>2, <2>1, <2>2, <2>3, <2>4 DEF ThreadStep
<1>3. QED
    BY <1>1, <1>2 DEF Next

(* Every state the allocator reaches satisfies the type invariant.         *)
THEOREM TypeCorrect == Spec => []TypeOK
<1>1. IInv => TypeOK
    BY DEF IInv
<1>2. QED
    BY InitIInv, NextIInv, <1>1, PTL DEF Spec

(* allocate_block, allocate_blocks and deallocate_block(s) never give     *)
(* one block to two threads nor put a held block back in the free pool,   *)
(* for every number of threads and blocks (mark_block_used, which does    *)
(* no check, is outside Spec: see SpecCheckThenMark).                      *)
THEOREM NoDoubleAllocationHolds == Spec => []NoDoubleAllocation
<1>1. IInv => NoDoubleAllocation
    BY DEF IInv, Inv
<1>2. QED
    BY InitIInv, NextIInv, <1>1, PTL DEF Spec

(* Block 0, the superblock, is never free and never handed to a thread.   *)
THEOREM SuperblockReservedHolds == Spec => []SuperblockReserved
<1>1. IInv => SuperblockReserved
    BY DEF IInv, Inv
<1>2. QED
    BY InitIInv, NextIInv, <1>1, PTL DEF Spec

(* Every used block but the superblock is held by some thread: a failed   *)
(* allocate_blocks rolls back every bit it took.                           *)
THEOREM NoLeakedBlocksHolds == Spec => []NoLeakedBlocks
<1>1. IInv => NoLeakedBlocks
    BY DEF IInv, Inv
<1>2. QED
    BY InitIInv, NextIInv, <1>1, PTL DEF Spec

-----------------------------------------------------------------------------
(***************************************************************************)
(* What a successful allocation returns.  A contiguous run of n scan       *)
(* positions wraps at most once, so its n blocks are distinct; the         *)
(* scattered fallback takes the free blocks of rank below n in the order   *)
(* of find_next_free_block from the hint, and the ranks of the free blocks *)
(* are exactly 0 .. |free| - 1, so it takes n distinct blocks.             *)
(***************************************************************************)

(* A position less than twice round the bitmap wraps at most once.         *)
LEMMA ModWrap ==
    ASSUME NEW y \in 0 .. 2 * TotalBlocks - 1
    PROVE  y % TotalBlocks = IF y < TotalBlocks THEN y ELSE y - TotalBlocks
BY TotalBlocksAssumption

(* A bijection from 0 .. n-1 onto T makes T a set of n elements.           *)
LEMMA CardFromBijection ==
    ASSUME NEW n \in Nat, NEW T, NEW f \in Bijection(0 .. n - 1, T)
    PROVE  IsFiniteSet(T) /\ Cardinality(T) = n
<1>1. IsFiniteSet(0 .. n - 1) /\ Cardinality(0 .. n - 1) = n
    BY FS_Interval
<1>2. ExistsBijection(0 .. n - 1, T)
    BY DEF ExistsBijection
<1>3. QED
    BY <1>1, <1>2, FS_Bijection

(* The run allocate_blocks grants on its contiguous path has n blocks.     *)
LEMMA RunCard ==
    ASSUME HintInRange, NEW n \in Nat \ {0}, NEW k \in 0 .. TotalBlocks - n
    PROVE  Cardinality(RunBlocks(k, n)) = n
<1> DEFINE N == TotalBlocks
           x == next_free_block + k
           f == [j \in 0 .. n - 1 |-> (x + j) % N]
<1>1. \A j \in 0 .. n - 1 : f[j] = IF x + j < N THEN x + j ELSE (x + j) - N
    <2> SUFFICES ASSUME NEW j \in 0 .. n - 1
                 PROVE  (x + j) % N = IF x + j < N THEN x + j ELSE (x + j) - N
        OBVIOUS
    <2>1. x + j \in 0 .. 2 * N - 1
        BY TotalBlocksAssumption DEF HintInRange, Blocks
    <2> DEFINE y == x + j
    <2>2. y % N = IF y < N THEN y ELSE y - N
        BY <2>1, ModWrap
    <2>3. QED
        BY <2>2
<1>2. \A a, b \in 0 .. n - 1 : f[a] = f[b] => a = b
    BY <1>1, TotalBlocksAssumption DEF HintInRange, Blocks
<1>3. f \in [0 .. n - 1 -> RunBlocks(k, n)]
    BY DEF RunBlocks
<1>4. f \in Bijection(0 .. n - 1, RunBlocks(k, n))
    BY <1>2, <1>3 DEF Bijection, Injection, Surjection, IsInjective, RunBlocks
<1>5. QED
    BY <1>4, CardFromBijection
(* The position of a block in the search order of find_next_free_block    *)
(* from a hint inside the bitmap, and its being one-to-one.                *)
LEMMA DistValue ==
    ASSUME HintInRange, NEW b \in Blocks
    PROVE  Dist(b, next_free_block) =
               IF b >= next_free_block THEN b - next_free_block
                                       ELSE (b + TotalBlocks) - next_free_block
<1> DEFINE y == (b + TotalBlocks) - next_free_block
<1>1. y \in 0 .. 2 * TotalBlocks - 1
    BY TotalBlocksAssumption DEF HintInRange, Blocks
<1>2. y % TotalBlocks = IF y < TotalBlocks THEN y ELSE y - TotalBlocks
    BY <1>1, ModWrap
<1>3. QED
    BY <1>2, TotalBlocksAssumption DEF HintInRange, Blocks, Dist

LEMMA DistInjective ==
    ASSUME HintInRange, NEW b \in Blocks, NEW c \in Blocks,
           Dist(b, next_free_block) = Dist(c, next_free_block)
    PROVE  b = c
<1>1. Dist(b, next_free_block) = IF b >= next_free_block THEN b - next_free_block
                                 ELSE (b + TotalBlocks) - next_free_block
    BY DistValue
<1>2. Dist(c, next_free_block) = IF c >= next_free_block THEN c - next_free_block
                                 ELSE (c + TotalBlocks) - next_free_block
    BY DistValue
<1>3. (IF b >= next_free_block THEN b - next_free_block
        ELSE (b + TotalBlocks) - next_free_block)
      = (IF c >= next_free_block THEN c - next_free_block
         ELSE (c + TotalBlocks) - next_free_block)
    BY <1>1, <1>2, Zenon
<1>4. QED
    BY <1>3, TotalBlocksAssumption DEF HintInRange, Blocks

LEMMA DistType ==
    ASSUME HintInRange, NEW b \in Blocks
    PROVE  Dist(b, next_free_block) \in Nat
<1>1. Dist(b, next_free_block) =
          IF b >= next_free_block THEN b - next_free_block
                                  ELSE (b + TotalBlocks) - next_free_block
    BY DistValue
<1>2. QED
    BY <1>1, TotalBlocksAssumption DEF HintInRange, Blocks

(* The free blocks are finitely many.                                      *)
LEMMA FreeFinite ==
    IsFiniteSet(FreeSet) /\ Cardinality(FreeSet) \in Nat
<1>1. IsFiniteSet(Blocks)
    BY TotalBlocksAssumption, FS_Interval DEF Blocks
<1>2. FreeSet \subseteq Blocks
    BY DEF FreeSet
<1>3. QED
    BY <1>1, <1>2, FS_Subset, FS_CardinalityType
\* The free blocks find_next_free_block reaches before b, and their number.
Below(b) == {c \in FreeSet : Dist(c, next_free_block) < Dist(b, next_free_block)}

Rank == [b \in FreeSet |-> Cardinality(Below(b))]

LEMMA BelowFinite ==
    ASSUME HintInRange, NEW b \in FreeSet
    PROVE  /\ IsFiniteSet(Below(b))
           /\ Rank[b] \in 0 .. Cardinality(FreeSet) - 1
<1>0. Dist(b, next_free_block) \in Nat
    BY DistType DEF FreeSet
<1>1. Below(b) \subseteq FreeSet \ {b}
    BY <1>0 DEF Below
<1>2. IsFiniteSet(FreeSet \ {b})
      /\ Cardinality(FreeSet \ {b}) = Cardinality(FreeSet) - 1
    BY FreeFinite, FS_RemoveElement
<1>3. IsFiniteSet(Below(b)) /\ Cardinality(Below(b)) <= Cardinality(FreeSet) - 1
    BY <1>1, <1>2, FS_Subset
<1>4. Cardinality(Below(b)) \in Nat
    BY <1>3, FS_CardinalityType
<1>5. QED
    BY <1>3, <1>4, FreeFinite DEF Rank

(* A block found later has a larger rank.                                  *)
LEMMA RankMonotone ==
    ASSUME HintInRange, NEW b \in FreeSet, NEW c \in FreeSet,
           Dist(b, next_free_block) < Dist(c, next_free_block)
    PROVE  Rank[b] < Rank[c]
<1>1. Below(b) \subseteq Below(c)
    <2> SUFFICES ASSUME NEW e \in Below(b) PROVE e \in Below(c)
        OBVIOUS
    <2>1. e \in FreeSet /\ Dist(e, next_free_block) < Dist(b, next_free_block)
        BY DEF Below
    <2>2. /\ Dist(e, next_free_block) \in Nat
          /\ Dist(b, next_free_block) \in Nat
          /\ Dist(c, next_free_block) \in Nat
        BY <2>1, DistType DEF FreeSet
    <2>3. Dist(e, next_free_block) < Dist(c, next_free_block)
        BY <2>1, <2>2
    <2>4. QED
        BY <2>1, <2>3 DEF Below
<1>2. b \in Below(c) /\ b \notin Below(b)
    <2>1. Dist(b, next_free_block) \in Nat
        BY DistType DEF FreeSet
    <2>2. QED
        BY <2>1 DEF Below
<1>3. IsFiniteSet(Below(c)) /\ Rank[b] \in Nat /\ Rank[c] \in Nat
    BY BelowFinite
<1>4. Cardinality(Below(b)) <= Cardinality(Below(c))
      /\ (Cardinality(Below(c)) = Cardinality(Below(b)) => Below(c) = Below(b))
    BY <1>1, <1>3, FS_Subset
<1>5. QED
    BY <1>2, <1>3, <1>4 DEF Rank

(* The ranks of the free blocks are 0 .. |free| - 1, one block each.       *)
LEMMA RankBijection ==
    ASSUME HintInRange
    PROVE  Rank \in Bijection(FreeSet, 0 .. Cardinality(FreeSet) - 1)
<1> DEFINE m == Cardinality(FreeSet)
<1>1. Rank \in [FreeSet -> 0 .. m - 1]
    BY BelowFinite DEF Rank
<1>2. \A b, c \in FreeSet : Rank[b] = Rank[c] => b = c
    <2> SUFFICES ASSUME NEW b \in FreeSet, NEW c \in FreeSet, b # c
                 PROVE  Rank[b] # Rank[c]
        OBVIOUS
    <2>1. Dist(b, next_free_block) # Dist(c, next_free_block)
        BY DistInjective DEF FreeSet
    <2>2. Dist(b, next_free_block) \in Nat /\ Dist(c, next_free_block) \in Nat
        BY DistType DEF FreeSet
    <2>3. Rank[b] \in Nat /\ Rank[c] \in Nat
        BY BelowFinite
    <2>4. CASE Dist(b, next_free_block) < Dist(c, next_free_block)
        <3>1. Rank[b] < Rank[c]
            BY <2>4, RankMonotone, Zenon
        <3>2. QED
            BY <2>3, <3>1
    <2>5. CASE Dist(c, next_free_block) < Dist(b, next_free_block)
        <3>1. Rank[c] < Rank[b]
            BY <2>5, RankMonotone, Zenon
        <3>2. QED
            BY <2>3, <3>1
    <2>6. QED
        BY <2>1, <2>2, <2>4, <2>5
<1>3. Rank \in Injection(FreeSet, 0 .. m - 1)
    BY <1>1, <1>2 DEF Injection, IsInjective
<1>4. IsFiniteSet(0 .. m - 1) /\ Cardinality(0 .. m - 1) = m
    BY FreeFinite, FS_Interval
<1>5. Rank \in Surjection(FreeSet, 0 .. m - 1)
    BY <1>3, <1>4, FS_Injection
<1>6. QED
    BY <1>3, <1>5 DEF Bijection
(* The scattered fallback, when at least n blocks are free, takes n.       *)
LEMMA ScatterCard ==
    ASSUME HintInRange, NEW n \in Nat, Cardinality(FreeSet) >= n
    PROVE  Cardinality(ScatterTaken(n)) = n
<1> DEFINE m == Cardinality(FreeSet)
           T == ScatterTaken(n)
           h == [b \in T |-> Rank[b]]
<1>1. T = {b \in FreeSet : Rank[b] < n}
    BY DEF ScatterTaken, Rank, Below
<1>2. IsFiniteSet(T)
    BY <1>1, FreeFinite, FS_Subset
<1>3. Rank \in Bijection(FreeSet, 0 .. m - 1)
    BY RankBijection
<1>4. h \in [T -> 0 .. n - 1]
    BY <1>1, BelowFinite
<1>5. \A a, b \in T : h[a] = h[b] => a = b
    BY <1>1, <1>3 DEF Bijection, Injection, IsInjective
<1>6. \A i \in 0 .. n - 1 : \E b \in T : h[b] = i
    <2> SUFFICES ASSUME NEW i \in 0 .. n - 1 PROVE \E b \in T : h[b] = i
        OBVIOUS
    <2>1. i \in 0 .. m - 1
        BY FreeFinite
    <2>2. PICK b \in FreeSet : Rank[b] = i
        BY <1>3, <2>1 DEF Bijection, Surjection
    <2>3. b \in T
        BY <1>1, <2>2
    <2>4. QED
        BY <2>2, <2>3
<1>7. h \in Bijection(T, 0 .. n - 1)
    BY <1>4, <1>5, <1>6 DEF Bijection, Injection, Surjection, IsInjective
<1>8. IsFiniteSet(0 .. n - 1) /\ Cardinality(0 .. n - 1) = n
    BY FS_Interval
<1>9. QED
    BY <1>2, <1>7, <1>8, FS_Bijection DEF ExistsBijection
-----------------------------------------------------------------------------
\* The step formula of AllocationReturnsFreshBlocks.
FreshStep ==
    \A t \in Threads :
        owned'[t] \ owned[t] # {} =>
           /\ owned'[t] \ owned[t] \subseteq FreeSet
           /\ ret'[t].ok
           /\ Cardinality(ret'[t].blocks) = ret'[t].len

(* A step that hands no thread a new block satisfies FreshStep trivially.  *)
LEMMA NoGainFresh ==
    ASSUME TypeOK, NEW t \in Threads, NEW X,
           \/ owned' = owned
           \/ owned' = [owned EXCEPT ![t] = @ \ X]
    PROVE  FreshStep
BY DEF TypeOK, FreshStep

(* Granting n free blocks in a vector of n entries satisfies FreshStep.    *)
LEMMA GrantFresh ==
    ASSUME TypeOK, NEW t \in Threads, NEW S \in SUBSET FreeSet, NEW hint,
           NEW len, Cardinality(S) = len, Grant(t, S, hint, len)
    PROVE  FreshStep
<1>1. owned' = [owned EXCEPT ![t] = @ \cup S]
      /\ ret' = [ret EXCEPT ![t] = Result(TRUE, S, len)]
    BY DEF Grant
<1>2. \A u \in Threads \ {t} : owned'[u] = owned[u]
    BY <1>1 DEF TypeOK
<1>3. owned'[t] \ owned[t] \subseteq S
    BY <1>1 DEF TypeOK
<1>4. ret'[t].ok /\ ret'[t].blocks = S /\ ret'[t].len = len
    BY <1>1 DEF TypeOK, Result
<1>5. QED
    BY <1>2, <1>3, <1>4 DEF FreshStep

LEMMA AllocateBlockFresh ==
    ASSUME IInv, NEW t \in Threads, AllocateBlock(t)
    PROVE  FreshStep
<1>1. CASE \E b \in FreeSet : IsNextFree(b, next_free_block)
                              /\ Grant(t, {b}, (b + 1) % TotalBlocks, 1)
    <2>1. PICK b \in FreeSet : Grant(t, {b}, (b + 1) % TotalBlocks, 1)
        BY <1>1, Zenon
    <2>2. Cardinality({b}) = 1
        BY FS_Singleton
    <2>3. QED
        BY <2>1, <2>2, GrantFresh DEF IInv
<1>2. CASE FreeSet = {} /\ ThrowInsufficientSpace(t) /\ UNCHANGED next_free_block
    BY <1>2, NoGainFresh DEF IInv, ThrowInsufficientSpace
<1>3. QED
    BY <1>1, <1>2, Zenon DEF AllocateBlock

LEMMA AllocateBlocksFresh ==
    ASSUME IInv, NEW t \in Threads, NEW n \in Nat, AllocateBlocks(t, n)
    PROVE  FreshStep
<1>0. TypeOK /\ HintInRange
    BY DEF IInv
<1>1. CASE n = 0 /\ ret' = [ret EXCEPT ![t] = Result(TRUE, {}, 0)]
            /\ UNCHANGED <<block_bitmap, next_free_block, owned, checked, bitmap_mutex>>
    <2>1. owned' = owned
        BY <1>1
    <2>2. QED
        BY <1>0, <2>1, NoGainFresh
<1>2. CASE n > 0 /\ \E g \in OutOfRangeReads : ContiguousAlloc(t, n, g)
    <2>0. PICK g \in OutOfRangeReads : ContiguousAlloc(t, n, g)
        BY <1>2
    <2>1. PICK k \in RunStarts(n, g) :
                 Grant(t, RunBlocks(k, n),
                       (next_free_block + k + n) % TotalBlocks, n)
        BY <2>0 DEF ContiguousAlloc
    <2>2. RunBlocks(k, n) \subseteq FreeSet
        BY <1>2, RunIsFree
    <2>3. Cardinality(RunBlocks(k, n)) = n
        <3>1. k \in 0 .. TotalBlocks - n
            BY DEF RunStarts
        <3>2. QED
            BY <1>0, <1>2, <3>1, RunCard
    <2>4. QED
        BY <1>0, <2>1, <2>2, <2>3, GrantFresh
<1>3. CASE n > 0 /\ ScatteredAlloc(t, n)
    <2> DEFINE taken == ScatterTaken(n)
    <2>1. CASE Cardinality(FreeSet) >= n /\ \E last \in taken :
                  Grant(t, taken, (last + 1) % TotalBlocks, n)
        <3>1. PICK last \in taken : Grant(t, taken, (last + 1) % TotalBlocks, n)
            BY <2>1
        <3>2. Cardinality(taken) = n /\ taken \subseteq FreeSet
            BY <1>0, <2>1, ScatterCard, ScatterIsFree
        <3>3. QED
            BY <1>0, <3>1, <3>2, GrantFresh
    <2>2. CASE ThrowInsufficientSpace(t)
        BY <1>0, <2>2, NoGainFresh DEF ThrowInsufficientSpace
    <2>3. QED
        BY <1>3, <2>1, <2>2 DEF ScatteredAlloc
<1>4. QED
    BY <1>1, <1>2, <1>3, Zenon DEF AllocateBlocks
(* deallocate_block(s) only take blocks away from the caller.              *)
LEMMA DeallocateFresh ==
    ASSUME TypeOK, NEW t \in Threads,
           \/ \E id \in owned[t] \cup {TotalBlocks} : DeallocateBlock(t, id)
           \/ \E ids \in SUBSET (owned[t] \cup {TotalBlocks}) : DeallocateBlocks(t, ids)
    PROVE  FreshStep
<1>1. CASE \E id \in owned[t] \cup {TotalBlocks} : DeallocateBlock(t, id)
    <2>1. PICK id \in owned[t] \cup {TotalBlocks} : DeallocateBlock(t, id)
        BY <1>1
    <2>2. \/ owned' = owned
          \/ owned' = [owned EXCEPT ![t] = @ \ {id}]
        BY <2>1, Zenon DEF DeallocateBlock
    <2>3. QED
        BY <2>2, NoGainFresh, Zenon
<1>2. CASE \E ids \in SUBSET (owned[t] \cup {TotalBlocks}) : DeallocateBlocks(t, ids)
    <2>1. PICK ids \in SUBSET (owned[t] \cup {TotalBlocks}) : DeallocateBlocks(t, ids)
        BY <1>2
    <2>2. owned' = [owned EXCEPT ![t] = @ \ ids]
        BY <2>1 DEF DeallocateBlocks
    <2>3. QED
        BY <2>2, NoGainFresh, Zenon
<1>3. QED
    BY <1>1, <1>2

LEMMA NextFresh == IInv /\ [Next]_vars => FreshStep
<1> SUFFICES ASSUME IInv, [Next]_vars PROVE FreshStep
    OBVIOUS
<1>0. TypeOK
    BY DEF IInv
<1>1. CASE UNCHANGED vars
    <2>1. owned' = owned
        BY <1>1, Zenon DEF vars
    <2>2. QED
        BY <2>1 DEF FreshStep
<1>2. ASSUME NEW t \in Threads, ThreadStep(t) PROVE FreshStep
    <2>1. CASE AllocateBlock(t)
        BY <2>1, AllocateBlockFresh
    <2>2. CASE \E n \in 0 .. MaxCount : AllocateBlocks(t, n)
        BY <2>2, AllocateBlocksFresh, MaxCountAssumption
    <2>3. CASE \/ \E id \in owned[t] \cup {TotalBlocks} : DeallocateBlock(t, id)
               \/ \E ids \in SUBSET (owned[t] \cup {TotalBlocks}) : DeallocateBlocks(t, ids)
        BY <1>0, <2>3, DeallocateFresh
    <2>4. QED
        BY <1>2, <2>1, <2>2, <2>3 DEF ThreadStep
<1>3. QED
    BY <1>1, <1>2 DEF Next

(* Whenever a call of allocate_block or allocate_blocks gives a thread     *)
(* new blocks, every one of them was free before the call, the call        *)
(* succeeded, and the returned vector holds exactly as many distinct       *)
(* blocks as it has entries: the contiguous run, taken modulo the block    *)
(* count, wraps at most once, and the scattered fallback picks the first n *)
(* free blocks in search order.  For every number of threads and blocks    *)
(* and every MaxCount.                                                     *)
THEOREM AllocationReturnsFreshBlocksHolds == Spec => AllocationReturnsFreshBlocks
<1>1. IInv /\ [Next]_vars => [FreshStep]_vars
    BY NextFresh
<1>2. []IInv /\ [][Next]_vars => [][FreshStep]_vars
    BY <1>1, PTL
<1>3. QED
    BY InitIInv, NextIInv, <1>2, PTL DEF Spec, AllocationReturnsFreshBlocks, FreshStep
-----------------------------------------------------------------------------
(***************************************************************************)
(* The allocator implements the abstract pool of ResourcePool: the blocks *)
(* other than the superblock are the resources and owned is held.  A grant *)
(* is Acquire because granted blocks are free, and a free block is neither *)
(* held (NoDoubleAllocation) nor block 0 (SuperblockReserved); a release  *)
(* is Release of the caller's blocks among those it frees.                 *)
(***************************************************************************)
BPool == INSTANCE ResourcePool WITH Resources <- Blocks \ {0}, held <- owned

(* A free block is a resource of the pool that nobody holds.               *)
LEMMA FreeIsAvailable ==
    ASSUME IInv, NEW b \in FreeSet
    PROVE  b \in BPool!Available
<1>1. b # 0
    BY DEF IInv, Inv, SuperblockReserved, FreeSet
<1>2. \A u \in Threads : b \notin owned[u]
    BY DEF IInv, Inv, NoDoubleAllocation, FreeSet
<1>3. QED
    BY <1>1, <1>2 DEF BPool!Available, FreeSet

(* Granting a non-empty set of free blocks is an Acquire of the pool.      *)
LEMMA GrantRefines ==
    ASSUME IInv, NEW t \in Threads, NEW S \in SUBSET FreeSet, S # {},
           NEW hint, NEW len, Grant(t, S, hint, len)
    PROVE  [BPool!Next]_owned
<1>1. S \subseteq BPool!Available
    BY FreeIsAvailable
<1>2. S \in SUBSET (Blocks \ {0})
    BY <1>1 DEF BPool!Available
<1>3. BPool!Acquire(t, S)
    BY <1>1 DEF Grant, BPool!Acquire
<1>4. QED
    BY <1>2, <1>3 DEF BPool!Next

(* A step that leaves what every thread holds alone is a pool stutter.     *)
LEMMA NoGainStutter ==
    ASSUME owned' = owned
    PROVE  [BPool!Next]_owned
OBVIOUS

LEMMA AllocateRefines ==
    ASSUME IInv, NEW t \in Threads,
           \/ AllocateBlock(t)
           \/ \E n \in 0 .. MaxCount : AllocateBlocks(t, n)
    PROVE  [BPool!Next]_owned
<1>0. HintInRange
    BY DEF IInv
<1>1. CASE AllocateBlock(t)
    <2>1. CASE \E b \in FreeSet : IsNextFree(b, next_free_block)
                                  /\ Grant(t, {b}, (b + 1) % TotalBlocks, 1)
        <3>1. PICK b \in FreeSet : Grant(t, {b}, (b + 1) % TotalBlocks, 1)
            BY <2>1, Zenon
        <3>2. QED
            BY <3>1, GrantRefines
    <2>2. CASE FreeSet = {} /\ ThrowInsufficientSpace(t) /\ UNCHANGED next_free_block
        BY <2>2 DEF ThrowInsufficientSpace
    <2>3. QED
        BY <1>1, <2>1, <2>2, Zenon DEF AllocateBlock
<1>2. ASSUME NEW n \in 0 .. MaxCount, AllocateBlocks(t, n)
      PROVE  [BPool!Next]_owned
    <2>1. CASE n = 0 /\ ret' = [ret EXCEPT ![t] = Result(TRUE, {}, 0)]
               /\ UNCHANGED <<block_bitmap, next_free_block, owned, checked, bitmap_mutex>>
        BY <2>1
    <2>2. CASE n > 0 /\ \E g \in OutOfRangeReads : ContiguousAlloc(t, n, g)
        <3>0. PICK g \in OutOfRangeReads : ContiguousAlloc(t, n, g)
            BY <2>2
        <3>1. PICK k \in RunStarts(n, g) :
                     Grant(t, RunBlocks(k, n),
                           (next_free_block + k + n) % TotalBlocks, n)
            BY <3>0 DEF ContiguousAlloc
        <3>2. RunBlocks(k, n) \subseteq FreeSet
            BY <2>2, RunIsFree, MaxCountAssumption
        <3>3. RunBlocks(k, n) # {}
            <4>1. (next_free_block + k + 0) % TotalBlocks \in RunBlocks(k, n)
                BY <2>2, MaxCountAssumption DEF RunBlocks
            <4>2. QED
                BY <4>1
        <3>4. QED
            BY <3>1, <3>2, <3>3, GrantRefines
    <2>3. CASE n > 0 /\ ScatteredAlloc(t, n)
        <3> DEFINE taken == ScatterTaken(n)
        <3>1. CASE \E last \in taken :
                      Grant(t, taken, (last + 1) % TotalBlocks, n)
            <4>1. PICK last \in taken : Grant(t, taken, (last + 1) % TotalBlocks, n)
                BY <3>1
            <4>2. taken \subseteq FreeSet /\ taken # {}
                BY ScatterIsFree, MaxCountAssumption
            <4>3. QED
                BY <4>1, <4>2, GrantRefines
        <3>2. CASE ThrowInsufficientSpace(t)
            BY <3>2 DEF ThrowInsufficientSpace
        <3>3. QED
            BY <2>3, <3>1, <3>2 DEF ScatteredAlloc
    <2>4. QED
        BY <1>2, <2>1, <2>2, <2>3, MaxCountAssumption, Zenon DEF AllocateBlocks
<1>3. QED
    BY <1>1, <1>2
LEMMA DeallocateRefines ==
    ASSUME IInv, NEW t \in Threads,
           \/ \E id \in owned[t] \cup {TotalBlocks} : DeallocateBlock(t, id)
           \/ \E ids \in SUBSET (owned[t] \cup {TotalBlocks}) : DeallocateBlocks(t, ids)
    PROVE  [BPool!Next]_owned
<1>0. TypeOK /\ SuperblockReserved
    BY DEF IInv, Inv
<1>1. CASE \E id \in owned[t] \cup {TotalBlocks} : DeallocateBlock(t, id)
    <2>1. PICK id \in owned[t] \cup {TotalBlocks} : DeallocateBlock(t, id)
        BY <1>1
    <2>2. CASE id >= TotalBlocks /\ ret' = [ret EXCEPT ![t] = Failed]
               /\ UNCHANGED <<block_bitmap, next_free_block, owned, checked, bitmap_mutex>>
        BY <2>2
    <2>3. CASE id < TotalBlocks /\ owned' = [owned EXCEPT ![t] = @ \ {id}]
        <3>1. id \in owned[t] /\ id \in Blocks \ {0}
            BY <1>0, <2>3, TotalBlocksAssumption DEF TypeOK, SuperblockReserved, Blocks
        <3>2. BPool!Release(t, {id})
            BY <2>3, <3>1 DEF BPool!Release
        <3>3. QED
            BY <3>1, <3>2 DEF BPool!Next
    <2>4. QED
        BY <2>1, <2>2, <2>3, Zenon DEF DeallocateBlock
<1>2. CASE \E ids \in SUBSET (owned[t] \cup {TotalBlocks}) : DeallocateBlocks(t, ids)
    <2>1. PICK ids \in SUBSET (owned[t] \cup {TotalBlocks}) : DeallocateBlocks(t, ids)
        BY <1>2
    <2> DEFINE X == ids \cap owned[t]
    <2>2. owned' = [owned EXCEPT ![t] = @ \ X]
        <3>1. owned' = [owned EXCEPT ![t] = owned[t] \ ids]
            BY <2>1 DEF DeallocateBlocks
        <3>2. owned[t] \ ids = owned[t] \ X
            OBVIOUS
        <3>3. [owned EXCEPT ![t] = owned[t] \ ids] = [owned EXCEPT ![t] = owned[t] \ X]
            BY <3>2, Zenon
        <3>4. QED
            BY <3>1, <3>3, Zenon
    <2>3. CASE X = {}
        BY <1>0, <2>2, <2>3 DEF TypeOK
    <2>4. CASE X # {}
        <3>1. X \in SUBSET (Blocks \ {0})
            BY <1>0 DEF TypeOK, SuperblockReserved
        <3>2. BPool!Release(t, X)
            BY <2>2, <2>4 DEF BPool!Release
        <3>3. QED
            BY <3>1, <3>2 DEF BPool!Next
    <2>5. QED
        BY <2>3, <2>4
<1>3. QED
    BY <1>1, <1>2

LEMMA NextRefinesPool == IInv /\ [Next]_vars => [BPool!Next]_owned
<1> SUFFICES ASSUME IInv, [Next]_vars PROVE [BPool!Next]_owned
    OBVIOUS
<1>1. CASE UNCHANGED vars
    BY <1>1 DEF vars
<1>2. ASSUME NEW t \in Threads, ThreadStep(t) PROVE [BPool!Next]_owned
    BY <1>2, AllocateRefines, DeallocateRefines DEF ThreadStep
<1>3. QED
    BY <1>1, <1>2 DEF Next

(* The block allocator implements the abstract pool: allocate_block and   *)
(* allocate_blocks hand a caller only blocks other than the superblock    *)
(* that nobody holds, and deallocate_block(s) take back only blocks the   *)
(* caller held; for every number of threads and blocks and every MaxCount. *)
THEOREM BlockPoolRefinementHolds == Spec => BPool!Spec
<1>1. Init => BPool!Init
    BY DEF Init, BPool!Init
<1>2. QED
    BY <1>1, InitIInv, NextIInv, NextRefinesPool, PTL DEF Spec, BPool!Spec
=============================================================================
