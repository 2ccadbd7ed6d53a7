--------------------------- MODULE BlockAllocator ---------------------------
(***************************************************************************)
(* The block allocator: class BlockManager of                              *)
(* src/src/core/block_manager.cpp.  A bitmap over the blocks of the device *)
(* (TRUE = free, as block_bitmap_ in the code) and a rotating search hint  *)
(* next_free_block_.  Every public operation holds bitmap_mutex_ for its   *)
(* whole body, so each one is a single atomic action here.                 *)
(* bitmap_mutex_ is a plain std::mutex: when allocate_block or            *)
(* allocate_blocks runs out of space, the throw expression calls          *)
(* get_free_block_count(), which locks bitmap_mutex_ again in the thread   *)
(* that holds it.  That thread never returns and keeps the mutex: the     *)
(* model records it in bitmap_mutex.                                       *)
(*                                                                         *)
(* The callers are threads of the file-system facade.  The model records  *)
(* which thread holds which block (owned) and what the last call returned *)
(* to each thread (ret), and what a thread learnt from is_block_free      *)
(* (checked): none exists in the allocator, they are the callers' state   *)
(* the properties are stated over.  A caller releases only blocks it      *)
(* holds, or the out-of-range id TotalBlocks (a corrupt pointer).          *)
(***************************************************************************)
EXTENDS Integers, FiniteSets

CONSTANTS
    Threads,        \* the threads calling into the allocator
    TotalBlocks,    \* total_blocks_: number of blocks on the device
    MaxCount,       \* largest count passed to allocate_blocks
    NoThread        \* no thread: bitmap_mutex_ is not held

ASSUME TotalBlocksAssumption == TotalBlocks \in Nat /\ TotalBlocks >= 2
ASSUME MaxCountAssumption == MaxCount \in Nat
ASSUME NoThreadAssumption == NoThread \notin Threads

VARIABLES
    block_bitmap,     \* block_bitmap_[b] = TRUE iff block b is free
    next_free_block,  \* next_free_block_: where the next search starts
    owned,            \* owned[t]: the blocks thread t holds
    ret,              \* ret[t]: what the last call of thread t returned
    checked,          \* checked[t]: the block t's last is_block_free call
                      \* found free ({} if none)
    bitmap_mutex      \* the thread stuck holding bitmap_mutex_, or NoThread

vars == <<block_bitmap, next_free_block, owned, ret, checked, bitmap_mutex>>

Blocks == 0 .. TotalBlocks - 1

FreeSet == {b \in Blocks : block_bitmap[b]}

\* The result of a call: success, the blocks returned and the length of the
\* returned vector (which can exceed the number of distinct blocks in it).
Result(ok, S, len) == [ok |-> ok, blocks |-> S, len |-> len]

Failed == Result(FALSE, {}, 0)

\* bitmap_mutex_ can be taken: no thread is stuck holding it.
Unlocked == bitmap_mutex = NoThread

-----------------------------------------------------------------------------
(* find_next_free_block(start): the first free block at or after start,    *)
(* wrapping around; Dist is the position of b in that search order.       *)

Dist(b, start) == (b + TotalBlocks - start) % TotalBlocks

IsNextFree(b, start) ==
    /\ b \in FreeSet
    /\ \A c \in FreeSet : Dist(b, start) <= Dist(c, start)

(* The contiguous scan of allocate_blocks.  Position 0 of the scan is      *)
(* next_free_block itself and position k > 0 is (next_free_block+k) % N.   *)
(* When next_free_block = TotalBlocks the read of position 0 is past the   *)
(* end of the bitmap: its value g is whatever the build reads there.       *)

ScanPos(k) == IF k = 0 THEN next_free_block
              ELSE (next_free_block + k) % TotalBlocks

ScanFree(p, g) == IF p < TotalBlocks THEN block_bitmap[p] ELSE g

RunAt(k, n, g) == \A j \in 0 .. n - 1 : ScanFree(ScanPos(k + j), g)

\* The scan positions where a run of n free blocks starts.
RunStarts(n, g) == {k \in 0 .. TotalBlocks - n : RunAt(k, n, g)}

RunBlocks(k, n) == {(next_free_block + k + j) % TotalBlocks : j \in 0 .. n - 1}

\* The values the out-of-range read can produce.
OutOfRangeReads == IF next_free_block < TotalBlocks THEN {FALSE} ELSE BOOLEAN

(* The scattered fallback calls find_next_free_block n times, each from    *)
(* just after the previous pick: it takes the free blocks in search order  *)
(* from next_free_block, the first n of them, or all if fewer are free.    *)

\* Mutant: the scattered loop runs once too often (i <= count).
ScatterTakenOver(n) ==
    {b \in FreeSet :
        Cardinality({c \in FreeSet : Dist(c, next_free_block)
                                       < Dist(b, next_free_block)}) <= n}

ScatterTaken(n) ==
    {b \in FreeSet :
        Cardinality({c \in FreeSet : Dist(c, next_free_block)
                                       < Dist(b, next_free_block)}) < n}

IsLastOf(b, S) == b \in S /\ \A c \in S : Dist(c, next_free_block)
                                          <= Dist(b, next_free_block)

-----------------------------------------------------------------------------
\* Mutant: the constructor forgets to reserve the superblock.
InitNoSuperblock ==
    /\ block_bitmap = [b \in Blocks |-> TRUE]
    /\ next_free_block = 1
    /\ owned = [t \in Threads |-> {}]
    /\ ret = [t \in Threads |-> Result(TRUE, {}, 0)]
    /\ checked = [t \in Threads |-> {}]
    /\ bitmap_mutex = NoThread

(* Constructor: all blocks free but block 0, the superblock; hint 1.       *)
Init ==
    /\ block_bitmap = [b \in Blocks |-> b # 0]
    /\ next_free_block = 1
    /\ owned = [t \in Threads |-> {}]
    /\ ret = [t \in Threads |-> Result(TRUE, {}, 0)]
    /\ checked = [t \in Threads |-> {}]
    /\ bitmap_mutex = NoThread

\* Mutant: the marking loop stops before the last block handed out.
GrantShort(t, S, hint, len) ==
    /\ block_bitmap' = [b \in Blocks |-> block_bitmap[b] /\ (b \notin S \/ IsLastOf(b, S))]
    /\ next_free_block' = hint
    /\ owned' = [owned EXCEPT ![t] = @ \cup S]
    /\ ret' = [ret EXCEPT ![t] = Result(TRUE, S, len)]
    /\ UNCHANGED <<checked, bitmap_mutex>>

\* Hand the blocks S to thread t, mark them used and move the hint.
Grant(t, S, hint, len) ==
    /\ block_bitmap' = [b \in Blocks |-> block_bitmap[b] /\ b \notin S]
    /\ next_free_block' = hint
    /\ owned' = [owned EXCEPT ![t] = @ \cup S]
    /\ ret' = [ret EXCEPT ![t] = Result(TRUE, S, len)]
    /\ UNCHANGED <<checked, bitmap_mutex>>

(* throw InsufficientSpaceException(n, get_free_block_count()) with       *)
(* bitmap_mutex_ held: the nested lock_guard blocks thread t for ever.     *)
ThrowInsufficientSpace(t) ==
    /\ bitmap_mutex' = t
    /\ UNCHANGED <<block_bitmap, owned, ret, checked>>

(* allocate_block(): the first free block from the hint, or OutOfSpace.    *)
AllocateBlock(t) ==
    /\ Unlocked
    /\ \/ \E b \in FreeSet :
             /\ IsNextFree(b, next_free_block)
             /\ Grant(t, {b}, (b + 1) % TotalBlocks, 1)
       \/ /\ FreeSet = {}
          /\ ThrowInsufficientSpace(t)
          /\ UNCHANGED next_free_block

(* allocate_blocks(n): the first run of n free blocks in scan order; if    *)
(* there is none, n scattered blocks; if fewer than n are free, the bits   *)
(* taken are given back and OutOfSpace is thrown, the hint left moved.     *)
\* Mutant: the hint after a contiguous run is not taken modulo N.
ContiguousAllocNoWrap(t, n, g) ==
    \E k \in RunStarts(n, g) :
        /\ \A m \in RunStarts(n, g) : k <= m
        /\ Grant(t, RunBlocks(k, n), next_free_block + k + n, n)

ContiguousAlloc(t, n, g) ==
    \E k \in RunStarts(n, g) :
        /\ \A m \in RunStarts(n, g) : k <= m
        /\ Grant(t, RunBlocks(k, n), (next_free_block + k + n) % TotalBlocks, n)

\* Mutant: the failing scattered path forgets to give the bits back.
ScatteredAllocNoRollback(t, n) ==
    LET taken == ScatterTaken(n) IN
    \/ /\ Cardinality(FreeSet) >= n
       /\ \E last \in taken :
             /\ IsLastOf(last, taken)
             /\ Grant(t, taken, (last + 1) % TotalBlocks, n)
    \/ /\ Cardinality(FreeSet) < n
       /\ bitmap_mutex' = t
       /\ block_bitmap' = [b \in Blocks |-> block_bitmap[b] /\ b \notin taken]
       /\ UNCHANGED <<owned, ret, checked>>
       /\ \/ taken = {} /\ UNCHANGED next_free_block
          \/ \E last \in taken :
                /\ IsLastOf(last, taken)
                /\ next_free_block' = (last + 1) % TotalBlocks

ScatteredAlloc(t, n) ==
    LET taken == ScatterTaken(n) IN
    \/ /\ Cardinality(FreeSet) >= n
       /\ \E last \in taken :
             /\ IsLastOf(last, taken)
             /\ Grant(t, taken, (last + 1) % TotalBlocks, n)
    \/ /\ Cardinality(FreeSet) < n
       /\ ThrowInsufficientSpace(t)
       /\ \/ taken = {} /\ UNCHANGED next_free_block
          \/ \E last \in taken :
                /\ IsLastOf(last, taken)
                /\ next_free_block' = (last + 1) % TotalBlocks

AllocateBlocks(t, n) ==
    \/ /\ n = 0
       /\ ret' = [ret EXCEPT ![t] = Result(TRUE, {}, 0)]
       /\ UNCHANGED <<block_bitmap, next_free_block, owned, checked, bitmap_mutex>>
    \/ /\ n > 0
       /\ Unlocked
       /\ \E g \in OutOfRangeReads :
             \/ ContiguousAlloc(t, n, g)
             \/ RunStarts(n, g) = {} /\ ScatteredAlloc(t, n)

(* deallocate_block(id): InvalidBlock, before the lock, when out of range; *)
(* a warning and no change when already free; otherwise the bit is set.  *)
(* No check on id 0.  mark_block_free(id) has the same effect and is this  *)
(* action as well.                                                         *)
DeallocateBlock(t, id) ==
    \/ /\ id >= TotalBlocks
       /\ ret' = [ret EXCEPT ![t] = Failed]
       /\ UNCHANGED <<block_bitmap, next_free_block, owned, checked, bitmap_mutex>>
    \/ /\ id < TotalBlocks
       /\ Unlocked
       /\ ret' = [ret EXCEPT ![t] = Result(TRUE, {}, 0)]
       /\ owned' = [owned EXCEPT ![t] = @ \ {id}]
       /\ block_bitmap' = [block_bitmap EXCEPT ![id] = TRUE]
       /\ UNCHANGED <<next_free_block, checked, bitmap_mutex>>

(* deallocate_blocks(ids): ids out of range are skipped, free ones warned. *)
DeallocateBlocks(t, ids) ==
    /\ Unlocked
    /\ block_bitmap' = [b \in Blocks |-> block_bitmap[b] \/ b \in ids]
    /\ owned' = [owned EXCEPT ![t] = @ \ ids]
    /\ ret' = [ret EXCEPT ![t] = Result(TRUE, {}, 0)]
    /\ UNCHANGED <<next_free_block, checked, bitmap_mutex>>

(* is_block_free(b): reads the bit without taking the lock; the caller     *)
(* keeps the answer.                                                       *)
IsBlockFree(t, b) ==
    /\ checked' = [checked EXCEPT ![t] = IF block_bitmap[b] THEN {b} ELSE {}]
    /\ UNCHANGED <<block_bitmap, next_free_block, owned, ret, bitmap_mutex>>

(* mark_block_used(b): sets the bit used, whatever it was; no check that   *)
(* the block is free.  The caller takes the block as its own.              *)
MarkBlockUsed(t, b) ==
    /\ Unlocked
    /\ block_bitmap' = [block_bitmap EXCEPT ![b] = FALSE]
    /\ owned' = [owned EXCEPT ![t] = @ \cup {b}]
    /\ ret' = [ret EXCEPT ![t] = Result(TRUE, {}, 0)]
    /\ checked' = [checked EXCEPT ![t] = {}]
    /\ UNCHANGED <<next_free_block, bitmap_mutex>>

(* defragment_blocks(): the first used_count bits become used, the rest    *)
(* free, and the hint is set to used_count.  No data is moved.             *)
DefragmentBlocks ==
    LET used_count == TotalBlocks - Cardinality(FreeSet) IN
    /\ Unlocked
    /\ block_bitmap' = [b \in Blocks |-> b >= used_count]
    /\ next_free_block' = used_count
    /\ UNCHANGED <<owned, ret, checked, bitmap_mutex>>

-----------------------------------------------------------------------------
(* The callers keep the contract: they release only what they hold.  A    *)
(* thread stuck in a nested lock makes no further call.                    *)
ThreadStep(t) ==
    /\ bitmap_mutex # t
    /\ \/ AllocateBlock(t)
       \/ \E n \in 0 .. MaxCount : AllocateBlocks(t, n)
       \/ \E id \in owned[t] \cup {TotalBlocks} : DeallocateBlock(t, id)
       \/ \E ids \in SUBSET (owned[t] \cup {TotalBlocks}) : DeallocateBlocks(t, ids)

Next == \E t \in Threads : ThreadStep(t)

Spec == Init /\ [][Next]_vars

(* A caller frees the null block pointer 0: the value an unused entry of   *)
(* an inode's direct_blocks holds.                                         *)
NextNullFree == Next \/ \E t \in Threads : bitmap_mutex # t /\ DeallocateBlock(t, 0)

SpecNullFree == Init /\ [][NextNullFree]_vars

(* A caller claims a block by asking is_block_free and then calling        *)
(* mark_block_used for a block found free: two calls, two lock sections.   *)
CheckThenMark(t) ==
    \/ \E b \in Blocks : IsBlockFree(t, b)
    \/ \E b \in checked[t] : MarkBlockUsed(t, b)

NextCheckThenMark == Next \/ \E t \in Threads : bitmap_mutex # t /\ CheckThenMark(t)

SpecCheckThenMark == Init /\ [][NextCheckThenMark]_vars

(* Maintenance: defragment once the device is in use.                      *)
NextDefrag == Next \/ DefragmentBlocks

SpecDefrag == Init /\ [][NextDefrag]_vars

-----------------------------------------------------------------------------
TypeOK ==
    /\ block_bitmap \in [Blocks -> BOOLEAN]
    /\ next_free_block \in 0 .. TotalBlocks
    /\ owned \in [Threads -> SUBSET Blocks]
    /\ ret \in [Threads -> [ok : BOOLEAN, blocks : SUBSET Blocks, len : Nat]]
    /\ checked \in [Threads -> SUBSET Blocks]
    /\ bitmap_mutex \in Threads \cup {NoThread}

(* No block is held by two threads, and no held block is marked free: the  *)
(* allocator never hands out a block that is in use.                       *)
NoDoubleAllocation ==
    /\ \A t, u \in Threads : t # u => owned[t] \cap owned[u] = {}
    /\ \A t \in Threads : \A b \in owned[t] : ~block_bitmap[b]

(* Block 0 holds the superblock: it stays marked used and no thread ever   *)
(* receives it (constructor and deallocate_block).                         *)
SuperblockReserved ==
    /\ ~block_bitmap[0]
    /\ \A t \in Threads : 0 \notin owned[t]

(* Every used block other than the superblock is held by a thread: a       *)
(* failed allocate_blocks gives back every bit it took, so no block leaks. *)
NoLeakedBlocks ==
    \A b \in Blocks \ {0} : ~block_bitmap[b] => \E t \in Threads : b \in owned[t]

(* The search hint indexes the bitmap, so the first read of the          *)
(* contiguous scan in allocate_blocks (block_bitmap_[next_free_block_]) is *)
(* in bounds.                                                              *)
HintInRange == next_free_block \in Blocks

(* A call that runs out of space throws InsufficientSpace to its caller   *)
(* (spec 4.2: allocation fails OutOfSpace) and leaves bitmap_mutex_ free,  *)
(* so every later allocate_block, allocate_blocks or deallocate_block can *)
(* still take it.                                                          *)
AllocatorNeverWedged == bitmap_mutex = NoThread

(* A successful allocation returns exactly as many distinct blocks as the  *)
(* returned vector has entries, every one of them free before the call.   *)
AllocationReturnsFreshBlocks ==
    [][\A t \in Threads :
          owned'[t] \ owned[t] # {} =>
             /\ owned'[t] \ owned[t] \subseteq FreeSet
             /\ ret'[t].ok
             /\ Cardinality(ret'[t].blocks) = ret'[t].len]_vars

=============================================================================
