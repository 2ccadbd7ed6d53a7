----------------------------- MODULE InodeTable -----------------------------
(***************************************************************************)
(* The inode table: class InodeTable of src/src/core/inode.cpp.  An array  *)
(* of inode records, a free bitmap free_inodes_ (TRUE = free) and a        *)
(* rotating hint next_free_inode_.  allocate_inode and deallocate_inode    *)
(* hold table_mutex_ for their whole body and are single actions;          *)
(* get_inode takes no lock and returns a raw Inode* into the array, which  *)
(* the caller writes through later (initialize, update_mtime, ...).        *)
(*                                                                         *)
(* The record's fields are abstracted to who wrote it last: NoThread is   *)
(* the zeroed record Inode() that the constructor and deallocate_inode     *)
(* put in place.  owned[t] and handles[t] are caller state: the inodes     *)
(* thread t allocated, and those it holds an Inode* to.                    *)
(*                                                                         *)
(* table_mutex_ is a plain std::mutex.  When allocate_inode finds no free  *)
(* inode, its throw expression calls get_free_inode_count(), which locks   *)
(* table_mutex_ again in the thread that holds it; that thread blocks for  *)
(* ever and keeps the mutex, recorded in table_mutex.                      *)
(***************************************************************************)
EXTENDS Integers

CONSTANTS
    Threads,     \* the threads calling into the table
    MaxInodes,   \* max_inodes: the size of inodes_ and free_inodes_
    NoThread     \* no thread: table_mutex_ not held; writer of a zeroed record

ASSUME MaxInodesAssumption == MaxInodes \in Nat /\ MaxInodes >= 2
ASSUME InodeNoThreadAssumption == NoThread \notin Threads

VARIABLES
    free_inodes,      \* free_inodes_[n] = TRUE iff inode n is free
    next_free_inode,  \* next_free_inode_: where allocate_inode starts
    inodes,           \* inodes[n]: the thread that last wrote record n
    owned,            \* owned[t]: the inodes thread t allocated
    handles,          \* handles[t]: the inodes t holds an Inode* to
    table_mutex       \* the thread stuck holding table_mutex_, or NoThread

vars == <<free_inodes, next_free_inode, inodes, owned, handles, table_mutex>>

Inodes == 0 .. MaxInodes - 1

\* Inode(): the default-constructed, zeroed record.
ZeroInode == NoThread

Unlocked == table_mutex = NoThread

\* The first free inode of the index range R, as a loop over R finds it.
IsFirstFree(i, R) ==
    /\ i \in R
    /\ free_inodes[i]
    /\ \A j \in R : free_inodes[j] => i <= j

-----------------------------------------------------------------------------
\* Mutant: the constructor does not reserve the root inode 1.
InitNoRoot ==
    /\ free_inodes = [n \in Inodes |-> n # 0]
    /\ next_free_inode = 1
    /\ inodes = [n \in Inodes |-> ZeroInode]
    /\ owned = [t \in Threads |-> {}]
    /\ handles = [t \in Threads |-> {}]
    /\ table_mutex = NoThread

(* InodeTable(max_inodes): every record zeroed, every inode free but 0     *)
(* (invalid) and 1 (root); the hint starts at 1.                           *)
Init ==
    /\ free_inodes = [n \in Inodes |-> n \notin {0, 1}]
    /\ next_free_inode = 1
    /\ inodes = [n \in Inodes |-> ZeroInode]
    /\ owned = [t \in Threads |-> {}]
    /\ handles = [t \in Threads |-> {}]
    /\ table_mutex = NoThread

\* Mutant: the bit of the allocated inode is not cleared.
TakeNoMark(t, i) ==
    /\ next_free_inode' = (i + 1) % MaxInodes
    /\ owned' = [owned EXCEPT ![t] = @ \cup {i}]
    /\ UNCHANGED <<free_inodes, inodes, handles, table_mutex>>

\* Mutant: the hint is not taken modulo the table size.
TakeNoWrap(t, i) ==
    /\ free_inodes' = [free_inodes EXCEPT ![i] = FALSE]
    /\ next_free_inode' = i + 1
    /\ owned' = [owned EXCEPT ![t] = @ \cup {i}]
    /\ UNCHANGED <<inodes, handles, table_mutex>>

\* Hand inode i to thread t: clear its bit and move the hint past it.
Take(t, i) ==
    /\ free_inodes' = [free_inodes EXCEPT ![i] = FALSE]
    /\ next_free_inode' = (i + 1) % MaxInodes
    /\ owned' = [owned EXCEPT ![t] = @ \cup {i}]
    /\ UNCHANGED <<inodes, handles, table_mutex>>

(* allocate_inode(): the first free inode from the hint to the end, else  *)
(* the first free one from 1 up to the hint; with none free the throw      *)
(* blocks t in the nested lock of get_free_inode_count().                  *)
AllocateInode(t) ==
    LET upper == next_free_inode .. MaxInodes - 1
        lower == 1 .. next_free_inode - 1
    IN /\ Unlocked
       /\ \/ \E i \in upper : IsFirstFree(i, upper) /\ Take(t, i)
          \/ /\ \A i \in upper : ~free_inodes[i]
             /\ \E i \in lower : IsFirstFree(i, lower) /\ Take(t, i)
          \/ /\ \A i \in upper \cup lower : ~free_inodes[i]
             /\ table_mutex' = t
             /\ UNCHANGED <<free_inodes, next_free_inode, inodes, owned, handles>>

\* Mutant: the record is not reset to Inode() when it is freed.
DeallocateInodeNoReset(t, n) ==
    /\ n \in Inodes
    /\ Unlocked
    /\ ~free_inodes[n]
    /\ free_inodes' = [free_inodes EXCEPT ![n] = TRUE]
    /\ owned' = [u \in Threads |-> owned[u] \ {n}]
    /\ UNCHANGED <<next_free_inode, inodes, handles, table_mutex>>

(* deallocate_inode(n): InodeNotFound, before the lock, when n is out of   *)
(* range; a warning and no change when n is free; otherwise the bit is set *)
(* and the record zeroed.  Nothing stops n = 0 or n = 1, nor an Inode* to  *)
(* n still held by some thread.                                            *)
DeallocateInode(t, n) ==
    /\ n \in Inodes
    /\ Unlocked
    /\ ~free_inodes[n]
    /\ free_inodes' = [free_inodes EXCEPT ![n] = TRUE]
    /\ inodes' = [inodes EXCEPT ![n] = ZeroInode]
    /\ owned' = [u \in Threads |-> owned[u] \ {n}]
    /\ UNCHANGED <<next_free_inode, handles, table_mutex>>

(* get_inode(n), without the lock: InodeNotFound when n is free, else the  *)
(* address of the record, which t keeps.                                   *)
GetInode(t, n) ==
    /\ ~free_inodes[n]
    /\ handles' = [handles EXCEPT ![t] = @ \cup {n}]
    /\ UNCHANGED <<free_inodes, next_free_inode, inodes, owned, table_mutex>>

(* A write through a held Inode*: initialize(), update_atime/mtime/ctime() *)
(* set fields and the checksum of the record, with no table lock.          *)
WriteInode(t, n) ==
    /\ n \in handles[t]
    /\ inodes' = [inodes EXCEPT ![n] = t]
    /\ UNCHANGED <<free_inodes, next_free_inode, owned, handles, table_mutex>>

\* The caller forgets an Inode* it holds.
DropHandle(t, n) ==
    /\ n \in handles[t]
    /\ handles' = [handles EXCEPT ![t] = @ \ {n}]
    /\ UNCHANGED <<free_inodes, next_free_inode, inodes, owned, table_mutex>>

-----------------------------------------------------------------------------
(* The callers: a thread allocates inodes, looks up any live inode (as a   *)
(* path lookup would) and writes through the pointer, and frees an inode   *)
(* it allocated only once no thread holds a pointer to it (the facade's    *)
(* open-handle rule, spec section 2).  A stuck thread makes no call.       *)
NoHandleTo(n) == \A u \in Threads : n \notin handles[u]

ThreadStep(t) ==
    /\ table_mutex # t
    /\ \/ AllocateInode(t)
       \/ \E n \in Inodes : GetInode(t, n)
       \/ \E n \in handles[t] : WriteInode(t, n) \/ DropHandle(t, n)
       \/ \E n \in owned[t] : NoHandleTo(n) /\ DeallocateInode(t, n)

Next == \E t \in Threads : ThreadStep(t)

Spec == Init /\ [][Next]_vars

(* A caller frees an inode it allocated while other threads still hold    *)
(* an Inode* to it: deallocate_inode does not know about them.             *)
NextEarlyFree ==
    Next \/ \E t \in Threads : table_mutex # t /\ \E n \in owned[t] : DeallocateInode(t, n)

SpecEarlyFree == Init /\ [][NextEarlyFree]_vars

(* A caller frees inode 0, the number a tombstone directory entry holds.  *)
NextFreeZero == Next \/ \E t \in Threads : table_mutex # t /\ DeallocateInode(t, 0)

SpecFreeZero == Init /\ [][NextFreeZero]_vars

-----------------------------------------------------------------------------
TypeOK ==
    /\ free_inodes \in [Inodes -> BOOLEAN]
    /\ next_free_inode \in Inodes
    /\ inodes \in [Inodes -> Threads \cup {ZeroInode}]
    /\ owned \in [Threads -> SUBSET Inodes]
    /\ handles \in [Threads -> SUBSET Inodes]
    /\ table_mutex \in Threads \cup {NoThread}

(* No inode is held by two threads, and no held inode is marked free:     *)
(* both loops of allocate_inode clear the bit of the inode they return.   *)
NoDoubleAllocation ==
    /\ \A t, u \in Threads : t # u => owned[t] \cap owned[u] = {}
    /\ \A t \in Threads : \A n \in owned[t] : ~free_inodes[n]

(* allocate_inode never returns inode 0 (invalid) or inode 1 (root),      *)
(* whatever the hint wraps to (spec 4.3: both permanently reserved).       *)
ReservedNeverAllocated == \A t \in Threads : owned[t] \cap {0, 1} = {}

(* allocate_inode hands out a zeroed record: deallocate_inode reset it and *)
(* nothing wrote it while it was free (spec 4.3 and section 2: a record    *)
(* is destroyed only when no handle references it).                       *)
FreshInodesZeroed ==
    [][\A t \in Threads : \A n \in owned'[t] \ owned[t] : inodes[n] = ZeroInode]_vars

(* Between calls no thread holds table_mutex_: allocate_inode on a full    *)
(* table throws OutOfSpace to its caller (spec 4.3).                       *)
InodeTableNeverWedged == table_mutex = NoThread


(* The allocator as its callers see it: owned is the pool's held, and the  *)
(* pool's resources are the inodes other than the reserved ones.           *)
Pool == INSTANCE ResourcePool WITH Resources <- Inodes \ {0, 1}, held <- owned

(* Every step of the inode allocator, with callers that keep the contract, *)
(* is a step of the abstract pool or leaves the holdings as they were: it *)
(* hands out only inodes nobody holds and that are not reserved.          *)
PoolRefinement == Pool!Spec

=============================================================================
