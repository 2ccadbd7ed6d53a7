-------------------------- MODULE InodeTableProofs --------------------------
(***************************************************************************)
(* Proofs, for every set of threads and every table size, that the inode  *)
(* table of src/src/core/inode.cpp keeps its type, never hands an inode to *)
(* two threads, never hands out inode 0 or 1, and hands out only zeroed    *)
(* records, as long as callers free only inodes they allocated and no     *)
(* thread holds an Inode* to.                                              *)
(*                                                                         *)
(* The properties are not inductive alone.  The reserved inodes are never  *)
(* returned because their bits stay used, and a record is zeroed when it  *)
(* is handed out because every free inode is pristine: its record is the  *)
(* one deallocate_inode put there and nobody holds a pointer to it, since *)
(* get_inode refuses free inodes.                                          *)
(***************************************************************************)
EXTENDS InodeTable, TLAPS

ReservedUsed == ~free_inodes[0] /\ ~free_inodes[1]

FreeIsPristine ==
    \A n \in Inodes : free_inodes[n] =>
        /\ inodes[n] = ZeroInode
        /\ \A u \in Threads : n \notin handles[u]

IInv ==
    /\ TypeOK
    /\ ReservedUsed
    /\ NoDoubleAllocation
    /\ ReservedNeverAllocated
    /\ FreeIsPristine

\* The step relation of FreshInodesZeroed.
HandsOutZeroed ==
    \A t \in Threads : \A n \in owned'[t] \ owned[t] : inodes[n] = ZeroInode

LEMMA ReservedInodes == {0, 1} \subseteq Inodes
BY MaxInodesAssumption DEF Inodes

-----------------------------------------------------------------------------
(* Handing out a free inode preserves the inductive invariant.            *)
LEMMA TakePreserves ==
    ASSUME IInv, NEW t \in Threads, NEW i \in Inodes, free_inodes[i],
           Take(t, i)
    PROVE  IInv'
<1>1. i \notin {0, 1}
    BY ReservedInodes DEF IInv, ReservedUsed
<1>2. TypeOK'
    BY MaxInodesAssumption DEF IInv, TypeOK, Take, Inodes
<1>3. ReservedUsed'
    BY <1>1, ReservedInodes DEF IInv, TypeOK, ReservedUsed, Take
<1>4. NoDoubleAllocation'
    BY DEF IInv, TypeOK, NoDoubleAllocation, Take
<1>5. ReservedNeverAllocated'
    BY <1>1 DEF IInv, TypeOK, ReservedNeverAllocated, Take
<1>6. FreeIsPristine'
    BY DEF IInv, TypeOK, FreeIsPristine, Take
<1>7. QED
    BY <1>2, <1>3, <1>4, <1>5, <1>6 DEF IInv

LEMMA AllocateInodePreserves ==
    ASSUME IInv, NEW t \in Threads, AllocateInode(t)
    PROVE  IInv' /\ HandsOutZeroed
<1> DEFINE upper == next_free_inode .. MaxInodes - 1
           lower == 1 .. next_free_inode - 1
<1>0. upper \subseteq Inodes /\ lower \subseteq Inodes
    BY MaxInodesAssumption DEF IInv, TypeOK, Inodes
<1>1. CASE \E i \in upper \cup lower : free_inodes[i] /\ Take(t, i)
    <2>1. PICK i \in upper \cup lower : free_inodes[i] /\ Take(t, i)
        BY <1>1
    <2>2. IInv'
        BY <1>0, <2>1, TakePreserves
    <2>3. inodes[i] = ZeroInode
        BY <1>0, <2>1 DEF IInv, FreeIsPristine
    <2>4. HandsOutZeroed
        BY <2>1, <2>3 DEF HandsOutZeroed, Take, IInv, TypeOK
    <2>5. QED
        BY <2>2, <2>4
<1>2. CASE table_mutex' = t
           /\ UNCHANGED <<free_inodes, next_free_inode, inodes, owned, handles>>
    <2>1. IInv'
        BY <1>2 DEF IInv, TypeOK, ReservedUsed, NoDoubleAllocation,
                    ReservedNeverAllocated, FreeIsPristine
    <2>2. HandsOutZeroed
        BY <1>2 DEF HandsOutZeroed
    <2>3. QED
        BY <2>1, <2>2
<1>3. QED
    BY <1>1, <1>2 DEF AllocateInode, IsFirstFree

(* Freeing an allocated inode nobody points to: the bit is set, the       *)
(* record zeroed, and no other thread held the inode.                      *)
LEMMA DeallocateInodePreserves ==
    ASSUME IInv, NEW t \in Threads, NEW n \in owned[t], NoHandleTo(n),
           DeallocateInode(t, n)
    PROVE  IInv'
<1>1. n \notin {0, 1}
    BY DEF IInv, ReservedNeverAllocated
<1>2. TypeOK'
    BY DEF IInv, TypeOK, DeallocateInode, ZeroInode
<1>3. ReservedUsed'
    BY <1>1, ReservedInodes DEF IInv, TypeOK, ReservedUsed, DeallocateInode
<1>4. NoDoubleAllocation'
    BY DEF IInv, TypeOK, NoDoubleAllocation, DeallocateInode
<1>5. ReservedNeverAllocated'
    BY DEF IInv, TypeOK, ReservedNeverAllocated, DeallocateInode
<1>6. FreeIsPristine'
    BY DEF IInv, TypeOK, FreeIsPristine, DeallocateInode, NoHandleTo
<1>7. QED
    BY <1>2, <1>3, <1>4, <1>5, <1>6 DEF IInv

LEMMA GetInodePreserves ==
    ASSUME IInv, NEW t \in Threads, NEW n \in Inodes, GetInode(t, n)
    PROVE  IInv'
<1>1. TypeOK'
    BY DEF IInv, TypeOK, GetInode
<1>2. FreeIsPristine'
    BY DEF IInv, TypeOK, FreeIsPristine, GetInode
<1>3. QED
    BY <1>1, <1>2 DEF IInv, GetInode, ReservedUsed, NoDoubleAllocation,
                      ReservedNeverAllocated

LEMMA WriteInodePreserves ==
    ASSUME IInv, NEW t \in Threads, NEW n \in handles[t], WriteInode(t, n)
    PROVE  IInv'
<1>1. ~free_inodes[n]
    BY DEF IInv, TypeOK, FreeIsPristine
<1>2. TypeOK'
    BY DEF IInv, TypeOK, WriteInode
<1>3. FreeIsPristine'
    BY <1>1 DEF IInv, TypeOK, FreeIsPristine, WriteInode
<1>4. QED
    BY <1>2, <1>3 DEF IInv, WriteInode, ReservedUsed, NoDoubleAllocation,
                      ReservedNeverAllocated

LEMMA DropHandlePreserves ==
    ASSUME IInv, NEW t \in Threads, NEW n \in handles[t], DropHandle(t, n)
    PROVE  IInv'
<1>1. TypeOK'
    BY DEF IInv, TypeOK, DropHandle
<1>2. FreeIsPristine'
    BY DEF IInv, TypeOK, FreeIsPristine, DropHandle
<1>3. QED
    BY <1>1, <1>2 DEF IInv, DropHandle, ReservedUsed, NoDoubleAllocation,
                      ReservedNeverAllocated

-----------------------------------------------------------------------------
LEMMA InitIInv == Init => IInv
<1> SUFFICES ASSUME Init PROVE IInv
    OBVIOUS
<1>1. TypeOK
    BY MaxInodesAssumption DEF Init, TypeOK, Inodes, ZeroInode
<1>2. ReservedUsed
    BY ReservedInodes DEF Init, ReservedUsed
<1>3. QED
    BY <1>1, <1>2 DEF Init, IInv, NoDoubleAllocation, ReservedNeverAllocated,
                      FreeIsPristine

(* Every step keeps the inductive invariant and hands out only zeroed     *)
(* records.                                                                *)
LEMMA NextIInv == IInv /\ [Next]_vars => IInv' /\ HandsOutZeroed
<1> SUFFICES ASSUME IInv, [Next]_vars PROVE IInv' /\ HandsOutZeroed
    OBVIOUS
<1>1. CASE UNCHANGED vars
    BY <1>1 DEF vars, IInv, TypeOK, ReservedUsed, NoDoubleAllocation,
                ReservedNeverAllocated, FreeIsPristine, HandsOutZeroed
<1>2. ASSUME NEW t \in Threads, ThreadStep(t) PROVE IInv' /\ HandsOutZeroed
    <2>1. CASE AllocateInode(t)
        BY <2>1, AllocateInodePreserves
    <2>2. CASE \E n \in Inodes : GetInode(t, n)
        BY <2>2, GetInodePreserves DEF GetInode, HandsOutZeroed
    <2>3. CASE \E n \in handles[t] : WriteInode(t, n)
        BY <2>3, WriteInodePreserves DEF WriteInode, HandsOutZeroed
    <2>4. CASE \E n \in handles[t] : DropHandle(t, n)
        BY <2>4, DropHandlePreserves DEF DropHandle, HandsOutZeroed
    <2>5. CASE \E n \in owned[t] : NoHandleTo(n) /\ DeallocateInode(t, n)
        <3>1. PICK n \in owned[t] : NoHandleTo(n) /\ DeallocateInode(t, n)
            BY <2>5
        <3>2. HandsOutZeroed
            BY <3>1 DEF DeallocateInode, HandsOutZeroed
        <3>3. QED
            BY <3>1, <3>2, DeallocateInodePreserves
    <2>6. QED
        BY <1>2, <2>1, <2>2, <2>3, <2>4, <2>5 DEF ThreadStep
<1>3. QED
    BY <1>1, <1>2 DEF Next

-----------------------------------------------------------------------------
(* Every state the inode table reaches satisfies the type invariant.      *)
THEOREM InodeTypeCorrect == Spec => []TypeOK
<1>1. IInv => TypeOK
    BY DEF IInv
<1>2. QED
    BY InitIInv, NextIInv, <1>1, PTL DEF Spec

(* allocate_inode never gives one inode to two threads nor returns a held *)
(* inode, for every number of threads and inodes.                          *)
THEOREM InodeNoDoubleAllocationHolds == Spec => []NoDoubleAllocation
<1>1. IInv => NoDoubleAllocation
    BY DEF IInv
<1>2. QED
    BY InitIInv, NextIInv, <1>1, PTL DEF Spec

(* allocate_inode never returns inode 0 or the root inode 1, whichever    *)
(* value the wrapping hint takes.                                          *)
THEOREM ReservedNeverAllocatedHolds == Spec => []ReservedNeverAllocated
<1>1. IInv => ReservedNeverAllocated
    BY DEF IInv
<1>2. QED
    BY InitIInv, NextIInv, <1>1, PTL DEF Spec

(* allocate_inode hands out only records deallocate_inode zeroed, when    *)
(* callers free an inode only once no thread holds an Inode* to it.       *)
THEOREM FreshInodesZeroedHolds == Spec => FreshInodesZeroed
<1>1. IInv /\ [Next]_vars => [HandsOutZeroed]_vars
    BY NextIInv
<1>2. QED
    BY InitIInv, NextIInv, <1>1, PTL DEF Spec, FreshInodesZeroed, HandsOutZeroed
-----------------------------------------------------------------------------
(* Refinement of the abstract pool.  A free inode is in the pool's         *)
(* Available set: it is not reserved (ReservedUsed) and nobody holds it    *)
(* (NoDoubleAllocation).                                                   *)
LEMMA FreeIsAvailable ==
    ASSUME IInv, NEW i \in Inodes, free_inodes[i]
    PROVE  i \in Pool!Available
BY ReservedInodes DEF IInv, TypeOK, ReservedUsed, NoDoubleAllocation,
                      Pool!Available

LEMMA NextRefines == IInv /\ [Next]_vars => [Pool!Next]_owned
<1> SUFFICES ASSUME IInv, [Next]_vars PROVE [Pool!Next]_owned
    OBVIOUS
<1> DEFINE Res == Inodes \ {0, 1}
<1>1. CASE UNCHANGED vars
    BY <1>1 DEF vars
<1>2. ASSUME NEW t \in Threads, ThreadStep(t) PROVE [Pool!Next]_owned
    <2>1. CASE AllocateInode(t)
        <3> DEFINE upper == next_free_inode .. MaxInodes - 1
                   lower == 1 .. next_free_inode - 1
        <3>0. upper \subseteq Inodes /\ lower \subseteq Inodes
            BY MaxInodesAssumption DEF IInv, TypeOK, Inodes
        <3>1. CASE \E i \in upper \cup lower : free_inodes[i] /\ Take(t, i)
            <4>1. PICK i \in upper \cup lower : free_inodes[i] /\ Take(t, i)
                BY <3>1
            <4>2. i \in Pool!Available /\ i \in Res
                BY <3>0, <4>1, FreeIsAvailable DEF Pool!Available
            <4>3. Pool!Acquire(t, {i})
                BY <4>1, <4>2 DEF Pool!Acquire, Take
            <4>4. {i} \in SUBSET Res
                BY <4>2
            <4>5. QED
                BY <4>3, <4>4 DEF Pool!Next
        <3>2. CASE table_mutex' = t
                   /\ UNCHANGED <<free_inodes, next_free_inode, inodes, owned, handles>>
            BY <3>2
        <3>3. QED
            BY <2>1, <3>1, <3>2 DEF AllocateInode, IsFirstFree
    <2>2. CASE \E n \in Inodes : GetInode(t, n)
        BY <2>2 DEF GetInode
    <2>3. CASE \E n \in handles[t] : WriteInode(t, n)
        BY <2>3 DEF WriteInode
    <2>4. CASE \E n \in handles[t] : DropHandle(t, n)
        BY <2>4 DEF DropHandle
    <2>5. CASE \E n \in owned[t] : NoHandleTo(n) /\ DeallocateInode(t, n)
        <3>1. PICK n \in owned[t] : NoHandleTo(n) /\ DeallocateInode(t, n)
            BY <2>5
        <3>2. n \in Res
            BY <3>1 DEF IInv, TypeOK, ReservedNeverAllocated
        <3>3. \A u \in Threads : u # t => n \notin owned[u]
            BY <3>1 DEF IInv, NoDoubleAllocation
        <3>4. owned' = [owned EXCEPT ![t] = @ \ {n}]
            BY <3>1, <3>3 DEF IInv, TypeOK, DeallocateInode
        <3>5. Pool!Release(t, {n})
            BY <3>1, <3>4 DEF Pool!Release
        <3>6. QED
            BY <3>2, <3>5 DEF Pool!Next
    <2>6. QED
        BY <1>2, <2>1, <2>2, <2>3, <2>4, <2>5 DEF ThreadStep
<1>3. QED
    BY <1>1, <1>2 DEF Next

(* The inode table implements the abstract pool: allocate_inode hands a   *)
(* caller only an unreserved inode nobody holds, and deallocate_inode     *)
(* takes back only what its caller held.                                   *)
THEOREM InodePoolRefinementHolds == Spec => PoolRefinement
<1>1. Init => Pool!Init
    BY DEF Init, Pool!Init
<1>2. QED
    BY <1>1, InitIInv, NextIInv, NextRefines, PTL DEF Spec, PoolRefinement, Pool!Spec

=============================================================================
