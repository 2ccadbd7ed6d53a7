---------------------------- MODULE ResourcePool ----------------------------
(***************************************************************************)
(* What an allocator of numbered resources promises its callers, whatever *)
(* bitmap or search order implements it: a thread receives only resources *)
(* that nobody holds, never a reserved one, and gives back only what it    *)
(* holds.  BlockAllocator (blocks, block 0 reserved) and InodeTable         *)
(* (inodes, inodes 0 and 1 reserved) are shown to implement it.            *)
(***************************************************************************)
CONSTANTS
    Threads,     \* the callers
    Resources    \* the resources that may be handed out

VARIABLE held    \* held[t]: the resources thread t holds

\* The resources nobody holds.
Available == Resources \ UNION {held[t] : t \in Threads}

Init == held = [t \in Threads |-> {}]

\* A call hands t a non-empty set of available resources.
Acquire(t, S) ==
    /\ S # {}
    /\ S \subseteq Available
    /\ held' = [held EXCEPT ![t] = @ \cup S]

\* A call takes back from t resources it holds.
Release(t, S) ==
    /\ S # {}
    /\ S \subseteq held[t]
    /\ held' = [held EXCEPT ![t] = @ \ S]

Next == \E t \in Threads : \E S \in SUBSET Resources : Acquire(t, S) \/ Release(t, S)

Spec == Init /\ [][Next]_held

\* No resource is held by two threads.
Exclusive == \A t, u \in Threads : t # u => held[t] \cap held[u] = {}
=============================================================================
