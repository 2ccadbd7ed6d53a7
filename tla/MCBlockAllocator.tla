-------------------------- MODULE MCBlockAllocator --------------------------
(* TLC instance of BlockAllocator: two threads, five blocks, requests of   *)
(* up to three blocks, so that a contiguous run, the scattered fallback    *)
(* and its rollback all happen.                                            *)
EXTENDS BlockAllocator, TLC

CONSTANTS t1, t2

MCThreads == {t1, t2}

\* The threads are interchangeable.
MCSymmetry == Permutations(MCThreads)
=============================================================================
