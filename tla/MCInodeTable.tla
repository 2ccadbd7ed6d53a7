---------------------------- MODULE MCInodeTable ----------------------------
(* TLC instance of InodeTable: two threads and four inodes, two of them   *)
(* allocatable, so that the hint wraps to 0 and 1, the wrap-around loop    *)
(* runs, and the table fills up.                                           *)
EXTENDS InodeTable, TLC

CONSTANTS t1, t2

MCThreads == {t1, t2}

\* The threads are interchangeable.
MCSymmetry == Permutations(MCThreads)
=============================================================================
