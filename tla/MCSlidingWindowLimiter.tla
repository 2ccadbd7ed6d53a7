---------------------- MODULE MCSlidingWindowLimiter ----------------------
(* TLC instance of SlidingWindowLimiter: two threads, two clients, two    *)
(* requests per window of two ticks, a clock of five ticks, so that       *)
(* windows fill, slide and are cleaned while a call is in progress.       *)
EXTENDS SlidingWindowLimiter, TLC

CONSTANTS t1, t2, c1, c2

MCThreads == {t1, t2}

MCClients == {c1, c2}

\* Threads are interchangeable, and so are clients.
MCSymmetry == Permutations(MCThreads) \cup Permutations(MCClients)
=============================================================================
