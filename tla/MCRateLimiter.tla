--------------------------- MODULE MCRateLimiter ---------------------------
(* TLC instance of RateLimiter: two threads and two clients, a burst of 2 *)
(* tokens over a limit of 1 request per 1-second window (the shape of the  *)
(* default configuration, burst 200 over 100 per second), a clock of 3     *)
(* seconds, so that refills, window resets and idle clean-up happen.       *)
EXTENDS RateLimiter, TLC

CONSTANTS t1, t2, c1, c2

MCThreads == {t1, t2}

MCClients == {c1, c2}

\* Threads are interchangeable, and so are clients.
MCSymmetry == Permutations(MCThreads) \cup Permutations(MCClients)
=============================================================================
