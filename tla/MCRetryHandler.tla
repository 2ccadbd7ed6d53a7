-------------------------- MODULE MCRetryHandler --------------------------
(* TLC instance of RetryHandler: two threads, two calls between them, up   *)
(* to two retries per call and a threshold of two consecutive failures, so *)
(* that the breaker trips while the other thread is inside its loop, is    *)
(* reset under it, and both methods run into max_retries.                  *)
EXTENDS RetryHandler, TLC

CONSTANTS t1, t2

MCThreads == {t1, t2}

(* CONCURRENCY, TIMEOUT and NETWORK take every branch of both loops that  *)
(* TRANSIENT takes (should_retry says yes to all four, and none of them is *)
(* PERMANENT), so TRANSIENT stands for the four.                           *)
MCErrorTypes == {"TRANSIENT", "PERMANENT", "CORRUPTION", "UNKNOWN"}
=============================================================================
