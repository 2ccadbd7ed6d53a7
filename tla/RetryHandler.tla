------------------------------ MODULE RetryHandler ------------------------------
(***************************************************************************)
(* class RetryHandler of src/include/utils/retry_handler.h, implemented in  *)
(* src/unnamed/part_003: the retry loops of execute_with_retry and         *)
(* execute_with_retry_and_classification, and the circuit breaker they     *)
(* share.  The breaker's state is three atomics that update_circuit_breaker *)
(* reads and writes one at a time, without circuit_mutex_, so each atomic  *)
(* access is a step:                                                       *)
(*   Top        total_attempts_++ at the head of the loop                  *)
(*   CheckOpen  is_circuit_open(): throw "Circuit breaker is open"          *)
(*   Success / Failure   func(args...) returns or throws                   *)
(*   ResetCount, CloseHalfOpen      update_circuit_breaker(true)           *)
(*   CountFailure, TripCheck, Trip  update_circuit_breaker(false)          *)
(*   Decide     the catch block: rethrow, or back off and loop             *)
(* An exception is its ErrorType (classify_error is a function of the      *)
(* exception); the backoff delay only sleeps and is left out.              *)
(***************************************************************************)
EXTENDS Integers

CONSTANTS
    Threads,     \* threads calling execute_with_retry*
    MaxRetries,  \* config_.max_retries
    Threshold,   \* config_.circuit_breaker_failure_threshold
    MaxCalls     \* bound on the calls the threads make, for TLC

ASSUME RetryAssumption ==
    MaxRetries \in Nat /\ Threshold \in Nat /\ MaxCalls \in Nat

ErrorTypes ==
    {"TRANSIENT", "PERMANENT", "CORRUPTION", "CONCURRENCY", "TIMEOUT",
     "NETWORK", "UNKNOWN"}

\* execute_with_retry and execute_with_retry_and_classification.
Methods == {"retry", "classify"}

\* What a call returned or threw, as its caller sees it.
Results == {"none", "ok", "open", "error", "exhausted"}

VARIABLES
    state,      \* circuit_state_: "CLOSED", "OPEN" or "HALF_OPEN"
    failures,   \* consecutive_failures_
    trips,      \* circuit_breaker_trips_
    total,      \* total_attempts_
    succeeded,  \* successful_attempts_
    failed,     \* failed_attempts_
    pc,         \* pc[t]: where thread t is
    method,     \* method[t]: which of the two loops t runs
    attempt,    \* attempt[t]: the loop counter
    err,        \* err[t]: the ErrorType of the last exception t caught
    seen,       \* seen[t]: the local `failures` of update_circuit_breaker
    result,     \* result[t]: the outcome of t's last call
    calls       \* calls made so far

vars == <<state, failures, trips, total, succeeded, failed, pc, method,
          attempt, err, seen, result, calls>>

(* should_retry(e, attempt_count): no once attempt_count reaches           *)
(* max_retries; yes for transient, concurrency, timeout and network        *)
(* errors; unknown errors only on the first attempt; never otherwise.      *)
ShouldRetry(e, n) ==
    /\ n < MaxRetries
    /\ \/ e \in {"TRANSIENT", "CONCURRENCY", "TIMEOUT", "NETWORK"}
       \/ e = "UNKNOWN" /\ n < 1

\* Mutant: the classification loop forgets the attempt == max_retries test.
RetriesNoLimit(m, e, n) ==
    IF m = "retry" THEN ShouldRetry(e, n) ELSE e # "PERMANENT"

(* The catch block goes round again unless attempt == max_retries or the   *)
(* method's test rejects the error: should_retry for execute_with_retry,   *)
(* error_type == PERMANENT for the classification variant.                 *)
Retries(m, e, n) ==
    /\ n # MaxRetries
    /\ IF m = "retry" THEN ShouldRetry(e, n) ELSE e # "PERMANENT"

-----------------------------------------------------------------------------
Init ==
    /\ state = "CLOSED"
    /\ failures = 0
    /\ trips = 0 /\ total = 0 /\ succeeded = 0 /\ failed = 0
    /\ pc = [t \in Threads |-> "idle"]
    /\ method = [t \in Threads |-> "retry"]
    /\ attempt = [t \in Threads |-> 0]
    /\ err = [t \in Threads |-> "UNKNOWN"]
    /\ seen = [t \in Threads |-> 0]
    /\ result = [t \in Threads |-> "none"]
    /\ calls = 0

\* A thread calls one of the two methods; the loop starts at attempt 0.
Begin(t, m) ==
    /\ pc[t] = "idle"
    /\ calls < MaxCalls
    /\ calls' = calls + 1
    /\ method' = [method EXCEPT ![t] = m]
    /\ attempt' = [attempt EXCEPT ![t] = 0]
    /\ pc' = [pc EXCEPT ![t] = "top"]
    /\ UNCHANGED <<state, failures, trips, total, succeeded, failed, err, seen,
                   result>>

\* total_attempts_++ at the head of each round.
Top(t) ==
    /\ pc[t] = "top"
    /\ total' = total + 1
    /\ pc' = [pc EXCEPT ![t] = "check"]
    /\ UNCHANGED <<state, failures, trips, succeeded, failed, method, attempt,
                   err, seen, result, calls>>

\* Mutant: an open circuit makes the call wait instead of throwing.
CheckOpenWait(t) ==
    /\ pc[t] = "check"
    /\ state # "OPEN"
    /\ pc' = [pc EXCEPT ![t] = "call"]
    /\ UNCHANGED <<state, failures, trips, total, succeeded, failed, method,
                   attempt, err, seen, result, calls>>

\* if (is_circuit_open()) throw std::runtime_error("Circuit breaker is open").
CheckOpen(t) ==
    /\ pc[t] = "check"
    /\ pc' = [pc EXCEPT ![t] = IF state = "OPEN" THEN "idle" ELSE "call"]
    /\ result' = [result EXCEPT ![t] = IF state = "OPEN" THEN "open" ELSE @]
    /\ UNCHANGED <<state, failures, trips, total, succeeded, failed, method,
                   attempt, err, seen, calls>>

\* func returns: successful_attempts_++.
Success(t) ==
    /\ pc[t] = "call"
    /\ succeeded' = succeeded + 1
    /\ pc' = [pc EXCEPT ![t] = "ok"]
    /\ UNCHANGED <<state, failures, trips, total, failed, method, attempt, err,
                   seen, result, calls>>

\* func throws an exception of type e: failed_attempts_++.
Failure(t, e) ==
    /\ pc[t] = "call"
    /\ failed' = failed + 1
    /\ err' = [err EXCEPT ![t] = e]
    /\ pc' = [pc EXCEPT ![t] = "fail"]
    /\ UNCHANGED <<state, failures, trips, total, succeeded, method, attempt,
                   seen, result, calls>>

\* update_circuit_breaker(true): consecutive_failures_ = 0.
ResetCount(t) ==
    /\ pc[t] = "ok"
    /\ failures' = 0
    /\ pc' = [pc EXCEPT ![t] = "close"]
    /\ UNCHANGED <<state, trips, total, succeeded, failed, method, attempt, err,
                   seen, result, calls>>

(* then: if HALF_OPEN, store CLOSED; and return the result.                *)
CloseHalfOpen(t) ==
    /\ pc[t] = "close"
    /\ state' = IF state = "HALF_OPEN" THEN "CLOSED" ELSE state
    /\ pc' = [pc EXCEPT ![t] = "idle"]
    /\ result' = [result EXCEPT ![t] = "ok"]
    /\ UNCHANGED <<failures, trips, total, succeeded, failed, method, attempt,
                   err, seen, calls>>

(* update_circuit_breaker(false): failures = fetch_add(1) + 1.  (The store *)
(* of last_failure_time_ is read only by should_reset_circuit_breaker,     *)
(* which nothing calls.)                                                   *)
CountFailure(t) ==
    /\ pc[t] = "fail"
    /\ failures' = failures + 1
    /\ seen' = [seen EXCEPT ![t] = failures + 1]
    /\ pc' = [pc EXCEPT ![t] = "tripcheck"]
    /\ UNCHANGED <<state, trips, total, succeeded, failed, method, attempt, err,
                   result, calls>>

\* Mutant: the circuit opens only above the threshold.
TripCheckAbove(t) ==
    /\ pc[t] = "tripcheck"
    /\ pc' = [pc EXCEPT ![t] = IF seen[t] > Threshold /\ state # "OPEN"
                                THEN "trip" ELSE "decide"]
    /\ UNCHANGED <<state, failures, trips, total, succeeded, failed, method,
                   attempt, err, seen, result, calls>>

(* if (failures >= threshold) if (circuit_state_.load() != OPEN): the test *)
(* uses the local count and a load of the state, both possibly stale by    *)
(* the store that follows.                                                 *)
TripCheck(t) ==
    /\ pc[t] = "tripcheck"
    /\ pc' = [pc EXCEPT ![t] = IF seen[t] >= Threshold /\ state # "OPEN"
                                THEN "trip" ELSE "decide"]
    /\ UNCHANGED <<state, failures, trips, total, succeeded, failed, method,
                   attempt, err, seen, result, calls>>

\* circuit_state_ = OPEN; circuit_breaker_trips_++.
Trip(t) ==
    /\ pc[t] = "trip"
    /\ state' = "OPEN"
    /\ trips' = trips + 1
    /\ pc' = [pc EXCEPT ![t] = "decide"]
    /\ UNCHANGED <<failures, total, succeeded, failed, method, attempt, err,
                   seen, result, calls>>

(* The rest of the catch block: rethrow, or sleep for the backoff and      *)
(* ++attempt; the for condition attempt <= max_retries then ends the loop  *)
(* with "Max retries exceeded" or starts the next round.                   *)
Decide(t) ==
    /\ pc[t] = "decide"
    /\ IF Retries(method[t], err[t], attempt[t])
       THEN /\ attempt' = [attempt EXCEPT ![t] = @ + 1]
            /\ pc' = [pc EXCEPT ![t] = IF attempt[t] + 1 <= MaxRetries
                                        THEN "top" ELSE "idle"]
            /\ result' = [result EXCEPT ![t] = IF attempt[t] + 1 <= MaxRetries
                                                THEN @ ELSE "exhausted"]
       ELSE /\ pc' = [pc EXCEPT ![t] = "idle"]
            /\ result' = [result EXCEPT ![t] = "error"]
            /\ UNCHANGED attempt
    /\ UNCHANGED <<state, failures, trips, total, succeeded, failed, method, err,
                   seen, calls>>

\* reset_circuit_breaker(), called by any thread at any time.
ResetCircuitBreaker ==
    /\ state' = "CLOSED"
    /\ failures' = 0
    /\ UNCHANGED <<trips, total, succeeded, failed, pc, method, attempt, err,
                   seen, result, calls>>

Step(t) ==
    \/ Top(t) \/ CheckOpen(t) \/ Success(t) \/ \E e \in ErrorTypes : Failure(t, e)
    \/ ResetCount(t) \/ CloseHalfOpen(t) \/ CountFailure(t) \/ TripCheck(t)
    \/ Trip(t) \/ Decide(t)

Next ==
    \/ \E t \in Threads : \/ \E m \in Methods : Begin(t, m)
                          \/ Step(t)
    \/ ResetCircuitBreaker

(* A thread inside a call keeps running (the scheduler is fair to it); no  *)
(* thread has to call again, nor anyone to reset the breaker.              *)
Spec == Init /\ [][Next]_vars /\ \A t \in Threads : WF_vars(Step(t))

-----------------------------------------------------------------------------
TypeOK ==
    /\ state \in {"CLOSED", "OPEN", "HALF_OPEN"}
    /\ failures \in Nat /\ trips \in Nat
    /\ total \in Nat /\ succeeded \in Nat /\ failed \in Nat
    /\ pc \in [Threads -> {"idle", "top", "check", "call", "ok", "close",
                           "fail", "tripcheck", "trip", "decide"}]
    /\ method \in [Threads -> Methods]
    /\ attempt \in [Threads -> Nat]
    /\ err \in [Threads -> ErrorTypes]
    /\ seen \in [Threads -> Nat]
    /\ result \in [Threads -> Results]
    /\ calls \in 0 .. MaxCalls

(* The throw "Max retries exceeded" after the for loop of both methods is  *)
(* dead code: every call ends inside the loop, by a return, the open       *)
(* circuit or a rethrow, and its attempt counter never passes max_retries, *)
(* so func runs at most max_retries + 1 times per call.                    *)
NeverExhausted ==
    \A t \in Threads : result[t] # "exhausted" /\ attempt[t] <= MaxRetries

(* The breaker trips: whenever no update_circuit_breaker(false) is between *)
(* its fetch_add and its store of OPEN, a consecutive-failure count at the *)
(* threshold (and above zero) means the circuit is open, whatever the      *)
(* interleaving of failing, succeeding and resetting threads.              *)
OpensAtThreshold ==
    (\A t \in Threads : pc[t] \notin {"tripcheck", "trip"}) =>
        (failures >= Threshold /\ failures > 0 => state = "OPEN")

(* Every call of execute_with_retry or of the classification variant       *)
(* returns or throws, whatever func does and even if nobody resets the     *)
(* breaker.                                                                *)
EveryCallReturns == \A t \in Threads : pc[t] # "idle" ~> pc[t] = "idle"

(* circuit_breaker_trips_ counts the times the circuit opened: it grows   *)
(* only on a step from a state that is not OPEN (the guard `if            *)
(* (circuit_state_.load() != OPEN)` of update_circuit_breaker).            *)
TripsCountOpenings == [][trips' # trips => state # "OPEN"]_vars

(* The circuit opens only while consecutive_failures_ is at the threshold  *)
(* ("Check if we should open the circuit" of update_circuit_breaker).      *)
OpensOnlyAtThreshold ==
    [][state # "OPEN" /\ state' = "OPEN" => failures >= Threshold]_vars

(* An open circuit closes again (HALF_OPEN: "Testing if service is back"; *)
(* config circuit_breaker_timeout) without anyone calling                  *)
(* reset_circuit_breaker.                                                  *)
CircuitRecovers == state = "OPEN" ~> state # "OPEN"

=============================================================================
