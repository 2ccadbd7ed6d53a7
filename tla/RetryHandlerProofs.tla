------------------------- MODULE RetryHandlerProofs -------------------------
(***************************************************************************)
(* Proofs, for every max_retries, threshold and number of threads, about   *)
(* the retry loops and the circuit breaker of RetryHandler                 *)
(* (src/unnamed/part_003, src/include/utils/retry_handler.h).              *)
(*                                                                         *)
(* NeverExhausted is inductive together with TypeOK: the catch block loops *)
(* only when attempt # max_retries, so the counter stays within the for    *)
(* condition.  OpensAtThreshold is not inductive: a failing thread raises  *)
(* consecutive_failures_ in one step and stores OPEN two steps later.  The *)
(* strengthening Pending says that while the count is at the threshold and *)
(* the circuit is not open, some thread is in between, and will open it:   *)
(* it is at the store, or at the test with a local count at the threshold. *)
(***************************************************************************)
EXTENDS RetryHandler, TLAPS

PcSet == {"idle", "top", "check", "call", "ok", "close", "fail", "tripcheck",
          "trip", "decide"}

\* Thread u has counted a failure at the threshold and has yet to open.
Witness(u) ==
    \/ pc[u] = "trip"
    \/ pc[u] = "tripcheck" /\ seen[u] >= Threshold

Pending ==
    failures >= Threshold /\ failures > 0 /\ state # "OPEN" =>
        \E u \in Threads : Witness(u)

IInv == TypeOK /\ NeverExhausted /\ Pending

-----------------------------------------------------------------------------
(* The initial state: nothing counted, no call in progress.                *)
LEMMA InitIInv == Init => IInv
BY RetryAssumption DEF Init, IInv, TypeOK, NeverExhausted, Pending, Results,
                       Methods, ErrorTypes

(* A step of thread t that leaves the breaker's state and count alone and  *)
(* starts from a place before update_circuit_breaker(false) keeps Pending. *)
LEMMA PendingOther ==
    ASSUME Pending, NEW t \in Threads,
           pc[t] \notin {"tripcheck", "trip"},
           failures' = failures, state' = state,
           \A u \in Threads \ {t} : pc'[u] = pc[u] /\ seen'[u] = seen[u]
    PROVE  Pending'
<1> SUFFICES ASSUME failures >= Threshold, failures > 0, state # "OPEN"
             PROVE  \E u \in Threads : Witness(u)'
    BY DEF Pending
<1>1. PICK u \in Threads : Witness(u)
    BY DEF Pending
<1>2. u # t
    BY <1>1 DEF Witness
<1> QED
    BY <1>1, <1>2 DEF Witness

(* The catch block: a retry moves the counter from below max_retries to at *)
(* most max_retries and goes back to the top; otherwise the call rethrows. *)
LEMMA DecideIInv ==
    ASSUME IInv, NEW t \in Threads, Decide(t)
    PROVE  IInv'
<1> USE DEF IInv
<1>1. CASE Retries(method[t], err[t], attempt[t])
    <2>1. attempt[t] \in Nat /\ attempt[t] <= MaxRetries /\ attempt[t] # MaxRetries
        BY <1>1 DEF Retries, TypeOK, NeverExhausted
    <2>2. /\ attempt' = [attempt EXCEPT ![t] = attempt[t] + 1]
          /\ attempt[t] + 1 <= MaxRetries
          /\ pc' = [pc EXCEPT ![t] = "top"]
          /\ result' = result
        BY <1>1, <2>1, RetryAssumption DEF Decide, TypeOK
    <2>3. TypeOK'
        BY <2>2 DEF Decide, TypeOK, PcSet
    <2>4. NeverExhausted'
        BY <2>2 DEF TypeOK, NeverExhausted
    <2>5. Pending'
        BY <2>2, PendingOther DEF Decide, TypeOK
    <2> QED
        BY <2>3, <2>4, <2>5
<1>2. CASE ~Retries(method[t], err[t], attempt[t])
    <2>1. /\ attempt' = attempt
          /\ pc' = [pc EXCEPT ![t] = "idle"]
          /\ result' = [result EXCEPT ![t] = "error"]
        BY <1>2 DEF Decide
    <2>2. TypeOK'
        BY <2>1 DEF Decide, TypeOK, PcSet, Results
    <2>3. NeverExhausted'
        BY <2>1 DEF TypeOK, NeverExhausted
    <2>4. Pending'
        BY <2>1, PendingOther DEF Decide, TypeOK
    <2> QED
        BY <2>2, <2>3, <2>4
<1> QED
    BY <1>1, <1>2

(* update_circuit_breaker(false): the fetch_add makes the failing thread a *)
(* witness as soon as the count reaches the threshold; its test keeps it   *)
(* one unless the circuit is already open; its store opens the circuit.    *)
LEMMA CountFailureIInv ==
    ASSUME IInv, NEW t \in Threads, CountFailure(t)
    PROVE  IInv'
<1> USE DEF IInv
<1>1. TypeOK' /\ NeverExhausted'
    BY DEF CountFailure, TypeOK, PcSet, NeverExhausted
<1>2. Pending'
    <2> SUFFICES ASSUME failures' >= Threshold, failures' > 0, state' # "OPEN"
                 PROVE  \E u \in Threads : Witness(u)'
        BY DEF Pending
    <2>1. pc'[t] = "tripcheck" /\ seen'[t] = failures'
        BY DEF CountFailure, TypeOK
    <2> QED
        BY <2>1 DEF Witness
<1> QED
    BY <1>1, <1>2

LEMMA TripCheckIInv ==
    ASSUME IInv, NEW t \in Threads, TripCheck(t)
    PROVE  IInv'
<1> USE DEF IInv
<1>1. TypeOK' /\ NeverExhausted'
    BY DEF TripCheck, TypeOK, PcSet, NeverExhausted
<1>2. Pending'
    <2> SUFFICES ASSUME failures >= Threshold, failures > 0, state # "OPEN"
                 PROVE  \E u \in Threads : Witness(u)'
        BY DEF TripCheck, Pending
    <2>1. PICK u \in Threads : Witness(u)
        BY DEF Pending
    <2>2. CASE u = t
        <3>1. pc'[t] = "trip"
            BY <2>1, <2>2 DEF TripCheck, Witness, TypeOK
        <3> QED
            BY <3>1 DEF Witness
    <2>3. CASE u # t
        BY <2>1, <2>3 DEF TripCheck, Witness
    <2> QED
        BY <2>2, <2>3
<1> QED
    BY <1>1, <1>2

LEMMA TripIInv ==
    ASSUME IInv, NEW t \in Threads, Trip(t)
    PROVE  IInv'
BY DEF IInv, Trip, TypeOK, PcSet, NeverExhausted, Pending

(* reset_circuit_breaker and update_circuit_breaker(true) zero the count,  *)
(* and returning a result leaves count and witnesses alone.                *)
LEMMA ResetIInv ==
    ASSUME IInv, ResetCircuitBreaker \/ \E t \in Threads : ResetCount(t)
    PROVE  IInv'
BY DEF IInv, ResetCircuitBreaker, ResetCount, TypeOK, PcSet, NeverExhausted,
       Pending

LEMMA CloseHalfOpenIInv ==
    ASSUME IInv, NEW t \in Threads, CloseHalfOpen(t)
    PROVE  IInv'
<1> USE DEF IInv
<1>1. TypeOK' /\ NeverExhausted'
    BY DEF CloseHalfOpen, TypeOK, PcSet, Results, NeverExhausted
<1>2. Pending'
    <2> SUFFICES ASSUME failures' >= Threshold, failures' > 0, state' # "OPEN"
                 PROVE  \E u \in Threads : Witness(u)'
        BY DEF Pending
    <2>1. state # "OPEN" /\ failures' = failures
        BY DEF CloseHalfOpen
    <2>2. PICK u \in Threads : Witness(u)
        BY <2>1 DEF Pending
    <2>3. u # t
        BY <2>2 DEF CloseHalfOpen, Witness
    <2> QED
        BY <2>2, <2>3 DEF CloseHalfOpen, Witness, TypeOK
<1> QED
    BY <1>1, <1>2

(* The steps before update_circuit_breaker: the count and the state stay,  *)
(* and the stepping thread is no witness before or after.                  *)
LEMMA QuietIInv ==
    ASSUME IInv, NEW t \in Threads,
           \/ \E m \in Methods : Begin(t, m)
           \/ Top(t) \/ CheckOpen(t) \/ Success(t)
           \/ \E e \in ErrorTypes : Failure(t, e)
    PROVE  IInv'
<1> USE DEF IInv
<1>1. CASE \E m \in Methods : Begin(t, m)
    <2>1. calls < MaxCalls /\ calls \in 0 .. MaxCalls
        BY <1>1 DEF Begin, TypeOK
    <2>2. TypeOK' /\ NeverExhausted'
        BY <1>1, <2>1, RetryAssumption DEF Begin, TypeOK, PcSet, NeverExhausted
    <2>3. Pending'
        BY <1>1, PendingOther DEF Begin, TypeOK
    <2> QED
        BY <2>2, <2>3
<1>2. CASE Top(t)
    BY <1>2, PendingOther DEF Top, TypeOK, PcSet, NeverExhausted
<1>3. CASE CheckOpen(t)
    BY <1>3, PendingOther DEF CheckOpen, TypeOK, PcSet, Results, NeverExhausted
<1>4. CASE Success(t)
    BY <1>4, PendingOther DEF Success, TypeOK, PcSet, NeverExhausted
<1>5. CASE \E e \in ErrorTypes : Failure(t, e)
    BY <1>5, PendingOther DEF Failure, TypeOK, PcSet, NeverExhausted
<1> QED
    BY <1>1, <1>2, <1>3, <1>4, <1>5

(* Every step of every thread, and every reset, keeps the invariant.       *)
LEMMA NextIInv == IInv /\ [Next]_vars => IInv'
<1> SUFFICES ASSUME IInv, [Next]_vars PROVE IInv'
    OBVIOUS
<1>1. ASSUME NEW t \in Threads, Step(t) PROVE IInv'
    BY <1>1, QuietIInv, ResetIInv, CloseHalfOpenIInv, CountFailureIInv,
       TripCheckIInv, TripIInv, DecideIInv DEF Step
<1>2. CASE \E t \in Threads : \E m \in Methods : Begin(t, m)
    BY <1>2, QuietIInv
<1>3. CASE ResetCircuitBreaker
    BY <1>3, ResetIInv
<1>4. CASE UNCHANGED vars
    BY <1>4 DEF vars, IInv, TypeOK, NeverExhausted, Pending, Witness
<1> QED
    BY <1>1, <1>2, <1>3, <1>4 DEF Next

-----------------------------------------------------------------------------
(* Every variable of the handler keeps its type in every reachable state.  *)
THEOREM RetryTypeCorrect == Spec => []TypeOK
<1>1. Init => IInv
    BY InitIInv
<1>2. IInv /\ [Next]_vars => IInv'
    BY NextIInv
<1>3. IInv => TypeOK
    BY DEF IInv
<1> QED
    BY <1>1, <1>2, <1>3, PTL DEF Spec

(* No call of execute_with_retry or of the classification variant ever     *)
(* reaches the "Max retries exceeded" throw after its loop, and the        *)
(* attempt counter never passes max_retries, for every max_retries.        *)
THEOREM NeverExhaustedHolds == Spec => []NeverExhausted
<1>1. Init => IInv
    BY InitIInv
<1>2. IInv /\ [Next]_vars => IInv'
    BY NextIInv
<1>3. IInv => NeverExhausted
    BY DEF IInv
<1> QED
    BY <1>1, <1>2, <1>3, PTL DEF Spec

(* Whenever no thread is between the fetch_add of update_circuit_breaker   *)
(* and its store of OPEN, a consecutive-failure count at the threshold     *)
(* means the circuit is open, for every threshold and number of threads.   *)
THEOREM OpensAtThresholdHolds == Spec => []OpensAtThreshold
<1>1. Init => IInv
    BY InitIInv
<1>2. IInv /\ [Next]_vars => IInv'
    BY NextIInv
<1>3. IInv => OpensAtThreshold
    BY DEF IInv, Pending, Witness, OpensAtThreshold
<1> QED
    BY <1>1, <1>2, <1>3, PTL DEF Spec

=============================================================================
