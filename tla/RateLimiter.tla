---------------------------- MODULE RateLimiter ----------------------------
(***************************************************************************)
(* The token-bucket rate limiter: class RateLimiter of                     *)
(* src/src/utils/rate_limiter.cpp and include/utils/rate_limiter.h.        *)
(*                                                                         *)
(* A request of a thread for a client is a sequence of steps, because the  *)
(* code takes no lock across it:                                           *)
(*   total_requests_++;                      (Request)                     *)
(*   get_client_limiter: find or create the ClientLimiter under           *)
(*     client_mutex_ and return a raw pointer  (GetClientLimiter)          *)
(*   bucket->try_consume under bucket_mutex    (BucketConsume)             *)
(*   window reset and request_count check, no lock (WindowCheck)          *)
(*   request_count++ and allowed_requests_++   (CountRequest)              *)
(* With per-client limits off, is_allowed(client) forwards to              *)
(* is_allowed(tokens), which counts total_requests_ again (GlobalIsAllowed)*)
(*                                                                         *)
(* Time is whole seconds (the code truncates every elapsed time to         *)
(* seconds).  Each request asks for one token.  A ClientLimiter object is  *)
(* named by its client and a generation number, so that a pointer to a     *)
(* destroyed one can be told from a pointer to its successor.  consumed    *)
(* and born are ghost fields of a bucket: the tokens taken from it and the *)
(* second it was made.                                                     *)
(***************************************************************************)
EXTENDS Integers, FiniteSets

CONSTANTS
    Threads,       \* threads calling is_allowed
    Clients,       \* client ids
    Burst,         \* config_.burst_capacity
    Rps,           \* config_.max_requests_per_second
    Window,        \* config_.window_size, in seconds
    PerClient,     \* config_.enable_per_client_limits
    MaxTime,       \* bound on the clock
    MaxRequests,   \* bound on total_requests_
    MaxDestroy,    \* bound on the limiter objects destroyed
    NoLimiter      \* an absent map entry

ASSUME RateLimiterAssumption ==
    /\ Burst \in Nat /\ Rps \in Nat /\ Window \in Nat \ {0}
    /\ PerClient \in BOOLEAN
    /\ MaxTime \in Nat /\ MaxRequests \in Nat /\ MaxDestroy \in Nat

\* The process runs finitely many threads.
ASSUME ThreadsAssumption == IsFiniteSet(Threads)

VARIABLES
    now,             \* steady_clock::now(), in seconds
    limiters,        \* client_limiters_: client -> ClientLimiter or NoLimiter
    global_bucket,   \* *global_bucket_ (exists only when PerClient is FALSE)
    destroyed,       \* number of ClientLimiter objects destroyed
    total, allowed, denied,  \* total_requests_, allowed_requests_, denied_requests_
    pc,              \* pc[t]: where thread t is in its request
    client,          \* client[t]: the client of t's request
    ptr              \* ptr[t]: generation of the ClientLimiter t points to

vars == <<now, limiters, global_bucket, destroyed, total, allowed, denied,
          pc, client, ptr>>

Bucket(b) == [tokens |-> Burst, last_refill |-> b, consumed |-> 0, born |-> b]

\* ClientLimiter(burst_capacity), generation g, made at the current second.
NewLimiter(g) ==
    [tokens |-> Burst, last_refill |-> now, consumed |-> 0, born |-> now,
     gen |-> g, request_count |-> 0, window_start |-> now]

Live(c) == limiters[c] # NoLimiter

MinOf(a, b) == IF a <= b THEN a ELSE b

\* Mutant: refill never moves last_refill, so elapsed time is added again.
RefillKeepStamp(b) ==
    IF now - b.last_refill >= Window
    THEN [b EXCEPT !.tokens = MinOf(b.tokens + (now - b.last_refill) * Rps,
                                    Rps * Window)]
    ELSE b

(* TokenBucket::refill: once refill_interval has passed, add elapsed*rate  *)
(* tokens, but no more than rate * refill_interval.                       *)
Refill(b) ==
    IF now - b.last_refill >= Window
    THEN [b EXCEPT !.tokens = MinOf(b.tokens + (now - b.last_refill) * Rps,
                                    Rps * Window),
                   !.last_refill = now]
    ELSE b

\* Mutant: the tokens >= needed check is dropped.
TryConsumeNoCheck(b) ==
    LET r == Refill(b) IN
    [ok |-> TRUE, b |-> [r EXCEPT !.tokens = @ - 1, !.consumed = @ + 1]]

(* TokenBucket::try_consume(1): refill, then take a token if there is one. *)
TryConsume(b) ==
    LET r == Refill(b) IN
    IF r.tokens >= 1
    THEN [ok |-> TRUE, b |-> [r EXCEPT !.tokens = @ - 1, !.consumed = @ + 1]]
    ELSE [ok |-> FALSE, b |-> r]

InFlight(t) == pc[t] \in {"bucket", "window", "count"}

-----------------------------------------------------------------------------
Init ==
    /\ now = 0
    /\ limiters = [c \in Clients |-> NoLimiter]
    /\ global_bucket = Bucket(0)
    /\ destroyed = 0
    /\ total = 0 /\ allowed = 0 /\ denied = 0
    /\ pc = [t \in Threads |-> "idle"]
    /\ client \in [Threads -> Clients]   \* meaningless while idle
    /\ ptr = [t \in Threads |-> 0]

(* is_allowed(client_id): total_requests_++ and the per-client branch.    *)
Request(t, c) ==
    /\ pc[t] = "idle"
    /\ total < MaxRequests
    /\ total' = total + 1
    /\ client' = [client EXCEPT ![t] = c]
    /\ pc' = [pc EXCEPT ![t] = IF PerClient THEN "lookup" ELSE "global"]
    /\ UNCHANGED <<now, limiters, global_bucket, destroyed, allowed, denied, ptr>>

(* is_allowed(tokens), reached from is_allowed(client_id) with per-client  *)
(* limits off: counts total_requests_ a second time, then the global       *)
(* bucket decides.                                                         *)
GlobalIsAllowed(t) ==
    LET r == TryConsume(global_bucket) IN
    /\ pc[t] = "global"
    /\ total' = total + 1
    /\ global_bucket' = r.b
    /\ allowed' = IF r.ok THEN allowed + 1 ELSE allowed
    /\ denied' = IF r.ok THEN denied ELSE denied + 1
    /\ pc' = [pc EXCEPT ![t] = "idle"]
    /\ UNCHANGED <<now, limiters, destroyed, client, ptr>>

(* get_client_limiter: under client_mutex_, the existing limiter or a new  *)
(* one; the raw pointer outlives the lock.                                 *)
GetClientLimiter(t) ==
    LET c == client[t]
        g == IF Live(c) THEN limiters[c].gen ELSE destroyed + 1
    IN /\ pc[t] = "lookup"
       /\ ~Live(c) => limiters' = [limiters EXCEPT ![c] = NewLimiter(g)]
       /\ Live(c) => UNCHANGED limiters
       /\ ptr' = [ptr EXCEPT ![t] = g]
       /\ pc' = [pc EXCEPT ![t] = "bucket"]
       /\ UNCHANGED <<now, global_bucket, destroyed, total, allowed, denied, client>>

\* Mutant: RateLimiter::is_allowed does not count a bucket denial.
BucketConsumeNoDeny(t) ==
    LET c == client[t]
        r == TryConsume(limiters[c])
    IN /\ pc[t] = "bucket"
       /\ Live(c) /\ limiters[c].gen = ptr[t]
       /\ limiters' = [limiters EXCEPT ![c] = r.b]
       /\ pc' = [pc EXCEPT ![t] = IF r.ok THEN "window" ELSE "idle"]
       /\ UNCHANGED <<now, global_bucket, destroyed, total, allowed, denied, client, ptr>>

(* ClientLimiter::is_allowed, first part: bucket->try_consume.  On false   *)
(* RateLimiter::is_allowed counts a denial.                                *)
BucketConsume(t) ==
    LET c == client[t]
        r == TryConsume(limiters[c])
    IN /\ pc[t] = "bucket"
       /\ Live(c) /\ limiters[c].gen = ptr[t]
       /\ limiters' = [limiters EXCEPT ![c] = r.b]
       /\ pc' = [pc EXCEPT ![t] = IF r.ok THEN "window" ELSE "idle"]
       /\ denied' = IF r.ok THEN denied ELSE denied + 1
       /\ UNCHANGED <<now, global_bucket, destroyed, total, allowed, client, ptr>>

(* ClientLimiter::is_allowed, second part, with no lock held: reset the    *)
(* window if it has expired, then load request_count and deny at the      *)
(* limit.                                                                  *)
WindowCheck(t) ==
    LET c == client[t]
        l == limiters[c]
        w == IF now - l.window_start >= Window
             THEN [l EXCEPT !.request_count = 0, !.window_start = now]
             ELSE l
    IN /\ pc[t] = "window"
       /\ Live(c) /\ l.gen = ptr[t]
       /\ limiters' = [limiters EXCEPT ![c] = w]
       /\ pc' = [pc EXCEPT ![t] = IF w.request_count >= Rps THEN "idle" ELSE "count"]
       /\ denied' = IF w.request_count >= Rps THEN denied + 1 ELSE denied
       /\ UNCHANGED <<now, global_bucket, destroyed, total, allowed, client, ptr>>

(* request_count++ (atomic, but separate from the load that checked it),  *)
(* then allowed_requests_++.                                               *)
CountRequest(t) ==
    LET c == client[t] IN
    /\ pc[t] = "count"
    /\ Live(c) /\ limiters[c].gen = ptr[t]
    /\ limiters' = [limiters EXCEPT ![c].request_count = @ + 1]
    /\ allowed' = allowed + 1
    /\ pc' = [pc EXCEPT ![t] = "idle"]
    /\ UNCHANGED <<now, global_bucket, destroyed, total, denied, client, ptr>>

-----------------------------------------------------------------------------
(* Operations of the owner of the limiter, each under client_mutex_.       *)

Tick ==
    /\ now < MaxTime
    /\ now' = now + 1
    /\ UNCHANGED <<limiters, global_bucket, destroyed, total, allowed, denied,
                   pc, client, ptr>>

(* remove_client(c): the ClientLimiter is destroyed.                       *)
RemoveClient(c) ==
    /\ Live(c)
    /\ destroyed < MaxDestroy
    /\ limiters' = [limiters EXCEPT ![c] = NoLimiter]
    /\ destroyed' = destroyed + 1
    /\ UNCHANGED <<now, global_bucket, total, allowed, denied, pc, client, ptr>>

(* cleanup_expired_clients(max_idle): destroy every limiter whose window   *)
(* started more than max_idle seconds ago and whose request_count is 0.    *)
CleanupExpiredClients(maxIdle) ==
    LET gone == {c \in Clients : Live(c) /\ now - limiters[c].window_start > maxIdle
                                  /\ limiters[c].request_count = 0}
    IN /\ gone # {}
       /\ destroyed < MaxDestroy
       /\ limiters' = [c \in Clients |-> IF c \in gone THEN NoLimiter ELSE limiters[c]]
       /\ destroyed' = destroyed + 1
       /\ UNCHANGED <<now, global_bucket, total, allowed, denied, pc, client, ptr>>

(* update_config(same config): a new global bucket if there is one (only  *)
(* with per-client limits off), and every ClientLimiter replaced by a new  *)
(* one with a full bucket and an empty window.                             *)
UpdateConfig ==
    /\ destroyed < MaxDestroy
    /\ global_bucket' = IF PerClient THEN global_bucket ELSE Bucket(now)
    /\ limiters' = [c \in Clients |-> IF Live(c) THEN NewLimiter(destroyed + 1)
                                                  ELSE NoLimiter]
    /\ destroyed' = destroyed + 1
    /\ UNCHANGED <<now, total, allowed, denied, pc, client, ptr>>

(* reset_all_clients(): every window restarts now with a zero count; it   *)
(* holds client_mutex_ only, not the window of a request in progress.      *)
ResetAllClients ==
    /\ limiters' = [c \in Clients |->
                      IF Live(c)
                      THEN [limiters[c] EXCEPT !.request_count = 0, !.window_start = now]
                      ELSE NoLimiter]
    /\ UNCHANGED <<now, global_bucket, destroyed, total, allowed, denied, pc, client, ptr>>

-----------------------------------------------------------------------------
ThreadStep(t) ==
    \/ \E c \in Clients : Request(t, c)
    \/ GlobalIsAllowed(t)
    \/ GetClientLimiter(t)
    \/ BucketConsume(t)
    \/ WindowCheck(t)
    \/ CountRequest(t)

(* The owner destroys a limiter only while no request uses it.             *)
Quiet(c) == \A t \in Threads : InFlight(t) => client[t] # c

OwnerStep ==
    \/ Tick
    \/ ResetAllClients
    \/ \E c \in Clients : Quiet(c) /\ RemoveClient(c)
    \/ \E m \in 0 .. 1 : (\A c \in Clients : Quiet(c)) /\ CleanupExpiredClients(m)
    \/ (\A t \in Threads : pc[t] \in {"idle", "lookup"}) /\ UpdateConfig

Next == OwnerStep \/ \E t \in Threads : ThreadStep(t)

Spec == Init /\ [][Next]_vars

(* The owner removes limiters whenever it likes.                           *)
NextRacyRemove ==
    \/ Next
    \/ \E c \in Clients : RemoveClient(c)
    \/ \E m \in 0 .. 1 : CleanupExpiredClients(m)
    \/ UpdateConfig

SpecRacyRemove == Init /\ [][NextRacyRemove]_vars

-----------------------------------------------------------------------------
BucketType == [tokens : Nat, last_refill : Nat, consumed : Nat, born : Nat]

LimiterType == [tokens : Nat, last_refill : Nat, consumed : Nat, born : Nat,
                gen : Nat, request_count : Nat, window_start : Nat]

TypeOK ==
    /\ now \in 0 .. MaxTime
    /\ limiters \in [Clients -> LimiterType \cup {NoLimiter}]
    /\ global_bucket \in BucketType
    /\ destroyed \in 0 .. MaxDestroy
    /\ total \in Nat /\ allowed \in Nat /\ denied \in Nat
    /\ pc \in [Threads -> {"idle", "global", "lookup", "bucket", "window", "count"}]
    /\ client \in [Threads -> Clients]
    /\ ptr \in [Threads -> Nat]

(* The token-bucket guarantee: a bucket made at second b has given out at  *)
(* most burst_capacity + rate * (now - b) tokens, however the refills      *)
(* fall (TokenBucket::refill and try_consume).                             *)
TokenBound ==
    /\ \A c \in Clients :
          Live(c) => limiters[c].consumed <= Burst + Rps * (now - limiters[c].born)
    /\ global_bucket.consumed <= Burst + Rps * (now - global_bucket.born)

(* When no request is in progress, every request counted in                *)
(* total_requests_ was counted once as allowed or denied, so               *)
(* get_stats().allow_rate is allowed / total.                              *)
StatsBalanced ==
    (\A t \in Threads : pc[t] = "idle") => total = allowed + denied

(* No client gets more than max_requests_per_second requests through its  *)
(* window: request_count never exceeds the limit the check enforces.       *)
WindowLimit ==
    \A c \in Clients : Live(c) => limiters[c].request_count <= Rps

(* A request in progress uses a ClientLimiter that still exists: the       *)
(* pointer returned by get_client_limiter is not dangling.                 *)
LimiterLive ==
    \A t \in Threads : InFlight(t) =>
        Live(client[t]) /\ limiters[client[t]].gen = ptr[t]

(* Burst capacity for traffic spikes: a client idle long enough for its   *)
(* bucket to fill again has burst_capacity tokens for its next requests.  *)
BurstRestored ==
    \A c \in Clients :
        (Live(c) /\ (now - limiters[c].last_refill) * Rps >= Burst
                 /\ now - limiters[c].last_refill >= Window)
            => Refill(limiters[c]).tokens >= Burst

=============================================================================
