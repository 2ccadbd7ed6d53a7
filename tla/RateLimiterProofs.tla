------------------------- MODULE RateLimiterProofs -------------------------
(***************************************************************************)
(* Proof, for every rate, burst, window and number of threads and clients, *)
(* that the token buckets of src/src/utils/rate_limiter.cpp never give out *)
(* more than burst_capacity + rate * (seconds since the bucket was made)   *)
(* tokens.                                                                 *)
(*                                                                         *)
(* TokenBound alone is not inductive: it speaks of now, but a refill adds  *)
(* tokens for the time since last_refill.  The strengthening BucketInv     *)
(* charges the tokens still in the bucket as well as those consumed        *)
(* against the time up to last_refill, which refill moves to now exactly   *)
(* when it adds the tokens for that time.                                  *)
(*                                                                         *)
(* The second part proves that, with per-client limits on, the request    *)
(* counters of get_stats balance whenever no request is in progress.      *)
(***************************************************************************)
EXTENDS RateLimiter, FiniteSetTheorems, TLAPS

BucketInv(b) ==
    /\ b.consumed + b.tokens <= Burst + Rps * (b.last_refill - b.born)
    /\ b.born <= b.last_refill
    /\ b.last_refill <= now

Records == BucketType \cup LimiterType

LimitersOK == limiters \in [Clients -> LimiterType \cup {NoLimiter}]

LimInv == \A c \in Clients : Live(c) => BucketInv(limiters[c])

IInv ==
    /\ TypeOK
    /\ LimInv
    /\ BucketInv(global_bucket)

-----------------------------------------------------------------------------
(* TokenBucket::refill keeps the record's type and every field but tokens  *)
(* and last_refill, and keeps BucketInv.                                   *)
LEMMA RefillInv ==
    ASSUME NEW b \in Records, now \in Nat, BucketInv(b)
    PROVE  /\ b \in BucketType => Refill(b) \in BucketType
           /\ b \in LimiterType => Refill(b) \in LimiterType
           /\ Refill(b).consumed = b.consumed
           /\ Refill(b).born = b.born
           /\ BucketInv(Refill(b))
<1>1. CASE now - b.last_refill >= Window
    <2> DEFINE m == MinOf(b.tokens + (now - b.last_refill) * Rps, Rps * Window)
    <2>1. m \in Nat /\ m <= b.tokens + (now - b.last_refill) * Rps
        BY <1>1, RateLimiterAssumption DEF MinOf, BucketInv, Records, BucketType,
                                           LimiterType
    <2>2. Refill(b) = [b EXCEPT !.tokens = m, !.last_refill = now]
        BY <1>1 DEF Refill
    <2>3. b.consumed + m <= Burst + Rps * (now - b.born)
        BY <2>1, RateLimiterAssumption DEF BucketInv, Records, BucketType,
                                           LimiterType
    <2>4. /\ Refill(b).tokens = m /\ Refill(b).last_refill = now
          /\ Refill(b).consumed = b.consumed /\ Refill(b).born = b.born
          /\ b \in BucketType => Refill(b) \in BucketType
          /\ b \in LimiterType => Refill(b) \in LimiterType
        BY <2>1, <2>2 DEF Records, BucketType, LimiterType
    <2>5. BucketInv(Refill(b))
        BY <1>1, <2>3, <2>4 DEF BucketInv, Records, BucketType, LimiterType
    <2>6. QED
        BY <2>4, <2>5
<1>2. CASE ~(now - b.last_refill >= Window)
    BY <1>2 DEF Refill
<1>3. QED
    BY <1>1, <1>2

(* try_consume(1) keeps the type and BucketInv, and consumed counts the   *)
(* token it takes.                                                         *)
LEMMA TryConsumeInv ==
    ASSUME NEW b \in Records, now \in Nat, BucketInv(b)
    PROVE  /\ b \in BucketType => TryConsume(b).b \in BucketType
           /\ b \in LimiterType => TryConsume(b).b \in LimiterType
           /\ TryConsume(b).b.born = b.born
           /\ BucketInv(TryConsume(b).b)
           /\ TryConsume(b).ok \in BOOLEAN
<1> DEFINE r == Refill(b)
<1>1. /\ b \in BucketType => r \in BucketType
      /\ b \in LimiterType => r \in LimiterType
      /\ r.consumed = b.consumed /\ r.born = b.born
      /\ BucketInv(r)
    BY RefillInv
<1>0. r \in BucketType \/ r \in LimiterType
    BY <1>1 DEF Records
<1>2. CASE r.tokens >= 1
    <2> DEFINE x == [r EXCEPT !.tokens = @ - 1, !.consumed = @ + 1]
    <2>1. TryConsume(b) = [ok |-> TRUE, b |-> x]
        BY <1>2 DEF TryConsume
    <2>2. r.tokens - 1 \in Nat /\ r.consumed + 1 \in Nat
        BY <1>0, <1>2 DEF BucketType, LimiterType
    <2>3. /\ x.tokens = r.tokens - 1 /\ x.consumed = r.consumed + 1
          /\ x.last_refill = r.last_refill /\ x.born = r.born
        BY <1>0 DEF BucketType, LimiterType
    <2>4. r \in BucketType => x \in BucketType
        BY <2>2 DEF BucketType
    <2>5. r \in LimiterType => x \in LimiterType
        BY <2>2 DEF LimiterType
    <2>6. BucketInv(x)
        BY <1>0, <1>1, <2>3, RateLimiterAssumption DEF BucketInv, BucketType,
                                                       LimiterType
    <2>7. TryConsume(b).b = x /\ TryConsume(b).ok = TRUE
        BY <2>1
    <2>8. QED
        BY <1>1, <2>3, <2>4, <2>5, <2>6, <2>7, Zenon
<1>3. CASE ~(r.tokens >= 1)
    BY <1>1, <1>3 DEF TryConsume
<1>4. QED
    BY <1>2, <1>3
-----------------------------------------------------------------------------
(* The limiter map keeps its invariant when one entry is replaced by a     *)
(* record that satisfies it, the clock standing still.                     *)
LEMMA SetLimiter ==
    ASSUME IInv, NEW c \in Clients, NEW v \in LimiterType, BucketInv(v),
           limiters' = [limiters EXCEPT ![c] = v], now' = now
    PROVE  LimitersOK' /\ LimInv'
BY DEF IInv, TypeOK, Live, BucketInv, LimitersOK, LimInv

(* A new ClientLimiter has a full bucket and satisfies the invariant.     *)
LEMMA NewLimiterInv ==
    ASSUME now \in Nat, NEW g \in Nat
    PROVE  NewLimiter(g) \in LimiterType /\ BucketInv(NewLimiter(g))
BY RateLimiterAssumption DEF NewLimiter, LimiterType, BucketInv

LEMMA InitIInv == Init => IInv
BY RateLimiterAssumption DEF Init, IInv, TypeOK, Bucket, BucketType, BucketInv, Live,
                             LimInv

(* The steps that leave the clock and the buckets alone.                   *)
LEMMA RequestPreserves ==
    ASSUME IInv, NEW t \in Threads, NEW c \in Clients, Request(t, c)
    PROVE  IInv'
BY DEF IInv, TypeOK, Request, BucketInv, Live, LimInv

LEMMA CountRequestPreserves ==
    ASSUME IInv, NEW t \in Threads, CountRequest(t)
    PROVE  IInv'
<1> DEFINE c == client[t]
           v == [limiters[c] EXCEPT !.request_count = @ + 1]
<1>1. c \in Clients /\ limiters[c] \in LimiterType /\ BucketInv(limiters[c])
    BY DEF CountRequest, IInv, TypeOK, Live, LimInv
<1>2. v \in LimiterType /\ BucketInv(v)
    BY <1>1 DEF LimiterType, BucketInv
<1>3. limiters' = [limiters EXCEPT ![c] = v] /\ now' = now
    BY DEF CountRequest
<1>4. LimitersOK' /\ LimInv'
    BY <1>1, <1>2, <1>3, SetLimiter
<1>5. QED
    BY <1>3, <1>4 DEF IInv, TypeOK, CountRequest, LimitersOK, LimInv, BucketInv

LEMMA WindowCheckPreserves ==
    ASSUME IInv, NEW t \in Threads, WindowCheck(t)
    PROVE  IInv'
<1> DEFINE c == client[t]
           l == limiters[c]
           w == IF now - l.window_start >= Window
                THEN [l EXCEPT !.request_count = 0, !.window_start = now]
                ELSE l
<1>1. c \in Clients /\ l \in LimiterType /\ BucketInv(l)
    BY DEF WindowCheck, IInv, TypeOK, Live, LimInv
<1>2. w \in LimiterType /\ BucketInv(w)
    <2>1. CASE now - l.window_start >= Window
        <3>1. now \in Nat
            BY DEF IInv, TypeOK
        <3>2. [l EXCEPT !.request_count = 0, !.window_start = now] \in LimiterType
            BY <1>1, <3>1 DEF LimiterType
        <3>3. BucketInv([l EXCEPT !.request_count = 0, !.window_start = now])
            BY <1>1 DEF LimiterType, BucketInv
        <3>4. QED
            BY <2>1, <3>2, <3>3
    <2>2. CASE ~(now - l.window_start >= Window)
        BY <1>1, <2>2
    <2>3. QED
        BY <2>1, <2>2
<1>3. limiters' = [limiters EXCEPT ![c] = w] /\ now' = now
    BY DEF WindowCheck
<1>4. LimitersOK' /\ LimInv'
    BY <1>1, <1>2, <1>3, SetLimiter
<1>5. QED
    BY <1>3, <1>4 DEF IInv, TypeOK, WindowCheck, LimitersOK, LimInv, BucketInv
LEMMA BucketConsumePreserves ==
    ASSUME IInv, NEW t \in Threads, BucketConsume(t)
    PROVE  IInv'
<1> DEFINE c == client[t]
           r == TryConsume(limiters[c])
<1>1. c \in Clients /\ limiters[c] \in LimiterType /\ BucketInv(limiters[c])
    BY DEF BucketConsume, IInv, TypeOK, Live, LimInv
<1>2. now \in Nat
    BY DEF IInv, TypeOK
<1>3. r.b \in LimiterType /\ BucketInv(r.b) /\ r.ok \in BOOLEAN
    BY <1>1, <1>2, TryConsumeInv DEF Records
<1>4. limiters' = [limiters EXCEPT ![c] = r.b] /\ now' = now
    BY DEF BucketConsume
<1>5. LimitersOK' /\ LimInv'
    BY <1>1, <1>3, <1>4, SetLimiter
<1>6. pc' \in [Threads -> {"idle", "global", "lookup", "bucket", "window", "count"}]
    BY <1>3 DEF BucketConsume, IInv, TypeOK
<1>7. denied' \in Nat
    BY <1>3 DEF BucketConsume, IInv, TypeOK
<1>8. QED
    BY <1>4, <1>5, <1>6, <1>7 DEF IInv, TypeOK, BucketConsume, LimitersOK, LimInv,
                                  BucketInv

LEMMA GlobalIsAllowedPreserves ==
    ASSUME IInv, NEW t \in Threads, GlobalIsAllowed(t)
    PROVE  IInv'
<1> DEFINE r == TryConsume(global_bucket)
<1>1. global_bucket \in BucketType /\ BucketInv(global_bucket) /\ now \in Nat
    BY DEF IInv, TypeOK
<1>2. r.b \in BucketType /\ BucketInv(r.b) /\ r.ok \in BOOLEAN
    BY <1>1, TryConsumeInv DEF Records
<1>3. global_bucket' = r.b /\ now' = now /\ limiters' = limiters
    BY DEF GlobalIsAllowed
<1>4. allowed' \in Nat /\ denied' \in Nat
    BY <1>2 DEF GlobalIsAllowed, IInv, TypeOK
<1>5. QED
    BY <1>2, <1>3, <1>4 DEF IInv, TypeOK, GlobalIsAllowed, LimInv, BucketInv, Live

LEMMA GetClientLimiterPreserves ==
    ASSUME IInv, NEW t \in Threads, GetClientLimiter(t)
    PROVE  IInv'
<1> DEFINE c == client[t]
           g == IF Live(c) THEN limiters[c].gen ELSE destroyed + 1
<1>1. c \in Clients /\ now \in Nat /\ g \in Nat
    BY DEF IInv, TypeOK, Live, LimiterType
<1>2. now' = now
    BY DEF GetClientLimiter
<1>3. LimitersOK' /\ LimInv'
    <2>1. CASE Live(c)
        BY <1>2, <2>1 DEF GetClientLimiter, IInv, TypeOK, LimitersOK, LimInv, Live,
                          BucketInv
    <2>2. CASE ~Live(c)
        <3>1. NewLimiter(g) \in LimiterType /\ BucketInv(NewLimiter(g))
            BY <1>1, NewLimiterInv
        <3>2. limiters' = [limiters EXCEPT ![c] = NewLimiter(g)]
            BY <2>2 DEF GetClientLimiter
        <3>3. QED
            BY <1>1, <1>2, <3>1, <3>2, SetLimiter
    <2>3. QED
        BY <2>1, <2>2
<1>4. ptr' \in [Threads -> Nat]
    BY <1>1 DEF GetClientLimiter, IInv, TypeOK
<1>5. QED
    BY <1>2, <1>3, <1>4 DEF IInv, TypeOK, GetClientLimiter, LimitersOK, LimInv,
                            BucketInv

LEMMA TickPreserves ==
    ASSUME IInv, Tick
    PROVE  IInv'
<1>1. now' = now + 1 /\ now \in Nat /\ now + 1 \in 0 .. MaxTime
    BY RateLimiterAssumption DEF IInv, TypeOK, Tick
<1>2. LimInv'
    BY <1>1 DEF IInv, TypeOK, Tick, LimInv, BucketInv, Live, LimiterType
<1>3. BucketInv(global_bucket)'
    BY <1>1 DEF IInv, TypeOK, Tick, BucketInv, BucketType
<1>4. QED
    BY <1>1, <1>2, <1>3 DEF IInv, TypeOK, Tick

(* Destroying limiters: every entry is either kept or NoLimiter.           *)
LEMMA DropLimiters ==
    ASSUME IInv, now' = now, global_bucket' = global_bucket,
           limiters' \in [Clients -> LimiterType \cup {NoLimiter}],
           \A c \in Clients : limiters'[c] = limiters[c] \/ limiters'[c] = NoLimiter
    PROVE  LimitersOK' /\ LimInv'
BY DEF IInv, LimitersOK, LimInv, Live, BucketInv

LEMMA RemoveClientPreserves ==
    ASSUME IInv, NEW c \in Clients, RemoveClient(c)
    PROVE  IInv'
<1>1. /\ limiters' \in [Clients -> LimiterType \cup {NoLimiter}]
      /\ \A d \in Clients : limiters'[d] = limiters[d] \/ limiters'[d] = NoLimiter
    BY DEF IInv, TypeOK, RemoveClient
<1>2. LimitersOK' /\ LimInv'
    BY <1>1, DropLimiters DEF RemoveClient
<1>3. QED
    BY <1>2, RateLimiterAssumption DEF IInv, TypeOK, RemoveClient, LimitersOK, LimInv, BucketInv

LEMMA CleanupPreserves ==
    ASSUME IInv, NEW m \in 0 .. 1, CleanupExpiredClients(m)
    PROVE  IInv'
<1>1. /\ limiters' \in [Clients -> LimiterType \cup {NoLimiter}]
      /\ \A d \in Clients : limiters'[d] = limiters[d] \/ limiters'[d] = NoLimiter
    BY DEF IInv, TypeOK, CleanupExpiredClients
<1>2. LimitersOK' /\ LimInv'
    BY <1>1, DropLimiters DEF CleanupExpiredClients
<1>3. QED
    BY <1>2, RateLimiterAssumption DEF IInv, TypeOK, CleanupExpiredClients, LimitersOK, LimInv, BucketInv

LEMMA ResetAllClientsPreserves ==
    ASSUME IInv, ResetAllClients
    PROVE  IInv'
<1>1. now \in Nat
    BY DEF IInv, TypeOK
<1>2. \A c \in Clients : Live(c) =>
         /\ [limiters[c] EXCEPT !.request_count = 0, !.window_start = now] \in LimiterType
         /\ BucketInv([limiters[c] EXCEPT !.request_count = 0, !.window_start = now])
    BY <1>1 DEF IInv, TypeOK, LimInv, Live, BucketInv, LimiterType
<1>3. LimitersOK' /\ LimInv'
    BY <1>2 DEF ResetAllClients, LimitersOK, LimInv, Live, BucketInv
<1>4. QED
    BY <1>3 DEF IInv, TypeOK, ResetAllClients, LimitersOK, LimInv, BucketInv

LEMMA UpdateConfigPreserves ==
    ASSUME IInv, UpdateConfig
    PROVE  IInv'
<1>1. now \in Nat /\ destroyed + 1 \in Nat
    BY DEF IInv, TypeOK
<1>2. NewLimiter(destroyed + 1) \in LimiterType /\ BucketInv(NewLimiter(destroyed + 1))
    BY <1>1, NewLimiterInv
<1>3. Bucket(now) \in BucketType /\ BucketInv(Bucket(now))
    BY <1>1, RateLimiterAssumption DEF Bucket, BucketType, BucketInv
<1>4. LimitersOK' /\ LimInv'
    BY <1>2 DEF UpdateConfig, LimitersOK, LimInv, Live, BucketInv
<1>5. now' = now
    BY DEF UpdateConfig
<1>6. global_bucket' \in BucketType /\ BucketInv(global_bucket)'
    <2>1. CASE PerClient
        BY <1>5, <2>1 DEF UpdateConfig, IInv, TypeOK, BucketInv
    <2>2. CASE ~PerClient
        BY <1>3, <1>5, <2>2 DEF UpdateConfig, BucketInv
    <2>3. QED
        BY <2>1, <2>2
<1>7. destroyed' \in 0 .. MaxDestroy
    BY RateLimiterAssumption DEF IInv, TypeOK, UpdateConfig
<1>8. UNCHANGED <<total, allowed, denied, pc, client, ptr>>
    BY DEF UpdateConfig
<1>9. QED
    BY <1>4, <1>5, <1>6, <1>7, <1>8 DEF IInv, TypeOK, LimitersOK
-----------------------------------------------------------------------------
(* Multiplying by a natural number keeps the order.                        *)
LEMMA MulMonotone ==
    ASSUME NEW k \in Nat, NEW x \in Int, NEW y \in Int, x <= y
    PROVE  k * x <= k * y
<1>1. k * (y - x) \in Nat
    OBVIOUS
<1>2. k * y = k * x + k * (y - x)
    OBVIOUS
<1>3. QED
    BY <1>1, <1>2

LEMMA NextIInv == IInv /\ [Next]_vars => IInv'
<1> SUFFICES ASSUME IInv, [Next]_vars PROVE IInv'
    OBVIOUS
<1>1. CASE UNCHANGED vars
    BY <1>1 DEF vars, IInv, TypeOK, LimInv, Live, BucketInv
<1>2. CASE OwnerStep
    <2>1. CASE Tick
        BY <2>1, TickPreserves
    <2>2. CASE ResetAllClients
        BY <2>2, ResetAllClientsPreserves
    <2>3. CASE \E c \in Clients : Quiet(c) /\ RemoveClient(c)
        BY <2>3, RemoveClientPreserves
    <2>4. CASE \E m \in 0 .. 1 : (\A c \in Clients : Quiet(c)) /\ CleanupExpiredClients(m)
        BY <2>4, CleanupPreserves
    <2>5. CASE (\A t \in Threads : pc[t] \in {"idle", "lookup"}) /\ UpdateConfig
        BY <2>5, UpdateConfigPreserves
    <2>6. QED
        BY <1>2, <2>1, <2>2, <2>3, <2>4, <2>5 DEF OwnerStep
<1>3. ASSUME NEW t \in Threads, ThreadStep(t) PROVE IInv'
    BY <1>3, RequestPreserves, GlobalIsAllowedPreserves, GetClientLimiterPreserves,
       BucketConsumePreserves, WindowCheckPreserves, CountRequestPreserves
    DEF ThreadStep
<1>4. QED
    BY <1>1, <1>2, <1>3 DEF Next

(* A bucket satisfying BucketInv has given out at most the bound.        *)
LEMMA BucketBound ==
    ASSUME NEW b \in Records, BucketInv(b), now \in Nat
    PROVE  b.consumed <= Burst + Rps * (now - b.born)
<1>1. b.last_refill - b.born \in Int /\ now - b.born \in Int
      /\ b.last_refill - b.born <= now - b.born
    BY DEF BucketInv, Records, BucketType, LimiterType
<1>2. Rps * (b.last_refill - b.born) <= Rps * (now - b.born)
    BY <1>1, RateLimiterAssumption, MulMonotone
<1>3. b.tokens \in Nat /\ b.consumed \in Nat
    BY DEF Records, BucketType, LimiterType
<1>4. Rps * (b.last_refill - b.born) \in Int /\ Rps * (now - b.born) \in Int
    BY <1>1, RateLimiterAssumption
<1>5. QED
    BY <1>2, <1>3, <1>4, RateLimiterAssumption DEF BucketInv

(* IInv bounds what each bucket has given out, since a bucket holds no    *)
(* negative tokens and last_refill is not in the future.                   *)
LEMMA IInvTokenBound == IInv => TokenBound
<1> SUFFICES ASSUME IInv PROVE TokenBound
    OBVIOUS
<1>1. \A b \in Records : BucketInv(b) /\ now \in Nat =>
         b.consumed <= Burst + Rps * (now - b.born)
    BY BucketBound
<1>2. now \in Nat
    BY DEF IInv, TypeOK
<1>3. ASSUME NEW c \in Clients, Live(c)
      PROVE  limiters[c].consumed <= Burst + Rps * (now - limiters[c].born)
    BY <1>1, <1>2, <1>3 DEF IInv, TypeOK, LimInv, Live, Records
<1>4. global_bucket.consumed <= Burst + Rps * (now - global_bucket.born)
    BY <1>1, <1>2 DEF IInv, TypeOK, Records
<1>5. QED
    BY <1>3, <1>4 DEF TokenBound

(* Every state of the rate limiter satisfies the type invariant.          *)
THEOREM RateLimiterTypeCorrect == Spec => []TypeOK
<1>1. IInv => TypeOK
    BY DEF IInv
<1>2. QED
    BY InitIInv, NextIInv, <1>1, PTL DEF Spec

(* Whatever the rate, the burst, the window and the interleaving of        *)
(* requests, refills, resets, removals and config updates, a token bucket  *)
(* made at second b has given out at most burst_capacity + rate * (now - b)*)
(* tokens: TokenBucket::refill never adds tokens for time it already paid. *)
THEOREM TokenBoundHolds == Spec => []TokenBound
<1>1. IInv => TokenBound
    BY IInvTokenBound
<1>2. QED
    BY InitIInv, NextIInv, <1>1, PTL DEF Spec
-----------------------------------------------------------------------------
(***************************************************************************)
(* The request counters.  With per-client limits on, is_allowed counts     *)
(* total_requests_ once at its start and allowed_requests_ or              *)
(* denied_requests_ once at its end, so total runs ahead of allowed +      *)
(* denied by exactly the requests in progress.  StatsBalanced is the case  *)
(* where none is in progress; it is not inductive alone, because a step    *)
(* that ends a request changes the counters while other requests are      *)
(* still in progress.  With per-client limits off the "global" step counts *)
(* total_requests_ a second time and StatsBalanced fails (TLC shows it    *)
(* with RateLimiterGlobalStats.cfg), so the theorem assumes PerClient.     *)
(***************************************************************************)
BusyOf(p) == {t \in Threads : p[t] # "idle"}

Balance ==
    /\ \A t \in Threads : pc[t] # "global"
    /\ total = allowed + denied + Cardinality(BusyOf(pc))

SIInv == IInv /\ Balance

PcSet == {"idle", "global", "lookup", "bucket", "window", "count"}


(* The threads in a request are finitely many.                             *)
LEMMA BusyFinite ==
    ASSUME NEW p \in [Threads -> PcSet]
    PROVE  IsFiniteSet(BusyOf(p)) /\ Cardinality(BusyOf(p)) \in Nat
<1>1. BusyOf(p) \in SUBSET Threads
    BY DEF BusyOf
<1>2. IsFiniteSet(BusyOf(p))
    BY <1>1, ThreadsAssumption, FS_Subset
<1>3. QED
    BY <1>2, FS_CardinalityType

(* A thread that starts a request joins the busy threads.                  *)
LEMMA BusyEnter ==
    ASSUME NEW p \in [Threads -> PcSet], NEW t \in Threads, NEW v,
           p[t] = "idle", v # "idle"
    PROVE  Cardinality(BusyOf([p EXCEPT ![t] = v])) = Cardinality(BusyOf(p)) + 1
<1>1. BusyOf([p EXCEPT ![t] = v]) = BusyOf(p) \cup {t}
    BY DEF BusyOf
<1>2. t \notin BusyOf(p)
    BY DEF BusyOf
<1>3. IsFiniteSet(BusyOf(p))
    BY BusyFinite
<1>4. Cardinality(BusyOf(p) \cup {t}) = Cardinality(BusyOf(p)) + 1
    BY <1>2, <1>3, FS_AddElement, Zenon
<1>5. QED
    BY <1>1, <1>4, Zenon

(* A thread that ends its request leaves them.                             *)
LEMMA BusyLeave ==
    ASSUME NEW p \in [Threads -> PcSet], NEW t \in Threads,
           p[t] # "idle"
    PROVE  Cardinality(BusyOf([p EXCEPT ![t] = "idle"])) = Cardinality(BusyOf(p)) - 1
<1>1. BusyOf([p EXCEPT ![t] = "idle"]) = BusyOf(p) \ {t}
    BY DEF BusyOf
<1>2. t \in BusyOf(p)
    BY DEF BusyOf
<1>3. IsFiniteSet(BusyOf(p))
    BY BusyFinite
<1>4. Cardinality(BusyOf(p) \ {t}) = Cardinality(BusyOf(p)) - 1
    BY <1>2, <1>3, FS_RemoveElement, Zenon
<1>5. QED
    BY <1>1, <1>4, Zenon

(* A thread that moves from one step of its request to the next stays.     *)
LEMMA BusyStay ==
    ASSUME NEW p \in [Threads -> PcSet], NEW t \in Threads, NEW v,
           p[t] # "idle", v # "idle"
    PROVE  BusyOf([p EXCEPT ![t] = v]) = BusyOf(p)
BY DEF BusyOf

LEMMA InitBalance == Init => Balance
<1> SUFFICES ASSUME Init PROVE Balance
    OBVIOUS
<1>1. BusyOf(pc) = {}
    BY DEF Init, BusyOf
<1>2. QED
    BY <1>1, FS_EmptySet DEF Init, Balance
(* Facts of IInv and Balance that every step below uses.                  *)
LEMMA CounterTypes ==
    ASSUME SIInv
    PROVE  /\ pc \in [Threads -> PcSet]
           /\ total \in Nat /\ allowed \in Nat /\ denied \in Nat
           /\ Cardinality(BusyOf(pc)) \in Nat
           /\ \A t \in Threads : pc[t] # "global"
           /\ total = allowed + denied + Cardinality(BusyOf(pc))
<1>1. pc \in [Threads -> PcSet]
    BY DEF SIInv, IInv, TypeOK, PcSet
<1>2. QED
    BY <1>1, BusyFinite DEF SIInv, IInv, TypeOK, Balance

(* is_allowed(client_id) with per-client limits on: total_requests_++ and  *)
(* the thread enters the request.                                          *)
LEMMA RequestBalance ==
    ASSUME PerClient, SIInv, NEW t \in Threads, NEW c \in Clients, Request(t, c)
    PROVE  Balance'
<1>0. pc \in [Threads -> PcSet]
    BY CounterTypes
<1>1. pc' = [pc EXCEPT ![t] = "lookup"] /\ pc[t] = "idle"
    BY DEF Request
<1>2. Cardinality(BusyOf(pc')) = Cardinality(BusyOf(pc)) + 1
    BY <1>1, <1>0, BusyEnter, Zenon
<1>3. \A u \in Threads : pc'[u] # "global"
    BY <1>1, CounterTypes
<1>4. QED
    BY <1>2, <1>3, CounterTypes DEF Request, Balance

(* The "global" step never runs with per-client limits on.               *)
LEMMA GlobalIsAllowedBalance ==
    ASSUME SIInv, NEW t \in Threads, GlobalIsAllowed(t)
    PROVE  FALSE
BY CounterTypes DEF GlobalIsAllowed

LEMMA GetClientLimiterBalance ==
    ASSUME SIInv, NEW t \in Threads, GetClientLimiter(t)
    PROVE  Balance'
<1>0. pc \in [Threads -> PcSet]
    BY CounterTypes
<1>1. pc' = [pc EXCEPT ![t] = "bucket"] /\ pc[t] = "lookup"
    BY DEF GetClientLimiter
<1>2. BusyOf(pc') = BusyOf(pc)
    BY <1>1, <1>0, BusyStay, Zenon
<1>3. \A u \in Threads : pc'[u] # "global"
    BY <1>1, CounterTypes
<1>4. QED
    BY <1>2, <1>3, CounterTypes DEF GetClientLimiter, Balance

(* try_consume fails: denied_requests_++ and the request ends; it          *)
(* succeeds: the request goes on to the window.                            *)
LEMMA BucketConsumeBalance ==
    ASSUME SIInv, NEW t \in Threads, BucketConsume(t)
    PROVE  Balance'
<1> DEFINE r == TryConsume(limiters[client[t]])
<1>0. pc \in [Threads -> PcSet]
    BY CounterTypes
<1>1. pc[t] = "bucket"
    BY DEF BucketConsume
<1>2. CASE r.ok
    <2>1. pc' = [pc EXCEPT ![t] = "window"] /\ denied' = denied
        BY <1>2 DEF BucketConsume
    <2>2. BusyOf(pc') = BusyOf(pc)
        BY <1>1, <2>1, <1>0, BusyStay, Zenon
    <2>3. \A u \in Threads : pc'[u] # "global"
        BY <2>1, CounterTypes
    <2>4. QED
        BY <2>1, <2>2, <2>3, CounterTypes DEF BucketConsume, Balance
<1>3. CASE ~r.ok
    <2>1. pc' = [pc EXCEPT ![t] = "idle"] /\ denied' = denied + 1
        BY <1>3 DEF BucketConsume
    <2>2. Cardinality(BusyOf(pc')) = Cardinality(BusyOf(pc)) - 1
        BY <1>1, <2>1, <1>0, BusyLeave, Zenon
    <2>3. \A u \in Threads : pc'[u] # "global"
        BY <2>1, CounterTypes
    <2>4. QED
        BY <2>1, <2>2, <2>3, CounterTypes DEF BucketConsume, Balance
<1>4. QED
    BY <1>2, <1>3

(* The window is full: denied_requests_++ and the request ends; it is not: *)
(* the request goes on to count itself.                                    *)
LEMMA WindowCheckBalance ==
    ASSUME SIInv, NEW t \in Threads, WindowCheck(t)
    PROVE  Balance'
<1> DEFINE l == limiters[client[t]]
           w == IF now - l.window_start >= Window
                THEN [l EXCEPT !.request_count = 0, !.window_start = now]
                ELSE l
<1>0. pc \in [Threads -> PcSet]
    BY CounterTypes
<1>1. pc[t] = "window"
    BY DEF WindowCheck
<1>2. CASE w.request_count >= Rps
    <2>1. pc' = [pc EXCEPT ![t] = "idle"] /\ denied' = denied + 1
        BY <1>2, Zenon DEF WindowCheck
    <2>2. Cardinality(BusyOf(pc')) = Cardinality(BusyOf(pc)) - 1
        BY <1>1, <2>1, <1>0, BusyLeave, Zenon
    <2>3. \A u \in Threads : pc'[u] # "global"
        BY <2>1, CounterTypes
    <2>4. QED
        BY <2>1, <2>2, <2>3, CounterTypes DEF WindowCheck, Balance
<1>3. CASE ~(w.request_count >= Rps)
    <2>1. pc' = [pc EXCEPT ![t] = "count"] /\ denied' = denied
        BY <1>3, Zenon DEF WindowCheck
    <2>2. BusyOf(pc') = BusyOf(pc)
        BY <1>1, <2>1, <1>0, BusyStay, Zenon
    <2>3. \A u \in Threads : pc'[u] # "global"
        BY <2>1, CounterTypes
    <2>4. QED
        BY <2>1, <2>2, <2>3, CounterTypes DEF WindowCheck, Balance
<1>4. QED
    BY <1>2, <1>3

(* request_count++ and allowed_requests_++: the request ends.             *)
LEMMA CountRequestBalance ==
    ASSUME SIInv, NEW t \in Threads, CountRequest(t)
    PROVE  Balance'
<1>0. pc \in [Threads -> PcSet]
    BY CounterTypes
<1>1. pc' = [pc EXCEPT ![t] = "idle"] /\ pc[t] = "count"
    BY DEF CountRequest
<1>2. Cardinality(BusyOf(pc')) = Cardinality(BusyOf(pc)) - 1
    BY <1>1, <1>0, BusyLeave, Zenon
<1>3. \A u \in Threads : pc'[u] # "global"
    BY <1>1, CounterTypes
<1>4. QED
    BY <1>2, <1>3, CounterTypes DEF CountRequest, Balance

(* The owner's operations leave the counters and the threads alone.       *)
LEMMA OwnerBalance ==
    ASSUME SIInv, OwnerStep
    PROVE  Balance'
<1>1. UNCHANGED <<total, allowed, denied, pc>>
    <2>1. CASE Tick
        BY <2>1 DEF Tick
    <2>2. CASE ResetAllClients
        BY <2>2, Zenon DEF ResetAllClients
    <2>3. CASE \E c \in Clients : Quiet(c) /\ RemoveClient(c)
        BY <2>3 DEF RemoveClient
    <2>4. CASE \E m \in 0 .. 1 : (\A c \in Clients : Quiet(c)) /\ CleanupExpiredClients(m)
        BY <2>4 DEF CleanupExpiredClients
    <2>5. CASE (\A t \in Threads : pc[t] \in {"idle", "lookup"}) /\ UpdateConfig
        BY <2>5 DEF UpdateConfig
    <2>6. QED
        BY <2>1, <2>2, <2>3, <2>4, <2>5 DEF OwnerStep
<1>2. QED
    BY <1>1, CounterTypes DEF Balance, BusyOf
LEMMA NextSIInv ==
    ASSUME PerClient
    PROVE  SIInv /\ [Next]_vars => SIInv'
<1> SUFFICES ASSUME SIInv, [Next]_vars PROVE SIInv'
    OBVIOUS
<1>1. IInv'
    BY NextIInv, Zenon DEF SIInv
<1>2. ASSUME UNCHANGED vars PROVE Balance'
    <2>1. pc' = pc /\ total' = total /\ allowed' = allowed /\ denied' = denied
        BY <1>2 DEF vars
    <2>2. QED
        BY <2>1 DEF SIInv, Balance
<1>3. ASSUME OwnerStep PROVE Balance'
    BY <1>3, OwnerBalance
<1>4. ASSUME NEW t \in Threads, ThreadStep(t) PROVE Balance'
    <2>1. CASE \E c \in Clients : Request(t, c)
        BY <2>1, RequestBalance
    <2>2. CASE GlobalIsAllowed(t)
        BY <2>2, GlobalIsAllowedBalance
    <2>3. QED
        BY <1>4, <2>1, <2>2, GetClientLimiterBalance, BucketConsumeBalance,
           WindowCheckBalance, CountRequestBalance
        DEF ThreadStep
<1>5. QED
    BY <1>1, <1>2, <1>3, <1>4 DEF Next, SIInv

LEMMA InitSIInv == Init => SIInv
BY InitIInv, InitBalance DEF SIInv

(* With no request in progress, Balance is StatsBalanced.                 *)
LEMMA SIInvStatsBalanced == SIInv => StatsBalanced
<1> SUFFICES ASSUME SIInv, \A t \in Threads : pc[t] = "idle"
             PROVE  total = allowed + denied
    BY DEF StatsBalanced
<1>1. BusyOf(pc) = {}
    BY DEF BusyOf
<1>2. Cardinality(BusyOf(pc)) = 0
    BY <1>1, FS_EmptySet
<1>3. QED
    BY <1>2, CounterTypes

(* With per-client limits on (config_.enable_per_client_limits, the        *)
(* default), for any number of threads and clients and any interleaving of *)
(* requests with the owner's operations, whenever no is_allowed call is in *)
(* progress total_requests_ = allowed_requests_ + denied_requests_: every  *)
(* request is counted once, and is counted as allowed or as denied exactly *)
(* once, on each of its paths through RateLimiter::is_allowed and          *)
(* ClientLimiter::is_allowed.                                              *)
THEOREM StatsBalancedHolds == PerClient => (Spec => []StatsBalanced)
<1> SUFFICES ASSUME PerClient PROVE Spec => []StatsBalanced
    OBVIOUS
<1>1. SIInv /\ [Next]_vars => SIInv'
    BY NextSIInv
<1>2. QED
    BY InitSIInv, <1>1, SIInvStatsBalanced, PTL DEF Spec
=============================================================================
