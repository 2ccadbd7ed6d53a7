# Formal models of the Distributed-File-System storage core

These are TLA+ models of the C++ storage engine in `src/src/core/`, with TLC
runs on small instances and TLAPS proofs for every instance. Each action is
translated from the code; `PROJECT.json` maps each definition to the source
lines it models.

## The system

The specification (`spec.md`) describes a storage core made of six parts:

- a superblock;
- a block allocator;
- an inode table;
- a write-ahead-logged transaction manager;
- a path resolver;
- a file-system façade that owns the other parts and a per-inode lock table.

Only part of this exists in the repository.

| Part | Source | State | Status |
|---|---|---|---|
| Block allocator | `src/src/core/block_manager.cpp` | `block_bitmap_` (TRUE = free), rotating hint `next_free_block_`, one `bitmap_mutex_` | modelled: `BlockAllocator`, proved to refine `ResourcePool` |
| Transaction manager + WAL | `src/src/core/transaction_manager.cpp` | `active_transactions_` map, `next_transaction_id_`, append-only `log_file_` stream | modelled: `TxnManager` |
| Inode table | `src/src/core/inode.cpp` | `inodes_` array, `free_inodes_` bitmap, hint `next_free_inode_`, `table_mutex_` | partly: `InodeTable` (allocation, lookup, free; not the record's byte layout), refines `ResourcePool` |
| Rate limiter | `src/src/utils/rate_limiter.cpp` | token buckets, per-client `ClientLimiter` map, `SlidingWindowRateLimiter` windows | partly: `RateLimiter`, `SlidingWindowLimiter` (not `get_stats`/`get_client_stats`) |
| Superblock | `include/core/superblock.h` only | – | no implementation to model |
| Façade, path resolver, lock table | `include/core/file_system.h` only | – | no implementation; spec-modelled composition planned |
| Retry handler, circuit breaker | `src/unnamed/part_003`, `src/include/utils/retry_handler.h` | atomic `circuit_state_`, `consecutive_failures_`, statistics counters; per-call `attempt` | partly: `RetryHandler` (not `update_config`, not `RetryManager`) |
| Thread pool, logger, REST/client API, scripts | `unnamed/*`, `include/api` | – | outside the core (spec §1) |

How the parts interact in the code:
- The allocator, the inode table and the transaction manager never call
  each other. The rate limiter is a collaborator of the REST layer (spec §1)
  and touches none of the core's state. So is the retry handler, whose
  callers pass it the operation to run.
- In the spec, the façade would log every allocation as a WAL record and
  commit it. No such caller exists under `src/`.
- Each model therefore treats its component's callers as a nondeterministic
  environment. For the allocator, the callers are threads that allocate and
  release blocks. For the transaction manager, they are clients that begin,
  add to, commit and roll back transactions. Time, write errors and crashes
  are also part of the environment.

## Modules

### `BlockAllocator.tla`, with `MCBlockAllocator.tla`

Every public method of `BlockManager` holds `bitmap_mutex_` for its whole
body, so each method is one atomic action.

**State:**
- `block_bitmap` and `next_free_block`: the two fields of `BlockManager`.
- `owned[t]`: the blocks thread `t` holds. Caller state.
- `ret[t]`: what thread `t`'s last call returned. Caller state.
- `checked[t]`: what thread `t`'s last `is_block_free` call found. Caller
  state.

**Actions:**
- `AllocateBlock`: `find_next_free_block` is the operator `IsNextFree`, the
  cyclic distance order from the hint.
- `AllocateBlocks`, in two parts:
  - `ContiguousAlloc`: the scan loop of lines 61-87, as the least scan
    position `k` where `n` free positions start. Scan position 0 is the raw
    hint. Every later position is taken modulo N, exactly as the code's
    `current_block`. When the hint equals N, the first read is past the end
    of the vector. That read is undefined behaviour, so the value read is a
    nondeterministic Boolean (`OutOfRangeReads`).
  - `ScatteredAlloc`: the fallback, in which repeated `find_next_free_block`
    calls take the first `n` free blocks in cyclic order. When fewer than `n`
    blocks are free, the bits taken are rolled back, `InsufficientSpace` is
    thrown, and the hint stays moved.
- `DeallocateBlock`: covers both `deallocate_block` and `mark_block_free`.
  The two methods have the same effect.
- `DeallocateBlocks`.
- `IsBlockFree`.
- `MarkBlockUsed`.
- `DefragmentBlocks`.

**Callers:**
- In `Spec`, callers release only blocks they hold, or the out-of-range id
  N.
- Three further specifications add one caller behaviour each:
  - `SpecNullFree`: a caller frees block 0, the null pointer of an unused
    `direct_blocks` entry;
  - `SpecCheckThenMark`: a caller uses `is_block_free` followed by
    `mark_block_used`;
  - `SpecDefrag`: a caller runs `defragment_blocks`.

### `TxnManager.tla`

Every public method holds `transaction_mutex_` for its whole body.

**State:**
- `tx_state[id]`: "none" means not in the map. "active" and "aborted" are
  map entries, the latter with `is_aborted` set.
- `tx_entries[id]`: the number of staged log entries.
- `tx_expired`: whether the transaction has aged past the timeout.
- `log_file`: the log file's contents, as a sequence of records. A record
  carries its transaction, its index, the number of entries of its
  transaction, the incarnation that wrote it, and whether it is torn (cut
  short).
- `log_failed`: the stream's failbit, which is never cleared.
- `boot`: the process incarnation.
- Ghost variables `committed` and `replayed`: the commits that returned
  true, and the records the last `recover()` read.

**Actions:**
- `BeginTransaction`.
- `AddLogEntry`.
- `CommitTransaction`, with two failure paths:
  - `CommitWriteError`: `serialize` throws on entry k+1. Entries 1..k are in
    the file, perhaps followed by a torn record. The transaction is marked
    aborted and stays in the map.
  - `CommitFlushError`: the last `flush()` fails, which nobody checks. The
    commit returns true with its last entry missing or torn. Every earlier
    entry was flushed, because a failed flush sets badbit and the next
    `serialize` would throw.
- `RollbackTransaction`.
- `Expire`: time passing.
- `CleanupExpiredTransactions`.
- `CrashRestart`: the process dies between calls or inside a commit after k
  entries were written. The constructor then runs: `ios::app`, a new map,
  and the next id reset to 1. Then `recover()` runs. Replay reads records in
  order and stops at the first torn record, because `deserialize` throws on
  the short read. Parsing past a torn record would be misaligned, and a
  valid record found there is treated as impossible.
- Payload bytes, `LogEntry` checksums and statistics are abstracted away.

### `BlockAllocator.tla`: the mutex

`bitmap_mutex_` is a plain `std::mutex`. When `allocate_block` or the
scattered path of `allocate_blocks` finds too few free blocks, the throw
expression `InsufficientSpaceException(n, get_free_block_count())` calls
`get_free_block_count`, which locks the same mutex again in the same thread.
`ThrowInsufficientSpace` models that: the thread blocks for ever holding the
mutex (`bitmap_mutex`), and every action of every thread is guarded by
`Unlocked`. `AllocatorNeverWedged` says the mutex is free between calls.

### `InodeTable.tla`, with `MCInodeTable.tla`

`allocate_inode` and `deallocate_inode` hold `table_mutex_` for their whole
body and are one action each. `get_inode` takes no lock and returns a raw
`Inode*`; the caller writes through it later.

**State:** `free_inodes`, `next_free_inode` (the class's fields); `inodes[n]`,
the record abstracted to the thread that last wrote it (`ZeroInode` is the
zeroed `Inode()`); `owned[t]` and `handles[t]`, caller state: the inodes `t`
allocated and those it holds a pointer to; `table_mutex`, the thread stuck in
the nested lock of the throw on a full table.

**Actions:** `AllocateInode` (first free inode from the hint to the end, else
from 1 up to the hint, `Take` moving the hint modulo the size; the throw
wedges the thread), `DeallocateInode` (resets the record, sets the bit and
moves the hint back), `GetInode`, `WriteInode`, `DropHandle`. In `Spec`
callers free only their own inodes and only when no pointer to them is held
(spec §2, the façade's open-handle rule). `SpecEarlyFree` drops the second
condition, `SpecFreeZero` adds a caller freeing inode 0.

### `ResourcePool.tla`: the abstract allocator

What an allocator promises its callers: a set of `Resources`, `held[t]` per
thread; `Acquire(t, S)` takes a non-empty set of resources nobody holds,
`Release(t, S)` gives back some held ones. `InodeTable` instantiates it
(`Pool == INSTANCE ResourcePool WITH Resources <- Inodes \ {0, 1}, held <-
owned`) and `PoolRefinement == Pool!Spec` is checked and proved.
`BlockAllocatorProofs` instantiates it for the blocks
(`BPool`, `Resources <- Blocks \ {0}`) and proves the refinement. It says in
one formula what `NoDoubleAllocation` and `ReservedNeverAllocated` say about
states, about steps: every allocation takes only unreserved inodes that no
thread holds.

### `RateLimiter.tla`, with `MCRateLimiter.tla`

`class RateLimiter`. Token buckets are records (`BucketType`: tokens,
`last_refill`, and ghost fields `consumed` and `born`); a `ClientLimiter`
(`LimiterType`) adds `request_count`, `window_start` and a generation `gen`
that tells a live object from a destroyed one.

**State:** `now` (the clock, whole ticks), `limiters` (`client_limiters_`,
`NoLimiter` when absent), `global_bucket`, `destroyed` (objects destroyed so
far), the statistics `total`, `allowed`, `denied`, and per thread `pc`,
`client` and `ptr` (the `ClientLimiter*` the thread holds).

**Actions:** `is_allowed(client)` is split where it drops `client_mutex_`:
`Request` (counts `total_requests_`, chooses per-client or global),
`GetClientLimiter` (find or create under the mutex, returns the pointer),
`BucketConsume` (the bucket's `try_consume`, refill included, under the
bucket's own mutex), `WindowCheck` (window reset and the lock-free
`request_count` check), `CountRequest` (the increment), and in global mode
`GlobalIsAllowed`. The owner's operations: `RemoveClient`,
`CleanupExpiredClients`, `UpdateConfig` (all destroy limiters),
`ResetAllClients`, and `Tick`. `Refill` and `TryConsume` are operators on a
bucket record. `SpecRacyRemove` lets the owner destroy a limiter a thread
still points to; `Spec` only allows it when no thread holds the pointer.

### `SlidingWindowLimiter.tla`, with `MCSlidingWindowLimiter.tla`

`SlidingWindowRateLimiter::is_allowed` holds `client_mutex_` throughout but
reads the clock three times, so it is three steps: `Enter` (lock, create the
window, cleanup), `Check` (count, deny and unlock at the limit), `Add` (push
`now`, unlock). `admitted[c]` is a ghost history: the time point of every
admission of client `c`, as a sequence in push order. The vector of `c`'s
`RequestWindow` holds some of these entries. Cleanup erases entries and never
reorders the rest, and no reader depends on the order. So `requests[c]` is
the set of positions in `admitted[c]` of the entries still in the vector.
`push_back(now)` appends to the history and adds the new position;
`remove_if(t <= cutoff)` keeps the positions whose stamp is recent.
`CountIn(c, E, S)` is the `Cardinality` of the entries in `E` stamped in
`S`, the loop of `get_request_count`. (An earlier version counted a bag with
`MapThenSumSet`. It reached the same 268,768 states, but it could not be
reasoned about in TLAPS; see below.) `CleanupOldRequests` and `Tick` are
the environment.

### `RetryHandler.tla`, with `MCRetryHandler.tla`

One `RetryHandler` shared by concurrent callers. Each thread runs
`execute_with_retry` or `execute_with_retry_and_classification`
(`method[t]`). Each round of the `for (attempt = 0; attempt <= max_retries;
++attempt)` loop is split at the handler's atomic operations:
- `Top`: `total_attempts_++`.
- `CheckOpen`: throws when `is_circuit_open()`.
- `Success` or `Failure(t, e)`: `func` returns, or throws an error of type
  `e`.
- `update_circuit_breaker(true)` is split into `ResetCount`, which zeroes the
  count, and `CloseHalfOpen`, which closes a half-open circuit.
- `update_circuit_breaker(false)` is split into three steps:
  - `CountFailure`: the `fetch_add`, with its result kept in `seen[t]`;
  - `TripCheck`: the tests on the local count and on a load of the state;
  - `Trip`: the store of `OPEN` and `circuit_breaker_trips_++`.
- `Decide`: the rest of the catch block, then `++attempt` and the for
  condition. It rethrows, goes round again, or ends in the
  "Max retries exceeded" throw (`result = "exhausted"`).
- `ResetCircuitBreaker`: any thread may call it at any time. Its two
  atomic stores (`CLOSED`, then the count 0) are one step here. That hides
  a moment in which the circuit is closed with the count still at the
  threshold, and a failure reopens it at once. The reset is meant to do
  exactly that, and the bugs of that family are shown by
  `RetryHandlerOpensOnlyAtThreshold.cfg`.

`classify_error` is abstracted to the error type it returns. `MCErrorTypes`
keeps one retryable type (`TRANSIENT`): `should_retry` treats the four
retryable types alike. Backoff, jitter and logging are left out, because
they change no control flow.

## Runs

| Run | Spec / cfg | Checks | Result |
|---|---|---|---|
| `block_allocator` | `Spec`, 2 threads (symmetric), 5 blocks, counts 0..3 | `TypeOK`, `NoDoubleAllocation`, `SuperblockReserved`, `NoLeakedBlocks`, `AllocationReturnsFreshBlocks` | pass, 4,203 states |
| `block_out_of_space_wedge` | `Spec` | `AllocatorNeverWedged` | violated: the throw on a full device relocks `bitmap_mutex_` and the thread deadlocks on itself (spec §4.2: fail `OutOfSpace`) |
| `inode_table` | `Spec`, 2 threads, 4 inodes | `TypeOK`, `NoDoubleAllocation`, `FreshInodesZeroed`, `PoolRefinement` | pass, 255,966 states |
| `rate_limiter` | `Spec`, per-client, 2 threads, 2 clients, burst 2, rate 1, window 1, 3 ticks, 4 requests | `TypeOK`, `TokenBound`, `StatsBalanced` | pass, 1,476,456 states |
| `rate_limiter_global` | `Spec`, global mode, 10 requests | `TokenBound` | pass, 7,932 states |
| `rate_window_race` | `Spec` | `WindowLimit` | violated: two threads pass the lock-free `request_count` check in one window |
| `rate_dangling_limiter` | `SpecRacyRemove` | `LimiterLive` | violated: `remove_client` destroys the `ClientLimiter` a request still uses |
| `retry_handler` | `Spec`, 2 threads, max_retries 2, threshold 2, 2 calls, 4 error types | `NeverExhausted`, `OpensAtThreshold`, `EveryCallReturns` | pass, 660,183 states |
| `sliding_window` | `Spec`, 2 threads, 2 clients, limit 2, window 2, 5 ticks | `WindowMax` | pass, 268,768 states |
| `txn_manager` | `Spec`, 2 ids, 2 entries, 2 boots | `TypeOK`, `CommittedAllButLastDurable` | pass, 247,955 states |
| `txn_partial_replay` | `Spec` | `RecoveryAllOrNothing` | violated: with no COMMIT record, a crash mid-commit replays a prefix |
| `txn_torn_tail` | `Spec` | `CommittedRecovered` | violated: a torn record is never truncated, so later commits appended behind it are never replayed |

Further configurations, each showing one more finding (recorded in
`PROJECT.json` with the cfg that reproduces it):

| Cfg | Spec | Checks | Result |
|---|---|---|---|
| `BlockAllocatorNullFree.cfg` | `SpecNullFree` | `SuperblockReserved` | violated in 3 steps: `deallocate_block(0)` is accepted (spec §4.2: must fail `InvalidBlock`) |
| `BlockAllocatorDefrag.cfg` | `SpecDefrag` | `HintInRange` | violated: after defragmenting a full device the hint is N, and the next `allocate_blocks` reads `block_bitmap_[N]` |
| `BlockAllocatorCheckThenMark.cfg` | `SpecCheckThenMark` | `NoDoubleAllocation` | violated: the answer of `is_block_free` is stale by the time `mark_block_used` runs, and `mark_block_used` never rechecks the bit |
| `InodeTableEarlyFree.cfg` | `SpecEarlyFree` | `FreshInodesZeroed` | violated: a write through a stale `Inode*` dirties a freed record, which the next allocation hands out |
| `InodeTableWedge.cfg` | `Spec` | `InodeTableNeverWedged` | violated: the same self-deadlock in `allocate_inode` |
| `InodeTableFreeZero.cfg` | `SpecFreeZero` | `ReservedNeverAllocated` | violated: `deallocate_inode(0)` is accepted and inode 0 is allocated once the hint wraps |
| `RateLimiterGlobalStats.cfg` | `Spec`, global mode | `StatsBalanced` | violated: `total_requests_` is incremented in both `is_allowed` overloads |
| `RateLimiterBurst.cfg` | `Spec` | `BurstRestored` | violated: `refill` caps tokens at rate × interval, below `burst_capacity`; a full bucket is cut down |
| `RetryHandlerTripsCountOpenings.cfg` | `Spec` | `TripsCountOpenings` | violated: two failing threads both pass the `!= OPEN` test, and one opening is counted twice |
| `RetryHandlerOpensOnlyAtThreshold.cfg` | `Spec` | `OpensOnlyAtThreshold` | violated: a reset between the `fetch_add` and the store, and the stale local count opens the circuit with no failures |
| `RetryHandlerCircuitRecovers.cfg` | `Spec` | `CircuitRecovers` | violated: nothing stores `HALF_OPEN` (`should_reset_circuit_breaker` is never called), so an open circuit stays open until a manual reset |
| `TxnManager_CommittedDurable.cfg` | `Spec`, 3 boots | `CommittedDurable` | violated: commit returns true after a failed flush |
| `TxnManager_TxIdsNeverReused.cfg` | `Spec` | `TxIdsNeverReused` | violated: ids restart at 1 while the log is appended to |
| `TxnManager_TerminalTransactionsRemoved.cfg` | `Spec` | `TerminalTransactionsRemoved` | violated: a failed commit leaves an aborted entry that rollback does not erase |
| `TxnManager_EveryTransactionLeavesMap.cfg` | `TimedSpec` | `EveryTransactionLeavesMap` | violated: nothing calls `cleanup_expired_transactions`, so an abandoned or aborted transaction stays in the map forever although it expires (spec §4.7 promises a sweeper) |

**Bounds:**
- 5 blocks with counts up to 3 give the cases that matter:
  - a contiguous run wraps past the end;
  - no run exists and the scattered fallback runs;
  - the scattered fallback fails partway with fewer free blocks than asked
    for;
  - the device becomes full;
  - two threads contend for the last blocks.
- 2 transactions with 2 entries each give a commit that is cut between
  entries, and two transactions with different fates.
- 2 boots give a crash followed by a recovery. The torn-tail finding needs
  3 boots, and its violation run uses them.
- 4 inodes (2 reserved) with 2 threads make the table full, the hint wrap to
  0 and 1, and a freed inode be reallocated while the other thread holds a
  pointer.
- For the rate limiter, burst 2 > rate × window = 1 is the default
  configuration's ratio (200 over 100); 3 ticks give refills after an idle
  period and window expiry; 2 clients and 2 threads give a race on one
  limiter while the owner removes the other. Global mode needs 10 requests
  because each request is counted twice.
- The sliding window's 5 ticks with a window of 2 let requests age out twice,
  and the limit 2 lets two threads fill a window together.
- For the retry handler, max_retries 2 gives a retry of an `UNKNOWN` error
  (first attempt only) and of a transient one up to the limit. Threshold 2
  with two threads lets both threads' failures reach it together, and
  2 calls let a thread call again after the circuit opened.
- Larger bounds add no new control paths. MaxBoots = 3 in the passing run
  takes over 20 minutes.

**Fairness:** the allocator, inode table and rate-limiter runs check safety
only and assume no fairness. The retry handler's `Spec` has weak fairness on
each thread's `Step`: a thread inside a call keeps being scheduled. Nothing
forces a new call or a reset. The transaction manager's passing run checks
safety only. `TimedSpec`, used by one violation cfg, has weak fairness on
`Expire` only: time passes. It deliberately has no fairness on
`CleanupExpiredTransactions`. Spec §4.7 describes a sweeper that reaps
expired transactions, but no caller of `cleanup_expired_transactions`
exists under `src/`. Assuming that sweeper would make
`EveryTransactionLeavesMap` hold by assumption. Without it, TLC finds the
property violated, and that is recorded as a finding.

**Mutants.** For every property of a passing run there is a plausible bug,
written as an operator next to the definition it replaces. TLC finds each
one, listed in `PROJECT.json`. Examples:
- the hint not reduced modulo N;
- the marking loop stopping one block short;
- the constructor not reserving block 0;
- the failing scattered path without rollback;
- the scattered loop running once too often;
- `serialize` not checking `fail()`;
- the write loop running past the end.

## Proofs (`BlockAllocatorProofs.tla`, TLAPS)

For every set of threads, every `TotalBlocks >= 2` and every `MaxCount`:

- `TypeCorrect`: `Spec => []TypeOK`.
- `NoDoubleAllocationHolds`: `Spec => []NoDoubleAllocation`.
- `SuperblockReservedHolds`: `Spec => []SuperblockReserved`.
- `NoLeakedBlocksHolds`: `Spec => []NoLeakedBlocks`.

**Assumptions:**
- `TotalBlocksAssumption`: `TotalBlocks \in Nat /\ TotalBlocks >= 2`.
- `MaxCountAssumption`: `MaxCount \in Nat`.

**The inductive invariant** is
`IInv == TypeOK /\ HintInRange /\ NoDoubleAllocation /\ SuperblockReserved /\ NoLeakedBlocks`.
- The three safety properties alone are not inductive. When the hint can be
  N, the contiguous scan's first read is out of range and may report a used
  block as free.
- `HintInRange` rules that out. The run `block_defrag_full` shows that only
  `defragment_blocks` breaks it.

**Proof structure:**
- The lemma `GrantPreservesIInv` covers handing out a set of free blocks
  with an in-range hint.
- The lemma `ThrowPreservesIInv` covers a failed call.
- `RunIsFree` shows that the blocks of a contiguous run are free. It uses
  the modular arithmetic of the scan positions.
- `ScatterIsFree` shows the same for the scattered fallback.
- There is one lemma per action. `NextIInv` combines them, and each theorem
  ends with `PTL`.

**The action property** `AllocationReturnsFreshBlocksHolds`
(`Spec => AllocationReturnsFreshBlocks`) is proved from the same `IInv`.
`NextFresh` shows that `IInv /\ [Next]_vars` implies the step formula
`FreshStep`. A step that grants blocks grants free ones (`RunIsFree`,
`ScatterIsFree`); what takes work is that the returned vector's length
equals the number of distinct blocks in it:
- `RunCard`: a contiguous run of `n` scan positions starts at
  `next_free_block + k` with `k <= N - n`. So it spans fewer than `2N`
  positions and wraps at most once (`ModWrap`). Positions taken mod `N` are
  then distinct, and `j |-> (x + j) % N` is a bijection from `0 .. n-1`.
- `ScatterCard`: `Rank` gives each free block the number of free blocks
  that `find_next_free_block` meets before it.
  - `Dist` is one-to-one for an in-range hint (`DistInjective`). So `Rank` is
    injective (`RankMonotone`), and it is a bijection onto
    `0 .. |free| - 1` (`RankBijection`, via `FS_Injection`).
  - The scattered fallback takes the blocks of rank `< n`. When at least `n`
    are free, that is exactly `n` blocks.
- The mutant `ScatterTakenOver` (the scattered loop runs once too often)
  breaks the property: it grants `n + 1` blocks in a vector of `n`.

**The refinement** `BlockPoolRefinementHolds` (`Spec => BPool!Spec`) shows
that the allocator implements `ResourcePool`, under the mapping
`held <- owned`, `Resources <- Blocks \ {0}`.
- `BPool` is its `INSTANCE` in `BlockAllocatorProofs`.
- `FreeIsAvailable`: a free block is a resource nobody holds. This uses
  `NoDoubleAllocation` and `SuperblockReserved` from `IInv`.
- So every grant is `BPool!Acquire` (`GrantRefines`).
- `deallocate_block` is `Release` of `{id}`. `deallocate_blocks` is
  `Release` of the caller's blocks among `ids`, or a stutter when there are
  none (`DeallocateRefines`).
- Before the proof, TLC checked the same refinement as a temporal property on
  the `block_allocator` constants: 8,396 states, no violation.
- No run carries it. The run budget goes to the inode table's refinement,
  which has the same abstract spec.

## Proofs (`TxnManagerProofs.tla`, TLAPS)

For every `MaxTxId`, `MaxEntries` and `MaxBoots` (each a positive natural):
- `TxnTypeCorrect`: `Spec => []TypeOK`.
- `CommittedAllButLastDurableHolds`: `Spec => []CommittedAllButLastDurable`.

**The inductive invariant** is `TypeOK /\ CommittedAllButLastDurable` as it
stands; TLC checks both in `txn_manager`.

**The argument:** the log file is opened with `ios::app`, so every step that
touches it either appends to it or leaves it alone.
- `CrashRestart` and the erasure of transactions never shorten it.
- A record that is present stays present (`AppendKeepsPresent`, from
  `ConcatProperties` of `SequenceTheorems`).
- A commit that succeeds has just written entries `1 .. n` of its
  transaction. The flush of the last one can fail unnoticed. So entries
  `1 .. n-1` are in the log (`NewCommitDurable`, `WrittenPresent`).
- `CommitPreserves` splits the four outcomes of `commit_transaction`, by
  `CASE` on its guards. `CommitWriteErrorPreserves` and
  `CommitFlushErrorPreserves` cover the torn and the unflushed record.

**Type lemmas:** `WrittenType`, `TornType`, `ReplayableType` and `MapStepType`
keep the sequences of records in `Seq(Records)`.

## Proofs (`InodeTableProofs.tla`, TLAPS)

For every set of threads and every `MaxInodes >= 2`:
`InodeTypeCorrect`, `InodeNoDoubleAllocationHolds`,
`ReservedNeverAllocatedHolds`, `FreshInodesZeroedHolds` (an action property,
from the invariant that free records are zeroed) and
`InodePoolRefinementHolds` (`Spec => PoolRefinement`). The inductive
invariant adds to the properties that inodes 0 and 1 are never free
(`ReservedUsed`), that a free inode's record is zeroed and nobody holds a
pointer to it (`FreeIsPristine`). `FreeIsPristine` is what makes
`FreshInodesZeroed` provable: a record is zeroed when it is freed, and no
write can reach it until it is allocated again because nobody holds a
pointer to it. The refinement step `NextRefines` shows that every
step is `Pool!Acquire`, `Pool!Release` or leaves `owned` unchanged, using
`FreeIsAvailable` (a free, non-reserved inode is held by nobody).

## Proofs (`RateLimiterProofs.tla`, TLAPS)

For every `Burst`, `Rps`, `Window`, and every set of threads and clients:
`RateLimiterTypeCorrect` (`Spec => []TypeOK`) and `TokenBoundHolds`
(`Spec => []TokenBound`). `TokenBound` says a bucket has handed out at most
`Burst + Rps * (now - born)` tokens. It is not inductive: the inductive
invariant `BucketInv` tracks the bucket's stored tokens,
`consumed + tokens <= Burst + Rps * (last_refill - born)`, which a refill
preserves because it adds at most `Rps * (now - last_refill)` tokens and
moves `last_refill` to `now`, and a consume preserves because it moves one
token from `tokens` to `consumed`. `TokenBound` then follows because
`tokens >= 0` and `last_refill <= now` (lemmas `BucketBound`,
`MulMonotone` for the nonlinear step). There is a lemma per action and per
owner operation; `UpdateConfig` replaces the buckets with fresh ones, whose
invariant holds trivially.

`StatsBalancedHolds` is `PerClient => (Spec => []StatsBalanced)`: with
per-client limits on, whenever no `is_allowed` call is in progress,
`total_requests_ = allowed_requests_ + denied_requests_`.
- The hypothesis is needed. In global mode the property fails, and
  `RateLimiterGlobalStats.cfg` shows the double count.
- `StatsBalanced` is not inductive: a request that ends changes the
  counters while others are still in progress.
- The strengthening `Balance` has two parts:
  - no thread is ever at the `"global"` step;
  - `total = allowed + denied + Cardinality(BusyOf(pc))`, counting the
    threads between `Request` and the end of their request.
- TLC checked `Balance` on the `rate_limiter` instance (1,476,456 states)
  before it was proved.
- `BusyEnter`, `BusyLeave` and `BusyStay` give the change in the count at a
  step of one thread (from `FS_AddElement`, `FS_RemoveElement` and
  `FS_Subset`).
- Each step then keeps the sum: `Request` adds one to `total` and one busy
  thread. Every path that ends a request adds one to `allowed` or to
  `denied` and removes one busy thread.
- `ThreadsAssumption` (`IsFiniteSet(Threads)`) is the one assumption this
  proof adds.

## Proofs (`SlidingWindowLimiterProofs.tla`, TLAPS)

`WindowMaxHolds` is `Spec => []WindowMax`. It holds for every limit,
window, clock bound, and number of threads and clients: no client ever has
more than `max_requests_per_window_` admissions stamped in any `window_size`
consecutive ticks.

- `WindowMax` is not inductive. It says nothing about the vector that the
  next count reads, nor about a call that has counted and not yet pushed.
  The strengthening `IInv` adds three parts:
  - `Kept`: every admission stamped after `now - window_size` is still in
    the client's vector, because cleanup erases only older ones;
  - `Locked`: a call between its lock and its unlock holds `client_mutex_`;
  - `Room`: a call about to push counted fewer than the limit among the
    recent entries of its vector. This stays true while the call holds the
    lock. Only `Tick` can run then, and it only shrinks the recent set
    (`CountMono`).
- TLC checked `IInv` on the `sliding_window` instance (268,768 states)
  before it was proved.
- The key step is `Add`. By `AppendCount`, a push at `now` adds one to the
  count of exactly the windows that contain `now`. By `WindowBeforePush`,
  every entry of such a window is recent, hence still in the vector by
  `Kept`, so the window held fewer than the limit by `Room`.
- The argument shows why the three clock reads of `is_allowed` are
  harmless. The clock only moves forward between the count and the push,
  and that can only shrink the count that was checked.
- Counting with `Cardinality` is what lets the proof use `FS_Subset` and
  `FS_AddElement`. The facts about sums in `FoldsTheorems` take operator
  parameters, which the provers cannot instantiate, and `Folds` is
  recursive.

## Proofs (`RetryHandlerProofs.tla`, TLAPS)

Three theorems hold for every max_retries, threshold, call bound and number
of threads:
- `RetryTypeCorrect`: `Spec => []TypeOK`.
- `NeverExhaustedHolds`: `Spec => []NeverExhausted`.
- `OpensAtThresholdHolds`: `Spec => []OpensAtThreshold`.

**`NeverExhausted`.** It is inductive together with `TypeOK`. `Decide` goes
round again only when `attempt # max_retries`. Since `attempt <=
max_retries`, the new attempt is still `<= max_retries`, so the for condition
never ends the loop and the "Max retries exceeded" throw is dead code.

**`OpensAtThreshold`.** It is not inductive. A failing thread raises the
count in `CountFailure` and stores `OPEN` two steps later. The strengthening
`Pending` says: when the count is at the threshold (and above 0) and the
circuit is not open, some thread `u` is a `Witness`. That means `u` is at
the store, or at the test with a local count at the threshold.
- TLC checked `IInv == TypeOK /\ NeverExhausted /\ Pending` on the
  `retry_handler` instance (660,183 states) before it was proved.
- Each action has one lemma:
  - `CountFailure` makes the stepping thread the witness.
  - `TripCheck` moves a witness to `trip`, or finds the circuit open.
  - `Trip` opens the circuit.
  - The resets zero the count.
  - The other steps leave the count, the state and every witness alone
    (`PendingOther`).

The bugs the violation cfgs find are compatible with these theorems:
- A stale store may open the circuit too often, or count one opening twice.
- The circuit never closes by itself.
The theorems say that the circuit opens when it should, not that it opens
only then.

## What stays model-checked only, and why

- `EveryCallReturns`: liveness under fairness is outside what TLAPS
  checks here. `EveryTransactionLeavesMap` is violated (no sweeper).
- `AllocatorNeverWedged` and `InodeTableNeverWedged` are violated; the
  wedge is a finding. The proofs are about the table when it is not full.
- The violation runs are TLC counterexamples by nature.

## Not modelled, and why

- Byte layouts, meaning `LogEntry`/`DataBlock`/bitmap serialization and the
  inode record format. They are file I/O, and no property here tells bytes
  apart.
- `update_checksum`: planned as a pure function.
- Memory-safety hazards:
  - the use-after-free in the log messages of commit and rollback;
  - the raw pointer returned by `get_transaction`.
  A freed object is not model state; they are listed as hazards.
- Superblock, façade, path resolver and lock table: these have no
  implementation.
- `RateLimiter::get_stats` and `get_client_stats`: they only read. Their data
  race (`client_limiters_.size()` read without the lock) and the `uint32`
  overflow of `refill` after a very long idle time are hazards without a
  property.
- `RetryHandler::update_config`, which writes `config_` without
  synchronisation (a data race), and `RetryManager`'s handler map. The
  model fixes the configuration and uses one handler. Both are hazards.
- As written, `get_free_block_count() const` and `get_free_inode_count()
  const` lock a mutex that is not `mutable`, so `src/` does not compile.
  The self-deadlock findings assume the obvious fix (declare the mutex
  `mutable`), under which the nested lock of a plain `std::mutex` blocks
  forever.
- Data races below the model's granularity: `get_inode` reading the packed
  `vector<bool>` without the lock and the unsynchronized `window_start`.

## Plan

1. The WAL record codec: `update_checksum` as a function over small
   payloads, checked against a reference CRC definition, and the replay rule
   that skips records with a bad checksum.
2. An abstract atomic-commit specification, and `TxnManager` checked against
   it through a refinement mapping (expected to fail where
   `txn_partial_replay` does).
3. A spec-modelled façade composing the allocator, the inode table and the
   WAL for `write_file` and `delete_file`.
