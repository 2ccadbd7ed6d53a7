-------------------------- MODULE TxnManagerProofs --------------------------
(***************************************************************************)
(* Proofs, for every bound on ids, entries and boots, about the            *)
(* transaction manager of src/src/core/transaction_manager.cpp and its     *)
(* log file: every state is well typed, and a commit that returned true    *)
(* has every entry but possibly its last in the log file, whatever write   *)
(* errors, crashes and restarts follow.                                    *)
(*                                                                         *)
(* The argument rests on one fact about the log: no action ever rewrites   *)
(* or truncates it.  Every step leaves log_file as it was or appends to it *)
(* (write_log_entry opens it with ios::app, and the constructor after a    *)
(* restart too), so a record once present stays at its place.  A commit   *)
(* that returns true has just appended its entries 1 .. n, or 1 .. n-1     *)
(* when the last flush failed.                                             *)
(***************************************************************************)
EXTENDS TxnManager, SequenceTheorems, TLAPS

\* Record r is somewhere in the log l.
Present(r, l) == \E p \in 1 .. Len(l) : l[p] = r

\* The record of entry i of commit c, as serialize() wrote it.
EntryOf(c, i) == [boot |-> c.boot, tx |-> c.tx, idx |-> i, of |-> c.n,
                  torn |-> FALSE]

\* Every entry of commit c but possibly the last is in the log l.
AllButLastIn(c, l) == \A i \in 1 .. c.n - 1 : Present(EntryOf(c, i), l)

IInv == TypeOK /\ CommittedAllButLastDurable

-----------------------------------------------------------------------------
LEMMA DurableIsAllButLast ==
    CommittedAllButLastDurable <=> \A c \in committed : AllButLastIn(c, log_file)
BY DEF CommittedAllButLastDurable, AllButLastIn, Present, EntryOf

(* Appending to the log keeps its records where they were.                *)
LEMMA AppendKeepsPresent ==
    ASSUME NEW l \in Seq(Records), NEW s \in Seq(Records), NEW r,
           Present(r, l)
    PROVE  /\ l \o s \in Seq(Records)
           /\ Present(r, l \o s)
<1>1. /\ l \o s \in Seq(Records)
      /\ Len(l \o s) = Len(l) + Len(s)
      /\ \A i \in 1 .. Len(l) + Len(s) :
            (l \o s)[i] = IF i <= Len(l) THEN l[i] ELSE s[i - Len(l)]
    BY ConcatProperties
<1>2. PICK p \in 1 .. Len(l) : l[p] = r
    BY DEF Present
<1>3. Len(l) \in Nat /\ Len(s) \in Nat
    BY LenProperties
<1>4. p \in 1 .. Len(l \o s) /\ (l \o s)[p] = r
    BY <1>1, <1>2, <1>3
<1>5. QED
    BY <1>1, <1>4 DEF Present

(* The records serialize() writes for the first k entries of a            *)
(* transaction are records of the log file.                                *)
LEMMA WrittenType ==
    ASSUME TypeOK, NEW id \in TxIds, NEW k \in 0 .. tx_entries[id]
    PROVE  /\ Written(id, k) \in Seq(Records)
           /\ Len(Written(id, k)) = k
<1>1. tx_entries[id] \in 0 .. MaxEntries /\ boot \in Boots
    BY DEF TypeOK
<1>2. \A i \in 1 .. k : Rec(id, i) \in Records
    BY <1>1, MaxEntriesAssumption DEF Rec, Records
<1>3. k \in Nat
    BY <1>1
<1>4. QED
    BY <1>2, <1>3, IsASeq DEF Written

(* The record cut short by a write error on entry k + 1.                   *)
LEMMA TornType ==
    ASSUME TypeOK, NEW id \in TxIds, NEW k \in 0 .. tx_entries[id] - 1,
           NEW torn \in BOOLEAN
    PROVE  (IF torn THEN <<[Rec(id, k + 1) EXCEPT !.torn = TRUE]>> ELSE <<>>)
              \in Seq(Records)
<1>1. tx_entries[id] \in 0 .. MaxEntries /\ boot \in Boots
    BY DEF TypeOK
<1>2. Rec(id, k + 1) \in Records
    BY <1>1, MaxEntriesAssumption DEF Rec, Records
<1>3. \A r \in Records : [r EXCEPT !.torn = TRUE] \in Records
    BY DEF Records
<1>4. QED
    BY <1>2, <1>3, EmptySeq

(* The records of the first k entries of transaction id are present once  *)
(* they were appended to the log.                                          *)
LEMMA WrittenPresent ==
    ASSUME TypeOK, NEW l \in Seq(Records), NEW id \in TxIds,
           NEW k \in 0 .. tx_entries[id], NEW i \in 1 .. k
    PROVE  Present(Rec(id, i), l \o Written(id, k))
<1>1. Written(id, k) \in Seq(Records) /\ Len(Written(id, k)) = k
    BY WrittenType
<1>2. /\ Len(l \o Written(id, k)) = Len(l) + k
      /\ \A j \in 1 .. Len(l) + k :
            (l \o Written(id, k))[j] =
               IF j <= Len(l) THEN l[j] ELSE Written(id, k)[j - Len(l)]
    BY <1>1, ConcatProperties
<1>3. Len(l) \in Nat
    BY LenProperties
<1>4. /\ Len(l) + i \in 1 .. Len(l \o Written(id, k))
      /\ (l \o Written(id, k))[Len(l) + i] = Written(id, k)[i]
    BY <1>2, <1>3
<1>5. Written(id, k)[i] = Rec(id, i)
    BY DEF Written
<1>6. QED
    BY <1>4, <1>5 DEF Present

(* The records recover() replays are records of the log.                   *)
LEMMA ReplayableType ==
    ASSUME NEW l \in Seq(Records)
    PROVE  Replayable(l) \subseteq Records
BY ElementOfSeq DEF Replayable

(* Appending to the log keeps every commit's entries in it.                *)
LEMMA AppendKeepsDurable ==
    ASSUME NEW l \in Seq(Records), NEW s \in Seq(Records), NEW C,
           \A c \in C : AllButLastIn(c, l)
    PROVE  \A c \in C : AllButLastIn(c, l \o s)
BY AppendKeepsPresent DEF AllButLastIn

(* A commit that appended its entries 1 .. k, with k at least n - 1, and   *)
(* then anything else, has every entry but possibly the last in the log.   *)
LEMMA NewCommitDurable ==
    ASSUME TypeOK, NEW l \in Seq(Records), NEW id \in TxIds,
           NEW k \in 0 .. tx_entries[id], k >= tx_entries[id] - 1,
           NEW s \in Seq(Records)
    PROVE  AllButLastIn([boot |-> boot, tx |-> id, n |-> tx_entries[id]],
                        (l \o Written(id, k)) \o s)
<1> DEFINE c == [boot |-> boot, tx |-> id, n |-> tx_entries[id]]
<1>1. Written(id, k) \in Seq(Records) /\ l \o Written(id, k) \in Seq(Records)
    BY WrittenType, ConcatProperties
<1>2. SUFFICES ASSUME NEW i \in 1 .. c.n - 1
               PROVE  Present(EntryOf(c, i), (l \o Written(id, k)) \o s)
    BY DEF AllButLastIn
<1>3. i \in 1 .. k
    BY DEF TypeOK
<1>4. Present(Rec(id, i), l \o Written(id, k))
    BY <1>3, WrittenPresent
<1>5. EntryOf(c, i) = Rec(id, i)
    BY DEF EntryOf, Rec
<1>6. QED
    BY <1>1, <1>4, <1>5, AppendKeepsPresent

(* A step that leaves the log, the stream, the boot and the commits alone  *)
(* keeps TypeOK when it keeps the types of the map and the result.         *)
LEMMA MapStepType ==
    ASSUME TypeOK,
           next_transaction_id' \in 1 .. MaxTxId + 1,
           tx_state' \in [TxIds -> {"none", "active", "aborted"}],
           tx_entries' \in [TxIds -> 0 .. MaxEntries],
           tx_expired' \in [TxIds -> BOOLEAN],
           result' \in Results,
           UNCHANGED <<log_file, log_failed, boot, committed, replayed>>
    PROVE  TypeOK'
BY DEF TypeOK

-----------------------------------------------------------------------------
(* The constructor on a fresh log file.                                    *)
LEMMA InitIInv == Init => IInv
<1> SUFFICES ASSUME Init PROVE IInv
    OBVIOUS
<1>1. TypeOK
    <2>1. /\ next_transaction_id \in 1 .. MaxTxId + 1
          /\ boot \in Boots
        BY MaxTxIdAssumption, MaxBootsAssumption DEF Init, Boots
    <2>2. /\ tx_state \in [TxIds -> {"none", "active", "aborted"}]
          /\ tx_entries \in [TxIds -> 0 .. MaxEntries]
          /\ tx_expired \in [TxIds -> BOOLEAN]
        BY MaxEntriesAssumption DEF Init
    <2>3. log_file \in Seq(Records)
        BY EmptySeq DEF Init
    <2>4. /\ log_failed \in BOOLEAN
          /\ committed \subseteq [boot : Boots, tx : TxIds, n : 0 .. MaxEntries]
          /\ replayed \subseteq Records
          /\ result \in Results
        BY DEF Init, Results
    <2>5. QED
        BY <2>1, <2>2, <2>3, <2>4 DEF TypeOK
<1>2. CommittedAllButLastDurable
    BY DEF Init, CommittedAllButLastDurable
<1>3. QED
    BY <1>1, <1>2 DEF IInv

(* The calls that touch neither the log nor the commits.                   *)
LEMMA BeginPreserves == IInv /\ BeginTransaction => IInv'
<1> SUFFICES ASSUME IInv, BeginTransaction PROVE IInv'
    OBVIOUS
<1>1. TypeOK'
    <2>1. next_transaction_id \in TxIds
        BY DEF IInv, TypeOK, BeginTransaction, TxIds
    <2>2. next_transaction_id' \in 1 .. MaxTxId + 1
        BY <2>1, MaxTxIdAssumption DEF BeginTransaction, TxIds
    <2>3. tx_state' \in [TxIds -> {"none", "active", "aborted"}]
        BY <2>1 DEF IInv, TypeOK, BeginTransaction
    <2>4. tx_entries' \in [TxIds -> 0 .. MaxEntries]
        BY <2>1, MaxEntriesAssumption DEF IInv, TypeOK, BeginTransaction
    <2>5. tx_expired' \in [TxIds -> BOOLEAN]
        BY <2>1 DEF IInv, TypeOK, BeginTransaction
    <2>6. result' \in Results
        BY DEF BeginTransaction, Results
    <2>7. UNCHANGED <<log_file, log_failed, boot, committed, replayed>>
        BY DEF BeginTransaction
    <2>8. QED
        BY <2>2, <2>3, <2>4, <2>5, <2>6, <2>7, MapStepType DEF IInv
<1>2. CommittedAllButLastDurable'
    BY DEF IInv, CommittedAllButLastDurable, BeginTransaction
<1>3. QED
    BY <1>1, <1>2 DEF IInv

LEMMA AddLogEntryPreserves ==
    ASSUME IInv, NEW id \in TxIds, AddLogEntry(id) PROVE IInv'
<1>1. TypeOK'
    <2>1. tx_entries' \in [TxIds -> 0 .. MaxEntries]
        <3>1. \/ tx_entries' = tx_entries
              \/ /\ tx_entries[id] < MaxEntries
                 /\ tx_entries' = [tx_entries EXCEPT ![id] = @ + 1]
            BY DEF AddLogEntry
        <3>2. tx_entries \in [TxIds -> 0 .. MaxEntries]
            BY DEF IInv, TypeOK
        <3>3. QED
            BY <3>1, <3>2, MaxEntriesAssumption
    <2>2. result' \in Results
        BY DEF AddLogEntry, Results
    <2>3. QED
        BY <2>1, <2>2, MapStepType DEF IInv, TypeOK, AddLogEntry
<1>2. CommittedAllButLastDurable'
    BY DEF IInv, CommittedAllButLastDurable, AddLogEntry
<1>3. QED
    BY <1>1, <1>2 DEF IInv

LEMMA RollbackPreserves ==
    ASSUME IInv, NEW id \in TxIds, RollbackTransaction(id) PROVE IInv'
<1>1. TypeOK'
    <2>1. /\ tx_state' \in [TxIds -> {"none", "active", "aborted"}]
          /\ tx_entries' \in [TxIds -> 0 .. MaxEntries]
          /\ tx_expired' \in [TxIds -> BOOLEAN]
        <3>1. \/ /\ tx_state' = tx_state /\ tx_entries' = tx_entries
                 /\ tx_expired' = tx_expired
              \/ Erase(id)
            BY DEF RollbackTransaction
        <3>2. /\ tx_state \in [TxIds -> {"none", "active", "aborted"}]
              /\ tx_entries \in [TxIds -> 0 .. MaxEntries]
              /\ tx_expired \in [TxIds -> BOOLEAN]
            BY DEF IInv, TypeOK
        <3>3. CASE Erase(id)
            <4>1. tx_state' \in [TxIds -> {"none", "active", "aborted"}]
                BY <3>2, <3>3 DEF Erase
            <4>2. tx_entries' \in [TxIds -> 0 .. MaxEntries]
                BY <3>2, <3>3, MaxEntriesAssumption DEF Erase
            <4>3. tx_expired' \in [TxIds -> BOOLEAN]
                BY <3>2, <3>3 DEF Erase
            <4>4. QED
                BY <4>1, <4>2, <4>3
        <3>4. QED
            BY <3>1, <3>2, <3>3
    <2>2. result' \in Results
        BY DEF RollbackTransaction, Results
    <2>3. QED
        BY <2>1, <2>2, MapStepType DEF IInv, TypeOK, RollbackTransaction
<1>2. CommittedAllButLastDurable'
    BY DEF IInv, CommittedAllButLastDurable, RollbackTransaction
<1>3. QED
    BY <1>1, <1>2 DEF IInv

LEMMA ExpirePreserves ==
    ASSUME IInv, NEW id \in TxIds, Expire(id) PROVE IInv'
<1>1. TypeOK'
    BY MapStepType DEF IInv, TypeOK, Expire
<1>2. CommittedAllButLastDurable'
    BY DEF IInv, CommittedAllButLastDurable, Expire
<1>3. QED
    BY <1>1, <1>2 DEF IInv

LEMMA CleanupPreserves ==
    ASSUME IInv, CleanupExpiredTransactions PROVE IInv'
<1>1. TypeOK'
    BY MaxEntriesAssumption, MapStepType DEF IInv, TypeOK, CleanupExpiredTransactions
<1>2. CommittedAllButLastDurable'
    BY DEF IInv, CommittedAllButLastDurable, CleanupExpiredTransactions
<1>3. QED
    BY <1>1, <1>2 DEF IInv

-----------------------------------------------------------------------------
(* A step that appends s to the log and adds no commit keeps the entries  *)
(* of every commit.                                                        *)
LEMMA AppendStepDurable ==
    ASSUME IInv, NEW s \in Seq(Records), log_file' = log_file \o s,
           committed' = committed
    PROVE  CommittedAllButLastDurable'
<1>1. \A c \in committed : AllButLastIn(c, log_file)
    BY DurableIsAllButLast DEF IInv
<1>2. log_file \in Seq(Records)
    BY DEF IInv, TypeOK
<1>3. \A c \in committed' : AllButLastIn(c, log_file')
    BY <1>1, <1>2, AppendKeepsDurable
<1>4. QED
    BY <1>3 DEF CommittedAllButLastDurable, AllButLastIn, Present, EntryOf

(* commit_transaction(id) returning true after writing entries 1 .. k of   *)
(* its n entries, k >= n - 1, and then s (a torn record or nothing).       *)
LEMMA CommitStepDurable ==
    ASSUME IInv, NEW id \in TxIds, NEW k \in 0 .. tx_entries[id],
           k >= tx_entries[id] - 1, NEW s \in Seq(Records),
           log_file' = (log_file \o Written(id, k)) \o s,
           committed' = committed \cup {[boot |-> boot, tx |-> id,
                                         n |-> tx_entries[id]]}
    PROVE  CommittedAllButLastDurable'
<1> DEFINE W == Written(id, k)
<1>1. \A c \in committed : AllButLastIn(c, log_file)
    BY DurableIsAllButLast DEF IInv
<1>2. /\ log_file \in Seq(Records)
      /\ W \in Seq(Records)
      /\ log_file \o W \in Seq(Records)
    BY WrittenType, ConcatProperties DEF IInv, TypeOK
<1>3. \A c \in committed : AllButLastIn(c, log_file \o W)
    BY <1>1, <1>2, AppendKeepsDurable
<1>4. \A c \in committed : AllButLastIn(c, (log_file \o W) \o s)
    BY <1>2, <1>3, AppendKeepsDurable
<1>5. AllButLastIn([boot |-> boot, tx |-> id, n |-> tx_entries[id]],
                   (log_file \o W) \o s)
    BY <1>2, NewCommitDurable DEF IInv
<1>6. \A c \in committed' : AllButLastIn(c, log_file')
    BY <1>4, <1>5
<1>7. QED
    BY <1>6 DEF CommittedAllButLastDurable, AllButLastIn, Present, EntryOf

(* The map entry erased, as a successful commit, a rollback and the        *)
(* sweeper do, keeps the map's types.                                      *)
LEMMA EraseType ==
    ASSUME TypeOK, NEW id \in TxIds, Erase(id)
    PROVE  /\ tx_state' \in [TxIds -> {"none", "active", "aborted"}]
           /\ tx_entries' \in [TxIds -> 0 .. MaxEntries]
           /\ tx_expired' \in [TxIds -> BOOLEAN]
<1>1. /\ tx_state \in [TxIds -> {"none", "active", "aborted"}]
      /\ tx_entries \in [TxIds -> 0 .. MaxEntries]
      /\ tx_expired \in [TxIds -> BOOLEAN]
    BY DEF TypeOK
<1>2. tx_state' \in [TxIds -> {"none", "active", "aborted"}]
    BY <1>1 DEF Erase
<1>3. tx_entries' \in [TxIds -> 0 .. MaxEntries]
    BY <1>1, MaxEntriesAssumption DEF Erase
<1>4. tx_expired' \in [TxIds -> BOOLEAN]
    BY <1>1 DEF Erase
<1>5. QED
    BY <1>2, <1>3, <1>4

(* The commit that returns true has the new commit record well typed.     *)
LEMMA CommitRecordType ==
    ASSUME TypeOK, NEW id \in TxIds
    PROVE  committed \cup {[boot |-> boot, tx |-> id, n |-> tx_entries[id]]}
              \subseteq [boot : Boots, tx : TxIds, n : 0 .. MaxEntries]
BY DEF TypeOK

(* commit_transaction(id), on each of its paths.                           *)
LEMMA CommitPreserves ==
    ASSUME IInv, NEW id \in TxIds, CommitTransaction(id) PROVE IInv'
<1>0. /\ TypeOK
      /\ tx_state[id] \in {"none", "active", "aborted"}
      /\ tx_entries[id] \in 0 .. MaxEntries
      /\ log_failed \in BOOLEAN
    BY DEF IInv, TypeOK
<1>1. CASE tx_state[id] \in {"none", "aborted"}
    <2>1. /\ result' \in Results
          /\ UNCHANGED <<tx_state, tx_entries, tx_expired, log_file, committed,
                         next_transaction_id, log_failed, boot, replayed>>
        BY <1>1 DEF CommitTransaction, Results
    <2>2. TypeOK'
        BY <1>0, <2>1, MapStepType DEF TypeOK
    <2>3. CommittedAllButLastDurable'
        BY <2>1 DEF IInv, CommittedAllButLastDurable
    <2>4. QED
        BY <2>2, <2>3 DEF IInv
<1>2. CASE tx_state[id] = "active" /\ log_failed /\ tx_entries[id] > 0
    <2>1. /\ tx_state' = [tx_state EXCEPT ![id] = "aborted"]
          /\ result' = "false"
          /\ UNCHANGED <<tx_entries, tx_expired, log_file, committed,
                         next_transaction_id, log_failed, boot, replayed>>
        BY <1>2 DEF CommitTransaction
    <2>2. tx_state' \in [TxIds -> {"none", "active", "aborted"}]
        BY <2>1 DEF IInv, TypeOK
    <2>3. TypeOK'
        BY <1>0, <2>1, <2>2, MapStepType DEF TypeOK, Results
    <2>4. CommittedAllButLastDurable'
        BY <2>1 DEF IInv, CommittedAllButLastDurable
    <2>5. QED
        BY <2>3, <2>4 DEF IInv
<1>3. CASE tx_state[id] = "active" /\ (~log_failed \/ tx_entries[id] = 0)
    <2> DEFINE W == Written(id, tx_entries[id])
    <2>1. /\ log_file' = log_file \o W
          /\ Erase(id)
          /\ committed' = committed \cup {[boot |-> boot, tx |-> id,
                                           n |-> tx_entries[id]]}
          /\ result' = "true"
          /\ UNCHANGED <<next_transaction_id, log_failed, boot, replayed>>
        BY <1>0, <1>3 DEF CommitTransaction
    <2>2. /\ W \in Seq(Records)
          /\ log_file \o W \in Seq(Records)
          /\ log_file' = (log_file \o W) \o <<>>
        BY <1>0, <2>1, WrittenType, ConcatProperties, ConcatEmptySeq DEF TypeOK
    <2>3. CommittedAllButLastDurable'
        <3>1. <<>> \in Seq(Records)
            BY EmptySeq
        <3>2. /\ tx_entries[id] \in 0 .. tx_entries[id]
              /\ tx_entries[id] >= tx_entries[id] - 1
            BY <1>0
        <3>3. QED
            BY <2>1, <2>2, <3>1, <3>2, CommitStepDurable, Zenon
    <2>4. TypeOK'
        <3>1. /\ tx_state' \in [TxIds -> {"none", "active", "aborted"}]
              /\ tx_entries' \in [TxIds -> 0 .. MaxEntries]
              /\ tx_expired' \in [TxIds -> BOOLEAN]
            BY <1>0, <2>1, EraseType
        <3>2. committed' \subseteq [boot : Boots, tx : TxIds, n : 0 .. MaxEntries]
            BY <1>0, <2>1, CommitRecordType
        <3>3. result' \in Results
            BY <2>1 DEF Results
        <3>4. log_file' \in Seq(Records)
            BY <2>1, <2>2
        <3>5. /\ next_transaction_id' \in 1 .. MaxTxId + 1
              /\ log_failed' \in BOOLEAN
              /\ boot' \in Boots
              /\ replayed' \subseteq Records
            BY <1>0, <2>1 DEF TypeOK
        <3>6. QED
            BY <3>1, <3>2, <3>3, <3>4, <3>5 DEF TypeOK
    <2>5. QED
        BY <2>3, <2>4 DEF IInv
<1>4. QED
    BY <1>0, <1>1, <1>2, <1>3

(* A step that appends two pieces to the log and adds no commit.           *)
LEMMA AppendTwoDurable ==
    ASSUME IInv, NEW s1 \in Seq(Records), NEW s2 \in Seq(Records),
           log_file' = (log_file \o s1) \o s2, committed' = committed
    PROVE  CommittedAllButLastDurable'
<1>1. \A c \in committed : AllButLastIn(c, log_file)
    BY DurableIsAllButLast DEF IInv
<1>2. log_file \in Seq(Records) /\ log_file \o s1 \in Seq(Records)
    BY ConcatProperties DEF IInv, TypeOK
<1>3. \A c \in committed : AllButLastIn(c, (log_file \o s1) \o s2)
    BY <1>1, <1>2, AppendKeepsDurable
<1>4. QED
    BY <1>3 DEF CommittedAllButLastDurable, AllButLastIn, Present, EntryOf

(* commit_transaction(id) meeting a write error on entry k + 1.            *)
LEMMA CommitWriteErrorPreserves ==
    ASSUME IInv, NEW id \in TxIds, CommitWriteError(id) PROVE IInv'
<1>0. TypeOK
    BY DEF IInv
<1>1. PICK k \in 0 .. tx_entries[id] - 1, torn \in BOOLEAN :
          log_file' = log_file \o Written(id, k)
                      \o (IF torn THEN <<[Rec(id, k + 1) EXCEPT !.torn = TRUE]>>
                                  ELSE <<>>)
    BY DEF CommitWriteError
<1> DEFINE T == IF torn THEN <<[Rec(id, k + 1) EXCEPT !.torn = TRUE]>> ELSE <<>>
           W == Written(id, k)
<1>2. /\ k \in 0 .. tx_entries[id]
      /\ W \in Seq(Records)
      /\ T \in Seq(Records)
      /\ log_file \o W \in Seq(Records)
      /\ log_file' \in Seq(Records)
    <2>1. k \in 0 .. tx_entries[id]
        BY <1>0 DEF TypeOK
    <2>2. QED
        BY <1>0, <1>1, <2>1, WrittenType, TornType, ConcatProperties DEF TypeOK
<1>3. CommittedAllButLastDurable'
    <2>1. committed' = committed
        BY DEF CommitWriteError
    <2>2. QED
        BY <1>1, <1>2, <2>1, AppendTwoDurable, Zenon
<1>4. TypeOK'
    <2>1. tx_state' \in [TxIds -> {"none", "active", "aborted"}]
        BY <1>0 DEF CommitWriteError, TypeOK
    <2>2. /\ log_failed' = TRUE /\ result' = "false"
          /\ UNCHANGED <<next_transaction_id, tx_entries, tx_expired, boot,
                         committed, replayed>>
        BY DEF CommitWriteError
    <2>3. QED
        BY <1>0, <1>2, <2>1, <2>2 DEF TypeOK, Results
<1>5. QED
    BY <1>3, <1>4 DEF IInv

(* commit_transaction(id) whose last flush fails unnoticed.                *)
LEMMA CommitFlushErrorPreserves ==
    ASSUME IInv, NEW id \in TxIds, CommitFlushError(id) PROVE IInv'
<1>0. /\ TypeOK
      /\ tx_entries[id] \in 1 .. MaxEntries
    BY DEF IInv, TypeOK, CommitFlushError
<1> DEFINE n == tx_entries[id]
<1>1. PICK torn \in BOOLEAN :
          log_file' = log_file \o Written(id, n - 1)
                      \o (IF torn THEN <<[Rec(id, n) EXCEPT !.torn = TRUE]>>
                                  ELSE <<>>)
    BY DEF CommitFlushError
<1> DEFINE k == n - 1
           T == IF torn THEN <<[Rec(id, k + 1) EXCEPT !.torn = TRUE]>> ELSE <<>>
           W == Written(id, k)
<1>2. /\ k \in 0 .. n
      /\ k \in 0 .. n - 1
      /\ k >= n - 1
      /\ k + 1 = n
      /\ log_file' = (log_file \o W) \o T
    <2>1. k \in 0 .. n /\ k \in 0 .. n - 1 /\ k >= n - 1 /\ k + 1 = n
        BY <1>0
    <2>2. T = IF torn THEN <<[Rec(id, n) EXCEPT !.torn = TRUE]>> ELSE <<>>
        BY <2>1
    <2>3. QED
        BY <1>1, <2>1, <2>2
<1>3. /\ W \in Seq(Records)
      /\ T \in Seq(Records)
      /\ log_file \o W \in Seq(Records)
      /\ log_file' \in Seq(Records)
    BY <1>0, <1>2, WrittenType, TornType, ConcatProperties DEF TypeOK
<1>4. committed' = committed \cup {[boot |-> boot, tx |-> id, n |-> n]}
    BY DEF CommitFlushError
<1>5. CommittedAllButLastDurable'
    BY <1>2, <1>3, <1>4, CommitStepDurable, Zenon
<1>6. TypeOK'
    <2>1. /\ tx_state' \in [TxIds -> {"none", "active", "aborted"}]
          /\ tx_entries' \in [TxIds -> 0 .. MaxEntries]
          /\ tx_expired' \in [TxIds -> BOOLEAN]
        BY <1>0, EraseType DEF CommitFlushError
    <2>2. committed' \subseteq [boot : Boots, tx : TxIds, n : 0 .. MaxEntries]
        BY <1>0, <1>4, CommitRecordType
    <2>3. /\ log_failed' = TRUE /\ result' = "true"
          /\ UNCHANGED <<next_transaction_id, boot, replayed>>
        BY DEF CommitFlushError
    <2>4. QED
        BY <1>0, <1>3, <2>1, <2>2, <2>3 DEF TypeOK, Results
<1>7. QED
    BY <1>5, <1>6 DEF IInv

(* A crash, possibly inside a commit after k entries, and the restart:     *)
(* the constructor and recover().                                          *)
LEMMA CrashRestartPreserves ==
    ASSUME IInv, CrashRestart PROVE IInv'
<1>0. TypeOK
    BY DEF IInv
<1>1. /\ log_file' \in Seq(Records)
      /\ CommittedAllButLastDurable'
    <2>1. CASE log_file' = log_file
        BY <2>1 DEF CrashRestart, IInv, TypeOK, CommittedAllButLastDurable
    <2>2. CASE log_file' # log_file
        <3>1. PICK id \in TxIds, k \in 1 .. MaxEntries :
                 /\ k <= tx_entries[id]
                 /\ log_file' = log_file \o Written(id, k)
            BY <2>2 DEF CrashRestart
        <3>2. k \in 0 .. tx_entries[id]
            BY <1>0, <3>1 DEF TypeOK
        <3>3. Written(id, k) \in Seq(Records) /\ log_file' \in Seq(Records)
            BY <1>0, <3>1, <3>2, WrittenType, ConcatProperties DEF TypeOK
        <3>4. committed' = committed
            BY DEF CrashRestart
        <3>5. CommittedAllButLastDurable'
            BY <3>1, <3>3, <3>4, AppendStepDurable, Zenon
        <3>6. QED
            BY <3>3, <3>5
    <2>3. QED
        BY <2>1, <2>2
<1>2. TypeOK'
    <2>1. /\ boot' = boot + 1 /\ boot < MaxBoots
          /\ replayed' = Replayable(log_file')
          /\ next_transaction_id' = 1
          /\ tx_state' = [id \in TxIds |-> "none"]
          /\ tx_entries' = [id \in TxIds |-> 0]
          /\ tx_expired' = [id \in TxIds |-> FALSE]
          /\ log_failed' = FALSE /\ result' = "none"
          /\ committed' = committed
        BY DEF CrashRestart
    <2>2. boot' \in Boots
        BY <1>0, <2>1, MaxBootsAssumption DEF TypeOK, Boots
    <2>3. replayed' \subseteq Records
        BY <1>1, <2>1, ReplayableType
    <2>4. /\ next_transaction_id' \in 1 .. MaxTxId + 1
          /\ tx_state' \in [TxIds -> {"none", "active", "aborted"}]
          /\ tx_entries' \in [TxIds -> 0 .. MaxEntries]
          /\ tx_expired' \in [TxIds -> BOOLEAN]
          /\ result' \in Results
        BY <2>1, MaxTxIdAssumption, MaxEntriesAssumption DEF Results
    <2>5. QED
        BY <1>0, <1>1, <2>1, <2>2, <2>3, <2>4 DEF TypeOK
<1>3. QED
    BY <1>1, <1>2 DEF IInv

-----------------------------------------------------------------------------
LEMMA NextIInv == IInv /\ [Next]_vars => IInv'
<1> SUFFICES ASSUME IInv, [Next]_vars PROVE IInv'
    OBVIOUS
<1>1. CASE BeginTransaction
    BY <1>1, BeginPreserves
<1>2. ASSUME NEW id \in TxIds,
             \/ AddLogEntry(id)
             \/ CommitTransaction(id)
             \/ CommitWriteError(id)
             \/ CommitFlushError(id)
             \/ RollbackTransaction(id)
             \/ Expire(id)
      PROVE  IInv'
    BY <1>2, AddLogEntryPreserves, CommitPreserves, CommitWriteErrorPreserves,
       CommitFlushErrorPreserves, RollbackPreserves, ExpirePreserves
<1>3. CASE CleanupExpiredTransactions
    BY <1>3, CleanupPreserves
<1>4. CASE CrashRestart
    BY <1>4, CrashRestartPreserves
<1>5. CASE UNCHANGED vars
    BY <1>5 DEF vars, IInv, TypeOK, CommittedAllButLastDurable
<1>6. QED
    BY <1>1, <1>2, <1>3, <1>4, <1>5 DEF Next

(* Every state the transaction manager and its log file reach is well     *)
(* typed: ids stay within 1 .. MaxTxId + 1, entry counts within the bound, *)
(* and the log holds well-formed records, through commits, write errors,   *)
(* crashes and restarts.                                                   *)
THEOREM TxnTypeCorrect == Spec => []TypeOK
<1>1. Init => IInv
    BY InitIInv
<1>2. IInv /\ [Next]_vars => IInv'
    BY NextIInv
<1>3. IInv => TypeOK
    BY DEF IInv
<1>4. QED
    BY <1>1, <1>2, <1>3, PTL DEF Spec

(* commit_transaction returning true means every entry of the transaction *)
(* but possibly the last is in the log file, and stays there through any  *)
(* later write errors, crashes and restarts: the log is only appended to, *)
(* and only the last flush of a commit goes unchecked.                     *)
THEOREM CommittedAllButLastDurableHolds == Spec => []CommittedAllButLastDurable
<1>1. Init => IInv
    BY InitIInv
<1>2. IInv /\ [Next]_vars => IInv'
    BY NextIInv
<1>3. IInv => CommittedAllButLastDurable
    BY DEF IInv
<1>4. QED
    BY <1>1, <1>2, <1>3, PTL DEF Spec

=============================================================================
