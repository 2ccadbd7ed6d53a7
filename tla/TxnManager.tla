----------------------------- MODULE TxnManager -----------------------------
(***************************************************************************)
(* The transaction manager: class TransactionManager of                    *)
(* src/src/core/transaction_manager.cpp, with its write-ahead log file.    *)
(*                                                                         *)
(* Every public method holds transaction_mutex_ for its whole body, so     *)
(* each is one atomic action.  What interleaves with them is the           *)
(* environment: time passing (a transaction expires), a write error on the *)
(* log file while commit writes it, and a crash of the process (possibly   *)
(* in the middle of a commit) followed by a restart, which runs the        *)
(* constructor and recover().                                              *)
(*                                                                         *)
(* A log entry's payload is abstracted to which transaction and which of   *)
(* its entries it is; boot (the process incarnation that wrote it) and of  *)
(* (how many entries its transaction has) are bookkeeping for the          *)
(* properties, never read by the modelled code.                            *)
(***************************************************************************)
EXTENDS Integers, Sequences, FiniteSets

CONSTANTS
    MaxTxId,      \* bound on the ids next_transaction_id_ hands out
    MaxEntries,   \* bound on the log entries added to one transaction
    MaxBoots      \* bound on the process incarnations (crash/restart)

ASSUME MaxTxIdAssumption == MaxTxId \in Nat \ {0}
ASSUME MaxEntriesAssumption == MaxEntries \in Nat \ {0}
ASSUME MaxBootsAssumption == MaxBoots \in Nat \ {0}

VARIABLES
    next_transaction_id,  \* next_transaction_id_
    tx_state,             \* "none": not in active_transactions_; "active";
                          \* "aborted": in the map with is_aborted set
    tx_entries,           \* number of log_entries of each transaction
    tx_expired,           \* is_expired(transaction_timeout_) holds
    log_file,             \* the bytes of the log file, as log records
    log_failed,           \* the failbit of the log_file_ stream
    boot,                 \* the current process incarnation
    committed,            \* the commits that returned true
    replayed,             \* the records the last recover() replayed
    result                \* what the last call returned or threw

vars == <<next_transaction_id, tx_state, tx_entries, tx_expired, log_file,
          log_failed, boot, committed, replayed, result>>

TxIds == 1 .. MaxTxId

Boots == 1 .. MaxBoots

\* A record of the log file; torn marks one cut short by a write error.
Records == [boot : Boots, tx : TxIds, idx : 1 .. MaxEntries,
            of : 1 .. MaxEntries, torn : BOOLEAN]

Results == {"none", "ok", "true", "false", "NotFound", "Aborted"}

\* Entry i of transaction id as serialize() writes it.
Rec(id, i) == [boot |-> boot, tx |-> id, idx |-> i,
               of |-> tx_entries[id], torn |-> FALSE]

\* The first k entries of transaction id, in order.
Written(id, k) == [i \in 1 .. k |-> Rec(id, i)]

\* replay_log_entries(): records are read one after the other; a torn
\* record makes deserialize() throw, and reading stops there.
Replayable(l) ==
    {l[i] : i \in {i \in 1 .. Len(l) : \A j \in 1 .. i : ~l[j].torn}}

\* The map entry of id erased.
Erase(id) ==
    /\ tx_state' = [tx_state EXCEPT ![id] = "none"]
    /\ tx_entries' = [tx_entries EXCEPT ![id] = 0]
    /\ tx_expired' = [tx_expired EXCEPT ![id] = FALSE]

-----------------------------------------------------------------------------
(* Constructor on a fresh log file.                                        *)
Init ==
    /\ next_transaction_id = 1
    /\ tx_state = [id \in TxIds |-> "none"]
    /\ tx_entries = [id \in TxIds |-> 0]
    /\ tx_expired = [id \in TxIds |-> FALSE]
    /\ log_file = <<>>
    /\ log_failed = FALSE
    /\ boot = 1
    /\ committed = {}
    /\ replayed = {}
    /\ result = "none"

(* begin_transaction(): a new entry under generate_transaction_id().       *)
BeginTransaction ==
    LET id == next_transaction_id IN
    /\ id <= MaxTxId
    /\ next_transaction_id' = id + 1
    /\ tx_state' = [tx_state EXCEPT ![id] = "active"]
    /\ tx_entries' = [tx_entries EXCEPT ![id] = 0]
    /\ tx_expired' = [tx_expired EXCEPT ![id] = FALSE]
    /\ result' = "ok"
    /\ UNCHANGED <<log_file, log_failed, boot, committed, replayed>>

(* add_log_entry(id, entry): TransactionNotFound, TransactionAborted when  *)
(* not active, else the entry is appended to the in-memory list.           *)
AddLogEntry(id) ==
    /\ \/ /\ tx_state[id] = "none"
          /\ result' = "NotFound"
          /\ UNCHANGED tx_entries
       \/ /\ tx_state[id] = "aborted"
          /\ result' = "Aborted"
          /\ UNCHANGED tx_entries
       \/ /\ tx_state[id] = "active"
          /\ tx_entries[id] < MaxEntries
          /\ tx_entries' = [tx_entries EXCEPT ![id] = @ + 1]
          /\ result' = "ok"
    /\ UNCHANGED <<next_transaction_id, tx_state, tx_expired, log_file,
                   log_failed, boot, committed, replayed>>

(* commit_transaction(id): not found throws; aborted returns false; else   *)
(* every entry goes through write_log_entry (serialize, then flush) and    *)
(* the entry is erased.  No COMMIT record is written.  On a stream whose   *)
(* failbit is set the first write throws: the transaction is marked        *)
(* aborted, stays in the map, and false is returned.                       *)
CommitTransaction(id) ==
    \/ /\ tx_state[id] = "none"
       /\ result' = "NotFound"
       /\ UNCHANGED <<tx_state, tx_entries, tx_expired, log_file, committed>>
    \/ /\ tx_state[id] = "aborted"
       /\ result' = "false"
       /\ UNCHANGED <<tx_state, tx_entries, tx_expired, log_file, committed>>
    \/ /\ tx_state[id] = "active"
       /\ ~log_failed \/ tx_entries[id] = 0
       /\ log_file' = log_file \o Written(id, tx_entries[id])
       /\ Erase(id)
       /\ committed' = committed \cup {[boot |-> boot, tx |-> id,
                                        n |-> tx_entries[id]]}
       /\ result' = "true"
    \/ /\ tx_state[id] = "active"
       /\ log_failed /\ tx_entries[id] > 0
       /\ tx_state' = [tx_state EXCEPT ![id] = "aborted"]
       /\ result' = "false"
       /\ UNCHANGED <<tx_entries, tx_expired, log_file, committed>>
    /\ UNCHANGED <<next_transaction_id, log_failed, boot, replayed>>

\* Mutant: the write loop runs one entry past the end of log_entries.
CommitWriteErrorPastEnd(id) ==
    /\ tx_state[id] = "active"
    /\ ~log_failed
    /\ tx_entries[id] > 0
    /\ \E k \in 0 .. tx_entries[id], torn \in BOOLEAN :
          log_file' = log_file \o Written(id, k)
                      \o (IF torn THEN <<[Rec(id, k + 1) EXCEPT !.torn = TRUE]>>
                                  ELSE <<>>)
    /\ log_failed' = TRUE
    /\ tx_state' = [tx_state EXCEPT ![id] = "aborted"]
    /\ result' = "false"
    /\ UNCHANGED <<next_transaction_id, tx_entries, tx_expired, boot,
                   committed, replayed>>

\* Mutant: serialize() does not check file.fail(), so a write error goes
\* unnoticed and the commit returns true.
CommitWriteErrorUnchecked(id) ==
    /\ tx_state[id] = "active"
    /\ ~log_failed
    /\ tx_entries[id] > 0
    /\ \E k \in 0 .. tx_entries[id] - 1, torn \in BOOLEAN :
          log_file' = log_file \o Written(id, k)
                      \o (IF torn THEN <<[Rec(id, k + 1) EXCEPT !.torn = TRUE]>>
                                  ELSE <<>>)
    /\ log_failed' = TRUE
    /\ Erase(id)
    /\ committed' = committed \cup {[boot |-> boot, tx |-> id,
                                     n |-> tx_entries[id]]}
    /\ result' = "true"
    /\ UNCHANGED <<next_transaction_id, boot, replayed>>

(* commit_transaction(id) meeting a write error on entry k+1 (disk full):  *)
(* entries 1..k are in the file, entry k+1 possibly in part, the stream's  *)
(* failbit stays set, and the transaction is marked aborted.               *)
CommitWriteError(id) ==
    /\ tx_state[id] = "active"
    /\ ~log_failed
    /\ tx_entries[id] > 0
    /\ \E k \in 0 .. tx_entries[id] - 1, torn \in BOOLEAN :
          log_file' = log_file \o Written(id, k)
                      \o (IF torn THEN <<[Rec(id, k + 1) EXCEPT !.torn = TRUE]>>
                                  ELSE <<>>)
    /\ log_failed' = TRUE
    /\ tx_state' = [tx_state EXCEPT ![id] = "aborted"]
    /\ result' = "false"
    /\ UNCHANGED <<next_transaction_id, tx_entries, tx_expired, boot,
                   committed, replayed>>

(* commit_transaction(id) whose last write_log_entry call has serialize() *)
(* succeed but flush() fail (disk full when the buffer drains): flush's   *)
(* failure is not checked, so commit erases the entry and returns true,   *)
(* while the last entry is missing from the file or cut short.  Every     *)
(* earlier entry was flushed: a failed flush sets the stream's badbit and *)
(* the next serialize() would have thrown.                                 *)
CommitFlushError(id) ==
    /\ tx_state[id] = "active"
    /\ ~log_failed
    /\ tx_entries[id] > 0
    /\ \E torn \in BOOLEAN :
          LET n == tx_entries[id] IN
          log_file' = log_file \o Written(id, n - 1)
                      \o (IF torn THEN <<[Rec(id, n) EXCEPT !.torn = TRUE]>>
                                  ELSE <<>>)
    /\ log_failed' = TRUE
    /\ Erase(id)
    /\ committed' = committed \cup {[boot |-> boot, tx |-> id,
                                     n |-> tx_entries[id]]}
    /\ result' = "true"
    /\ UNCHANGED <<next_transaction_id, boot, replayed>>

(* rollback_transaction(id): not found throws; already aborted returns     *)
(* true and leaves the entry in the map; else the entry is erased.         *)
RollbackTransaction(id) ==
    /\ \/ /\ tx_state[id] = "none"
          /\ result' = "NotFound"
          /\ UNCHANGED <<tx_state, tx_entries, tx_expired>>
       \/ /\ tx_state[id] = "aborted"
          /\ result' = "true"
          /\ UNCHANGED <<tx_state, tx_entries, tx_expired>>
       \/ /\ tx_state[id] = "active"
          /\ Erase(id)
          /\ result' = "true"
    /\ UNCHANGED <<next_transaction_id, log_file, log_failed, boot,
                   committed, replayed>>

(* Time passes: the transaction becomes older than transaction_timeout_.   *)
Expire(id) ==
    /\ tx_state[id] # "none"
    /\ ~tx_expired[id]
    /\ tx_expired' = [tx_expired EXCEPT ![id] = TRUE]
    /\ UNCHANGED <<next_transaction_id, tx_state, tx_entries, log_file,
                   log_failed, boot, committed, replayed, result>>

(* cleanup_expired_transactions(): every expired entry is erased.          *)
CleanupExpiredTransactions ==
    LET gone == {id \in TxIds : tx_state[id] # "none" /\ tx_expired[id]} IN
    /\ tx_state' = [id \in TxIds |-> IF id \in gone THEN "none" ELSE tx_state[id]]
    /\ tx_entries' = [id \in TxIds |-> IF id \in gone THEN 0 ELSE tx_entries[id]]
    /\ tx_expired' = [id \in TxIds |-> tx_expired[id] /\ id \notin gone]
    /\ UNCHANGED <<next_transaction_id, log_file, log_failed, boot,
                   committed, replayed, result>>

(* The process dies, between two calls or inside commit_transaction after  *)
(* k of the entries were written, and starts again: the constructor opens  *)
(* the log file for appending with a new map and next id 1, and recover() *)
(* replays the file.                                                       *)
CrashRestart ==
    /\ boot < MaxBoots
    /\ \/ log_file' = log_file
       \/ \E id \in TxIds, k \in 1 .. MaxEntries :
             /\ tx_state[id] = "active"
             /\ ~log_failed
             /\ k <= tx_entries[id]
             /\ log_file' = log_file \o Written(id, k)
    /\ replayed' = Replayable(log_file')
    /\ boot' = boot + 1
    /\ next_transaction_id' = 1
    /\ tx_state' = [id \in TxIds |-> "none"]
    /\ tx_entries' = [id \in TxIds |-> 0]
    /\ tx_expired' = [id \in TxIds |-> FALSE]
    /\ log_failed' = FALSE
    /\ result' = "none"
    /\ UNCHANGED committed

Next ==
    \/ BeginTransaction
    \/ \E id \in TxIds :
          \/ AddLogEntry(id)
          \/ CommitTransaction(id)
          \/ CommitWriteError(id)
          \/ CommitFlushError(id)
          \/ RollbackTransaction(id)
          \/ Expire(id)
    \/ CleanupExpiredTransactions
    \/ CrashRestart

Spec == Init /\ [][Next]_vars

(* Time keeps passing, so every transaction eventually times out.  No     *)
(* fairness is put on cleanup_expired_transactions(): nothing under src/   *)
(* calls it, and no client has to commit or roll back.                     *)
TimedSpec ==
    /\ Spec
    /\ \A id \in TxIds : WF_vars(Expire(id))

-----------------------------------------------------------------------------
TypeOK ==
    /\ next_transaction_id \in 1 .. MaxTxId + 1
    /\ tx_state \in [TxIds -> {"none", "active", "aborted"}]
    /\ tx_entries \in [TxIds -> 0 .. MaxEntries]
    /\ tx_expired \in [TxIds -> BOOLEAN]
    /\ log_file \in Seq(Records)
    /\ log_failed \in BOOLEAN
    /\ boot \in Boots
    /\ committed \subseteq [boot : Boots, tx : TxIds, n : 0 .. MaxEntries]
    /\ replayed \subseteq Records
    /\ result \in Results

(* Spec 4.7: a commit that returned true has every entry of its           *)
(* transaction durably in the log file.                                    *)
CommittedDurable ==
    \A c \in committed : \A i \in 1 .. c.n :
        \E p \in 1 .. Len(log_file) :
            log_file[p] = [boot |-> c.boot, tx |-> c.tx, idx |-> i,
                           of |-> c.n, torn |-> FALSE]

(* Of a commit that returned true, every entry but possibly the last is   *)
(* in the log file, whatever write errors, crashes and restarts follow:   *)
(* each entry is flushed before the next is written, and a failed flush   *)
(* makes the next write throw.                                             *)
CommittedAllButLastDurable ==
    \A c \in committed : \A i \in 1 .. c.n - 1 :
        \E p \in 1 .. Len(log_file) :
            log_file[p] = [boot |-> c.boot, tx |-> c.tx, idx |-> i,
                           of |-> c.n, torn |-> FALSE]

(* Spec 4.7: every transaction leaves active_transactions_, by commit, by  *)
(* rollback, or, once it has expired, by the periodic sweeper that calls   *)
(* cleanup_expired_transactions().                                          *)
EveryTransactionLeavesMap ==
    \A id \in TxIds : tx_state[id] # "none" ~> tx_state[id] = "none"

(* Spec 4.7: recovery applies a transaction's records only if it committed *)
(* (a COMMIT record is present), so it replays all of them or none.        *)
RecoveryAllOrNothing ==
    \A r \in replayed : \A i \in 1 .. r.of : [r EXCEPT !.idx = i] \in replayed

(* Spec 4.7: transaction ids are never reused, so two records of the log   *)
(* with the same id belong to the same transaction.                        *)
TxIdsNeverReused ==
    \A p, q \in 1 .. Len(log_file) :
        log_file[p].tx = log_file[q].tx => log_file[p].boot = log_file[q].boot

(* Spec 4.7: recovery replays every record of a committed transaction    *)
(* that is intact in the log file; only a corrupt tail is discarded, and   *)
(* the log is truncated there, so what is written after it is read again.  *)
CommittedRecovered ==
    \A c \in committed : c.boot < boot =>
        \A i \in 1 .. c.n :
            LET r == [boot |-> c.boot, tx |-> c.tx, idx |-> i, of |-> c.n,
                      torn |-> FALSE]
            IN  (\E p \in 1 .. Len(log_file) : log_file[p] = r) => r \in replayed

(* Spec 4.7: a transaction that reaches a terminal state is removed from   *)
(* the active map.                                                         *)
TerminalTransactionsRemoved ==
    \A id \in TxIds : tx_state[id] # "aborted"

=============================================================================
