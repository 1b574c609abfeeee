--------------------------- MODULE TransactionManager --------------------------
(****************************************************************************)
(* system/transaction_manager.{h,cc} and relational_model/transaction.h.    *)
(*                                                                          *)
(* active_transactions is the key set of the map; the other variables are   *)
(* the fields of the Transaction objects, defined for every id and          *)
(* meaningful for the ids in the map.  Each operator is one step of a       *)
(* worker thread: a critical section of active_transaction_mutex or one     *)
(* assignment to the atomic Transaction::state.  commit_transaction and     *)
(* abort_transaction are NOT atomic: their steps are separate operators,    *)
(* which the extending modules put in the order of the code.                *)
(*                                                                          *)
(* update_cardinality_delta has no caller in the program, so                *)
(* cardinality_deltas is always empty and is left out.                      *)
(****************************************************************************)
EXTENDS LockManager

VARIABLES
    transaction_count,    \* Catalog::transaction_count: the next id
    active_transactions,  \* the ids that have a Transaction object
    tx_state,             \* Transaction::state
    isolation_level,      \* Transaction::isolation_level
    snapshot,             \* Transaction::snapshot
    first_rids            \* Transaction::first_rids, the write set

tmVars == <<transaction_count, active_transactions, tx_state, isolation_level,
            snapshot, first_rids>>

TransactionState == {"ACTIVE", "COMMITTED"}
IsolationLevel == {"READ_COMMITTED", "SNAPSHOT_ISOLATION"}

TransactionsType ==
    /\ transaction_count \in 1..(MaxTxId + 1)
    /\ active_transactions \in SUBSET TxID
    /\ tx_state \in [TxID -> TransactionState]
    /\ isolation_level \in [TxID -> IsolationLevel]
    /\ snapshot \in [TxID -> SUBSET TxID]
    /\ first_rids \in [TxID -> SUBSET TupleKey]

TransactionsInit ==
    /\ transaction_count = 1
    /\ active_transactions = {}
    /\ tx_state = [t \in TxID |-> "COMMITTED"]
    /\ isolation_level = [t \in TxID |-> "READ_COMMITTED"]
    /\ snapshot = [t \in TxID |-> {}]
    /\ first_rids = [t \in TxID |-> {}]

--------------------------------------------------------------------------------

\* get_states, for one id: a transaction without an object counts as committed.
StateOf(t) == IF t \in active_transactions THEN tx_state[t] ELSE "COMMITTED"

IsActive(t) == StateOf(t) = "ACTIVE"

\* The phase of a transaction in the abstract specifications.
Phase(t) ==
    IF t >= transaction_count THEN "new"
    ELSE IF IsActive(t) THEN "running" ELSE "finished"

\* The ids a snapshot taken now contains.
ActiveNow == {t \in active_transactions : tx_state[t] # "COMMITTED"}

\* Mutant: the counter is not advanced.
StartTransaction_SameId(level) ==
    /\ transaction_count \in TxID
    /\ active_transactions' = active_transactions \cup {transaction_count}
    /\ tx_state' = [tx_state EXCEPT ![transaction_count] = "ACTIVE"]
    /\ isolation_level' = [isolation_level EXCEPT ![transaction_count] = level]
    /\ UNCHANGED <<transaction_count, snapshot, first_rids>>

\* Mutant: the test on the state of the other transactions is inverted.
StartTransaction_SnapshotOfCommitted(level) ==
    /\ transaction_count \in TxID
    /\ transaction_count' = transaction_count + 1
    /\ active_transactions' = active_transactions \cup {transaction_count}
    /\ tx_state' = [tx_state EXCEPT ![transaction_count] = "ACTIVE"]
    /\ isolation_level' = [isolation_level EXCEPT ![transaction_count] = level]
    /\ snapshot' = [snapshot EXCEPT ![transaction_count] =
                       {t \in active_transactions : tx_state[t] = "COMMITTED"}]
    /\ UNCHANGED first_rids

\* start_transaction: one critical section, so the id, the snapshot and the new
\* entry of the map change together.  The new id is transaction_count.
StartTransaction(level) ==
    /\ transaction_count \in TxID
    /\ transaction_count' = transaction_count + 1
    /\ active_transactions' = active_transactions \cup {transaction_count}
    /\ tx_state' = [tx_state EXCEPT ![transaction_count] = "ACTIVE"]
    /\ isolation_level' = [isolation_level EXCEPT ![transaction_count] = level]
    /\ snapshot' = [snapshot EXCEPT ![transaction_count] =
                       IF level = "SNAPSHOT_ISOLATION" THEN ActiveNow ELSE {}]
    /\ UNCHANGED first_rids

\* add_to_write_set.  The code throws if the transaction is not in the map.
AddToWriteSet(t, k) ==
    /\ t \in active_transactions
    /\ first_rids' = [first_rids EXCEPT ![t] = @ \cup {k}]
    /\ UNCHANGED <<transaction_count, active_transactions, tx_state,
                   isolation_level, snapshot>>

\* Mutant: the key is not put in the write set.
AcquireLock_NoWriteSet(t, k) ==
    /\ CanLock(t, k)
    /\ LockGranted(t, k)
    /\ UNCHANGED tmVars

\* The pass of the loop of try_acquire_lock that succeeds: a free key is locked
\* and put in the write set inside the same critical section.
\* For a transaction that has left the map (only one that a session with an
\* uninitialized tx_id has aborted) the code locks the key and then throws; that
\* pass is not modelled.
AcquireLock(t, k) ==
    /\ CanLock(t, k)
    /\ IF lock_table[k] = NoTx
       THEN LockGranted(t, k) /\ AddToWriteSet(t, k)
       ELSE UNCHANGED <<lock_table, tmVars>>

\* Mutant: a third state, which no reader of the state knows.
SetCommitted_ThirdState(t) ==
    /\ tx_state' = [tx_state EXCEPT ![t] = "ABORTED"]
    /\ UNCHANGED <<transaction_count, active_transactions, isolation_level,
                   snapshot, first_rids>>

\* transaction->state = COMMITTED, of a commit and of an abort alike.
SetCommitted(t) ==
    /\ tx_state' = [tx_state EXCEPT ![t] = "COMMITTED"]
    /\ UNCHANGED <<transaction_count, active_transactions, isolation_level,
                   snapshot, first_rids>>

\* active_transactions.erase(tx_id): the Transaction object dies with its entry.
EraseTransaction(t) ==
    /\ active_transactions' = active_transactions \ {t}
    /\ snapshot' = [snapshot EXCEPT ![t] = {}]
    /\ first_rids' = [first_rids EXCEPT ![t] = {}]
    /\ UNCHANGED <<transaction_count, tx_state, isolation_level>>
================================================================================
