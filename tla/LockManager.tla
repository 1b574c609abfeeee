------------------------------ MODULE LockManager ------------------------------
(****************************************************************************)
(* The lock table of system/lock_manager.{h,cc}: one exclusive lock per     *)
(* tuple, named by the table and the RID of the tuple's first version.      *)
(*                                                                          *)
(* Every operation below is one critical section of lock_table_mutex, so it *)
(* is one step.  The module only says how lock_table changes; who calls it, *)
(* and when, is the business of the modules that extend it.                 *)
(****************************************************************************)
EXTENDS Naturals

CONSTANTS
    TupleKey,   \* the lockable tuples: TupleKey{table_id, first_rid}
    MaxTxId     \* bound: the largest transaction id a behaviour hands out

ASSUME MaxTxIdAssumption == MaxTxId \in Nat

\* Catalog::transaction_count starts at 1; 0 is never a transaction, and is the
\* default of LockInfo::holder_tx_id.
TxID == 1..MaxTxId
NoTx == 0

VARIABLE lock_table     \* key |-> holder_tx_id, NoTx where the map has no entry

LockTableType == lock_table \in [TupleKey -> TxID \cup {NoTx}]

LockTableInit == lock_table = [k \in TupleKey |-> NoTx]

LocksOf(t) == {k \in TupleKey : lock_table[k] = t}

\* Mutant: the holder is not compared.
CanLock_AnyHolder(t, k) == TRUE

\* One pass of the loop of try_acquire_lock finds the key free, or held by the
\* caller itself.
CanLock(t, k) == lock_table[k] \in {NoTx, t}

LockGranted(t, k) == lock_table' = [lock_table EXCEPT ![k] = t]

\* Mutant: the holder is not compared.
ReleaseAllLocks_AnyHolder(t, write_set) ==
    lock_table' = [k \in TupleKey |->
                      IF k \in write_set THEN NoTx ELSE lock_table[k]]

\* Mutant: nothing is released.
ReleaseAllLocks_None(t, write_set) == UNCHANGED lock_table

\* release_all_locks erases the entries of the transaction's write set that the
\* transaction really holds: the key of a row it inserted is in the set without
\* a lock, and may by now be locked by another transaction.
ReleaseAllLocks(t, write_set) ==
    lock_table' = [k \in TupleKey |->
                      IF k \in write_set /\ lock_table[k] = t
                      THEN NoTx ELSE lock_table[k]]
================================================================================
