----------------------------- MODULE SessionProofs -----------------------------
(****************************************************************************)
(* Proofs about Session, for any number of sessions, tuples, tables and     *)
(* transactions, most of them under the one assumption that an              *)
(* uninitialized Session::tx_id is not the id of a transaction              *)
(* (NoGarbageId).                                                           *)
(****************************************************************************)
EXTENDS Session, TLAPS

NoGarbageId == UninitTxIds \cap TxID = {}

--------------------------------------------------------------------------------
(****************************************************************************)
(* The inductive invariant.                                                 *)
(****************************************************************************)

\* The session has a transaction: it is between BEGIN and the end of COMMIT or
\* ABORT, or runs an autocommit query.
InTx(s) ==
    /\ pc[s] # "closed"
    /\ session_state[s] = 1 \/ pc[s] \in InStatement \cup InCommitOrAbort

IdsAreFresh ==
    /\ \A t \in active_transactions : t < transaction_count
    /\ \A s \in Sessions : tx_id[s] \in TxID => tx_id[s] < transaction_count

\* An open session has a transaction exactly when its tx_id is in the map.
SessionHasObject ==
    \A s \in Sessions :
        pc[s] # "closed" => (InTx(s) <=> tx_id[s] \in active_transactions)

\* Where in commit or abort a session is tells its transaction's state, locks
\* and tables.
PcTellsProgress ==
    \A s \in Sessions :
        /\ InTx(s) => tx_state[tx_id[s]] =
                          IF pc[s] \in {"release", "erase"} THEN "COMMITTED" ELSE "ACTIVE"
        /\ pc[s] = "erase" => \A k \in TupleKey : lock_table[k] # tx_id[s]
        /\ pc[s] \in {"set_committed", "release", "erase"} =>
               in_process_tables[tx_id[s]] = {}

Coherent ==
    /\ IdsAreFresh
    /\ SessionHasObject
    /\ NoSharedTransaction
    /\ PcTellsProgress
    /\ NoOrphanLock
    /\ NoOrphanTable

IInv == TypeOK /\ Coherent

--------------------------------------------------------------------------------
(****************************************************************************)
(* Initial states.                                                          *)
(****************************************************************************)

\* The invariant holds when the server starts: no session, transaction, lock or
\* table in creation.
LEMMA InitIInv ==
    ASSUME NoGarbageId, Init
    PROVE  IInv
<1> USE MaxTxIdAssumption, SessionAssumption DEF Init
<1>1. LockTableType /\ TransactionsType /\ CatalogType
  BY DEF LockTableInit, LockTableType, TransactionsInit, TransactionsType,
         CatalogInit, CatalogType, TransactionState, IsolationLevel, TxID
<1>2. TypeOK
  BY <1>1 DEF TypeOK, PC, InCallback
<1>3. IdsAreFresh
  BY DEF TransactionsInit, IdsAreFresh, NoGarbageId
<1>4. SessionHasObject /\ NoSharedTransaction /\ PcTellsProgress
  BY DEF SessionHasObject, NoSharedTransaction, PcTellsProgress, InTx
<1>5. NoOrphanLock /\ NoOrphanTable
  BY DEF LockTableInit, CatalogInit, NoOrphanLock, NoOrphanTable
<1> QED
  BY <1>2, <1>3, <1>4, <1>5 DEF IInv, Coherent

--------------------------------------------------------------------------------
(****************************************************************************)
(* Steps.                                                                   *)
(****************************************************************************)

\* start_transaction keeps the types of the transaction manager.
LEMMA StartTransactionType ==
    ASSUME TransactionsType, NEW level \in IsolationLevel, StartTransaction(level)
    PROVE  /\ TransactionsType'
           /\ transaction_count \in TxID
           /\ active_transactions' = active_transactions \cup {transaction_count}
<1> USE MaxTxIdAssumption DEF TransactionsType, StartTransaction
<1>1. ActiveNow \in SUBSET TxID
  BY DEF ActiveNow
<1>2. snapshot' \in [TxID -> SUBSET TxID]
  BY <1>1
<1>3. transaction_count \in TxID /\ transaction_count' \in 1..(MaxTxId + 1)
  BY DEF TxID
<1> QED
  BY <1>2, <1>3 DEF TransactionState

\* A session that begins a transaction, of either kind of query, gets an id that
\* no other session has; everybody else keeps what it had.
LEMMA FreshTransaction ==
    ASSUME IInv, NEW s \in Sessions, NEW level \in IsolationLevel,
           StartTransaction(level),
           ~InTx(s), pc[s] # "closed",
           tx_id' = [tx_id EXCEPT ![s] = transaction_count],
           NEW label \in InStatement \cup {"reply"},
           pc' = [pc EXCEPT ![s] = label],
           session_state' = [session_state EXCEPT
                                ![s] = IF label = "reply" THEN 1 ELSE 0],
           UNCHANGED <<lock_table, catalogVars>>
    PROVE  Coherent'
<1> USE MaxTxIdAssumption
    DEF IInv, Coherent, TypeOK, LockTableType, TransactionsType, CatalogType, catalogVars
<1>1. /\ transaction_count \in TxID
      /\ transaction_count' = transaction_count + 1
      /\ active_transactions' = active_transactions \cup {transaction_count}
      /\ tx_state' = [tx_state EXCEPT ![transaction_count] = "ACTIVE"]
      /\ first_rids' = first_rids
  BY DEF StartTransaction
<1>2. /\ transaction_count \notin active_transactions
      /\ \A r \in Sessions : tx_id[r] # transaction_count
  BY <1>1 DEF IdsAreFresh, TxID
<1>3. \A r \in Sessions : r # s => (InTx(r)' <=> InTx(r))
  BY DEF InTx
<1>4. InTx(s)' /\ pc'[s] = label /\ tx_id'[s] = transaction_count
  BY DEF InTx, InStatement, Statements
<1>5. IdsAreFresh'
  BY <1>1 DEF IdsAreFresh, TxID
<1>6. SessionHasObject'
  BY <1>1, <1>2, <1>3, <1>4 DEF SessionHasObject
<1>7. NoSharedTransaction'
  BY <1>1, <1>2, <1>4 DEF NoSharedTransaction
<1>8. PcTellsProgress'
  <2> SUFFICES ASSUME NEW r \in Sessions
               PROVE  /\ InTx(r)' => tx_state'[tx_id'[r]] =
                             IF pc'[r] \in {"release", "erase"} THEN "COMMITTED" ELSE "ACTIVE"
                      /\ pc'[r] = "erase" => \A k \in TupleKey : lock_table'[k] # tx_id'[r]
                      /\ pc'[r] \in {"set_committed", "release", "erase"} =>
                             in_process_tables'[tx_id'[r]] = {}
    BY DEF PcTellsProgress
  <2>1. CASE r = s
    BY <2>1, <1>1, <1>4 DEF InStatement, Statements
  <2>2. CASE r # s
    <3>1. pc'[r] = pc[r] /\ tx_id'[r] = tx_id[r]
      BY <2>2
    <3>2. InTx(r) => tx_state'[tx_id[r]] = tx_state[tx_id[r]]
      BY <1>1, <1>2 DEF SessionHasObject, InTx
    <3> QED
      BY <2>2, <3>1, <3>2, <1>3 DEF PcTellsProgress
  <2> QED
    BY <2>1, <2>2
<1>9. NoOrphanLock' /\ NoOrphanTable'
  BY <1>1 DEF NoOrphanLock, NoOrphanTable
<1> QED
  BY <1>5, <1>6, <1>7, <1>8, <1>9

\* Types.  Everything but the ids of the transactions is typed by the shape of
\* the actions; that a session in a transaction has a real id is
\* SessionHasObject.
LEMMA NextTypeOK ==
    ASSUME IInv, NEW s \in Sessions,
           Connect(s) \/ ReadCompletes(s) \/ ReplyWritten(s) \/ Dispatch(s) \/ WorkerStep(s)
    PROVE  TypeOK'
<1> USE DEF IInv, Coherent, TypeOK, GoTo, tmVars, catalogVars, sessionVars, rowVars
<1> DEFINE Label == {"read", "queued", "reply", "closed", "abort_tables", "commit_tables",
                     "set_committed", "release", "erase", "scan", "acquire", "retry",
                     "insert", "create", "done"}
<1>0. PC = Label
  BY DEF PC, InCallback, InStatement, InCommitOrAbort, Statements
<1> HIDE DEF Label
<1>1. "read" \in PC /\ "queued" \in PC /\ "reply" \in PC /\ "closed" \in PC
      /\ "abort_tables" \in PC /\ "commit_tables" \in PC /\ "set_committed" \in PC
      /\ "release" \in PC /\ "erase" \in PC /\ "scan" \in PC /\ "acquire" \in PC
      /\ "retry" \in PC /\ "done" \in PC /\ Statements \subseteq PC
  BY <1>0 DEF Label, Statements
<1>2. InTx(s) => tx_id[s] \in active_transactions /\ tx_id[s] \in TxID
  BY DEF SessionHasObject, InTx, TransactionsType
<1>3. CASE Connect(s)
  BY <1>3, <1>1 DEF Connect, LockTableType, TransactionsType, CatalogType
<1>4. CASE ReadCompletes(s) \/ ReplyWritten(s) \/ ConnectionError(s)
  BY <1>4, <1>1 DEF ReadCompletes, ReplyWritten, ConnectionError,
                    LockTableType, TransactionsType, CatalogType
<1>5. CASE HandleAbort(s)
  BY <1>5, <1>1 DEF HandleAbort, LockTableType, TransactionsType, CatalogType
<1>6. ASSUME NEW level \in IsolationLevel, BeginTransaction(s, level)
      PROVE  TypeOK'
  <2>1. StartTransaction(level) /\ transaction_count \in TxID
    BY <1>6 DEF BeginTransaction, StartTransaction
  <2>2. TransactionsType'
    BY <2>1, StartTransactionType
  <2> QED
    BY <1>6, <1>1, <2>1, <2>2 DEF BeginTransaction, LockTableType, CatalogType
<1>7. ASSUME NEW statement \in Statements, RunQuery(s, statement)
      PROVE  TypeOK'
  <2>1. TransactionsType' /\ tx_id' \in [Sessions -> UninitTxIds \cup TxID]
    <3>1. CASE session_state[s] = 0
      <4>1. StartTransaction("READ_COMMITTED") /\ transaction_count \in TxID
        BY <1>7, <3>1 DEF RunQuery, StartTransaction
      <4>2. TransactionsType'
        BY <4>1, StartTransactionType DEF IsolationLevel
      <4> QED
        BY <1>7, <3>1, <4>1, <4>2 DEF RunQuery
    <3>2. CASE session_state[s] # 0
      BY <1>7, <3>2 DEF RunQuery, TransactionsType
    <3> QED
      BY <3>1, <3>2
  <2>2. todo' \in [Sessions -> SUBSET TupleKey]
    BY <1>7 DEF RunQuery
  <2>3. pc' \in [Sessions -> PC]
    BY <1>7, <1>1 DEF RunQuery
  <2>4. LockTableType' /\ CatalogType'
    BY <1>7 DEF RunQuery, LockTableType, CatalogType
  <2>5. UNCHANGED <<session_state, want, closing, rows, t_min>>
    BY <1>7 DEF RunQuery
  <2> QED
    BY <2>1, <2>2, <2>3, <2>4, <2>5
<1>8. CASE CommitCommand(s) \/ AbortCommand(s) \/ StatementDone(s)
  BY <1>8, <1>1 DEF CommitCommand, AbortCommand, StatementDone, EnterCommit, EnterAbort,
                    LockTableType, TransactionsType, CatalogType
<1>9. ASSUME NEW k \in TupleKey, ScanRow(s, k)
      PROVE  TypeOK'
  BY <1>9, <1>1 DEF ScanRow, LockTableType, TransactionsType, CatalogType
<1>10. CASE TryAcquireSucceeds(s)
  <2>1. PICK k \in want[s] : AcquireLock(tx_id[s], k)
    BY <1>10 DEF TryAcquireSucceeds
  <2>2. k \in TupleKey
    OBVIOUS
  <2>3. LockTableType' /\ TransactionsType'
    <3>1. CASE lock_table[k] = NoTx
      BY <3>1, <2>1, <2>2 DEF AcquireLock, LockGranted, AddToWriteSet,
                              LockTableType, TransactionsType
    <3>2. CASE lock_table[k] # NoTx
      BY <3>2, <2>1 DEF AcquireLock, LockTableType, TransactionsType
    <3> QED
      BY <3>1, <3>2
  <2> QED
    BY <1>10, <1>1, <2>3 DEF TryAcquireSucceeds, CatalogType
<1>11. CASE TryAcquireFails(s)
  BY <1>11, <1>1 DEF TryAcquireFails, LockTableType, TransactionsType, CatalogType
<1>12. CASE LockTimeout(s) \/ ScanEnds(s) \/ StatementFails(s)
  BY <1>12, <1>1 DEF LockTimeout, ScanEnds, StatementFails, EnterAbort,
                     LockTableType, TransactionsType, CatalogType
<1>13. ASSUME NEW k \in TupleKey, InsertRow(s, k)
       PROVE  TypeOK'
  BY <1>13, <1>1 DEF InsertRow, AddToWriteSet, LockTableType, TransactionsType, CatalogType
<1>14. ASSUME NEW n \in TableName, CreateTableStatement(s, n)
       PROVE  TypeOK'
  BY <1>14, <1>1 DEF CreateTableStatement, CreateTable, LockTableType, TransactionsType,
                     CatalogType
<1>15. CASE CommitTables(s)
  <2>1. tx_id[s] \in TxID
    BY <1>15, <1>2 DEF CommitTables, InTx, InCommitOrAbort
  <2>2. CatalogType'
    <3>1. CASE NameClash(tx_id[s])
      BY <1>15, <3>1 DEF CommitTables, CatalogType
    <3>2. CASE ~NameClash(tx_id[s])
      <4>1. [name : in_process_tables[tx_id[s]], creator : {tx_id[s]}] \subseteq TableInfo
        BY <2>1 DEF CatalogType, TableInfo
      <4> QED
        BY <1>15, <3>2, <4>1 DEF CommitTables, CommitInProgressTables, CatalogType
    <3> QED
      BY <3>1, <3>2
  <2>3. pc' \in [Sessions -> PC]
    BY <1>15, <1>1 DEF CommitTables
  <2> QED
    BY <1>15, <2>2, <2>3 DEF CommitTables, LockTableType, TransactionsType
<1>16. CASE AbortTables(s)
  BY <1>16, <1>1 DEF AbortTables, AbortInProgressTables, LockTableType, TransactionsType,
                     CatalogType
<1>17. CASE SetStateCommitted(s)
  BY <1>17, <1>1 DEF SetStateCommitted, SetCommitted, TransactionState, LockTableType,
                     TransactionsType, CatalogType
<1>18. CASE ReleaseLocks(s)
  BY <1>18, <1>1 DEF ReleaseLocks, ReleaseAllLocks, LockTableType, TransactionsType,
                     CatalogType
<1>19. CASE Erase(s)
  BY <1>19, <1>1 DEF Erase, EraseTransaction, LockTableType, TransactionsType, CatalogType
<1> QED
  BY <1>3, <1>4, <1>5, <1>6, <1>7, <1>8, <1>9, <1>10, <1>11, <1>12, <1>13, <1>14, <1>15,
     <1>16, <1>17, <1>18, <1>19 DEF Dispatch, WorkerStep

\* A step that only moves one session, and neither ends nor begins its part in a
\* transaction, keeps the invariant.
LEMMA MoveKeepsCoherent ==
    ASSUME IInv, NEW s \in Sessions, NEW label,
           pc' = [pc EXCEPT ![s] = label],
           \A r \in Sessions \ {s} : session_state'[r] = session_state[r],
           UNCHANGED <<lock_table, tmVars, catalogVars, tx_id>>,
           label = "closed" \/ (pc[s] # "closed" /\ (InTx(s)' <=> InTx(s))),
           label \notin {"set_committed", "release", "erase"},
           pc[s] \notin {"release", "erase"}
    PROVE  Coherent'
<1> USE DEF IInv, Coherent, TypeOK, tmVars, catalogVars
<1>1. pc'[s] = label /\ \A r \in Sessions \ {s} : pc'[r] = pc[r] /\ (InTx(r)' <=> InTx(r))
  BY DEF InTx
<1>2. IdsAreFresh' /\ NoOrphanLock' /\ NoOrphanTable'
  BY DEF IdsAreFresh, NoOrphanLock, NoOrphanTable
<1>3. SessionHasObject'
  BY <1>1 DEF SessionHasObject
<1>4. NoSharedTransaction'
  BY <1>1 DEF NoSharedTransaction
<1>5. PcTellsProgress'
  <2>1. InTx(s)' => InTx(s)
    BY <1>1 DEF InTx
  <2> QED
    BY <1>1, <2>1 DEF PcTellsProgress
<1> QED
  BY <1>2, <1>3, <1>4, <1>5

\* The callbacks of the network and the steps of a statement that change neither
\* a lock, a table nor a transaction.
LEMMA MovesCoherent ==
    ASSUME IInv, NEW s \in Sessions,
           \/ ReadCompletes(s) \/ ReplyWritten(s) \/ HandleAbort(s) \/ ConnectionError(s)
           \/ CommitCommand(s) \/ AbortCommand(s)
           \/ \E k \in TupleKey : ScanRow(s, k)
           \/ TryAcquireFails(s) \/ LockTimeout(s) \/ ScanEnds(s)
           \/ StatementFails(s) \/ StatementDone(s)
    PROVE  Coherent'
<1> USE DEF GoTo, tmVars, catalogVars, rowVars
<1>t. /\ pc \in [Sessions -> PC]
      /\ session_state \in [Sessions -> {0, 1}]
  BY DEF IInv, TypeOK
<1>o. InTx(s) => tx_id[s] \in active_transactions
  BY DEF IInv, Coherent, SessionHasObject, InTx
<1>a. InTx(s) /\ pc[s] \notin {"release", "erase"} => IsActive(tx_id[s])
  BY <1>o DEF IInv, Coherent, PcTellsProgress, IsActive, StateOf
<1>l. InTx(s)' = (/\ pc'[s] # "closed"
                  /\ session_state'[s] = 1 \/ pc'[s] \in InStatement \cup InCommitOrAbort)
  BY DEF InTx
<1>n. InStatement \cup InCommitOrAbort =
        {"scan", "insert", "create", "acquire", "retry", "done", "commit_tables",
         "abort_tables", "set_committed", "release", "erase"}
  BY DEF InStatement, InCommitOrAbort, Statements
<1>1. CASE ReadCompletes(s) \/ ReplyWritten(s)
  BY <1>1, <1>t, <1>n, MoveKeepsCoherent DEF ReadCompletes, ReplyWritten, InTx
<1>2. CASE ConnectionError(s)
  BY <1>2, <1>t, MoveKeepsCoherent DEF ConnectionError, Dispatched
<1>3. CASE HandleAbort(s)
  <2>1. CASE tx_id[s] \in active_transactions
    <3>1. InTx(s)
      BY <1>3, <2>1 DEF IInv, Coherent, SessionHasObject, HandleAbort, Dispatched
    <3> QED
      BY <1>3, <1>t, <1>n, <2>1, <3>1, MoveKeepsCoherent DEF HandleAbort, Dispatched, InTx
  <2>2. CASE tx_id[s] \notin active_transactions
    BY <1>3, <1>t, <2>2, MoveKeepsCoherent DEF HandleAbort, Dispatched
  <2> QED
    BY <2>1, <2>2
<1>4. CASE CommitCommand(s) \/ AbortCommand(s)
  <2>1. InTx(s) /\ pc[s] = "queued"
    BY <1>4 DEF CommitCommand, AbortCommand, Dispatched, InTx
  <2> QED
    BY <1>4, <1>t, <1>n, <1>a, <1>o, <2>1, MoveKeepsCoherent
    DEF CommitCommand, AbortCommand, EnterCommit, EnterAbort, InTx
<1>5. CASE (\E k \in TupleKey : ScanRow(s, k)) \/ TryAcquireFails(s) \/ ScanEnds(s)
  BY <1>5, <1>t, <1>n, MoveKeepsCoherent DEF ScanRow, TryAcquireFails, ScanEnds, InTx
<1>6. CASE LockTimeout(s)
  <2>1. InTx(s)
    BY <1>6, <1>n DEF LockTimeout, InTx
  <2> QED
    BY <1>6, <1>t, <1>n, <1>o, <2>1, MoveKeepsCoherent DEF LockTimeout, EnterAbort, InTx
<1>7. CASE StatementFails(s)
  <2>1. InTx(s) /\ pc[s] \notin {"release", "erase", "closed"}
    BY <1>7, <1>n DEF StatementFails, InTx, Statements
  <2> QED
    BY <1>7, <1>t, <1>n, <1>o, <2>1, MoveKeepsCoherent
    DEF StatementFails, EnterAbort, CommitAtEnd, InTx
<1>8. CASE StatementDone(s)
  <2>1. InTx(s) /\ pc[s] = "done"
    BY <1>8, <1>n DEF StatementDone, InTx
  <2> QED
    BY <1>8, <1>t, <1>n, <1>a, <2>1, MoveKeepsCoherent
    DEF StatementDone, EnterCommit, EnterAbort, CommitAtEnd, InTx
<1> QED
  BY <1>1, <1>2, <1>3, <1>4, <1>5, <1>6, <1>7, <1>8

\* A statement takes a lock, inserts a row or creates a table: each is entered in
\* the transaction's own bookkeeping in the same step.
LEMMA StatementsCoherent ==
    ASSUME IInv, NEW s \in Sessions,
           \/ TryAcquireSucceeds(s)
           \/ \E k \in TupleKey : InsertRow(s, k)
           \/ \E n \in TableName : CreateTableStatement(s, n)
    PROVE  Coherent'
<1> USE MaxTxIdAssumption
    DEF IInv, Coherent, TypeOK, LockTableType, TransactionsType, CatalogType,
        GoTo, tmVars, catalogVars, rowVars
<1>1. InTx(s) /\ tx_id[s] \in active_transactions /\ tx_id[s] \in TxID
  BY DEF TryAcquireSucceeds, InsertRow, CreateTableStatement, SessionHasObject, InTx,
         InStatement, Statements
<1>2. /\ UNCHANGED <<transaction_count, active_transactions, tx_state, tx_id, session_state>>
      /\ \A r \in Sessions : InTx(r)' <=> InTx(r)
      /\ \A r \in Sessions : pc'[r] # pc[r] => r = s /\ pc'[r] \in {"scan", "done"}
      /\ pc[s] \in InStatement
  BY DEF TryAcquireSucceeds, InsertRow, CreateTableStatement, AcquireLock, AddToWriteSet,
         InTx, InStatement, Statements
<1>3. IdsAreFresh'
  BY <1>2 DEF IdsAreFresh
<1>4. SessionHasObject'
  BY <1>2 DEF SessionHasObject, InStatement, Statements
<1>5. NoSharedTransaction'
  BY <1>2 DEF NoSharedTransaction, InStatement, Statements
<1>6. CASE TryAcquireSucceeds(s)
  <2>1. PICK key \in want[s] : AcquireLock(tx_id[s], key)
    BY <1>6 DEF TryAcquireSucceeds
  <2>2. CASE lock_table[key] = NoTx
    <3>1. /\ lock_table' = [lock_table EXCEPT ![key] = tx_id[s]]
          /\ first_rids' = [first_rids EXCEPT ![tx_id[s]] = @ \cup {key}]
          /\ key \in TupleKey
      BY <2>1, <2>2 DEF AcquireLock, LockGranted, AddToWriteSet
    <3>2. NoOrphanLock'
      BY <1>1, <1>2, <3>1 DEF NoOrphanLock
    <3>3. \A r \in Sessions : pc'[r] = "erase" => r # s /\ InTx(r) /\ tx_id[r] # tx_id[s]
      BY <1>1, <1>2 DEF NoSharedTransaction, SessionHasObject, InTx, InStatement,
                        InCommitOrAbort, Statements
    <3>4. PcTellsProgress'
      BY <1>1, <1>2, <1>6, <3>1, <3>3 DEF PcTellsProgress, TryAcquireSucceeds,
                                          InStatement, Statements
    <3> QED
      BY <1>3, <1>4, <1>5, <1>6, <3>2, <3>4 DEF TryAcquireSucceeds, NoOrphanTable, AcquireLock, AddToWriteSet
  <2>3. CASE lock_table[key] # NoTx
    <3>1. UNCHANGED <<lock_table, tmVars>>
      BY <2>1, <2>3 DEF AcquireLock
    <3>2. NoOrphanLock' /\ NoOrphanTable'
      BY <1>6, <3>1 DEF NoOrphanLock, NoOrphanTable, TryAcquireSucceeds
    <3>3. PcTellsProgress'
      BY <1>1, <1>2, <1>6, <3>1 DEF PcTellsProgress, TryAcquireSucceeds, InStatement, Statements
    <3> QED
      BY <1>3, <1>4, <1>5, <3>2, <3>3
  <2> QED
    BY <2>2, <2>3
<1>7. ASSUME NEW k \in TupleKey, InsertRow(s, k)
      PROVE  Coherent'
  <2>1. NoOrphanLock'
    BY <1>1, <1>7 DEF InsertRow, AddToWriteSet, NoOrphanLock, NoTx, TxID
  <2>2. PcTellsProgress' /\ NoOrphanTable'
    BY <1>2, <1>7 DEF InsertRow, PcTellsProgress, NoOrphanTable, InStatement, Statements
  <2> QED
    BY <1>3, <1>4, <1>5, <2>1, <2>2
<1>8. ASSUME NEW n \in TableName, CreateTableStatement(s, n)
      PROVE  Coherent'
  <2>1. in_process_tables' = [in_process_tables EXCEPT ![tx_id[s]] = @ \cup {n}]
    BY <1>8 DEF CreateTableStatement, CreateTable
  <2>2. NoOrphanLock' /\ NoOrphanTable'
    BY <1>1, <1>2, <1>8, <2>1 DEF CreateTableStatement, NoOrphanLock, NoOrphanTable
  <2>3. \A r \in Sessions : pc'[r] \in {"set_committed", "release", "erase"}
                               => r # s /\ InTx(r) /\ tx_id[r] # tx_id[s]
    BY <1>1, <1>2 DEF NoSharedTransaction, SessionHasObject, InTx, InStatement,
                      InCommitOrAbort, Statements
  <2>4. PcTellsProgress'
    BY <1>1, <1>2, <1>8, <2>1, <2>3 DEF PcTellsProgress, CreateTableStatement,
                                        InStatement, Statements
  <2> QED
    BY <1>3, <1>4, <1>5, <2>2, <2>4
<1> QED
  BY <1>6, <1>7, <1>8

\* The steps of commit_transaction and _abort_transaction.  No other session
\* works for the transaction, so nobody else's progress is disturbed.
LEMMA CommitAndAbortCoherent ==
    ASSUME IInv, NEW s \in Sessions,
           \/ CommitTables(s) \/ AbortTables(s)
           \/ SetStateCommitted(s) \/ ReleaseLocks(s) \/ Erase(s)
    PROVE  Coherent'
<1> USE MaxTxIdAssumption
    DEF IInv, Coherent, TypeOK, LockTableType, TransactionsType, CatalogType,
        GoTo, tmVars, catalogVars, rowVars
<1>1. /\ pc[s] \in {"commit_tables", "abort_tables", "set_committed", "release", "erase"}
      /\ InTx(s) /\ tx_id[s] \in active_transactions /\ tx_id[s] \in TxID
  BY DEF CommitTables, AbortTables, SetStateCommitted, ReleaseLocks, Erase,
         SessionHasObject, InTx, InCommitOrAbort
<1>2. \A r \in Sessions \ {s} : InTx(r) => tx_id[r] # tx_id[s]
  BY <1>1 DEF NoSharedTransaction, SessionHasObject, InTx
<1>3. \A r \in Sessions : pc[r] \in InCommitOrAbort => InTx(r)
  BY DEF InTx, InCommitOrAbort
<1>4. /\ tx_id' = tx_id
      /\ pc' \in [Sessions -> PC] => \A r \in Sessions \ {s} : pc'[r] = pc[r]
      /\ transaction_count' = transaction_count
  BY DEF CommitTables, AbortTables, SetStateCommitted, SetCommitted, ReleaseLocks, Erase,
         EraseTransaction
<1>5. CASE CommitTables(s) /\ NameClash(tx_id[s])
  BY <1>1, <1>5, MoveKeepsCoherent DEF CommitTables, InTx, InCommitOrAbort
<1>6. CASE (CommitTables(s) /\ ~NameClash(tx_id[s])) \/ AbortTables(s)
  <2>1. /\ UNCHANGED <<lock_table, tmVars, session_state, tx_id>>
        /\ pc' = [pc EXCEPT ![s] = "set_committed"]
        /\ in_process_tables' = [in_process_tables EXCEPT ![tx_id[s]] = {}]
        /\ pc[s] \in {"commit_tables", "abort_tables"}
    BY <1>6 DEF CommitTables, AbortTables, CommitInProgressTables, AbortInProgressTables
  <2>2. \A r \in Sessions : InTx(r)' <=> InTx(r)
    BY <1>1, <2>1 DEF InTx, InCommitOrAbort
  <2>3. IdsAreFresh' /\ NoOrphanLock' /\ NoOrphanTable'
    BY <1>1, <2>1 DEF IdsAreFresh, NoOrphanLock, NoOrphanTable
  <2>4. SessionHasObject'
    BY <1>1, <2>1, <2>2 DEF SessionHasObject
  <2>5. NoSharedTransaction'
    BY <1>1, <2>1 DEF NoSharedTransaction
  <2>6. PcTellsProgress'
    BY <1>1, <1>2, <1>3, <2>1, <2>2 DEF PcTellsProgress, InCommitOrAbort
  <2> QED
    BY <2>3, <2>4, <2>5, <2>6
<1>7. CASE SetStateCommitted(s)
  <2>1. /\ UNCHANGED <<lock_table, catalogVars, session_state, tx_id, transaction_count,
                       active_transactions, first_rids>>
        /\ pc[s] = "set_committed"
        /\ pc' = [pc EXCEPT ![s] = "release"]
        /\ tx_state' = [tx_state EXCEPT ![tx_id[s]] = "COMMITTED"]
    BY <1>7 DEF SetStateCommitted, SetCommitted
  <2>2. \A r \in Sessions : InTx(r)' <=> InTx(r)
    BY <1>1, <2>1 DEF InTx, InCommitOrAbort
  <2>3. IdsAreFresh' /\ NoOrphanLock' /\ NoOrphanTable'
    BY <2>1 DEF IdsAreFresh, NoOrphanLock, NoOrphanTable
  <2>4. SessionHasObject' /\ NoSharedTransaction'
    BY <1>1, <2>1, <2>2 DEF SessionHasObject, NoSharedTransaction
  <2>5. PcTellsProgress'
    BY <1>1, <1>2, <1>3, <2>1, <2>2 DEF PcTellsProgress, InCommitOrAbort
  <2> QED
    BY <2>3, <2>4, <2>5
<1>8. CASE ReleaseLocks(s)
  <2>1. /\ UNCHANGED <<tmVars, catalogVars, session_state, tx_id>>
        /\ pc[s] = "release"
        /\ pc' = [pc EXCEPT ![s] = "erase"]
        /\ \A k \in TupleKey : lock_table'[k] = IF lock_table[k] = tx_id[s]
                                               THEN NoTx ELSE lock_table[k]
    BY <1>8, <1>1 DEF ReleaseLocks, ReleaseAllLocks, NoOrphanLock, NoTx, TxID
  <2>2. \A r \in Sessions : InTx(r)' <=> InTx(r)
    BY <1>1, <2>1 DEF InTx, InCommitOrAbort
  <2>3. IdsAreFresh' /\ NoOrphanLock' /\ NoOrphanTable'
    BY <2>1 DEF IdsAreFresh, NoOrphanLock, NoOrphanTable
  <2>4. SessionHasObject' /\ NoSharedTransaction'
    BY <1>1, <2>1, <2>2 DEF SessionHasObject, NoSharedTransaction
  <2>5. PcTellsProgress'
    <3>1. \A r \in Sessions : pc'[r] = "erase" => tx_id[r] \in TxID
      BY <1>1, <1>3, <2>1 DEF SessionHasObject, InTx, InCommitOrAbort
    <3> SUFFICES ASSUME NEW r \in Sessions
                 PROVE  /\ InTx(r)' => tx_state'[tx_id'[r]] =
                             IF pc'[r] \in {"release", "erase"} THEN "COMMITTED" ELSE "ACTIVE"
                        /\ pc'[r] = "erase" => \A k \in TupleKey : lock_table'[k] # tx_id'[r]
                        /\ pc'[r] \in {"set_committed", "release", "erase"} =>
                               in_process_tables'[tx_id'[r]] = {}
      BY DEF PcTellsProgress
    <3>2. CASE r = s
      <4>1. tx_state[tx_id[s]] = "COMMITTED" /\ in_process_tables[tx_id[s]] = {}
        BY <1>1, <2>1 DEF PcTellsProgress
      <4>2. NoTx # tx_id[s]
        BY <1>1 DEF NoTx, TxID
      <4>3. \A k \in TupleKey : lock_table'[k] # tx_id[s]
        BY <2>1, <4>2
      <4> QED
        BY <2>1, <3>2, <4>1, <4>3
    <3>3. CASE r # s
      <4>1. pc'[r] = pc[r] /\ tx_id'[r] = tx_id[r] /\ (InTx(r)' <=> InTx(r))
        BY <2>1, <2>2, <3>3
      <4>2. pc[r] = "erase" => \A k \in TupleKey : lock_table'[k] # tx_id[r]
        BY <2>1, <3>1, <4>1 DEF PcTellsProgress, NoTx, TxID
      <4> QED
        BY <2>1, <4>1, <4>2 DEF PcTellsProgress
    <3> QED
      BY <3>2, <3>3
  <2> QED
    BY <2>3, <2>4, <2>5
<1>9. CASE Erase(s)
  <2>1. /\ UNCHANGED <<lock_table, catalogVars, tx_id, transaction_count, tx_state>>
        /\ pc[s] = "erase"
        /\ pc'[s] \in {"closed", "reply"} /\ session_state'[s] = 0
        /\ \A r \in Sessions \ {s} : pc'[r] = pc[r] /\ session_state'[r] = session_state[r]
        /\ active_transactions' = active_transactions \ {tx_id[s]}
        /\ first_rids' = [first_rids EXCEPT ![tx_id[s]] = {}]
    BY <1>9 DEF Erase, EraseTransaction
  <2>2. ~InTx(s)' /\ \A r \in Sessions \ {s} : InTx(r)' <=> InTx(r)
    BY <2>1 DEF InTx, InStatement, InCommitOrAbort, Statements
  <2>3. \A k \in TupleKey : lock_table[k] # tx_id[s]
    BY <2>1 DEF PcTellsProgress
  <2>4. IdsAreFresh'
    BY <2>1 DEF IdsAreFresh
  <2>5. NoOrphanLock' /\ NoOrphanTable'
    BY <1>1, <2>1, <2>3 DEF NoOrphanLock, NoOrphanTable, PcTellsProgress
  <2>6. SessionHasObject'
    BY <1>1, <1>2, <2>1, <2>2 DEF SessionHasObject
  <2>7. NoSharedTransaction'
    BY <1>1, <2>1 DEF NoSharedTransaction
  <2>8. PcTellsProgress'
    BY <2>1, <2>2 DEF PcTellsProgress
  <2> QED
    BY <2>4, <2>5, <2>6, <2>7, <2>8
<1> QED
  BY <1>5, <1>6, <1>7, <1>8, <1>9

\* A new session has no transaction, whatever its tx_id says: this is where the
\* assumption on uninitialized ids is needed.
LEMMA ConnectCoherent ==
    ASSUME NoGarbageId, IInv, NEW s \in Sessions, Connect(s)
    PROVE  Coherent'
<1> USE DEF IInv, Coherent, TypeOK, TransactionsType, GoTo, tmVars, catalogVars
<1>1. PICK garbage \in UninitTxIds : tx_id' = [tx_id EXCEPT ![s] = garbage]
  BY DEF Connect
<1>2. garbage \notin TxID /\ garbage \notin active_transactions
  BY DEF NoGarbageId
<1>3. /\ UNCHANGED <<lock_table, tmVars, catalogVars>>
      /\ tx_id'[s] = garbage /\ pc'[s] = "read" /\ session_state'[s] = 0
      /\ \A r \in Sessions \ {s} : /\ tx_id'[r] = tx_id[r] /\ pc'[r] = pc[r]
                                   /\ session_state'[r] = session_state[r]
  BY <1>1 DEF Connect
<1>4. ~InTx(s)' /\ \A r \in Sessions \ {s} : InTx(r)' <=> InTx(r)
  BY <1>3 DEF InTx, InStatement, InCommitOrAbort, Statements
<1>5. IdsAreFresh' /\ NoOrphanLock' /\ NoOrphanTable'
  BY <1>2, <1>3 DEF IdsAreFresh, NoOrphanLock, NoOrphanTable
<1>6. SessionHasObject'
  BY <1>2, <1>3, <1>4 DEF SessionHasObject
<1>7. NoSharedTransaction'
  BY <1>2, <1>3 DEF NoSharedTransaction
<1>8. PcTellsProgress'
  BY <1>3, <1>4 DEF PcTellsProgress
<1> QED
  BY <1>5, <1>6, <1>7, <1>8

\* The invariant is inductive.
LEMMA NextIInv ==
    ASSUME NoGarbageId, IInv, [Next]_vars
    PROVE  IInv'
<1>1. CASE UNCHANGED vars
  BY <1>1 DEF vars, tmVars, catalogVars, sessionVars, rowVars, IInv, Coherent, TypeOK,
              LockTableType, TransactionsType, CatalogType, IdsAreFresh, SessionHasObject,
              InTx, NoSharedTransaction, PcTellsProgress, NoOrphanLock, NoOrphanTable
<1>2. ASSUME NEW s \in Sessions,
             Connect(s) \/ ReadCompletes(s) \/ ReplyWritten(s) \/ Dispatch(s) \/ WorkerStep(s)
      PROVE  IInv'
  <2>1. TypeOK'
    BY <1>2, NextTypeOK
  <2>2. ASSUME NEW level \in IsolationLevel, BeginTransaction(s, level)
        PROVE  Coherent'
    <3>1. /\ StartTransaction(level)
          /\ tx_id' = [tx_id EXCEPT ![s] = transaction_count]
          /\ session_state' = [session_state EXCEPT ![s] = 1]
          /\ pc' = [pc EXCEPT ![s] = "reply"]
          /\ UNCHANGED <<lock_table, catalogVars>>
      BY <2>2 DEF BeginTransaction, GoTo
    <3>2. ~InTx(s) /\ pc[s] # "closed"
      BY <2>2 DEF BeginTransaction, Dispatched, InTx, InStatement, InCommitOrAbort, Statements
    <3> QED
      BY <3>1, <3>2, FreshTransaction
  <2>3. ASSUME NEW statement \in Statements, RunQuery(s, statement)
        PROVE  Coherent'
    <3>1. /\ pc[s] = "queued" /\ pc' = [pc EXCEPT ![s] = statement]
          /\ UNCHANGED <<lock_table, catalogVars, session_state>>
          /\ session_state \in [Sessions -> {0, 1}] /\ pc \in [Sessions -> PC]
      BY <2>3 DEF RunQuery, Dispatched, GoTo, IInv, TypeOK
    <3>2. CASE session_state[s] = 0
      <4>1. /\ StartTransaction("READ_COMMITTED")
            /\ tx_id' = [tx_id EXCEPT ![s] = transaction_count]
        BY <2>3, <3>2 DEF RunQuery
      <4>2. /\ statement \in InStatement /\ statement # "reply"
            /\ ~InTx(s) /\ "READ_COMMITTED" \in IsolationLevel
        BY <3>1, <3>2 DEF InTx, InStatement, InCommitOrAbort, Statements, IsolationLevel
      <4>3. session_state' = [session_state EXCEPT ![s] = 0]
        BY <3>1, <3>2
      <4> QED
        BY <3>1, <4>1, <4>2, <4>3, FreshTransaction
    <3>3. CASE session_state[s] = 1
      <4>1. UNCHANGED <<tmVars, tx_id>>
        BY <2>3, <3>3 DEF RunQuery
      <4>2. InTx(s) /\ InTx(s)'
        BY <3>1, <3>3 DEF InTx, Statements
      <4> QED
        BY <3>1, <4>1, <4>2, MoveKeepsCoherent DEF Statements
    <3> QED
      BY <3>1, <3>2, <3>3
  <2> QED
    BY <1>2, <2>1, <2>2, <2>3, ConnectCoherent, MovesCoherent, StatementsCoherent,
       CommitAndAbortCoherent DEF Dispatch, WorkerStep, IInv
<1> QED
  BY <1>1, <1>2 DEF Next

--------------------------------------------------------------------------------
(****************************************************************************)
(* The theorems.                                                            *)
(****************************************************************************)

\* The inductive invariant holds in every reachable state of the server.
THEOREM Invariance ==
    ASSUME NoGarbageId
    PROVE  Spec => []IInv
<1>1. Init => IInv
  BY InitIInv
<1>2. IInv /\ [Next]_vars => IInv'
  BY NextIInv
<1> QED
  BY <1>1, <1>2, PTL DEF Spec

\* Every variable keeps its type: in particular no transaction id beyond the
\* ones handed out is ever used as an index.
THEOREM TypeCorrect ==
    ASSUME NoGarbageId
    PROVE  Spec => []TypeOK
<1>1. IInv => TypeOK
  BY DEF IInv
<1> QED
  BY <1>1, Invariance, PTL

\* A lock always belongs to a live transaction that knows it must release it
\* (LockManager::try_acquire_lock, release_all_locks).
THEOREM LocksHaveOwners ==
    ASSUME NoGarbageId
    PROVE  Spec => []NoOrphanLock
<1>1. IInv => NoOrphanLock
  BY DEF IInv, Coherent
<1> QED
  BY <1>1, Invariance, PTL

\* Two open sessions never work on the same live transaction.
THEOREM TransactionsArePrivate ==
    ASSUME NoGarbageId
    PROVE  Spec => []NoSharedTransaction
<1>1. IInv => NoSharedTransaction
  BY DEF IInv, Coherent
<1> QED
  BY <1>1, Invariance, PTL

\* Between queries, Session::state says whether the transaction is active.
THEOREM StateIsTruthful ==
    ASSUME NoGarbageId
    PROVE  Spec => []StateMatchesTransaction
<1>1. IInv => StateMatchesTransaction
  <2> SUFFICES ASSUME IInv, NEW s \in Sessions, pc[s] \in {"read", "queued", "reply"}
               PROVE  session_state[s] = 1 <=> IsActive(tx_id[s])
    BY DEF StateMatchesTransaction
  <2>1. InTx(s) <=> session_state[s] = 1
    BY DEF InTx, InStatement, InCommitOrAbort, Statements
  <2>2. InTx(s) <=> tx_id[s] \in active_transactions
    BY DEF IInv, Coherent, SessionHasObject
  <2>3. InTx(s) => tx_state[tx_id[s]] = "ACTIVE"
    BY DEF IInv, Coherent, PcTellsProgress
  <2> QED
    BY <2>1, <2>2, <2>3 DEF IsActive, StateOf
<1> QED
  BY <1>1, Invariance, PTL

\* No table in creation outlives its transaction.
THEOREM TablesHaveCreators ==
    ASSUME NoGarbageId
    PROVE  Spec => []NoOrphanTable
<1>1. IInv => NoOrphanTable
  BY DEF IInv, Coherent
<1> QED
  BY <1>1, Invariance, PTL

\* The names of committed tables are unique: commit_in_progress_tables looks at
\* the committed names again in the critical section in which it publishes.
THEOREM TableNamesAreUnique == Spec => []UniqueTableNames
<1>1. Init => UniqueTableNames
  BY DEF Init, CatalogInit, UniqueTableNames
<1>2. UniqueTableNames /\ [Next]_vars => UniqueTableNames'
  <2> SUFFICES ASSUME UniqueTableNames, [Next]_vars
               PROVE  UniqueTableNames'
    OBVIOUS
  <2>1. CASE tables' = tables
    BY <2>1 DEF UniqueTableNames
  <2>2. ASSUME NEW s \in Sessions, CommitTables(s), ~NameClash(tx_id[s])
        PROVE  UniqueTableNames'
    <3>1. tables' = tables \cup [name : in_process_tables[tx_id[s]], creator : {tx_id[s]}]
      BY <2>2 DEF CommitTables, CommitInProgressTables
    <3>2. \A table \in tables : table.name \notin in_process_tables[tx_id[s]]
      BY <2>2 DEF NameClash, CommittedNames
    <3> QED
      BY <3>1, <3>2 DEF UniqueTableNames
  <2>3. tables' = tables \/ \E s \in Sessions : CommitTables(s) /\ ~NameClash(tx_id[s])
    BY DEF Next, vars, catalogVars, Connect, ReadCompletes, ReplyWritten, Dispatch,
           BeginTransaction, RunQuery, CommitCommand, AbortCommand, HandleAbort,
           ConnectionError, WorkerStep, ScanRow, InsertRow, TryAcquireSucceeds,
           TryAcquireFails, LockTimeout, ScanEnds, CreateTableStatement, CreateTable,
           StatementFails, StatementDone, CommitTables, AbortTables,
           AbortInProgressTables, SetStateCommitted, ReleaseLocks, Erase
  <2> QED
    BY <2>1, <2>2, <2>3
<1> QED
  BY <1>1, <1>2, PTL DEF Spec

\* What a transaction still has in creation it has not published.
NothingPublishedTwice ==
    /\ in_process_tables = [t \in TxID |-> in_process_tables[t]]
    /\ \A t \in TxID : \A n \in in_process_tables[t] : [name |-> n, creator |-> t] \notin tables

\* Only three steps change the catalog.
LEMMA CatalogCases ==
    ASSUME [Next]_vars
    PROVE  \/ UNCHANGED catalogVars
           \/ \E s \in Sessions, n \in TableName : CreateTable(n, tx_id[s])
           \/ \E s \in Sessions : CommitInProgressTables(tx_id[s])
           \/ \E s \in Sessions : AbortInProgressTables(tx_id[s])
BY DEF Next, vars, Connect, ReadCompletes, ReplyWritten, Dispatch,
       BeginTransaction, RunQuery, CommitCommand, AbortCommand, HandleAbort,
       ConnectionError, WorkerStep, ScanRow, InsertRow, TryAcquireSucceeds,
       TryAcquireFails, LockTimeout, ScanEnds, CreateTableStatement,
       StatementFails, StatementDone, CommitTables, AbortTables,
       SetStateCommitted, ReleaseLocks, Erase

\* The tables of a transaction are published all together or not at all: what an
\* abort throws away was not published, not even by a commit that found a clash.
THEOREM TablesAreAtomic == Spec => TablesAllOrNothing
<1> USE DEF CreateTable, CommitInProgressTables, AbortInProgressTables, catalogVars
<1> DEFINE Atomic ==
      \A t \in TxID :
          in_process_tables'[t] # in_process_tables[t] /\ in_process_tables'[t] = {} =>
              LET published == {n \in in_process_tables[t] :
                                   [name |-> n, creator |-> t] \in tables'}
              IN  published \in {{}, in_process_tables[t]}
<1>1. Init => NothingPublishedTwice
  BY DEF Init, CatalogInit, NothingPublishedTwice
<1>2. NothingPublishedTwice /\ [Next]_vars => NothingPublishedTwice' /\ [Atomic]_vars
  <2> SUFFICES ASSUME NothingPublishedTwice, [Next]_vars
               PROVE  NothingPublishedTwice' /\ Atomic
    OBVIOUS
  <2>1. CASE UNCHANGED catalogVars
    BY <2>1 DEF NothingPublishedTwice
  <2>2. ASSUME NEW s \in Sessions, NEW n \in TableName, CreateTable(n, tx_id[s])
        PROVE  NothingPublishedTwice' /\ Atomic
    <3>1. \A creator \in TxID : [name |-> n, creator |-> creator] \notin tables
      BY <2>2 DEF TableExists, CommittedNames
    <3>2. \A t \in TxID : in_process_tables'[t] =
             IF t = tx_id[s] THEN in_process_tables[t] \cup {n} ELSE in_process_tables[t]
      BY <2>2 DEF NothingPublishedTwice
    <3>3. in_process_tables' = [t \in TxID |-> in_process_tables'[t]] /\ tables' = tables
      BY <2>2 DEF NothingPublishedTwice
    <3> QED
      BY <3>1, <3>2, <3>3 DEF NothingPublishedTwice
  <2>3. ASSUME NEW s \in Sessions, NEW created,
               in_process_tables' = [in_process_tables EXCEPT ![tx_id[s]] = {}],
               tables' = tables \cup [name : created, creator : {tx_id[s]}],
               created \in {{}, in_process_tables[tx_id[s]]}
        PROVE  NothingPublishedTwice' /\ Atomic
    <3>1. \A t \in TxID : in_process_tables'[t] =
             IF t = tx_id[s] THEN {} ELSE in_process_tables[t]
      BY <2>3 DEF NothingPublishedTwice
    <3>2. in_process_tables' = [t \in TxID |-> in_process_tables'[t]]
      BY <2>3 DEF NothingPublishedTwice
    <3>3. \A t, n : [name |-> n, creator |-> t] \in tables' <=>
             [name |-> n, creator |-> t] \in tables \/ (t = tx_id[s] /\ n \in created)
      BY <2>3
    <3>4. NothingPublishedTwice'
      BY <3>1, <3>2, <3>3 DEF NothingPublishedTwice
    <3>5. Atomic
      <4> SUFFICES ASSUME NEW t \in TxID, t = tx_id[s]
                   PROVE  {n \in in_process_tables[t] : [name |-> n, creator |-> t] \in tables'}
                              \in {{}, in_process_tables[t]}
        BY <3>1
      <4>1. {n \in in_process_tables[t] : [name |-> n, creator |-> t] \in tables'}
               = {n \in in_process_tables[t] : n \in created}
        BY <3>3 DEF NothingPublishedTwice
      <4> QED
        BY <2>3, <4>1
    <3> QED
      BY <3>4, <3>5
  <2>4. ASSUME NEW s \in Sessions, CommitInProgressTables(tx_id[s])
        PROVE  NothingPublishedTwice' /\ Atomic
    BY <2>3, <2>4
  <2>5. ASSUME NEW s \in Sessions, AbortInProgressTables(tx_id[s])
        PROVE  NothingPublishedTwice' /\ Atomic
    <3>1. tables' = tables \cup [name : {}, creator : {tx_id[s]}]
      BY <2>5
    <3> QED
      BY <2>3, <2>5, <3>1
  <2> HIDE DEF Atomic
  <2> QED
    BY <2>1, <2>2, <2>4, <2>5, CatalogCases
<1> QED
  BY <1>1, <1>2, PTL DEF Spec, TablesAllOrNothing

\* A snapshot contains every older transaction that is still active
\* (TransactionManager::start_transaction copies the active ids in the critical
\* section that hands out the new id).
THEOREM SnapshotsAreComplete ==
    ASSUME NoGarbageId
    PROVE  Spec => []SnapshotCoversActive
<1>1. Init => SnapshotCoversActive
  BY DEF Init, TransactionsInit, SnapshotCoversActive
<1>2. ASSUME SnapshotCoversActive, IInv, [Next]_vars
      PROVE  SnapshotCoversActive'
  <2> USE DEF tmVars
  <2>0. TransactionsType /\ IdsAreFresh
    BY <1>2 DEF IInv, TypeOK, Coherent
  <2>1. ASSUME UNCHANGED <<isolation_level, snapshot>>,
               active_transactions' \subseteq active_transactions,
               ActiveNow' \subseteq ActiveNow
        PROVE  SnapshotCoversActive'
    BY <1>2, <2>1 DEF SnapshotCoversActive
  <2>2. ASSUME NEW level \in IsolationLevel, StartTransaction(level)
        PROVE  SnapshotCoversActive'
    <3>1. PICK id : id = transaction_count
      OBVIOUS
    <3>2. /\ id \in TxID
          /\ active_transactions' = active_transactions \cup {id}
          /\ ActiveNow' = ActiveNow \cup {id}
          /\ isolation_level'[id] = level
          /\ snapshot'[id] = IF level = "SNAPSHOT_ISOLATION" THEN ActiveNow ELSE {}
          /\ \A t \in TxID \ {id} : /\ isolation_level'[t] = isolation_level[t]
                                   /\ snapshot'[t] = snapshot[t]
      BY <2>0, <2>2, <3>1 DEF StartTransaction, TransactionsType, ActiveNow, IdsAreFresh
    <3>3. \A t \in active_transactions : t \in TxID /\ t < id /\ t \in Nat /\ id \in Nat
      BY <2>0, <3>1, <3>2, MaxTxIdAssumption DEF IdsAreFresh, TransactionsType, TxID
    <3>4. ASSUME NEW t \in active_transactions', isolation_level'[t] = "SNAPSHOT_ISOLATION",
                 NEW u \in ActiveNow', u < t
          PROVE  u \in snapshot'[t]
      <4>1. CASE t = id
        <5>1. u # id
          BY <3>2, <3>4, <4>1, MaxTxIdAssumption DEF TxID
        <5> QED
          BY <3>2, <3>4, <4>1, <5>1
      <4>2. CASE t # id
        <5>1. t \in active_transactions /\ u # id
          BY <3>2, <3>3, <3>4, <4>2
        <5> QED
          BY <1>2, <3>2, <3>3, <3>4, <4>2, <5>1 DEF SnapshotCoversActive
      <4> QED
        BY <4>1, <4>2
    <3> QED
      BY <3>4 DEF SnapshotCoversActive
  <2>3. ASSUME NEW t, EraseTransaction(t)
        PROVE  SnapshotCoversActive'
    <3>1. /\ \A u \in active_transactions' : u # t /\ u \in active_transactions
          /\ isolation_level' = isolation_level
          /\ \A u \in TxID \ {t} : snapshot'[u] = snapshot[u]
          /\ ActiveNow' \subseteq ActiveNow
      BY <2>0, <2>3 DEF EraseTransaction, ActiveNow, TransactionsType
    <3>2. active_transactions \subseteq TxID
      BY <2>0 DEF TransactionsType
    <3> QED
      BY <1>2, <3>1, <3>2 DEF SnapshotCoversActive
  <2>4. ASSUME NEW t, SetCommitted(t)
        PROVE  SnapshotCoversActive'
    BY <2>0, <2>1, <2>4 DEF SetCommitted, ActiveNow, TransactionsType
  <2>5. CASE UNCHANGED <<active_transactions, tx_state, isolation_level, snapshot>>
    BY <2>1, <2>5 DEF ActiveNow
  <2>6. \/ UNCHANGED <<active_transactions, tx_state, isolation_level, snapshot>>
        \/ \E level \in IsolationLevel : StartTransaction(level)
        \/ \E t : SetCommitted(t) \/ EraseTransaction(t)
    BY <1>2 DEF Next, vars, Connect, ReadCompletes, ReplyWritten, Dispatch, IsolationLevel,
           BeginTransaction, RunQuery, CommitCommand, AbortCommand, HandleAbort,
           ConnectionError, WorkerStep, ScanRow, InsertRow, AddToWriteSet,
           TryAcquireSucceeds, AcquireLock, TryAcquireFails, LockTimeout, ScanEnds,
           CreateTableStatement, StatementFails, StatementDone, CommitTables, AbortTables,
           SetStateCommitted, ReleaseLocks, Erase
  <2> QED
    BY <2>2, <2>3, <2>4, <2>5, <2>6
<1>3. SnapshotCoversActive /\ IInv /\ [Next]_vars => SnapshotCoversActive'
  BY <1>2
<1> QED
  BY <1>1, <1>3, Invariance, PTL DEF Spec

--------------------------------------------------------------------------------
(****************************************************************************)
(* Strict two-phase locking.                                                *)
(****************************************************************************)

\* The steps that touch neither a lock nor a transaction are stutters.
LEMMA PhaseFrame ==
    ASSUME UNCHANGED <<transaction_count, active_transactions, tx_state>>
    PROVE  [t \in TxID |-> Phase(t)]' = [t \in TxID |-> Phase(t)]
  BY DEF Phase, IsActive, StateOf

\* start_transaction is the abstract Begin of the id it hands out.
LEMMA StartIsBegin ==
    ASSUME IInv, NEW level \in IsolationLevel, StartTransaction(level),
           NEW id, id = transaction_count, UNCHANGED lock_table
    PROVE  TwoPhase!Begin(id)
<1> USE MaxTxIdAssumption DEF IInv, TypeOK, TransactionsType, Coherent
<1>1. /\ id \in TxID /\ id \in Nat
      /\ transaction_count = id /\ transaction_count' = id + 1
      /\ active_transactions' = active_transactions \cup {id}
      /\ tx_state' = [tx_state EXCEPT ![id] = "ACTIVE"]
  BY DEF StartTransaction, TxID
<1>2. Phase(id) = "new" /\ Phase(id)' = "running"
  BY <1>1 DEF Phase, IsActive, StateOf
<1>3. ASSUME NEW t \in TxID, t # id
      PROVE  Phase(t)' = Phase(t)
  <2>1. t >= transaction_count' <=> t >= transaction_count
    BY <1>1, <1>3 DEF TxID
  <2>2. StateOf(t)' = StateOf(t)
    BY <1>1, <1>3 DEF StateOf
  <2> QED
    BY <2>1, <2>2 DEF Phase, IsActive
<1>4. [t \in TxID |-> Phase(t)]' = [[t \in TxID |-> Phase(t)] EXCEPT ![id] = "running"]
  BY <1>1, <1>2, <1>3
<1> QED
  BY <1>1, <1>2, <1>4 DEF TwoPhase!Begin

\* Every step of the server is a step of strict two-phase locking, or none.
LEMMA StepIsTwoPhase ==
    ASSUME IInv, IInv', [Next]_vars
    PROVE  [TwoPhase!Next]_(TwoPhase!twoPhaseVars)
<1> USE DEF GoTo, tmVars
<1> DEFINE Stutter == /\ UNCHANGED lock_table
                      /\ UNCHANGED <<transaction_count, active_transactions, tx_state>>
<1>0. Stutter => UNCHANGED TwoPhase!twoPhaseVars
  BY PhaseFrame DEF TwoPhase!twoPhaseVars
<1>1. CASE UNCHANGED vars
  BY <1>0, <1>1 DEF vars
<1>2. ASSUME NEW s \in Sessions,
             Connect(s) \/ ReadCompletes(s) \/ ReplyWritten(s) \/ Dispatch(s) \/ WorkerStep(s)
      PROVE  [TwoPhase!Next]_(TwoPhase!twoPhaseVars)
  <2>0. PICK tx : tx = tx_id[s]
    OBVIOUS
  <2>1. InTx(s) => tx \in TxID /\ tx \in active_transactions
    BY <2>0 DEF IInv, Coherent, SessionHasObject, TypeOK, TransactionsType, InTx
  <2>2. InTx(s) => Phase(tx) = IF pc[s] \in {"release", "erase"} THEN "finished" ELSE "running"
    BY <2>0, <2>1, MaxTxIdAssumption
    DEF IInv, Coherent, PcTellsProgress, IdsAreFresh, TypeOK, TransactionsType, Phase,
        IsActive, StateOf, TxID
  <2>3. ASSUME NEW level \in IsolationLevel, StartTransaction(level), UNCHANGED lock_table
        PROVE  TwoPhase!Next
    BY <2>3, StartIsBegin DEF TwoPhase!Next, StartTransaction
  <2>4. CASE TryAcquireSucceeds(s)
    <3>1. PICK k \in want[s] : AcquireLock(tx, k)
      BY <2>0, <2>4 DEF TryAcquireSucceeds
    <3>2. CASE lock_table[k] # NoTx
      BY <1>0, <3>1, <3>2 DEF AcquireLock
    <3>3. CASE lock_table[k] = NoTx
      <4>1. InTx(s) /\ k \in TupleKey /\ pc[s] \in {"acquire", "retry"}
        BY <2>4 DEF TryAcquireSucceeds, InTx, InStatement, IInv, TypeOK
      <4>2. /\ lock_table' = [lock_table EXCEPT ![k] = tx]
            /\ UNCHANGED <<transaction_count, active_transactions, tx_state>>
        BY <3>1, <3>3 DEF AcquireLock, LockGranted, AddToWriteSet
      <4>3. TwoPhase!Lock(tx, k)
        BY <2>1, <2>2, <3>3, <4>1, <4>2, PhaseFrame DEF TwoPhase!Lock
      <4> QED
        BY <2>1, <4>1, <4>3 DEF TwoPhase!Next
    <3> QED
      BY <3>2, <3>3
  <2>5. CASE SetStateCommitted(s)
    <3>1. InTx(s) /\ pc[s] = "set_committed"
      BY <2>5 DEF SetStateCommitted, InTx, InCommitOrAbort
    <3>2. /\ tx_state' = [tx_state EXCEPT ![tx] = "COMMITTED"]
          /\ UNCHANGED <<lock_table, transaction_count, active_transactions>>
      BY <2>0, <2>5 DEF SetStateCommitted, SetCommitted
    <3>3. Phase(tx)' = "finished"
      BY <2>1, <3>1, <3>2, MaxTxIdAssumption
      DEF Phase, IsActive, StateOf, IInv, Coherent, IdsAreFresh, TypeOK, TransactionsType, TxID
    <3>4. \A t \in TxID : t # tx => Phase(t)' = Phase(t)
      BY <3>2 DEF Phase, IsActive, StateOf, IInv, TypeOK, TransactionsType
    <3>5. [t \in TxID |-> Phase(t)]' = [[t \in TxID |-> Phase(t)] EXCEPT ![tx] = "finished"]
      BY <2>1, <3>1, <3>3, <3>4
    <3>6. TwoPhase!Finish(tx)
      BY <2>1, <2>2, <3>1, <3>2, <3>5 DEF TwoPhase!Finish
    <3> QED
      BY <2>1, <3>1, <3>6 DEF TwoPhase!Next
  <2>6. CASE ReleaseLocks(s)
    <3>1. InTx(s) /\ pc[s] = "release"
      BY <2>6 DEF ReleaseLocks, InTx, InCommitOrAbort
    <3>2. /\ lock_table' = [k \in TupleKey |-> IF lock_table[k] = tx THEN NoTx
                                                ELSE lock_table[k]]
          /\ UNCHANGED <<transaction_count, active_transactions, tx_state>>
      BY <2>0, <2>1, <2>6, <3>1, MaxTxIdAssumption
      DEF ReleaseLocks, ReleaseAllLocks, IInv, Coherent, NoOrphanLock, NoTx, TxID
    <3>3. TwoPhase!Unlock(tx)
      BY <2>1, <2>2, <3>1, <3>2, PhaseFrame DEF TwoPhase!Unlock
    <3> QED
      BY <2>1, <3>1, <3>3 DEF TwoPhase!Next
  <2>7. CASE Erase(s)
    <3>1. InTx(s) /\ pc[s] = "erase"
      BY <2>7 DEF Erase, InTx, InCommitOrAbort
    <3>2. /\ active_transactions' = active_transactions \ {tx}
          /\ UNCHANGED <<lock_table, transaction_count, tx_state>>
      BY <2>0, <2>7 DEF Erase, EraseTransaction
    <3>3. tx_state[tx] = "COMMITTED"
      BY <2>0, <3>1 DEF IInv, Coherent, PcTellsProgress
    <3>4. \A t \in TxID : StateOf(t)' = StateOf(t)
      BY <3>2, <3>3 DEF StateOf
    <3>5. \A t \in TxID : Phase(t)' = Phase(t)
      BY <3>2, <3>4 DEF Phase, IsActive
    <3> QED
      BY <3>2, <3>5 DEF TwoPhase!twoPhaseVars
  <2>8. CASE \E k \in TupleKey : InsertRow(s, k)
    BY <1>0, <2>8 DEF InsertRow, AddToWriteSet
  <2>9. ASSUME NEW statement \in Statements, RunQuery(s, statement)
        PROVE  [TwoPhase!Next]_(TwoPhase!twoPhaseVars)
    BY <1>0, <2>3, <2>9 DEF RunQuery, IsolationLevel
  <2>10. CASE \E level \in IsolationLevel : BeginTransaction(s, level)
    BY <2>3, <2>10 DEF BeginTransaction
  <2>11. CASE \/ Connect(s) \/ ReadCompletes(s) \/ ReplyWritten(s)
              \/ CommitCommand(s) \/ AbortCommand(s) \/ HandleAbort(s) \/ ConnectionError(s)
    BY <1>0, <2>11 DEF Connect, ReadCompletes, ReplyWritten, CommitCommand, AbortCommand,
                       HandleAbort, ConnectionError
  <2>12. CASE \/ \E k \in TupleKey : ScanRow(s, k)
              \/ \E n \in TableName : CreateTableStatement(s, n)
              \/ TryAcquireFails(s) \/ LockTimeout(s) \/ ScanEnds(s)
              \/ StatementFails(s) \/ StatementDone(s) \/ CommitTables(s) \/ AbortTables(s)
    BY <1>0, <2>12 DEF ScanRow, CreateTableStatement, TryAcquireFails, LockTimeout, ScanEnds,
                       StatementFails, StatementDone, CommitTables, AbortTables
  <2> QED
    BY <1>2, <2>4, <2>5, <2>6, <2>7, <2>8, <2>9, <2>10, <2>11, <2>12 DEF Dispatch, WorkerStep
<1> QED
  BY <1>1, <1>2 DEF Next

\* The server implements the safety part of strict two-phase locking.
THEOREM LocksAreTwoPhase ==
    ASSUME NoGarbageId
    PROVE  Spec => TwoPhaseSafety
<1>1. Init => TwoPhase!Init
  <2> SUFFICES ASSUME Init PROVE TwoPhase!Init
    OBVIOUS
  <2>1. \A t \in TxID : Phase(t) = "new"
    BY MaxTxIdAssumption DEF Init, TransactionsInit, Phase, TxID
  <2> QED
    BY <2>1 DEF Init, LockTableInit, TwoPhase!Init
<1>2. IInv /\ IInv' /\ [Next]_vars => [TwoPhase!Next]_(TwoPhase!twoPhaseVars)
  BY StepIsTwoPhase
<1> QED
  BY <1>1, <1>2, Invariance, PTL DEF Spec, TwoPhaseSafety, TwoPhase!Safety
================================================================================
