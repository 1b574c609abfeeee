-------------------------------- MODULE Session --------------------------------
(****************************************************************************)
(* server/session.cc on top of the transaction manager, the lock manager    *)
(* and the catalog: what the worker threads of the server do for their      *)
(* clients, at the granularity of the critical sections.                    *)
(*                                                                          *)
(* A session's handlers run on one strand, so a session is one sequential   *)
(* process.  Its pc says where its current callback stands:                 *)
(*                                                                          *)
(*   closed         no connection                                           *)
(*   read           async_read is waiting for the client                    *)
(*   queued         the read has completed, no worker has run its callback  *)
(*   scan, acquire, retry, insert, create, done                             *)
(*                  inside execute_query                                    *)
(*   commit_tables  commit_transaction, before the catalog is asked         *)
(*   abort_tables   _abort_transaction, before undo and the catalog         *)
(*   set_committed, release, erase                                          *)
(*                  the tail that commit and abort share                    *)
(*   reply          the response is being written                           *)
(*                                                                          *)
(* Rows are abstracted to the tuples that can be locked and who inserted    *)
(* them; their versions are the subject of module HeapFile.                 *)
(****************************************************************************)
EXTENDS Catalog, FiniteSets

CONSTANTS
    Sessions,       \* the connections that may be open at the same time
    WorkerThreads,  \* WORKER_THREADS of bin/server.cc
    InitialRows,    \* tuples that exist when the server starts
    UninitTxIds     \* what Session::tx_id may hold before its first assignment

ASSUME SessionAssumption ==
    /\ WorkerThreads \in Nat \ {0}
    /\ InitialRows \subseteq TupleKey
    /\ UninitTxIds \subseteq Nat

VARIABLES
    session_state,  \* Session::state: 1 inside BEGIN ... COMMIT
    tx_id,          \* Session::tx_id
    pc,
    todo,           \* the rows a scan has not visited yet
    want,           \* the tuple a thread in try_acquire_lock asks for
    closing,        \* the running abort was started by handle_abort
    rows,           \* the tuples that exist
    t_min           \* the transaction that inserted a tuple, NoTx before start

sessionVars == <<session_state, tx_id, pc, todo, want, closing>>
rowVars == <<rows, t_min>>
vars == <<lock_table, tmVars, catalogVars, sessionVars, rowVars>>

Statements == {"scan", "insert", "create"}
InStatement == Statements \cup {"acquire", "retry", "done"}
InCommitOrAbort ==
    {"commit_tables", "abort_tables", "set_committed", "release", "erase"}
InCallback == InStatement \cup InCommitOrAbort \cup {"reply"}
PC == InCallback \cup {"closed", "read", "queued"}

TypeOK ==
    /\ LockTableType
    /\ TransactionsType
    /\ CatalogType
    /\ session_state \in [Sessions -> {0, 1}]
    /\ tx_id \in [Sessions -> UninitTxIds \cup TxID]
    /\ pc \in [Sessions -> PC]
    /\ todo \in [Sessions -> SUBSET TupleKey]
    /\ want \in [Sessions -> SUBSET TupleKey]
    /\ closing \in [Sessions -> BOOLEAN]
    /\ rows \in SUBSET TupleKey
    /\ t_min \in [TupleKey -> TxID \cup {NoTx}]

Init ==
    /\ LockTableInit
    /\ TransactionsInit
    /\ CatalogInit
    /\ session_state = [s \in Sessions |-> 0]
    /\ tx_id \in [Sessions -> UninitTxIds]
    /\ pc = [s \in Sessions |-> "closed"]
    /\ todo = [s \in Sessions |-> {}]
    /\ want = [s \in Sessions |-> {}]
    /\ closing = [s \in Sessions |-> FALSE]
    /\ rows = InitialRows
    /\ t_min = [k \in TupleKey |-> NoTx]

--------------------------------------------------------------------------------
(****************************************************************************)
(* Helpers.                                                                 *)
(****************************************************************************)

GoTo(s, label) == pc' = [pc EXCEPT ![s] = label]

\* A worker runs one callback to its end; a thread that sleeps in
\* try_acquire_lock keeps its worker.
FreeWorker == Cardinality({s \in Sessions : pc[s] \in InCallback}) < WorkerThreads

\* A worker takes the callback of session s.
Dispatched(s) == pc[s] = "queued" /\ FreeWorker

\* execute_query is called with commit_at_end exactly when state is 0.
CommitAtEnd(s) == session_state[s] = 0

\* What a scan of a READ COMMITTED transaction yields (HeapFile::is_visible):
\* rows of transactions that are not active, and its own.  Under SNAPSHOT
\* ISOLATION is_visible answers false for every row.
Visible(t, k) ==
    /\ k \in rows
    /\ isolation_level[t] = "READ_COMMITTED"
    /\ ~IsActive(t_min[k]) \/ t_min[k] = t

\* commit_transaction up to its try block; it throws when the transaction is
\* unknown or not active.
EnterCommit(s) ==
    GoTo(s, IF IsActive(tx_id[s]) THEN "commit_tables" ELSE "reply")

\* abort_transaction up to _abort_transaction; it throws when the transaction
\* is unknown.
EnterAbort(s) ==
    GoTo(s, IF tx_id[s] \in active_transactions THEN "abort_tables" ELSE "reply")

--------------------------------------------------------------------------------
(****************************************************************************)
(* The client and the network.                                              *)
(****************************************************************************)

\* Listener::run makes a Session, whose tx_id is not initialized.
Connect(s) ==
    /\ pc[s] = "closed"
    /\ GoTo(s, "read")
    /\ session_state' = [session_state EXCEPT ![s] = 0]
    /\ \E garbage \in UninitTxIds : tx_id' = [tx_id EXCEPT ![s] = garbage]
    /\ UNCHANGED <<lock_table, tmVars, catalogVars, rowVars, todo, want, closing>>

\* A query, an end of file or an error completes the pending read.
ReadCompletes(s) ==
    /\ pc[s] = "read"
    /\ GoTo(s, "queued")
    /\ UNCHANGED <<lock_table, tmVars, catalogVars, rowVars, session_state,
                   tx_id, todo, want, closing>>

\* read_header, read_query or process_query meet end of file: handle_abort.
\* It calls abort_transaction in both branches on state, and swallows the
\* exception of an unknown transaction.
HandleAbort(s) ==
    /\ Dispatched(s) \/ pc[s] = "reply"
    /\ IF tx_id[s] \in active_transactions
       THEN /\ GoTo(s, "abort_tables")
            /\ closing' = [closing EXCEPT ![s] = TRUE]
            /\ UNCHANGED session_state
       ELSE /\ GoTo(s, "closed")
            /\ session_state' = [session_state EXCEPT ![s] = 0]
            /\ UNCHANGED closing
    /\ UNCHANGED <<lock_table, tmVars, catalogVars, rowVars, tx_id, todo, want>>

\* The same three places meet any other error: the session is dropped and
\* nothing else happens.
ConnectionError(s) ==
    /\ Dispatched(s) \/ pc[s] = "reply"
    /\ GoTo(s, "closed")
    /\ UNCHANGED <<lock_table, tmVars, catalogVars, rowVars, session_state,
                   tx_id, todo, want, closing>>

\* The response is written and read_header waits for the next query.
ReplyWritten(s) ==
    /\ pc[s] = "reply"
    /\ GoTo(s, "read")
    /\ UNCHANGED <<lock_table, tmVars, catalogVars, rowVars, session_state,
                   tx_id, todo, want, closing>>

--------------------------------------------------------------------------------
(****************************************************************************)
(* run_query.  BEGIN inside a transaction, and COMMIT or ABORT outside one, *)
(* only write a reply and are left out; so is VACUUM, which changes nothing *)
(* of this module's state.                                                  *)
(****************************************************************************)

BeginTransaction(s, level) ==
    /\ Dispatched(s)
    /\ session_state[s] = 0
    /\ StartTransaction(level)
    /\ tx_id' = [tx_id EXCEPT ![s] = transaction_count]
    /\ session_state' = [session_state EXCEPT ![s] = 1]
    /\ GoTo(s, "reply")
    /\ UNCHANGED <<lock_table, catalogVars, rowVars, todo, want, closing>>

\* A SELECT, UPDATE or DELETE scans rows; an INSERT or a CREATE TABLE does not.
\* Outside a transaction the query gets a READ COMMITTED one of its own.
RunQuery(s, statement) ==
    /\ Dispatched(s)
    /\ IF session_state[s] = 0
       THEN /\ StartTransaction("READ_COMMITTED")
            /\ tx_id' = [tx_id EXCEPT ![s] = transaction_count]
       ELSE UNCHANGED <<tmVars, tx_id>>
    /\ GoTo(s, statement)
    /\ todo' = [todo EXCEPT ![s] = IF statement = "scan" THEN TupleKey ELSE {}]
    /\ UNCHANGED <<lock_table, catalogVars, rowVars, session_state, want, closing>>

CommitCommand(s) ==
    /\ Dispatched(s)
    /\ session_state[s] = 1
    /\ EnterCommit(s)
    /\ UNCHANGED <<lock_table, tmVars, catalogVars, rowVars, session_state,
                   tx_id, todo, want, closing>>

AbortCommand(s) ==
    /\ Dispatched(s)
    /\ session_state[s] = 1
    /\ EnterAbort(s)
    /\ UNCHANGED <<lock_table, tmVars, catalogVars, rowVars, session_state,
                   tx_id, todo, want, closing>>

--------------------------------------------------------------------------------
(****************************************************************************)
(* execute_query.                                                           *)
(****************************************************************************)

\* UpdateIter and DeletionIter get the next row of their scan and ask for its
\* lock.  A scan visits every tuple once.
ScanRow(s, k) ==
    /\ pc[s] = "scan"
    /\ k \in todo[s]
    /\ Visible(tx_id[s], k)
    /\ todo' = [todo EXCEPT ![s] = @ \ {k}]
    /\ want' = [want EXCEPT ![s] = {k}]
    /\ GoTo(s, "acquire")
    /\ UNCHANGED <<lock_table, tmVars, catalogVars, rowVars, session_state,
                   tx_id, closing>>

\* try_acquire_lock: a pass that finds the key free or its own.
TryAcquireSucceeds(s) ==
    /\ pc[s] \in {"acquire", "retry"}
    /\ \E k \in want[s] : AcquireLock(tx_id[s], k)
    /\ want' = [want EXCEPT ![s] = {}]
    /\ GoTo(s, "scan")
    /\ UNCHANGED <<catalogVars, rowVars, session_state, tx_id, todo, closing>>

\* try_acquire_lock: a pass that finds the key taken sleeps and tries again.
TryAcquireFails(s) ==
    /\ pc[s] = "acquire"
    /\ \E k \in want[s] : ~CanLock(tx_id[s], k)
    /\ GoTo(s, "retry")
    /\ UNCHANGED <<lock_table, tmVars, catalogVars, rowVars, session_state,
                   tx_id, todo, want, closing>>

\* Mutant: try_acquire_lock waits without a limit.
LockTimeout_Never(s) == FALSE /\ UNCHANGED vars

\* try_acquire_lock: MAX_TIME has passed since the call began, the transaction
\* is aborted and TransactionAbortException thrown.  How many passes fit in
\* MAX_TIME is left open.
LockTimeout(s) ==
    /\ pc[s] = "retry"
    /\ EnterAbort(s)
    /\ want' = [want EXCEPT ![s] = {}]
    /\ todo' = [todo EXCEPT ![s] = {}]
    /\ UNCHANGED <<lock_table, tmVars, catalogVars, rowVars, session_state,
                   tx_id, closing>>

\* The scan is exhausted (rows that are not visible or do not match, or that a
\* SELECT reads without a lock, are passed over).
ScanEnds(s) ==
    /\ pc[s] = "scan"
    /\ todo' = [todo EXCEPT ![s] = {}]
    /\ GoTo(s, "done")
    /\ UNCHANGED <<lock_table, tmVars, catalogVars, rowVars, session_state,
                   tx_id, want, closing>>

\* HeapFile::insert_record: the row gets a fresh RID and its key goes to the
\* write set, without a lock.  Nobody else sees the row between the two steps.
InsertRow(s, k) ==
    /\ pc[s] = "insert"
    /\ k \notin rows
    /\ rows' = rows \cup {k}
    /\ t_min' = [t_min EXCEPT ![k] = tx_id[s]]
    /\ AddToWriteSet(tx_id[s], k)
    /\ GoTo(s, "done")
    /\ UNCHANGED <<lock_table, catalogVars, session_state, tx_id, todo, want,
                   closing>>

CreateTableStatement(s, n) ==
    /\ pc[s] = "create"
    /\ CreateTable(n, tx_id[s])
    /\ GoTo(s, "done")
    /\ UNCHANGED <<lock_table, tmVars, rowVars, session_state, tx_id, todo,
                   want, closing>>

\* An exception other than TransactionAbortException (parsing, unknown or
\* existing table, type mismatch in the middle of an UPDATE): the transaction
\* of an autocommit query is aborted, one begun by the client goes on.
StatementFails(s) ==
    /\ pc[s] \in Statements
    /\ IF CommitAtEnd(s) THEN EnterAbort(s) ELSE GoTo(s, "reply")
    /\ todo' = [todo EXCEPT ![s] = {}]
    /\ UNCHANGED <<lock_table, tmVars, catalogVars, rowVars, session_state,
                   tx_id, want, closing>>

\* An autocommit query commits; a commit that is refused is caught like any
\* other failure of the query, and aborts.
StatementDone(s) ==
    /\ pc[s] = "done"
    /\ IF ~CommitAtEnd(s) THEN GoTo(s, "reply")
       ELSE IF IsActive(tx_id[s]) THEN EnterCommit(s) ELSE EnterAbort(s)
    /\ UNCHANGED <<lock_table, tmVars, catalogVars, rowVars, session_state,
                   tx_id, todo, want, closing>>

--------------------------------------------------------------------------------
(****************************************************************************)
(* The bodies of commit_transaction and _abort_transaction.                 *)
(****************************************************************************)

\* Mutant: the names are tested inside the loop that publishes the tables.
CommitTables_TestInLoop(s) ==
    /\ pc[s] = "commit_tables"
    /\ tables' = tables \cup [name : in_process_tables[tx_id[s]] \ CommittedNames,
                              creator : {tx_id[s]}]
    /\ IF NameClash(tx_id[s])
       THEN GoTo(s, "abort_tables") /\ UNCHANGED in_process_tables
       ELSE /\ GoTo(s, "set_committed")
            /\ in_process_tables' = [in_process_tables EXCEPT ![tx_id[s]] = {}]
    /\ UNCHANGED <<lock_table, tmVars, rowVars, session_state, tx_id, todo,
                   want, closing>>

\* A name clash makes the commit an abort: commit_transaction catches the
\* exception, aborts, and throws it again.
CommitTables(s) ==
    /\ pc[s] = "commit_tables"
    /\ IF NameClash(tx_id[s])
       THEN GoTo(s, "abort_tables") /\ UNCHANGED catalogVars
       ELSE GoTo(s, "set_committed") /\ CommitInProgressTables(tx_id[s])
    /\ UNCHANGED <<lock_table, tmVars, rowVars, session_state, tx_id, todo,
                   want, closing>>

\* Transaction::abort calls HeapFile::undo for every key of the write set;
\* undo returns without a change to any record.
AbortTables(s) ==
    /\ pc[s] = "abort_tables"
    /\ AbortInProgressTables(tx_id[s])
    /\ GoTo(s, "set_committed")
    /\ UNCHANGED <<lock_table, tmVars, rowVars, session_state, tx_id, todo,
                   want, closing>>

SetStateCommitted(s) ==
    /\ pc[s] = "set_committed"
    /\ SetCommitted(tx_id[s])
    /\ GoTo(s, "release")
    /\ UNCHANGED <<lock_table, catalogVars, rowVars, session_state, tx_id, todo,
                   want, closing>>

ReleaseLocks(s) ==
    /\ pc[s] = "release"
    /\ ReleaseAllLocks(tx_id[s], first_rids[tx_id[s]])
    /\ GoTo(s, "erase")
    /\ UNCHANGED <<tmVars, catalogVars, rowVars, session_state, tx_id, todo,
                   want, closing>>

\* Mutant: Session::state is not reset.
Erase_StateKept(s) ==
    /\ pc[s] = "erase"
    /\ EraseTransaction(tx_id[s])
    /\ GoTo(s, IF closing[s] THEN "closed" ELSE "reply")
    /\ closing' = [closing EXCEPT ![s] = FALSE]
    /\ UNCHANGED <<lock_table, catalogVars, rowVars, session_state, tx_id, todo,
                   want>>

\* The entry is erased and the call returns, or throws, to the session: COMMIT,
\* ABORT, handle_abort and handle_system_abort set state to 0, and an autocommit
\* query has it at 0 already.
Erase(s) ==
    /\ pc[s] = "erase"
    /\ EraseTransaction(tx_id[s])
    /\ session_state' = [session_state EXCEPT ![s] = 0]
    /\ GoTo(s, IF closing[s] THEN "closed" ELSE "reply")
    /\ closing' = [closing EXCEPT ![s] = FALSE]
    /\ UNCHANGED <<lock_table, catalogVars, rowVars, tx_id, todo, want>>

--------------------------------------------------------------------------------

\* What a worker thread does next for the callback it is running.
WorkerStep(s) ==
    \/ \E k \in TupleKey : ScanRow(s, k) \/ InsertRow(s, k)
    \/ TryAcquireSucceeds(s) \/ TryAcquireFails(s) \/ LockTimeout(s)
    \/ ScanEnds(s)
    \/ \E n \in TableName : CreateTableStatement(s, n)
    \/ StatementFails(s) \/ StatementDone(s)
    \/ CommitTables(s) \/ AbortTables(s)
    \/ SetStateCommitted(s) \/ ReleaseLocks(s) \/ Erase(s)

\* A worker takes a callback from the io_context queue.
Dispatch(s) ==
    \/ \E level \in IsolationLevel : BeginTransaction(s, level)
    \/ \E statement \in Statements : RunQuery(s, statement)
    \/ CommitCommand(s) \/ AbortCommand(s)
    \/ HandleAbort(s) \/ ConnectionError(s)

Next ==
    \E s \in Sessions :
        Connect(s) \/ ReadCompletes(s) \/ ReplyWritten(s) \/ Dispatch(s) \/ WorkerStep(s)

\* A running callback goes on (its thread is scheduled, and once MAX_TIME has
\* passed a waiting thread finds that out on its next pass); a reply is written
\* or fails; a queued callback is eventually given a worker, since the queue of
\* io_context is first in, first out.  Nothing makes a client send a query.
Fairness ==
    \A s \in Sessions :
        /\ WF_vars(WorkerStep(s))
        /\ WF_vars(ReplyWritten(s))
        /\ SF_vars(Dispatch(s))

Spec == Init /\ [][Next]_vars /\ Fairness

--------------------------------------------------------------------------------
(****************************************************************************)
(* Correctness.                                                             *)
(****************************************************************************)

\* No lock is ever orphaned: the holder of a lock still has a Transaction
\* object, and the key is in the write set that release_all_locks will walk
\* (try_acquire_lock inserts in both tables inside one critical section).
NoOrphanLock ==
    \A k \in TupleKey :
        lock_table[k] # NoTx =>
            /\ lock_table[k] \in active_transactions
            /\ k \in first_rids[lock_table[k]]

\* Between two queries a session believes it is inside a transaction exactly
\* when its transaction is active: COMMIT, ABORT, a lock timeout and a failed
\* commit all bring Session::state back to 0, and nothing else does.
StateMatchesTransaction ==
    \A s \in Sessions :
        pc[s] \in {"read", "queued", "reply"} =>
            (session_state[s] = 1 <=> IsActive(tx_id[s]))

\* Two open sessions never work on the same live transaction.
NoSharedTransaction ==
    \A s, r \in Sessions :
        /\ s # r
        /\ pc[s] # "closed" /\ tx_id[s] \in active_transactions
        /\ pc[r] # "closed" /\ tx_id[r] \in active_transactions
        => tx_id[s] # tx_id[r]

\* The snapshot of start_transaction misses nobody: an older transaction that
\* is still active now is in the snapshot of every younger one.
SnapshotCoversActive ==
    \A t \in active_transactions :
        isolation_level[t] = "SNAPSHOT_ISOLATION" =>
            \A u \in ActiveNow : u < t => u \in snapshot[t]

\* The committed tables have different names, although two transactions may
\* create the same name and both reach commit_in_progress_tables.
UniqueTableNames ==
    \A a, b \in tables : a.name = b.name => a = b

\* A transaction without an object leaves no table in creation behind.
NoOrphanTable ==
    \A t \in TxID : in_process_tables[t] # {} => t \in active_transactions

\* The tables of a transaction are published all together or not at all
\* (catalog.cc:289).
TablesAllOrNothing ==
    [][\A t \in TxID :
          in_process_tables'[t] # in_process_tables[t] /\ in_process_tables'[t] = {} =>
              LET published == {n \in in_process_tables[t] :
                                   [name |-> n, creator |-> t] \in tables'}
              IN  published \in {{}, in_process_tables[t]}]_vars

TwoPhase == INSTANCE StrictTwoPhaseLocking
    WITH Tx <- TxID, Key <- TupleKey, NoTx <- NoTx,
         phase <- [t \in TxID |-> Phase(t)], owner <- lock_table

\* The locks follow strict two-phase locking: a transaction takes a lock only
\* while it is active, and gives its locks up all together and only after it has
\* been marked committed (lock_manager.cc:48, transaction_manager.cc:114).
TwoPhaseSafety == TwoPhase!Safety

\* And a finished transaction does give its locks up.
TwoPhaseSpec == TwoPhase!Spec

\* A query that has arrived gets a worker and its callback ends: no thread waits
\* for a lock for ever, even when all workers sleep in try_acquire_lock, when the
\* transactions of two sessions wait for each other, or when the holder's client
\* is silent, because the wait is bounded by MAX_TIME.
CallbackEnds ==
    LET Begun(s) == pc[s] \in InCallback \cup {"queued"}
    IN  \A s \in Sessions : Begun(s) ~> ~Begun(s)

--------------------------------------------------------------------------------
(****************************************************************************)
(* What comments of the code say and the code does not do.                  *)
(****************************************************************************)

\* session.cc:234: a client that disconnects in the middle of a transaction has
\* it aborted.  ConnectionError leaves it active.
DisconnectAborts ==
    \A s \in Sessions : pc[s] = "closed" => tx_id[s] \notin active_transactions

\* session.cc:234: the abort of a disconnect is for a client in the middle of a
\* transaction.  handle_abort calls abort_transaction for the others too, with
\* whatever tx_id holds.
DisconnectAbortsOnlyInTransaction ==
    \A s \in Sessions : closing[s] => session_state[s] = 1
================================================================================
