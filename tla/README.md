# TLA+ models of the IIC3413 database server

The program is a small relational database: a TCP server whose worker threads
run SQL statements inside multi-version transactions, on heap files that are
cached in a buffer pool.  This directory specifies its concurrent core and its
query layer in TLA+, checks them with TLC on small instances, and proves the safety
properties of the server, of record versions, of pages and of the buffer pool with
TLAPS for instances of any size.  Source paths below are relative to `src/src/`.

## 1. Inventory

| Component | State | Operations | What makes it correct |
|---|---|---|---|
| **Server**: `bin/server.cc`, `server/listener.cc`, `server/session.cc` | a session: socket, `state`, `tx_id`; 8 worker threads around one `io_context` | accept, read a query, `run_query` (BEGIN, COMMIT, ABORT, VACUUM, SQL), `handle_abort`, `handle_system_abort` | `state` agrees with the life of the transaction; every callback ends; every query is served |
| **Transaction manager**: `system/transaction_manager.cc`, `relational_model/transaction.*` | map of `Transaction` objects: state, snapshot, write set | start, commit, abort, `get_states`, `add_to_write_set` | ids are never shared; snapshots are complete; commit is all or nothing |
| **Lock manager**: `system/lock_manager.cc` | tuple key -> holder | `try_acquire_lock` (polling, 10 s limit), `release_all_locks` | strict two-phase locking; no lock without a live holder; no wait for ever |
| **Catalog**: `system/catalog.cc` | committed tables, tables in creation, counters | create, look up, commit or abort the tables of a transaction, `vacuum`; load and save | unique names; tables are published together |
| **Heap file**: `storage/heap_file/heap_file.cc` | a record has `t_min`, `t_max`, `next`, `first`; `last_insert_page` | insert, read, update, delete, undo, vacuum | chains do not fork; no lost update; no dirty read; an INSERT finds a page |
| **Heap file pages**: `storage/heap_file/heap_file_page.cc`, `heap_file_iter.cc` | a slotted page: directory, free space, records | open, insert, delete physically, scan, vacuum | records never overlap; a scan meets every row; VACUUM gives all dead space back |
| **Buffer manager**: `system/buffer_manager.cc`, `system/file_manager.*`, `storage/page.*` | frames, `page_map`, clock; one file descriptor per table | `get_page`, pin, unpin, write, flush, `count_pages`, delete | a pinned frame keeps its page; the cache is coherent; nothing is lost on shutdown |
| **Executor**: `query/executor/` | iterators over records | scan, filter, project, joins, insert, update, delete | results equal the relational definition; nothing is read out of range |
| **Optimizer**: `query/optimizer/` | the columns needed above a node | one visit per plan, join order | the physical plan has the columns its parents read |
| **Rewriter**: `query/parser/query_rewriter/` | plans | `BuildJoins`, `PushSelection` | rewriting keeps the meaning |
| **Parser, preprocessor**: `query/parser/` | parse trees, alias tables, logical plans | ANTLR grammar, resolve names, check types | a text has the tree that is meant; what is accepted can be run |
| **Tools**: `bin/` | none of their own | client, loaders | input and output only |

The components interact by direct calls through the globals of
`system/system.h`, from any worker thread.  A session's callbacks run on one
strand, so a session is sequential; everything else is shared and is protected
by `lock_table_mutex`, `active_transaction_mutex`, `tables_mutex`,
`pages_mutex` and one `edit_mutex` per page.  The hard behaviours are the steps
*between* these critical sections: commit and abort take four of them, `read`
and `update` take one or more per version, `get_page` makes several system
calls on a shared file offset, and a thread may sleep in `try_acquire_lock`
while it occupies a worker.  In the query layer the hard part is that a plan
passes through five representations, each of which finds columns in its own way
(by name, by alias, by position), and that under READ COMMITTED the tables change
between two calls of `next()`.  `PROJECT.json` lists every hazard at its line.

## 2. Modules

```
LockManager  <-  TransactionManager  <-  Catalog  <-  Session  <-  SessionProofs
                        ^                               | refines
                        |                     StrictTwoPhaseLocking
                     HeapFile  <-  HeapFileProofs  <-  AtomicityProofs
                        | refines
                  AtomicUpdates  - - uses - ->  StrictTwoPhaseLocking

HeapFilePage  <-  HeapFilePageProofs          BufferManager  <-  BufferManagerProofs

                              QueryRewriter  <-  Optimizer  <-  QueryExecutor
                              /                                       \
QueryPlan <- QueryPreprocessor                                         Query
                              \                                       /  |
                              QueryReference  <-----------------------  Grammar
```

An arrow points to the module that is extended (`Query` takes `Grammar` by
INSTANCE).  The `MC*` modules only add the sets for TLC: symmetries, the values
an uninitialized entry may have, and for `MCQuery` the tables and statements.
Operators whose names have the form `Operation_Bug` (`Sweep_NoWrap`, for example)
are no part of the specifications: each one is a version of an operation with a
plausible bug, and replaces it to show that a property notices.

**LockManager** says how the lock table changes; **TransactionManager** adds
the map of transactions; **Catalog** the tables.  They have no `Next`: their
operators are the critical sections, which the modules below put in order.

**Session** is the composition.  A session's `pc` stands for the place its
callback has reached; section comments in the module list the values.
`commit_transaction` and `_abort_transaction` are split at every critical
section and at the assignment of the atomic `state`
(`CommitTables`/`AbortTables`, `SetStateCommitted`, `ReleaseLocks`, `Erase`), so
that other threads run in between.  `FreeWorker` limits the callbacks that run
at a time; a thread that sleeps in `try_acquire_lock` keeps its worker.  Rows are
reduced to who inserted them, which is all a scan needs to choose what to lock.
An uninitialized `Session::tx_id` is an arbitrary member of `UninitTxIds`.

**StrictTwoPhaseLocking** is the promise of the comments at
`lock_manager.cc:48` and `transaction_manager.cc:114`, without sessions:
a transaction acquires locks while it runs and gives all of them up together
after it has finished.  `Session!TwoPhaseSpec` is the refinement.

**HeapFile** has the version chains of one table.  `read` is split into the copy
of a header, the two reads of transaction states, and the decision; `update` into
the lock, the second read, the walk to the last version, the insertion and the
link.  A record's value is the set of transactions whose updates it contains,
which makes a lost update visible.  `candidates` is a history variable: what an
instantaneous read could have returned at some moment since the read began.

**AtomicUpdates** is what `HeapFile` promises to transactions: tuples with one value
each, no versions, no chains and no threads.  An INSERT and an UPDATE are one step
each; an UPDATE needs the tuple's lock, starts from the value there is and is never
on top of the write of another unfinished transaction; the locks are those of
`StrictTwoPhaseLocking`.  The refinement (`HeapFile!UpdatesAreAtomic`) maps the value
of a tuple to that of the open end of its chain (`Contents`), so that the moment of an
UPDATE is the link, and the insertion of the unlinked version is a stutter.

**BufferManager** has the frames, the clock, the map and one file.  The bytes of
a page are a stamp; `latest` remembers the last stamp written, as a store without
a cache would.  `lseek`, `write` and `read` are separate steps because
`count_pages` moves the same offset without a mutex.  With `IOMayFail` a flush, the
extension of the file and a read may fail; the last two leave the frame pinned.
`Shutdown` is the destructor: it writes the dirty frames in order, and a frame that
is still pinned (`assert`) or that cannot be written ends it there.

**HeapFilePage** has the cells of the pages of one table, addressed as the code
addresses bytes, and the loops of `insert_record`, `HeapFileIter` and `vacuum`
over them.  A step is one critical section of a page's `edit_mutex`, one access
to the atomic `last_insert_page`, or one access to a page's header without a lock:
the constructor (`CheckNew`, `CheckFree`, `InitPage`) and the `get_dir_count` of
`HeapFileIter::next` (`ReadCount`) take none.  `vacuum` is two steps, `VacuumPage` and
`WriteHeader`, because it copies a page with an uninitialized header and writes the
counts afterwards; in between (`HeaderPending`) whoever reads the header without the
mutex may find any value of `Uninit`.

Four variables are history.  `rows` is what `insert_record` reported, and what every
other operation has to leave alone; `owed` what a scan has still to meet; `misled` the
pages whose half-written header a scan has read; and `defect` says how a page was
damaged: by an initialization after the first INSERT (`"reinitialized"`,
`heap_file_page.cc:17`) or by the uninitialized entry that VACUUM leaves in a page
without entries (`"garbage_entry"`, `heap_file_page.cc:367`).  After a damage the model
goes on, but what the code would then write behind the end of a page is left out.

The query modules follow one statement through `Session::execute_query`:

* **Grammar**: the parser rules of the generated `IIC3413DBParser`.  A rule is an
  operator that maps a sequence of tokens to the set of all its derivations.  There
  is more than one where an operand may be empty: `a = - 1` is a sign, or a
  subtraction from nothing.  `Predicted` is the one the recognizer follows.  Tokens
  are taken as the lexer delivers them.
* **QueryPlan**, **QueryPreprocessor**: logical plans and expressions, name and
  type resolution, and which statements are refused (`Accepts`) or follow a null
  pointer (`PreprocessorCrashes`).  Integers have `INT_BITS` bits: sums and products
  wrap around, and the quotient of the least integer and -1, which traps, is
  `Asserted`.
* **QueryRewriter**: `BuildJoins` and `PushSelection`, and the assertions in them.
* **Optimizer**: the visit methods with the set of required columns.  The order
  of a join is a parameter: `beam_search_join_order` is unfinished in the repository
  and returns no order, upon which the optimizer reads the first of no children.  TLC
  tries this (rank `<<>>`) and every order the contract in `join_order.h` admits.
* **QueryExecutor**: an iterator is a record with its position, and `IterBegin`,
  `IterNext` and `IterReset` are functions of it and of the tables.  A value has
  its type; `Thrown`, `Asserted` and `Undefined` are the results of an exception, of
  a failed assertion or a trap, and of undefined behaviour: a read past the end of a
  vector, or `like_match`, which has no return statement and may also give a truth
  value.
* **QueryReference** is the abstract specification: what a statement means, by
  sets of bindings of the FROM items, with no plan and no iterator; and
  `PlanMeaning`, what a logical plan means.
* **Query** puts them in order, one step per phase and per `next()`, next to
  other transactions that commit.

## 3. Runs

| Run | Checks | Shows |
|---|---|---|
| `session_locks` | `TypeOK`, `NoOrphanLock`, `StateMatchesTransaction`, `NoSharedTransaction`, `SnapshotCoversActive`, `TwoPhaseSafety`, `UniqueTableNames`, `NoOrphanTable`, `TablesAllOrNothing` | transactions, locks, tables and sessions stay consistent, also with concurrent CREATE TABLE of the same names |
| `session_liveness` | `TwoPhaseSpec`, `CallbackEnds` | the only worker sleeps in `try_acquire_lock` while the COMMIT that would free the lock is queued: the timeout resolves it, also for crossed requests |
| `heap_file_updates` | `ChainsWellFormed`, `OneOpenEnd`, `NoLostUpdate`, `UpdatesAreSerializable`, `ReadIsLatestCommitted`, `NoDirtyRead`, `UpdatesAreAtomic` and the types | concurrent readers and writers of the same tuples |
| `heap_page` | `RowsIntact`, `NoPhantomRow`, `FreeSpaceIsFree`, `ScanMeetsEveryRow`, `VacuumReclaims`, `InsertReturns` and the types | inserts, scans, VACUUM and physical deletions on the same pages, with the unlocked accesses to headers and any value in uninitialized memory: what holds until a page is damaged, and that only the two named steps damage one |
| `buffer_pins` | `PinsCountUsers`, `MapIsExact`, `GetPageReturns` and the types | pins and `page_map` are exact, and the clock always finds a frame |
| `buffer_write_fails` | `HeldFramesKeepTheirPage`, `PinnedPageIsLatest`, `NoWriteIsLost` | the pool as a cache: a flush, an extension of the file or a read that fails loses nothing and takes no pinned frame away; a destructor that is stopped loses the dirty frames it has not reached and nothing else |
| `query_select` | `ParseIsMeant`, `SelectIsRight`, `RewritesKeepMeaning`, `NoInventedRow`, `UpdateIsRight`, `PlainStatementsRun` and the types | statements of every kind from tokens to reply, against the reference, with one commit by another transaction at any moment; the statements that crash are those of a list |

`heap_page` (for its liveness property) and `heap_file_updates` (a million states) take
longest, two to four minutes each; the others take seconds to two minutes.

Five runs state what a comment says and find that the code does otherwise:

* `session_disconnect`: only end-of-file leads to `handle_abort`.  After any
  other error the transaction stays active, and its locks stay taken, so that
  every later writer of those rows runs into the timeout.
* `session_uninit_tx_id`: `handle_abort` aborts `tx_id` also outside a
  transaction; before the first query `tx_id` is indeterminate.
* `heap_file_read_race`: `read` judges an old copy of a header with newer
  transaction states.  When the inserter of a row updates it and commits in
  between, the reader returns a version that was never the last visible one.
  (`ReadIsLatestCommitted` is what does hold: for a tuple that is visible all
  the time, the result was right at some moment of the read.)
* `buffer_count_pages`: a scan that counts pages between the `lseek` and the
  `write` of an eviction sends the page to the end of the file.
* `heap_page_reopened`: two threads open a new page, both find it new, and the second
  initializes it after the first has inserted.  The page calls all its cells free, and
  the next INSERT overwrites the row.

### Bounds

* *Session*: two sessions are enough for every property, all of which speak of
  at most two sessions or transactions at a time, and so are two transactions; that
  more of them add nothing is what the proofs show.  Two rows allow crossed lock
  requests, and the one that is inserted on the way gives the write set an unlocked
  key.  Two table names make a commit that publishes one of its tables and not the
  other possible.  `session_liveness` has two transactions, which lock two
  rows in opposite orders, and one worker fewer than sessions: a worker that
  sleeps keeps the COMMIT of the other session waiting.
* *HeapFile*: four versions, one of them there at the start, so that a tuple can be
  updated three times or two tuples be updated and inserted; two transactions.  A
  chain that names a transaction before and after another one, which a serial order
  excludes, needs three updates by two transactions.  That longer chains and more
  transactions add nothing is what the proofs show.
* *BufferManager*: one more page than frames forces evictions; two writes per
  page distinguish an old from a lost write; `MaxFileSize` leaves room for one
  misplaced page.  `GetPageReturns` needs one frame more than threads that hold
  one page and wait for another.  The real pool has tens of thousands of frames.
* *HeapFilePage*: a page holds two records and lacks one cell for a third, so that
  three rows need a second page, and a record that takes over the entry of a deleted
  one fits exactly.  Three rows, one deletion, one scan and one VACUUM meet in every
  order; VACUUM moves records over holes before and between them.  Uninitialized
  memory holds a negative number, zero or an offset inside the page, which are the
  cases the code tells apart.  Two threads are enough for a stale `compare_exchange`,
  for a VACUUM that resets `last_insert_page` under an inserter, and for two
  initializations of a page.
* *Query*: 256 texts in `MCQuery`, chosen so that each rule of the grammar,
  each branch of the preprocessor, of the rewriter and of the optimizer and each
  iterator is used: products of two and three tables, equalities between them,
  outer joins with one and two equalities, keywords as names, types that do not
  fit, names that do not exist.  Four databases have matching rows, none, a
  hole, duplicates, an empty table, and the least and the greatest integer, which
  with `INT_BITS = 4` are -8 and 7.  One commit of another transaction, at any
  call of `next()`, is what makes a second pass over a table differ from the first.
* `MaxTxId`, `MaxRid`, `MaxStamp`, `MaxFileSize`, `MaxPages`, `MaxRows`,
  `MaxVacuums`, `MaxScans`, `MaxDeletes`, `MaxCommits`, `MaxSlots` are bounds of the
  model, not of the program.  When `MaxRid` is used up a writer cannot go on, and after
  `Shutdown`, or when the pages' operations are used up, nothing happens: the runs of
  HeapFile, HeapFilePage and BufferManager do not look for deadlocks.  Those of
  Session and Query do.

### Fairness

A thread inside a callback keeps running (`WF` of `WorkerStep`): the operating
system schedules it, and a thread in `try_acquire_lock` looks at the clock on
every pass, so that the timeout is always among its next steps.  A reply is
written or fails.  A queued callback is eventually given a worker (`SF` of
`Dispatch`): the queue of `io_context` is first in, first out.  Nothing is
assumed of clients: they may stay silent for ever inside a transaction.  In
BufferManager, threads inside `get_page` keep running and threads outside unpin
what they have pinned, as the destructor of `HeapFilePage` does.  In HeapFilePage
a thread that is inserting or opening a page has to run, and one that holds an
`edit_mutex` in the middle of `vacuum` (`WF` of `InsertStep` and `WriteHeader`):
`InsertReturns` needs nothing else of the scans and VACUUMs next to it.  Query has no fairness; its
properties are invariants.

## 4. Proofs

Five modules of proofs cover every safety property that the runs of Session,
HeapFile, HeapFilePage and BufferManager check, for every value of the constants.
In each, the properties follow from an inductive invariant `IInv`, which TLC also
checked on the instance of the run; a lemma shows that `Init` establishes it, and
one lemma per part and action that `Next` keeps it.

### SessionProofs

`TypeOK`, `NoOrphanLock`, `NoSharedTransaction`, `StateMatchesTransaction`,
`NoOrphanTable`, `UniqueTableNames`, `SnapshotCoversActive`, `TablesAllOrNothing`,
and that Session refines the safety part of `StrictTwoPhaseLocking`
(`TwoPhaseSafety`).

The theorems (but `UniqueTableNames` and `TablesAllOrNothing`) assume `NoGarbageId`: an uninitialized
`tx_id` is not the id of a transaction.  Without it `session_uninit_tx_id` is a
counterexample to the argument: a new session could act on a transaction of
another one.

None of these invariants is inductive alone.  `IInv` adds to them

* `IdsAreFresh`: every id in use is below `transaction_count`, so that a new
  transaction collides with nobody;
* `SessionHasObject`: an open session is inside a transaction (`InTx`) exactly
  when its `tx_id` is in the map.  This links `Session::state` and the position
  in the callback to the transaction manager;
* `PcTellsProgress`: the position in commit or abort tells the state of the
  transaction, that at `erase` it holds no lock, and that from `set_committed` on
  it has no table in creation.  Without it, `Erase` could remove the object of a
  transaction that still holds locks.

A step that only moves a session is one lemma (`MoveKeepsCoherent`, used for twelve
actions).  In the refinement `start_transaction` is `Begin`, a lock granted is
`Lock`, the assignment of `COMMITTED` is `Finish`, `release_all_locks` is
`Unlock`, and everything else is a stutter.

### HeapFileProofs

`TypeOK`, `ChainsWellFormed`, `OneOpenEnd`, `NoLostUpdate`, `NoDirtyRead` and
`ReadIsLatestCommitted`, with no assumption beyond those of the model; and three
properties that are stated and proved here only: `DirtyVersionsAreLocked`,
`ClosedVersionsAreFinal` (the header of a closed version is written no more) and
`WalksGoForward` (every step along a chain leads to a newer version, also for a reader
that follows the `next` of a copy of a header, so no walk goes in a circle).

That two updates of a tuple do not meet is a matter of the lock, but the lock is
taken long before the link is written, and the chain is walked in between without
it being looked at again.  So `IInv` says what the lock protects at every position:

* `ChainOrder`, `ChainEnds`: RIDs grow along a chain, all versions but the newest
  are closed, and the open end contains the update of every linked version.  A
  version that has been inserted and not linked yet (`Pending`) is outside;
* `PlaceInTuple`, `CopiesAreFormer`: a walk stays in its tuple, and the header it
  has copied is that of the version or was, until the version was closed;
* `ResultIsVersion`, `UpdateInProgress`: what a writer read under its lock is the
  open end, and the end does not move until the link is written.

`ReadIsLatestCommitted` needs a second invariant, `ReadInv`, on top of `IInv`: as
long as the tuple was visible at every moment of the read, no visible version lies
behind the walk, and a header copied while open belongs to a version that was the
visible one at some moment.

### AtomicityProofs

This module extends HeapFileProofs and proves what the versions and chains are for:

* `UpdatesAreAtomic`: HeapFile refines `AtomicUpdates`.  `start_transaction` is
  `Begin`, a lock granted is `Lock`, the assignment of the state is `Finish`,
  `release_all_locks` is `Unlock`, `insert_record` is `Insert`, the link of a new version is
  `Update`, and every other step is a stutter (lemma `StepIsAtomic`).
* `TupleLocksAreTwoPhase`: the tuple locks of a table follow
  `StrictTwoPhaseLocking`, a consequence of the refinement.
* `UpdatesAreSerializable`: the order in which transactions follow each other in the
  chains of all tuples has no cycle.

`IInv` of HeapFileProofs is enough for the safety of a chain, not for the refinement,
because it says what the new row contains at least, and `AtomicUpdates` says what it
contains exactly.  `AInv` adds `UpdateIsExact` (from the second read, under the
lock, to the link the row read is that of the open end, the new row is that row
with this update, and no other unfinished transaction has a version of the tuple),
`ValuesAreWritten` (what a row contains was written to this tuple) and
`LocksAreListed` (a lock is in the write set of its holder, and none is left at
`erase`: otherwise `release_all_locks`, which goes through the write set, would not
be `Unlock`).

Serializability needs `IInv` only: a new pair of the order comes from an appended
version, whose writer is the later one of the pair (`NewPairs`), and that writer is
unfinished, so nobody follows it (`UnfinishedIsLast`).  It can be the last of any set of
transactions it belongs to.  The order is that of the writes: a plain SELECT takes no
lock, and nothing is said of the rows it reads beyond `ReadIsLatestCommitted`.

### BufferManagerProofs

`TypeOK` and `HeldFramesKeepTheirPage` unconditionally; `PinsCountUsers` and
`MapIsExact` if no system call fails (`~IOMayFail`); `PinnedPageIsLatest` and
`NoWriteIsLost` if nobody calls `count_pages` (`Scanners = {}`), also when system
calls fail; and `ShutdownWritesAll`, that after the destructor every write is in the
file, if neither happens.  The conditions are needed: an extension of the file or a
read that fails leaves a frame pinned that nobody uses and that is not in the map,
and the destructor stops there; `buffer_count_pages` shows the page that a concurrent
`count_pages` sends to the wrong place.  `NoWriteIsLost` says of a destructor that
was stopped only that what is not in the file is in a frame it has not written.

`IInv` is the types and `Structure`: `pages_mutex` is held by the one thread inside
`get_page`, whose page is in no frame (`MutexIsHeld`); the frame at the clock is
unpinned from the end of the sweep to its reassignment (`Victim`), although other
threads pin and unpin during the sweep without that mutex; the map leads to frames
of the page (`MapIsSound`); and a frame has at least as many pins as users
(`PinsCoverUsers`).  `CInv` adds where the last write of each page is: in its
frame, in the file, or in a dirty victim that is out of the map and not written yet.

`PoolNeverLocksUp` is the safety half of `GetPageReturns`.  `get_unused_page` turns
with `pages_mutex` held, so that threads waiting for the mutex cannot help it.  If no
system call fails and `FrameCount > Cardinality(Threads) * (MaxPins - 1)`, there is at
every moment of the sweep an unpinned frame, or a thread that has all the pages it
ever pins at a time (`FrameOrReturner`), which waits for nobody.  The argument counts:
by `PinLimit` a thread that may still ask for a page has at most `MaxPins - 1` pins, so
that such threads cannot cover all frames, and by `PinsCountUsers` a frame with no
user has no pin.  `buffer_pins` is an instance of the hypothesis (3 > 2 * 1); with one
frame less each of its threads can hold one page and wait for the other's.

### HeapFilePageProofs

`TypeOK`, `RowsIntact`, `NoPhantomRow`, `FreeSpaceIsFree`, `ScanMeetsEveryRow` and
`VacuumReclaims`, for every page size, every number of threads and every content of
uninitialized memory, with no assumption beyond those of the model.  The properties
speak of the time until a page is damaged (`defect`), so that they also say that
nothing but a late initialization and VACUUM of a page without entries does damage:
not the constructor that runs twice on a page without entries, nor the one that
writes while `vacuum` is about to write the header, nor VACUUM of a page with
entries.  That the first kind of damage does lose rows is what `heap_page_reopened`
shows.

The first half is about one page.  `Layout(pg, R)` says that page `pg` holds exactly
the rows `R`, disjoint and outside the directory and the free space, and a lemma for
each of `try_insert_record`, `delete_record_physically`, `vacuum` and the
constructor gives the rows of the page it produces.  For VACUUM the new offsets come
from a running total: the model has it as the number of cells of the slots so far,
so that two records do not overlap because the cells of one are not among those of
the other (`KeptCounts`), and all of them fit because they map one to one into
the old page.  The second half is about the threads: where each one is in its
statement (`Control`), that every page holds its rows (`PagesHoldRows`), and that the
rows a scan still owes are ahead of it, or in a page that has misled it
(`ScanIsBehind`).  `IInv` has the last two, with the types of the pages (`Sound`),
under the condition that no page is damaged, and the rest without it.

### Only model-checked

* Liveness (`CallbackEnds`, `GetPageReturns`, `InsertReturns`) and the fairness of
  `TwoPhaseSpec`: TLAPS does not prove liveness under fairness here.  For
  `GetPageReturns` the part that is safety is proved (`PoolNeverLocksUp`).
* The query modules.  Parse trees, plans and iterators are trees, their operators are
  RECURSIVE, and what they compute needs induction over data, which the installed
  provers do not do.

## 5. Limits of the models

### Cases the properties leave out

The runs that pass check what the code does right.  Where it does something
else than its name or the standard says, the model does what the code does and the
property names the case it leaves out.

Pages (the histories `defect` and `misled`):

* Two threads that open a new page at once may both initialize it
  (`heap_file_page.cc:12`), the second after the first has inserted:
  `defect = "reinitialized"`.  Rows are lost then; see `heap_page_reopened`.
* VACUUM of a page without entries writes one uninitialized directory entry
  (`heap_file_page.cc:367`).  A negative one is harmless; any other is
  `defect = "garbage_entry"`: scans read a record that nobody inserted.
* A scan that reads the directory count between VACUUM's copy of a page and VACUUM's
  write of the header (`heap_file_page.cc:371`) may leave the rest of the page out, or
  read behind it.  `ScanMeetsEveryRow` excuses it for the rows of that page (`misled`)
  and for no others.
* A record longer than an empty page makes `insert_record` extend the file for
  ever.  `HeapFilePageAssumption` excludes it; nothing in the code does.

Statements (operators in the last section of `Query`):

* `UsesPrefixes`: `Relation` names only the used columns but returns whole records
  (`relation.h:17`), so the columns used have to be the first ones of a table.  In
  a product of three or more tables each one also has to have a used column.
* `RefsExist`: `alias.column` is accepted although the table has no such column.
* `KeepsEqualities`: `BuildJoins` drops an equality of two columns of the same
  FROM item.
* `FiltersAboveOuterJoins`: `PushSelection` moves a predicate below the side of an
  outer join that may be null.
* `OuterJoinsAreSimple`: an outer join inside a product fails the assertion at
  `build_joins.h:86`; ON with a table that does not exist follows a null pointer;
  ON has to relate the two tables by their names in FROM; the RIDs of an outer join
  read the list of null values out of range (`left_outer_join.h:77`).
* FULL OUTER JOIN while another transaction inserts: `matched_rhs` has the size of
  the first pass (`full_outer_join.h:60`).
* `ChangesAreSimple`: UPDATE and DELETE of a table written in another case than in
  the catalog (`optimizer.cc:111`); expressions without an operand, which the
  grammar admits.
* Texts with a sign.  `- 1` has two derivations (`IIC3413DBParser.g4:66`), and the
  recognizer follows the one of an empty operand minus 1, where
  `query_preprocessor.cc:508` has a case for the sign.  `ParseIsMeant` says that a text
  with one derivation gets the tree that is meant and that all others have a sign; of
  what these are taken for it claims nothing.
* `NeedsJoinOrder`: without an order every SELECT with an equality between two tables
  reads the first of no children (`optimizer.cc:185`).  `SelectIsRight` and
  `NoInventedRow` speak of the replies, that is of the orders of the contract.
* `DividesSafely`: `INT64_MIN / -1` traps (`value.cc:56`).
* Half a comparison (`WHERE a`) is accepted by the grammar and follows a null
  pointer in the preprocessor (`PreprocessorCrashes`).
* `HasLike`: `like_match` has no return statement (`expr_like.h:16`), so LIKE answers
  anything or ends in undefined behaviour.

`PlainStatementsRun` lists those of these cases that end in a failed assertion, a trap
or undefined behaviour, and says that there are no others.

### Not modelled

* The catalog file, and a restart or crash: the catalog and the transaction
  counter are saved only by the destructor, and there is no log.  After a crash ids
  are handed out again; the code has no recovery to check.
* `delete_file`, `delete_page` and `truncate_file`, several files in one pool, the
  table of descriptors in `FileManager`.  They are called by an aborted CREATE TABLE
  and by `full_vacuum`, which has no caller.
* Shutdown of the server with open transactions (the destructor of
  `TransactionManager`).
* The removal of an aborted transaction's versions: `HeapFile::undo` is a stub
  (`heap_file.cc:157`), so the model leaves the versions in place, as the code
  does, and commit and abort are the same steps in HeapFile.  The same holds for
  `is_page_empty`, `reset_update` and `reset_first`, which only `undo` and
  `full_vacuum` need.
* A pin count that is exact after `read_page` throws: `BufferManager` has the failures
  (`ExtendFails`, `ReadFails`), which leave the frame pinned with no user, and
  `buffer_write_fails` runs with them, but pins are not exact there and no property
  says so.
* `try_acquire_lock` for a transaction that is not in the map, which enters the lock
  before it throws (`lock_manager.cc:29`).  A statement runs with the id that
  `start_transaction` has given its session, and only that session removes it: it takes
  a garbage `tx_id` (`session_uninit_tx_id`) that names a running transaction to get
  there.
* SNAPSHOT ISOLATION beyond the snapshot itself: the branches of `is_visible`,
  `update` and of READ COMMITTED `delete_record` are left empty in the
  repository, so that such a transaction sees no row and a DELETE deletes none.
* The lexer and `unescape_string` (character by character work), the wording of
  errors, the cost estimates of the optimizer, which only `beam_search_join_order`
  would read.
* The command line tools (input and output) and third-party code.

## 6. Plan

Modelled so far, in this order: sessions, transactions, locks and catalog; record
versions; the buffer pool; pages; the query layer.  Proved: the safety properties and
both refinements (without fairness) of all but the query layer.  What is left:

1. With more of the repository filled in: `undo`, SNAPSHOT ISOLATION,
   `delete_record`, join orders, LIKE; then a catalog file with restarts.
