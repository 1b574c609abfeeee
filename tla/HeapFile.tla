-------------------------------- MODULE HeapFile -------------------------------
(****************************************************************************)
(* storage/heap_file/heap_file.cc: the version chains of one table, read    *)
(* and extended by READ COMMITTED transactions of several worker threads.   *)
(*                                                                          *)
(* A step is one critical section of a page's edit_mutex, one read of an    *)
(* atomic Transaction::state, or one critical section of the lock manager   *)
(* or of the transaction manager; a thread may be overtaken between any two *)
(* of them.                                                                 *)
(*                                                                          *)
(* Abstractions.  A RID is the position of a version in the order of        *)
(* allocation.  A record's value is the set of transactions whose updates   *)
(* it contains: an UPDATE computes its new value from the one it read, so   *)
(* it adds its transaction to that set.  Versions are never removed:        *)
(* nothing in the program deletes a record physically, VACUUM keeps every   *)
(* RID, HeapFile::undo and the READ COMMITTED branch of delete_record stop  *)
(* before they touch a record.  A DELETE is therefore an UPDATE that takes  *)
(* the lock, reads again and leaves the row alone.                          *)
(****************************************************************************)
EXTENDS TransactionManager

CONSTANTS
    Workers,      \* threads, each running one transaction after the other
    MaxRid,       \* bound: how many versions a behaviour may allocate
    InitialTuples \* how many tuples the table holds at the start

ASSUME HeapFileAssumption ==
    /\ MaxRid \in Nat
    /\ TupleKey = 1..MaxRid
    /\ InitialTuples \in 0..MaxRid

RID == 1..MaxRid
NoRid == 0

VARIABLES
    heap,         \* RID |-> record header and value
    next_rid,     \* the next free slot
    pc,
    tx,           \* the worker's transaction
    first,        \* the tuple of the current statement
    goal,         \* why the worker reads: "select", "scan" or "reread"
    current_rid,  \* the version a walk along the chain has reached
    header,       \* the copy of a header that is_visible judges
    state_min,    \* the first state get_states has read
    found,        \* what read() returned: a RID, or NoRid for invalid
    seen,         \* the value an UPDATE starts from
    candidates    \* history: what a read that began when this one did may return

heapVars == <<heap, next_rid>>
walkVars == <<first, goal, current_rid, header, state_min, found, seen>>
vars == <<lock_table, tmVars, heapVars, pc, tx, walkVars, candidates>>

Version == [t_min : TxID \cup {NoTx}, t_max : TxID \cup {NoTx}, next : RID,
            first : RID, value : SUBSET TxID]

\* A record that try_insert_record has just written at r.
NewVersion(r, t, f, v) ==
    [t_min |-> t, t_max |-> NoTx, next |-> r, first |-> f, value |-> v]

\* The header h after its version was replaced by t, with next version n.
Closed(h, t, n) ==
    [t_min |-> h.t_min, t_max |-> t, next |-> n, first |-> h.first, value |-> h.value]

Reading == {"header", "min", "max", "got"}
PC == Reading \cup {"idle", "ready", "acquire", "retry", "last", "append", "link",
                    "set_committed", "release", "erase"}

Allocated == 1..(next_rid - 1)

TypeOK ==
    /\ LockTableType
    /\ TransactionsType
    /\ heap \in [RID -> Version]
    /\ next_rid \in 1..(MaxRid + 1)
    /\ pc \in [Workers -> PC]
    /\ tx \in [Workers -> TxID \cup {NoTx}]
    /\ first \in [Workers -> RID \cup {NoRid}]
    /\ goal \in [Workers -> {"select", "scan", "reread"}]
    /\ current_rid \in [Workers -> RID \cup {NoRid}]
    /\ header \in [Workers -> SUBSET Version]
    /\ state_min \in [Workers -> TransactionState]
    /\ found \in [Workers -> RID \cup {NoRid}]
    /\ seen \in [Workers -> SUBSET TxID]
    /\ candidates \in [Workers -> SUBSET (RID \cup {NoRid})]

Init ==
    /\ LockTableInit
    /\ TransactionsInit
    /\ heap = [r \in RID |-> NewVersion(r, NoTx, r, {})]
    /\ next_rid = InitialTuples + 1
    /\ pc = [w \in Workers |-> "idle"]
    /\ tx = [w \in Workers |-> NoTx]
    /\ first = [w \in Workers |-> NoRid]
    /\ goal = [w \in Workers |-> "select"]
    /\ current_rid = [w \in Workers |-> NoRid]
    /\ header = [w \in Workers |-> {}]
    /\ state_min = [w \in Workers |-> "COMMITTED"]
    /\ found = [w \in Workers |-> NoRid]
    /\ seen = [w \in Workers |-> {}]
    /\ candidates = [w \in Workers |-> {}]

--------------------------------------------------------------------------------
(****************************************************************************)
(* Visibility.                                                              *)
(****************************************************************************)

\* Mutant: the new rows of other active transactions are visible.
IsVisible_Dirty(h, sMin, sMax, t) ==
    \/ h.t_max = NoTx
    \/ sMin = "COMMITTED" /\ sMax = "ACTIVE" /\ h.t_max # t

\* is_visible under READ COMMITTED, from the header h, the states sMin and sMax
\* of its two transactions, and the reader t.
IsVisible(h, sMin, sMax, t) ==
    IF sMin = "ACTIVE"
    THEN h.t_min = t /\ h.t_max = NoTx
    ELSE \/ h.t_max = NoTx
         \/ sMax = "ACTIVE" /\ h.t_max # t

\* The versions of tuple f that a read by t in the current state would stop at,
\* were it a single step: the reference for read().
VisibleNow(f, t) ==
    {r \in Allocated :
        /\ heap[r].first = f
        /\ IsVisible(heap[r], StateOf(heap[r].t_min), StateOf(heap[r].t_max), t)}

\* The same as one result: a version, or NoRid when there is none.
ReadNow(f, t) == IF VisibleNow(f, t) = {} THEN {NoRid} ELSE VisibleNow(f, t)

\* The history variable: every result that was right at some moment since the
\* read began.
RecordCandidates ==
    candidates' = [w \in Workers |->
        IF pc'[w] \notin Reading THEN {}
        ELSE IF pc[w] \in Reading THEN candidates[w] \cup ReadNow(first[w], tx[w])'
        ELSE ReadNow(first[w], tx[w])']

GoTo(w, label) == pc' = [pc EXCEPT ![w] = label]

--------------------------------------------------------------------------------
(****************************************************************************)
(* Transactions, as the sessions drive them.                                *)
(****************************************************************************)

Begin(w) ==
    /\ pc[w] = "idle"
    /\ StartTransaction("READ_COMMITTED")
    /\ tx' = [tx EXCEPT ![w] = transaction_count]
    /\ GoTo(w, "ready")
    /\ UNCHANGED <<lock_table, heapVars, walkVars>>

\* Mutant: the locks are released before the state is COMMITTED.
EndTransaction_ReleaseFirst(w) ==
    /\ pc[w] = "ready"
    /\ GoTo(w, "release")
    /\ UNCHANGED <<lock_table, tmVars, heapVars, tx, walkVars>>

\* COMMIT, ABORT, the end of an autocommit query or a disconnect.  An abort calls
\* undo for every tuple of the write set, undo returns at once, and from there on
\* commit and abort are the same.
EndTransaction(w) ==
    /\ pc[w] = "ready"
    /\ GoTo(w, "set_committed")
    /\ UNCHANGED <<lock_table, tmVars, heapVars, tx, walkVars>>

SetStateCommitted(w) ==
    /\ pc[w] = "set_committed"
    /\ SetCommitted(tx[w])
    /\ GoTo(w, "release")
    /\ UNCHANGED <<lock_table, heapVars, tx, walkVars>>

ReleaseLocks(w) ==
    /\ pc[w] = "release"
    /\ ReleaseAllLocks(tx[w], first_rids[tx[w]])
    /\ GoTo(w, "erase")
    /\ UNCHANGED <<tmVars, heapVars, tx, walkVars>>

Erase(w) ==
    /\ pc[w] = "erase"
    /\ EraseTransaction(tx[w])
    /\ tx' = [tx EXCEPT ![w] = NoTx]
    /\ GoTo(w, "idle")
    /\ UNCHANGED <<lock_table, heapVars, walkVars>>

--------------------------------------------------------------------------------
(****************************************************************************)
(* HeapFile::read.                                                          *)
(****************************************************************************)

\* HeapFileIter::next stands on the first version of a tuple, for a SELECT or as
\* the child of an UpdateIter.
StartRead(w, f, why) ==
    /\ pc[w] = "ready"
    /\ f \in Allocated
    /\ heap[f].first = f
    /\ first' = [first EXCEPT ![w] = f]
    /\ goal' = [goal EXCEPT ![w] = why]
    /\ current_rid' = [current_rid EXCEPT ![w] = f]
    /\ GoTo(w, "header")
    /\ UNCHANGED <<lock_table, tmVars, heapVars, tx, header, state_min,
                   found, seen>>

\* get_record_header: a consistent copy, under the page's shared lock.
ReadHeader(w) ==
    /\ pc[w] = "header"
    /\ header' = [header EXCEPT ![w] = {heap[current_rid[w]]}]
    /\ GoTo(w, "min")
    /\ UNCHANGED <<lock_table, tmVars, heapVars, tx, first, goal,
                   current_rid, state_min, found, seen>>

\* get_states reads the two states one after the other.  The shared lock keeps
\* entries from being erased in between, but a commit assigns the state without
\* any lock.
ReadStateMin(w) ==
    /\ pc[w] = "min"
    /\ \E h \in header[w] :
           state_min' = [state_min EXCEPT ![w] = StateOf(h.t_min)]
    /\ GoTo(w, "max")
    /\ UNCHANGED <<lock_table, tmVars, heapVars, tx, first, goal,
                   current_rid, header, found, seen>>

\* Mutant: the next version is not followed.
ReadStateMax_FirstOnly(w) ==
    /\ pc[w] = "max"
    /\ \E h \in header[w] :
        found' = [found EXCEPT ![w] =
                     IF IsVisible(h, state_min[w], StateOf(h.t_max), tx[w])
                     THEN current_rid[w] ELSE NoRid]
    /\ GoTo(w, "got")
    /\ header' = [header EXCEPT ![w] = {}]
    /\ state_min' = [state_min EXCEPT ![w] = "COMMITTED"]
    /\ UNCHANGED <<lock_table, tmVars, heapVars, tx, first, goal,
                   current_rid, seen>>

\* ... and is_visible decides: this version, the next one, or none.
ReadStateMax(w) ==
    /\ pc[w] = "max"
    /\ \E h \in header[w] :
        IF IsVisible(h, state_min[w], StateOf(h.t_max), tx[w])
        THEN /\ found' = [found EXCEPT ![w] = current_rid[w]]
             /\ GoTo(w, "got")
             /\ UNCHANGED current_rid
        ELSE IF h.t_max # NoTx
        THEN /\ current_rid' = [current_rid EXCEPT ![w] = h.next]
             /\ GoTo(w, "header")
             /\ UNCHANGED found
        ELSE /\ found' = [found EXCEPT ![w] = NoRid]
             /\ GoTo(w, "got")
             /\ UNCHANGED current_rid
    /\ header' = [header EXCEPT ![w] = {}]
    /\ state_min' = [state_min EXCEPT ![w] = "COMMITTED"]
    /\ UNCHANGED <<lock_table, tmVars, heapVars, tx, first, goal, seen>>

--------------------------------------------------------------------------------
(****************************************************************************)
(* Statements: INSERT, SELECT, and UpdateIter::next with HeapFile::update.  *)
(****************************************************************************)

\* insert_record without a first RID; the tuple goes to the write set.
InsertRecord(w) ==
    /\ pc[w] = "ready"
    /\ next_rid \in RID
    /\ heap' = [heap EXCEPT ![next_rid] =
                   NewVersion(next_rid, tx[w], next_rid, {tx[w]})]
    /\ next_rid' = next_rid + 1
    /\ AddToWriteSet(tx[w], next_rid)
    /\ UNCHANGED <<lock_table, pc, tx, walkVars>>

\* Mutant: the new row is computed from the row read before the lock was taken.
ReadReturns_StaleRow(w) ==
    /\ pc[w] = "got"
    /\ found' = [found EXCEPT ![w] = NoRid]
    /\ \/ /\ GoTo(w, "ready")
          /\ UNCHANGED <<current_rid, seen>>
       \/ /\ found[w] # NoRid /\ goal[w] = "scan"
          /\ seen' = [seen EXCEPT ![w] = heap[found[w]].value]
          /\ GoTo(w, "acquire")
          /\ UNCHANGED current_rid
       \/ /\ found[w] # NoRid /\ goal[w] = "reread"
          /\ current_rid' = [current_rid EXCEPT ![w] = first[w]]
          /\ GoTo(w, "last")
          /\ UNCHANGED seen
    /\ UNCHANGED <<lock_table, tmVars, heapVars, tx, first, goal, header,
                   state_min>>

\* The row is read: a SELECT is done, an UPDATE asks for the lock of the tuple,
\* and the second read of an UPDATE goes on to HeapFile::update with the value
\* it has now.  A row that is not valid, or no longer matches, is skipped.
ReadReturns(w) ==
    /\ pc[w] = "got"
    /\ found' = [found EXCEPT ![w] = NoRid]
    /\ \/ /\ GoTo(w, "ready")
          /\ first' = [first EXCEPT ![w] = NoRid]
          /\ current_rid' = [current_rid EXCEPT ![w] = NoRid]
          /\ goal' = [goal EXCEPT ![w] = "select"]
          /\ UNCHANGED seen
       \/ /\ found[w] # NoRid
          /\ goal[w] = "scan"
          /\ GoTo(w, "acquire")
          /\ UNCHANGED <<first, goal, current_rid, seen>>
       \/ /\ found[w] # NoRid
          /\ goal[w] = "reread"
          /\ seen' = [seen EXCEPT ![w] = heap[found[w]].value]
          /\ current_rid' = [current_rid EXCEPT ![w] = first[w]]
          /\ GoTo(w, "last")
          /\ UNCHANGED <<first, goal>>
    /\ UNCHANGED <<lock_table, tmVars, heapVars, tx, header, state_min>>

TryAcquireSucceeds(w) ==
    /\ pc[w] \in {"acquire", "retry"}
    /\ AcquireLock(tx[w], first[w])
    /\ goal' = [goal EXCEPT ![w] = "reread"]
    /\ current_rid' = [current_rid EXCEPT ![w] = first[w]]
    /\ GoTo(w, "header")
    /\ UNCHANGED <<heapVars, tx, first, header, state_min, found, seen>>

TryAcquireFails(w) ==
    /\ pc[w] = "acquire"
    /\ ~CanLock(tx[w], first[w])
    /\ GoTo(w, "retry")
    /\ UNCHANGED <<lock_table, tmVars, heapVars, tx, walkVars>>

LockTimeout(w) ==
    /\ pc[w] = "retry"
    /\ GoTo(w, "set_committed")
    /\ first' = [first EXCEPT ![w] = NoRid]
    /\ current_rid' = [current_rid EXCEPT ![w] = NoRid]
    /\ goal' = [goal EXCEPT ![w] = "select"]
    /\ UNCHANGED <<lock_table, tmVars, heapVars, tx, header, state_min, found,
                   seen>>

\* Mutant: the first version is taken for the last one.
WalkToLastVersion_NoWalk(w) ==
    /\ pc[w] = "last"
    /\ GoTo(w, "append")
    /\ UNCHANGED <<lock_table, tmVars, heapVars, tx, walkVars>>

\* get_last_version walks to the end of the chain.
WalkToLastVersion(w) ==
    /\ pc[w] = "last"
    /\ IF heap[current_rid[w]].t_max = NoTx
       THEN GoTo(w, "append") /\ UNCHANGED current_rid
       ELSE /\ current_rid' = [current_rid EXCEPT ![w] = heap[current_rid[w]].next]
            /\ UNCHANGED pc
    /\ UNCHANGED <<lock_table, tmVars, heapVars, tx, first, goal, header,
                   state_min, found, seen>>

\* insert_record of the new version.
AppendVersion(w) ==
    /\ pc[w] = "append"
    /\ next_rid \in RID
    /\ heap' = [heap EXCEPT ![next_rid] =
                   NewVersion(next_rid, tx[w], first[w], seen[w] \cup {tx[w]})]
    /\ next_rid' = next_rid + 1
    /\ found' = [found EXCEPT ![w] = next_rid]
    /\ seen' = [seen EXCEPT ![w] = {}]
    /\ GoTo(w, "link")
    /\ UNCHANGED <<lock_table, tmVars, tx, first, goal, current_rid,
                   header, state_min>>

\* Mutant: the next RID of the old version is not set.
LinkVersion_NextForgotten(w) ==
    /\ pc[w] = "link"
    /\ heap' = [heap EXCEPT ![current_rid[w]].t_max = tx[w]]
    /\ GoTo(w, "ready")
    /\ found' = [found EXCEPT ![w] = NoRid]
    /\ UNCHANGED <<lock_table, tmVars, next_rid, tx, first, goal,
                   current_rid, header, state_min, seen>>

\* update_record_header of the version that was the last one.
LinkVersion(w) ==
    /\ pc[w] = "link"
    /\ heap' = [heap EXCEPT ![current_rid[w]] = Closed(@, tx[w], found[w])]
    /\ GoTo(w, "ready")
    /\ first' = [first EXCEPT ![w] = NoRid]
    /\ current_rid' = [current_rid EXCEPT ![w] = NoRid]
    /\ found' = [found EXCEPT ![w] = NoRid]
    /\ goal' = [goal EXCEPT ![w] = "select"]
    /\ UNCHANGED <<lock_table, tmVars, next_rid, tx, header, state_min,
                   seen>>

--------------------------------------------------------------------------------

Step(w) ==
    \/ Begin(w) \/ EndTransaction(w)
    \/ SetStateCommitted(w) \/ ReleaseLocks(w) \/ Erase(w)
    \/ \E f \in RID, why \in {"select", "scan"} : StartRead(w, f, why)
    \/ ReadHeader(w) \/ ReadStateMin(w) \/ ReadStateMax(w) \/ ReadReturns(w)
    \/ InsertRecord(w)
    \/ TryAcquireSucceeds(w) \/ TryAcquireFails(w) \/ LockTimeout(w)
    \/ WalkToLastVersion(w) \/ AppendVersion(w) \/ LinkVersion(w)

Next == (\E w \in Workers : Step(w)) /\ RecordCandidates

Spec == Init /\ [][Next]_vars

--------------------------------------------------------------------------------
(****************************************************************************)
(* Correctness.                                                             *)
(****************************************************************************)

\* A version is being linked in: written by insert_record, not yet the target
\* of a next RID.
Pending(r) == \E w \in Workers : pc[w] = "link" /\ found[w] = r

\* Chains lead forward and belong together: the version that a closed version
\* points to is a later one of the same tuple, written by the transaction that
\* closed it.  (So every walk along a chain ends.)
ChainsWellFormed ==
    \A r \in Allocated :
        heap[r].t_max # NoTx =>
            /\ heap[r].next \in Allocated
            /\ heap[r].next > r
            /\ heap[heap[r].next].first = heap[r].first
            /\ heap[heap[r].next].t_min = heap[r].t_max

\* The versions of tuple f that no later one has replaced yet.
OpenEnds(f) ==
    {r \in Allocated : heap[r].first = f /\ heap[r].t_max = NoTx /\ ~Pending(r)}

\* Chains never fork: apart from a version that is being linked in, each tuple
\* has exactly one version without a t_max.
OneOpenEnd ==
    \A f \in Allocated :
        heap[f].first = f =>
            \E end \in Allocated : OpenEnds(f) = {end}

\* No lost update: the end of a chain contains the effect of every finished
\* transaction that wrote a version of the tuple (UpdateIter::next reads again
\* after it has the lock).
NoLostUpdate ==
    \A r, q \in Allocated :
        /\ heap[q].first = heap[r].first
        /\ heap[q].t_min # NoTx /\ ~IsActive(heap[q].t_min)
        /\ heap[r].t_max = NoTx
        => heap[q].t_min \in heap[r].value

\* Transaction t wrote a version of some tuple, and u a later one.
WroteBefore(t, u) ==
    \E r, q \in Allocated :
        /\ heap[r].first = heap[q].first /\ r < q
        /\ heap[r].t_min = t /\ heap[q].t_min = u

\* Updates are serializable: the order in which transactions follow each other in
\* the chains of all tuples has no cycle, so that among any transactions there is
\* one that can be the last.  (A lock is kept until the transaction is over, and an
\* UPDATE computes from a row that it read under the lock.)
UpdatesAreSerializable ==
    \A T \in SUBSET TxID : T # {} =>
        \E t \in T : \A u \in T : u # t => ~WroteBefore(t, u)

\* HeapFile::read of a tuple that has a visible version all the time, with its
\* steps interleaved with commits and updates of others, returns what an
\* instantaneous read at some moment between its beginning and its end would
\* have returned: the newest version that was then committed, or the
\* transaction's own.
ReadIsLatestCommitted ==
    \A w \in Workers :
        pc[w] = "got" /\ NoRid \notin candidates[w] => found[w] \in candidates[w]

\* No read, of any tuple, returns a version of another unfinished transaction.
NoDirtyRead ==
    \A w \in Workers :
        pc[w] = "got" /\ found[w] # NoRid =>
            heap[found[w]].t_min = tx[w] \/ ~IsActive(heap[found[w]].t_min)

\* What the abstract specification sees of the table.
Tuples == {f \in Allocated : heap[f].first = f}
Contents == [f \in RID |-> UNION {heap[r].value : r \in OpenEnds(f)}]

Atomic == INSTANCE AtomicUpdates
    WITH Tx <- TxID, Key <- RID, NoTx <- NoTx, InitialKeys <- 1..InitialTuples,
         phase <- [t \in TxID |-> Phase(t)], owner <- lock_table,
         tuples <- Tuples, value <- Contents

\* UPDATE is atomic, although it takes the lock, reads again, walks the chain,
\* writes a version and links it in steps of their own: the link is the moment at
\* which the row changes, from the last row there was, under the lock, and never
\* on top of another unfinished transaction's write (update_iter.h:49).
UpdatesAreAtomic == Atomic!Spec

--------------------------------------------------------------------------------
(****************************************************************************)
(* What a comment of the code says and the code does not do.                *)
(****************************************************************************)

\* heap_file.h:42: read "gives last visible version".  A reader that copies the
\* header of a row while its inserter is active, and asks for the inserter's
\* state after the inserter has updated the row and committed, takes a version
\* that was never the last visible one.
ReadGivesLastVisibleVersion ==
    \A w \in Workers : pc[w] = "got" => found[w] \in candidates[w]
================================================================================
