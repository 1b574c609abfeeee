----------------------------- MODULE HeapFileProofs ----------------------------
(****************************************************************************)
(* Proofs about HeapFile, for any number of workers, tuples, versions and   *)
(* transactions: version chains do not fork, updates are not lost, reads    *)
(* are not dirty, and read() of a tuple that is visible all the time        *)
(* returns a version that was the right one at some moment.                 *)
(****************************************************************************)
EXTENDS HeapFile, TLAPS

--------------------------------------------------------------------------------
(****************************************************************************)
(* The inductive invariant.                                                 *)
(****************************************************************************)

\* The versions of tuple f.
Versions(f) == {r \in Allocated : heap[r].first = f}

\* Walking along a chain, for a read or for get_last_version.
Walking == {"header", "min", "max", "last", "append", "link"}
InUpdate == {"last", "append", "link"}

\* A worker between try_acquire_lock of its tuple and the end of its UPDATE.
HasLock(w) == pc[w] \in InUpdate \/ (pc[w] \in Reading /\ goal[w] = "reread")

\* Transaction ids: every id in use is below the counter, and every worker that
\* is not idle has a transaction of its own, which is active until it is marked
\* committed.
IdsAreFresh ==
    /\ \A t \in active_transactions : t < transaction_count
    /\ \A r \in RID : heap[r].t_min < transaction_count /\ heap[r].t_max < transaction_count
    /\ \A w \in Workers : \A h \in header[w] :
           h.t_min < transaction_count /\ h.t_max < transaction_count

WorkersHaveTransactions ==
    /\ \A w \in Workers : pc[w] # "idle" =>
          /\ tx[w] \in active_transactions
          /\ tx_state[tx[w]] = IF pc[w] \in {"release", "erase"} THEN "COMMITTED" ELSE "ACTIVE"
    /\ \A v, w \in Workers : pc[v] # "idle" /\ pc[w] # "idle" /\ tx[v] = tx[w] => v = w

\* Chains.  RIDs grow along a chain, nothing of the tuple lies between a version
\* and its next one, all versions but the newest are closed, and what follows a
\* version of an unfinished transaction is of the same transaction.
ChainOrder ==
    /\ \A r \in RID \ Allocated : heap[r].t_max = NoTx
    /\ \A r \in Allocated :
          /\ heap[r].first \in Allocated /\ heap[r].first <= r
          /\ heap[heap[r].first].first = heap[r].first
          /\ heap[r].t_max # NoTx =>
                /\ ~Pending(heap[r].next)
                /\ \A q \in Allocated : heap[q].first = heap[r].first /\ q > r => q >= heap[r].next
    /\ \A r, q \in Allocated :
          heap[r].first = heap[q].first /\ r < q /\ ~Pending(q) => heap[r].t_max # NoTx
    /\ \A r, q \in Allocated :
          heap[r].first = heap[q].first /\ r < q /\ IsActive(heap[r].t_min) =>
              heap[q].t_min = heap[r].t_min

\* Every tuple has an end, and the end contains every linked version's update.
ChainEnds ==
    /\ \A f \in Allocated : heap[f].first = f =>
          \E end \in Versions(f) : heap[end].t_max = NoTx /\ ~Pending(end)
    /\ \A r, q \in Allocated :
          /\ heap[r].first = heap[q].first
          /\ heap[r].t_max = NoTx /\ ~Pending(q) /\ heap[q].t_min # NoTx
          => heap[q].t_min \in heap[r].value

\* A worker's place in a tuple.
PlaceInTuple ==
    \A w \in Workers :
        /\ pc[w] \in Reading \cup InUpdate \cup {"acquire", "retry"} =>
              first[w] \in Allocated /\ heap[first[w]].first = first[w]
        /\ pc[w] \in Walking =>
              /\ current_rid[w] \in Allocated
              /\ heap[current_rid[w]].first = first[w]
              /\ ~Pending(current_rid[w])
        /\ HasLock(w) => lock_table[first[w]] = tx[w]

\* A copied header is that of the version, or was until the version was closed.
CopiesAreFormer ==
    \A w \in Workers : pc[w] \in {"min", "max"} =>
        \A h \in header[w] :
            /\ h.t_min = heap[current_rid[w]].t_min
            /\ h.t_max # NoTx \/ HasLock(w) => h = heap[current_rid[w]]
            /\ pc[w] = "max" /\ state_min[w] = "COMMITTED" => ~IsActive(h.t_min)

\* What read() returned.  Under the lock it is the end of the chain.
ResultIsVersion ==
    \A w \in Workers : pc[w] = "got" /\ found[w] # NoRid =>
        /\ found[w] \in Allocated
        /\ heap[found[w]].first = first[w]
        /\ goal[w] = "reread" => heap[found[w]].t_max = NoTx

\* An UPDATE on its way: the value it starts from contains that of the end of the
\* chain, the end does not move, and no other unfinished transaction has a version.
UpdateInProgress ==
    \A w \in Workers :
        /\ pc[w] \in {"last", "append"} =>
              \A r \in Versions(first[w]) :
                  /\ heap[r].t_max = NoTx => heap[r].value \subseteq seen[w]
                  /\ IsActive(heap[r].t_min) => heap[r].t_min = tx[w]
        /\ pc[w] \in {"append", "link"} => heap[current_rid[w]].t_max = NoTx
        /\ pc[w] = "link" =>
              /\ found[w] \in Allocated
              /\ current_rid[w] < found[w]
              /\ heap[found[w]].first = first[w]
              /\ heap[found[w]].t_min = tx[w]
              /\ heap[found[w]].t_max = NoTx
              /\ heap[current_rid[w]].value \subseteq heap[found[w]].value
              /\ tx[w] \in heap[found[w]].value

\* A new version of an unfinished transaction is under that transaction's lock
\* (transaction_manager.cc:114: locks go only after the state is COMMITTED).
DirtyVersionsAreLocked ==
    \A r \in Allocated :
        heap[r].first # r /\ IsActive(heap[r].t_min) =>
            lock_table[heap[r].first] = heap[r].t_min

\* The chain part of the invariant.
Chains ==
    /\ IdsAreFresh
    /\ WorkersHaveTransactions
    /\ ChainsWellFormed
    /\ ChainOrder
    /\ ChainEnds
    /\ PlaceInTuple
    /\ CopiesAreFormer
    /\ ResultIsVersion
    /\ UpdateInProgress
    /\ DirtyVersionsAreLocked
    /\ NoDirtyRead

IInv == TypeOK /\ Chains

\* The reading part: as long as the tuple was visible at every moment of the read,
\* nothing visible lies behind the walk, a header copied open belongs to a
\* candidate, and an unfinished inserter is the reader itself.
ReadOf(w) ==
    /\ VisibleNow(first[w], tx[w]) # {}
    /\ VisibleNow(first[w], tx[w]) \subseteq candidates[w]
    /\ pc[w] \in {"header", "min", "max"} =>
          \A r \in VisibleNow(first[w], tx[w]) : r >= current_rid[w]
    /\ pc[w] \in {"min", "max"} =>
          \A h \in header[w] : h.t_max = NoTx => current_rid[w] \in candidates[w]
    /\ pc[w] = "max" /\ state_min[w] = "ACTIVE" =>
          \A h \in header[w] : h.t_min = tx[w]
    /\ pc[w] = "got" => found[w] \in candidates[w]

ReadInv ==
    \A w \in Workers : pc[w] \in Reading /\ NoRid \notin candidates[w] => ReadOf(w)

--------------------------------------------------------------------------------
(****************************************************************************)
(* Facts used throughout.                                                   *)
(****************************************************************************)

\* A worker that is not idle has a real transaction id; unfinished transactions
\* are the ones in the map whose state is ACTIVE.
LEMMA Transactions ==
    ASSUME TypeOK, WorkersHaveTransactions
    PROVE  /\ NoTx \notin TxID
           /\ ~IsActive(NoTx)
           /\ \A t : IsActive(t) <=> t \in active_transactions /\ tx_state[t] = "ACTIVE"
           /\ \A w \in Workers : pc[w] # "idle" => tx[w] \in TxID
           /\ \A w \in Workers :
                 pc[w] \notin {"idle", "release", "erase"} => IsActive(tx[w])
<1> USE DEF TypeOK, TransactionsType, TransactionState
<1>1. NoTx \notin TxID
  BY MaxTxIdAssumption DEF NoTx, TxID
<1>2. \A t : IsActive(t) <=> t \in active_transactions /\ tx_state[t] = "ACTIVE"
  BY DEF IsActive, StateOf
<1>3. \A w \in Workers : pc[w] # "idle" => tx[w] \in TxID
  BY DEF WorkersHaveTransactions
<1> QED
  BY <1>1, <1>2, <1>3 DEF WorkersHaveTransactions

\* Allocated RIDs are RIDs.
LEMMA AllocatedIsRID ==
    ASSUME TypeOK
    PROVE  /\ Allocated \subseteq RID
           /\ NoRid \notin RID
           /\ \A r \in RID : r \in Nat
           /\ \A r \in RID : heap[r] \in Version
           /\ next_rid \in RID => next_rid \notin Allocated
BY HeapFileAssumption DEF TypeOK, Allocated, RID, NoRid

--------------------------------------------------------------------------------
(****************************************************************************)
(* Types.                                                                   *)
(****************************************************************************)

\* The initial state has the types.
LEMMA InitTypeOK == Init => TypeOK
<1> SUFFICES ASSUME Init PROVE TypeOK
  OBVIOUS
<1> USE MaxTxIdAssumption, HeapFileAssumption DEF Init, TxID, NoTx, RID, NoRid
<1>1. LockTableType /\ TransactionsType
  BY DEF LockTableInit, LockTableType, TransactionsInit, TransactionsType,
         TransactionState, IsolationLevel
<1>2. heap \in [RID -> Version] /\ next_rid \in 1..(MaxRid + 1)
  BY DEF NewVersion, Version
<1> QED
  BY <1>1, <1>2 DEF TypeOK, PC, Reading, TransactionState

\* The history variable of reads that began.
LEMMA CandidatesType ==
    ASSUME TypeOK, RecordCandidates, next_rid' \in 1..(MaxRid + 1)
    PROVE  candidates' \in [Workers -> SUBSET (RID \cup {NoRid})]
<1>0. MaxRid \in Nat
  BY HeapFileAssumption
<1>1. Allocated' \subseteq RID
  <2>1. \A n \in 1..(MaxRid + 1) : 1..(n - 1) \subseteq RID
    BY <1>0 DEF RID
  <2> QED
    BY <2>1 DEF Allocated
<1>2. \A w \in Workers : ReadNow(first[w], tx[w])' \subseteq RID \cup {NoRid}
  BY <1>1 DEF ReadNow, VisibleNow
<1>3. candidates \in [Workers -> SUBSET (RID \cup {NoRid})]
  BY DEF TypeOK
<1> QED
  BY <1>2, <1>3 DEF RecordCandidates

\* Types of the transaction manager and the lock table.
LEMMA StartTransactionType ==
    ASSUME TransactionsType, StartTransaction("READ_COMMITTED")
    PROVE  TransactionsType' /\ transaction_count \in TxID
<1> USE MaxTxIdAssumption DEF TransactionsType, StartTransaction
<1>1. transaction_count \in TxID /\ transaction_count' \in 1..(MaxTxId + 1)
  BY DEF TxID
<1>2. snapshot' \in [TxID -> SUBSET TxID]
  OBVIOUS
<1> QED
  BY <1>1, <1>2 DEF TransactionState, IsolationLevel

\* Every step keeps the types.
LEMMA NextTypeOK ==
    ASSUME IInv, Next
    PROVE  TypeOK'
<1> USE DEF IInv, Chains, GoTo, tmVars, heapVars, walkVars
<1>1. PICK w \in Workers : Step(w)
  BY DEF Next
<1>a. RecordCandidates
  BY DEF Next
<1>b. /\ {"idle", "ready", "acquire", "retry", "last", "append", "link", "set_committed",
          "release", "erase", "header", "min", "max", "got"} = PC
      /\ pc \in [Workers -> PC]
  BY DEF PC, Reading, TypeOK
<1>c. pc[w] # "idle" => tx[w] \in TxID
  BY Transactions
<1>d. pc' \in [Workers -> PC] /\ goal' \in [Workers -> {"select", "scan", "reread"}]
  BY <1>1, <1>b DEF TypeOK, Step, Begin, EndTransaction, SetStateCommitted, ReleaseLocks, Erase,
       StartRead, ReadHeader, ReadStateMin, ReadStateMax, ReadReturns, InsertRecord,
       TryAcquireSucceeds, TryAcquireFails, LockTimeout, WalkToLastVersion, AppendVersion,
       LinkVersion
<1>e. TransactionsType'
  <2>1. CASE Begin(w)
    BY <2>1, StartTransactionType DEF Begin, TypeOK
  <2>2. CASE SetStateCommitted(w)
    BY <2>2, <1>c DEF SetStateCommitted, SetCommitted, TypeOK, TransactionsType, TransactionState
  <2>3. CASE Erase(w)
    BY <2>3, <1>c DEF Erase, EraseTransaction, TypeOK, TransactionsType
  <2>4. CASE InsertRecord(w)
    <3>1. next_rid \in TupleKey
      BY <2>4, HeapFileAssumption DEF InsertRecord, RID
    <3> QED
      BY <2>4, <1>c, <3>1 DEF InsertRecord, AddToWriteSet, TypeOK, TransactionsType
  <2>5. CASE TryAcquireSucceeds(w)
    <3>1. first[w] \in TupleKey
      BY <2>5, AllocatedIsRID, HeapFileAssumption DEF TryAcquireSucceeds, PlaceInTuple, RID
    <3> QED
      BY <2>5, <1>c, <3>1 DEF TryAcquireSucceeds, AcquireLock, AddToWriteSet, TypeOK, TransactionsType
  <2>6. CASE UNCHANGED tmVars
    BY <2>6 DEF TypeOK, TransactionsType
  <2> QED
    BY <1>1, <2>1, <2>2, <2>3, <2>4, <2>5, <2>6 DEF Step, EndTransaction, ReleaseLocks,
       StartRead, ReadHeader, ReadStateMin, ReadStateMax, ReadReturns,
       TryAcquireFails, LockTimeout, WalkToLastVersion, AppendVersion, LinkVersion
<1>f. LockTableType'
  <2>1. CASE ReleaseLocks(w)
    BY <2>1 DEF ReleaseLocks, ReleaseAllLocks, TypeOK, LockTableType
  <2>2. CASE TryAcquireSucceeds(w)
    BY <2>2, <1>c DEF TryAcquireSucceeds, AcquireLock, LockGranted, TypeOK, LockTableType
  <2>3. CASE UNCHANGED lock_table
    BY <2>3 DEF TypeOK, LockTableType
  <2> QED
    BY <1>1, <2>1, <2>2, <2>3 DEF Step, Begin, EndTransaction, SetStateCommitted, Erase,
       StartRead, ReadHeader, ReadStateMin, ReadStateMax, ReadReturns, InsertRecord,
       TryAcquireFails, LockTimeout, WalkToLastVersion, AppendVersion, LinkVersion
<1>g. heap' \in [RID -> Version] /\ next_rid' \in 1..(MaxRid + 1)
  <2>0. MaxRid \in Nat
    BY HeapFileAssumption
  <2>1. CASE InsertRecord(w)
    <3>1. NewVersion(next_rid, tx[w], next_rid, {tx[w]}) \in Version
      BY <2>1, <1>c DEF InsertRecord, NewVersion, Version
    <3>2. next_rid' \in 1..(MaxRid + 1)
      BY <2>1, <2>0 DEF InsertRecord, RID
    <3> QED
      BY <2>1, <3>1, <3>2 DEF InsertRecord, TypeOK
  <2>2. CASE AppendVersion(w)
    <3>1. first[w] \in RID
      BY <2>2, AllocatedIsRID DEF AppendVersion, PlaceInTuple, InUpdate
    <3>2. NewVersion(next_rid, tx[w], first[w], seen[w] \cup {tx[w]}) \in Version
      BY <2>2, <1>c, <3>1 DEF AppendVersion, NewVersion, Version, TypeOK
    <3>3. next_rid' \in 1..(MaxRid + 1)
      BY <2>2, <2>0 DEF AppendVersion, RID
    <3> QED
      BY <2>2, <3>2, <3>3 DEF AppendVersion, TypeOK
  <2>3. CASE LinkVersion(w)
    <3>1. found[w] \in RID
      BY <2>3, AllocatedIsRID DEF LinkVersion, UpdateInProgress
    <3>2. current_rid[w] \in RID
      BY <2>3, AllocatedIsRID DEF LinkVersion, PlaceInTuple, Walking
    <3>3. Closed(heap[current_rid[w]], tx[w], found[w]) \in Version
      BY <2>3, <1>c, <3>1, <3>2 DEF LinkVersion, TypeOK, Version, Closed
    <3> QED
      BY <2>3, <3>2, <3>3 DEF LinkVersion, TypeOK
  <2>4. CASE UNCHANGED heapVars
    BY <2>4 DEF TypeOK
  <2> QED
    BY <1>1, <2>1, <2>2, <2>3, <2>4 DEF Step, Begin, EndTransaction, SetStateCommitted,
       ReleaseLocks, Erase, StartRead, ReadHeader, ReadStateMin, ReadStateMax, ReadReturns,
       TryAcquireSucceeds, TryAcquireFails, LockTimeout, WalkToLastVersion
<1>h. /\ tx' \in [Workers -> TxID \cup {NoTx}]
      /\ first' \in [Workers -> RID \cup {NoRid}]
  <2>1. CASE Begin(w)
    BY <2>1, StartTransactionType DEF Begin, TypeOK
  <2> QED
    BY <1>1, <2>1, AllocatedIsRID DEF TypeOK, Step, EndTransaction, SetStateCommitted,
       ReleaseLocks, Erase, StartRead, ReadHeader, ReadStateMin, ReadStateMax, ReadReturns,
       InsertRecord, TryAcquireSucceeds, TryAcquireFails, LockTimeout, WalkToLastVersion,
       AppendVersion, LinkVersion
<1>i. /\ current_rid' \in [Workers -> RID \cup {NoRid}]
      /\ found' \in [Workers -> RID \cup {NoRid}]
  <2>1. CASE ReadStateMax(w)
    BY <2>1 DEF ReadStateMax, TypeOK, Version
  <2>2. CASE WalkToLastVersion(w)
    <3>1. heap[current_rid[w]].next \in RID
      BY <2>2, AllocatedIsRID DEF WalkToLastVersion, PlaceInTuple, Walking, Version
    <3> QED
      BY <2>2, <3>1 DEF WalkToLastVersion, TypeOK
  <2> QED
    BY <1>1, <2>1, <2>2, AllocatedIsRID DEF TypeOK, Step, Begin, EndTransaction,
       SetStateCommitted, ReleaseLocks, Erase, StartRead, ReadHeader, ReadStateMin,
       ReadReturns, InsertRecord, TryAcquireSucceeds, TryAcquireFails, LockTimeout,
       AppendVersion, LinkVersion
<1>j. /\ header' \in [Workers -> SUBSET Version]
      /\ state_min' \in [Workers -> TransactionState]
      /\ seen' \in [Workers -> SUBSET TxID]
  <2>1. CASE ReadHeader(w)
    <3>1. heap[current_rid[w]] \in Version
      BY <2>1, AllocatedIsRID DEF ReadHeader, PlaceInTuple, Walking
    <3> QED
      BY <2>1, <3>1 DEF ReadHeader, TypeOK
  <2>2. CASE ReadStateMin(w)
    <3>1. \A t : StateOf(t) \in TransactionState
      BY DEF StateOf, TypeOK, TransactionsType, TransactionState
    <3> QED
      BY <2>2, <3>1 DEF ReadStateMin, TypeOK
  <2>3. CASE ReadReturns(w)
    <3>1. found[w] # NoRid => heap[found[w]] \in Version
      BY <2>3, AllocatedIsRID DEF ReadReturns, ResultIsVersion
    <3> QED
      BY <2>3, <3>1 DEF ReadReturns, TypeOK, Version
  <2> QED
    BY <1>1, <2>1, <2>2, <2>3 DEF TypeOK, TransactionState, Step, Begin, EndTransaction,
       SetStateCommitted, ReleaseLocks, Erase, StartRead, ReadStateMax,
       InsertRecord, TryAcquireSucceeds, TryAcquireFails, LockTimeout, WalkToLastVersion,
       AppendVersion, LinkVersion
<1> QED
  BY <1>a, <1>d, <1>e, <1>f, <1>g, <1>h, <1>i, <1>j, CandidatesType DEF TypeOK

--------------------------------------------------------------------------------
(****************************************************************************)
(* Transactions.                                                            *)
(****************************************************************************)

\* How a step changes the transactions: Begin takes a fresh id, SetStateCommitted
\* and Erase end the worker's own transaction, nothing else changes states.
LEMMA TransactionSteps ==
    ASSUME IInv, NEW w \in Workers, Step(w)
    PROVE  \/ /\ Begin(w)
              /\ transaction_count \in TxID
              /\ \A t \in active_transactions : t # transaction_count
              /\ tx' = [tx EXCEPT ![w] = transaction_count]
              /\ transaction_count' = transaction_count + 1
              /\ active_transactions' = active_transactions \cup {transaction_count}
              /\ tx_state' = [tx_state EXCEPT ![transaction_count] = "ACTIVE"]
           \/ /\ SetStateCommitted(w)
              /\ tx_state' = [tx_state EXCEPT ![tx[w]] = "COMMITTED"]
              /\ UNCHANGED <<active_transactions, transaction_count, tx>>
           \/ /\ Erase(w)
              /\ active_transactions' = active_transactions \ {tx[w]}
              /\ tx' = [tx EXCEPT ![w] = NoTx]
              /\ UNCHANGED <<tx_state, transaction_count>>
           \/ /\ UNCHANGED <<active_transactions, tx_state, transaction_count, tx>>
              /\ pc[w] \notin {"idle", "set_committed", "erase"}
              /\ pc'[w] # "idle"
              /\ pc'[w] \in {"release", "erase"} <=> pc[w] \in {"release", "erase"}
<1> USE DEF IInv, Chains, GoTo, tmVars, heapVars, walkVars
<1>0. \A t \in active_transactions : t \in Nat /\ t < transaction_count
  BY MaxTxIdAssumption DEF TypeOK, TransactionsType, IdsAreFresh, TxID
<1>1. CASE Begin(w)
  BY <1>1, <1>0 DEF Begin, StartTransaction, TypeOK, TransactionsType
<1>2. CASE SetStateCommitted(w)
  BY <1>2 DEF SetStateCommitted, SetCommitted
<1>3. CASE Erase(w)
  BY <1>3 DEF Erase, EraseTransaction
<1>4. CASE InsertRecord(w)
  BY <1>4 DEF InsertRecord, AddToWriteSet
<1>5. CASE TryAcquireSucceeds(w)
  BY <1>5 DEF TryAcquireSucceeds, AcquireLock, AddToWriteSet, TypeOK
<1>6. CASE EndTransaction(w) \/ ReleaseLocks(w) \/ TryAcquireFails(w) \/ LockTimeout(w)
  BY <1>6 DEF EndTransaction, ReleaseLocks, TryAcquireFails, LockTimeout, TypeOK
<1>7. CASE \/ \E f \in RID, why \in {"select", "scan"} : StartRead(w, f, why)
           \/ ReadHeader(w) \/ ReadStateMin(w) \/ ReadStateMax(w) \/ ReadReturns(w)
  BY <1>7 DEF StartRead, ReadHeader, ReadStateMin, ReadStateMax, ReadReturns, TypeOK
<1>8. CASE WalkToLastVersion(w) \/ AppendVersion(w) \/ LinkVersion(w)
  BY <1>8 DEF WalkToLastVersion, AppendVersion, LinkVersion, TypeOK
<1> QED
  BY <1>1, <1>2, <1>3, <1>4, <1>5, <1>6, <1>7, <1>8 DEF Step

\* No transaction is started twice: one that has finished stays finished.
LEMMA StatesOnlyFinish ==
    ASSUME IInv, NEW w \in Workers, Step(w)
    PROVE  /\ \A t \in TxID \cup {NoTx} :
                 t < transaction_count => (IsActive(t)' => IsActive(t))
           /\ \A t : IsActive(t) /\ t # tx[w] => IsActive(t)'
           /\ \A t : IsActive(t) /\ pc[w] \notin {"set_committed", "erase"} => IsActive(t)'
           /\ transaction_count' >= transaction_count
<1> USE DEF IsActive, StateOf
<1>1. transaction_count \in Nat
  BY MaxTxIdAssumption DEF IInv, TypeOK, TransactionsType
<1>2. tx_state \in [TxID -> TransactionState] /\ active_transactions \subseteq TxID
  BY DEF IInv, TypeOK, TransactionsType
<1>3. \A t \in TxID \cup {NoTx} : t \in Nat
  BY MaxTxIdAssumption DEF TxID, NoTx
<1>4. pc[w] = "set_committed" => tx[w] \in TxID
  BY Transactions DEF IInv, Chains
<1>5. Begin(w) => pc[w] = "idle"
  BY DEF Begin
<1>6. SetStateCommitted(w) => pc[w] = "set_committed"
  BY DEF SetStateCommitted
<1>7. Erase(w) => pc[w] = "erase"
  BY DEF Erase
<1> QED
  BY TransactionSteps, <1>1, <1>2, <1>3, <1>4, <1>5, <1>6, <1>7

\* Every step leaves each worker that is not idle a transaction of its own.
LEMMA NextTransactions ==
    ASSUME IInv, NEW w \in Workers, Step(w), TypeOK'
    PROVE  WorkersHaveTransactions'
<1> USE DEF IInv, Chains
<1>1. \A v \in Workers : v # w => pc'[v] = pc[v]
  BY DEF Step, Begin, EndTransaction, SetStateCommitted, ReleaseLocks, Erase,
       StartRead, ReadHeader, ReadStateMin, ReadStateMax, ReadReturns, InsertRecord,
       TryAcquireSucceeds, TryAcquireFails, LockTimeout, WalkToLastVersion, AppendVersion,
       LinkVersion, GoTo, TypeOK
<1>2. pc \in [Workers -> PC] /\ tx \in [Workers -> TxID \cup {NoTx}]
      /\ tx_state \in [TxID -> TransactionState] /\ pc' \in [Workers -> PC]
  BY DEF TypeOK, TransactionsType
<1>3. \A v \in Workers : pc[v] # "idle" => tx[v] \in TxID
  BY Transactions
<1>4. CASE Begin(w)
  <2>1. pc[w] = "idle" /\ pc'[w] = "ready"
    BY <1>4, <1>2 DEF Begin, GoTo
  <2> QED
    BY <2>1, <1>1, <1>2, <1>3, TransactionSteps DEF WorkersHaveTransactions, SetStateCommitted, Erase
<1>5. CASE SetStateCommitted(w)
  <2>1. pc[w] = "set_committed" /\ pc'[w] = "release"
    BY <1>5, <1>2 DEF SetStateCommitted, GoTo
  <2> QED
    BY <2>1, <1>1, <1>2, <1>3, TransactionSteps DEF WorkersHaveTransactions, Begin, Erase
<1>6. CASE Erase(w)
  <2>1. pc[w] = "erase" /\ pc'[w] = "idle"
    BY <1>6, <1>2 DEF Erase, GoTo
  <2> QED
    BY <2>1, <1>1, <1>2, <1>3, TransactionSteps DEF WorkersHaveTransactions, Begin, SetStateCommitted
<1>7. CASE /\ UNCHANGED <<active_transactions, tx_state, transaction_count, tx>>
           /\ pc[w] \notin {"idle", "set_committed", "erase"}
           /\ pc'[w] # "idle"
           /\ pc'[w] \in {"release", "erase"} <=> pc[w] \in {"release", "erase"}
  BY <1>7, <1>1, <1>2, <1>3 DEF WorkersHaveTransactions
<1> QED
  BY <1>4, <1>5, <1>6, <1>7, TransactionSteps

--------------------------------------------------------------------------------
(****************************************************************************)
(* What a step leaves alone.                                                *)
(****************************************************************************)

\* A step changes the place of one worker only.
LEMMA OthersStay ==
    ASSUME IInv, NEW w \in Workers, Step(w), NEW v \in Workers, v # w
    PROVE  /\ pc'[v] = pc[v] /\ tx'[v] = tx[v]
           /\ first'[v] = first[v] /\ goal'[v] = goal[v]
           /\ current_rid'[v] = current_rid[v] /\ header'[v] = header[v]
           /\ state_min'[v] = state_min[v] /\ found'[v] = found[v] /\ seen'[v] = seen[v]
<1> USE DEF IInv, TypeOK, GoTo, walkVars, heapVars
<1>1. CASE Begin(w) \/ EndTransaction(w) \/ SetStateCommitted(w) \/ ReleaseLocks(w) \/ Erase(w)
  BY <1>1 DEF Begin, EndTransaction, SetStateCommitted, ReleaseLocks, Erase
<1>2. CASE \E f \in RID, why \in {"select", "scan"} : StartRead(w, f, why)
  BY <1>2 DEF StartRead
<1>3. CASE ReadHeader(w) \/ ReadStateMin(w)
  BY <1>3 DEF ReadHeader, ReadStateMin
<1>4. CASE ReadStateMax(w)
  BY <1>4 DEF ReadStateMax
<1>5. CASE ReadReturns(w)
  BY <1>5 DEF ReadReturns
<1>6. CASE InsertRecord(w) \/ TryAcquireSucceeds(w) \/ TryAcquireFails(w) \/ LockTimeout(w)
  BY <1>6 DEF InsertRecord, TryAcquireSucceeds, TryAcquireFails, LockTimeout
<1>7. CASE WalkToLastVersion(w) \/ AppendVersion(w) \/ LinkVersion(w)
  BY <1>7 DEF WalkToLastVersion, AppendVersion, LinkVersion
<1> QED
  BY <1>1, <1>2, <1>3, <1>4, <1>5, <1>6, <1>7 DEF Step

\* Three steps write records; the others leave the heap, and which version is
\* being linked in, as they are.
LEMMA HeapSteps ==
    ASSUME IInv, NEW w \in Workers, Step(w)
    PROVE  \/ InsertRecord(w) \/ AppendVersion(w) \/ LinkVersion(w)
           \/ /\ UNCHANGED heapVars
              /\ \A r : Pending(r)' <=> Pending(r)
<1> USE DEF IInv, TypeOK, GoTo, heapVars
<1>1. CASE Begin(w) \/ EndTransaction(w) \/ SetStateCommitted(w) \/ ReleaseLocks(w) \/ Erase(w)
           \/ (\E f \in RID, why \in {"select", "scan"} : StartRead(w, f, why))
           \/ ReadHeader(w) \/ ReadStateMin(w) \/ ReadStateMax(w) \/ ReadReturns(w)
           \/ TryAcquireSucceeds(w) \/ TryAcquireFails(w) \/ LockTimeout(w)
           \/ WalkToLastVersion(w)
  <2>1. UNCHANGED heapVars /\ pc[w] # "link" /\ pc'[w] # "link"
    BY <1>1 DEF Begin, EndTransaction, SetStateCommitted, ReleaseLocks, Erase, StartRead,
         ReadHeader, ReadStateMin, ReadStateMax, ReadReturns, TryAcquireSucceeds,
         TryAcquireFails, LockTimeout, WalkToLastVersion
  <2> QED
    BY <2>1, OthersStay DEF Pending
<1> QED
  BY <1>1 DEF Step

\* A lock stays with an unfinished transaction.
LEMMA LocksStay ==
    ASSUME IInv, NEW w \in Workers, Step(w), NEW k \in TupleKey, IsActive(lock_table[k])
    PROVE  lock_table'[k] = lock_table[k]
<1> USE DEF IInv, Chains
<1>1. CASE ReleaseLocks(w)
  <2>1. ~IsActive(tx[w])
    BY <1>1, Transactions DEF ReleaseLocks, WorkersHaveTransactions
  <2> QED
    BY <1>1, <2>1 DEF ReleaseLocks, ReleaseAllLocks
<1>2. CASE TryAcquireSucceeds(w)
  <2>1. lock_table[k] # NoTx
    BY Transactions
  <2> QED
    BY <1>2, <2>1 DEF TryAcquireSucceeds, AcquireLock, LockGranted, TypeOK, LockTableType
<1>3. CASE UNCHANGED lock_table
  BY <1>3
<1> QED
  BY <1>1, <1>2, <1>3 DEF Step, Begin, EndTransaction, SetStateCommitted, Erase,
       StartRead, ReadHeader, ReadStateMin, ReadStateMax, ReadReturns, InsertRecord,
       TryAcquireFails, LockTimeout, WalkToLastVersion, AppendVersion, LinkVersion

\* The locks of the running updates: two workers never have the same one.
LEMMA OneHolder ==
    ASSUME IInv, NEW v \in Workers, NEW w \in Workers,
           HasLock(v), HasLock(w), first[v] = first[w]
    PROVE  v = w
<1>1. pc[v] # "idle" /\ pc[w] # "idle"
  BY DEF HasLock, InUpdate, Reading
<1> QED
  BY <1>1 DEF IInv, Chains, PlaceInTuple, WorkersHaveTransactions

\* insert_record writes one new version behind all others.
LEMMA RecordIsNew ==
    ASSUME IInv, NEW w \in Workers, InsertRecord(w) \/ AppendVersion(w)
    PROVE  /\ next_rid \in RID /\ next_rid \notin Allocated
           /\ Allocated' = Allocated \cup {next_rid}
           /\ \A r \in Allocated : r < next_rid
           /\ \A r \in RID : r # next_rid => heap'[r] = heap[r]
           /\ heap'[next_rid].t_min = tx[w] /\ tx[w] \in TxID
           /\ heap'[next_rid].t_max = NoTx /\ heap'[next_rid].next = next_rid
           /\ InsertRecord(w) => /\ heap'[next_rid].first = next_rid
                                 /\ heap'[next_rid].value = {tx[w]}
           /\ AppendVersion(w) => /\ heap'[next_rid].first = first[w]
                                  /\ heap'[next_rid].value = seen[w] \cup {tx[w]}
<1>1. next_rid \in RID /\ next_rid' = next_rid + 1 /\ next_rid \in Nat
  BY HeapFileAssumption DEF InsertRecord, AppendVersion, RID
<1>2. heap \in [RID -> Version]
  BY DEF IInv, TypeOK
<1>3. Allocated' = Allocated \cup {next_rid} /\ \A r \in Allocated : r < next_rid
  <2>1. 1..((next_rid + 1) - 1) = (1..(next_rid - 1)) \cup {next_rid}
    BY <1>1 DEF RID
  <2> QED
    BY <1>1, <2>1 DEF Allocated
<1>4. next_rid \notin Allocated
  BY <1>1 DEF Allocated
<1>5. tx[w] \in TxID
  BY Transactions DEF IInv, Chains, InsertRecord, AppendVersion
<1>6. CASE InsertRecord(w)
  BY <1>1, <1>2, <1>3, <1>4, <1>5, <1>6 DEF InsertRecord, AppendVersion, NewVersion
<1>7. CASE AppendVersion(w)
  BY <1>1, <1>2, <1>3, <1>4, <1>5, <1>7 DEF InsertRecord, AppendVersion, NewVersion
<1> QED
  BY <1>6, <1>7

\* update_record_header closes one version, and changes nothing else of it.
LEMMA RecordIsClosed ==
    ASSUME IInv, NEW w \in Workers, LinkVersion(w)
    PROVE  /\ current_rid[w] \in Allocated /\ found[w] \in Allocated
           /\ current_rid[w] < found[w]
           /\ tx[w] \in TxID
           /\ Allocated' = Allocated
           /\ \A r \in RID : r # current_rid[w] => heap'[r] = heap[r]
           /\ \A r \in RID : /\ heap'[r].t_min = heap[r].t_min
                             /\ heap'[r].first = heap[r].first
                             /\ heap'[r].value = heap[r].value
           /\ heap[current_rid[w]].t_max = NoTx
           /\ heap'[current_rid[w]].t_max = tx[w]
           /\ heap'[current_rid[w]].next = found[w]
<1>1. heap \in [RID -> Version] /\ current_rid[w] \in RID
  BY AllocatedIsRID DEF IInv, Chains, TypeOK, LinkVersion, PlaceInTuple, Walking
<1>2. /\ heap' = [heap EXCEPT ![current_rid[w]] = Closed(heap[current_rid[w]], tx[w], found[w])]
      /\ UNCHANGED next_rid
  BY DEF LinkVersion
<1>3. \A r \in RID : r # current_rid[w] => heap'[r] = heap[r]
  BY <1>1, <1>2
<1>4. heap'[current_rid[w]] = Closed(heap[current_rid[w]], tx[w], found[w])
  BY <1>1, <1>2
<1>5. tx[w] \in TxID
  BY Transactions DEF IInv, Chains, LinkVersion
<1>6. /\ current_rid[w] \in Allocated /\ found[w] \in Allocated
      /\ current_rid[w] < found[w] /\ heap[current_rid[w]].t_max = NoTx
  BY DEF IInv, Chains, LinkVersion, PlaceInTuple, UpdateInProgress, Walking
<1> QED
  BY <1>2, <1>3, <1>4, <1>5, <1>6 DEF Closed, Allocated

\* Every id that is in use has been handed out.
LEMMA NextIds ==
    ASSUME IInv, NEW w \in Workers, Step(w), TypeOK'
    PROVE  IdsAreFresh'
<1> USE DEF IInv, Chains
<1>0. /\ transaction_count \in Nat /\ transaction_count' \in Nat
      /\ transaction_count' >= transaction_count
      /\ \A t \in TxID \cup {NoTx} : t \in Nat
      /\ active_transactions \subseteq TxID
  BY StatesOnlyFinish, MaxTxIdAssumption DEF TypeOK, TransactionsType, TxID, NoTx
<1>1. \A t \in active_transactions' : t < transaction_count'
  <2>1. \A t \in active_transactions : t < transaction_count'
    BY <1>0 DEF IdsAreFresh
  <2>2. active_transactions' \subseteq active_transactions
        \/ /\ transaction_count' = transaction_count + 1
           /\ active_transactions' = active_transactions \cup {transaction_count}
    BY TransactionSteps
  <2> QED
    BY <2>1, <2>2, <1>0
<1>2. pc[w] # "idle" => tx[w] \in TxID \cup {NoTx} /\ tx[w] < transaction_count
  BY Transactions DEF WorkersHaveTransactions, IdsAreFresh
<1>3. 0 < transaction_count
  BY MaxTxIdAssumption DEF TypeOK, TransactionsType
<1>4. \A r \in RID : /\ heap[r].t_min \in Nat /\ heap[r].t_max \in Nat
                     /\ heap[r].t_min < transaction_count /\ heap[r].t_max < transaction_count
  BY <1>0, AllocatedIsRID DEF Version, IdsAreFresh
<1>5. \A r \in RID : heap'[r].t_min < transaction_count' /\ heap'[r].t_max < transaction_count'
  <2>1. CASE InsertRecord(w) \/ AppendVersion(w)
    <3>1. tx[w] < transaction_count
      BY <2>1, <1>2 DEF InsertRecord, AppendVersion
    <3> QED
      BY <2>1, <3>1, <1>0, <1>3, <1>4, RecordIsNew DEF NoTx
  <2>2. CASE LinkVersion(w)
    <3>1. tx[w] < transaction_count
      BY <2>2, <1>2 DEF LinkVersion
    <3> QED
      BY <2>2, <3>1, <1>0, <1>3, <1>4, RecordIsClosed DEF NoTx
  <2> QED
    BY <2>1, <2>2, <1>0, <1>4, HeapSteps DEF heapVars
<1>6. \A v \in Workers : \A h \in header'[v] : h.t_min < transaction_count' /\ h.t_max < transaction_count'
  <2>1. \A v \in Workers : \A h \in header[v] :
           /\ h.t_min \in Nat /\ h.t_max \in Nat
           /\ h.t_min < transaction_count' /\ h.t_max < transaction_count'
    <3>1. \A v \in Workers : \A h \in header[v] :
             h.t_min \in TxID \cup {NoTx} /\ h.t_max \in TxID \cup {NoTx}
      BY DEF TypeOK, Version
    <3> QED
      BY <3>1, <1>0 DEF IdsAreFresh
  <2>2. header' = header \/ header' = [header EXCEPT ![w] = {}] \/ ReadHeader(w)
    BY DEF Step, Begin, EndTransaction, SetStateCommitted, ReleaseLocks, Erase,
       StartRead, ReadStateMin, ReadStateMax, ReadReturns, InsertRecord, TryAcquireSucceeds,
       TryAcquireFails, LockTimeout, WalkToLastVersion, AppendVersion, LinkVersion, walkVars
  <2>3. CASE ReadHeader(w)
    <3>1. heap[current_rid[w]].t_min < transaction_count' /\ heap[current_rid[w]].t_max < transaction_count'
      BY <2>3, <1>4, <1>0, AllocatedIsRID DEF ReadHeader, PlaceInTuple, Walking
    <3> QED
      BY <3>1, <2>1, <2>3 DEF ReadHeader, TypeOK
  <2> QED
    BY <2>1, <2>2, <2>3 DEF TypeOK
<1> QED
  BY <1>1, <1>5, <1>6 DEF IdsAreFresh

\* The versions a step finds finished stay finished, and the ones it finds
\* unfinished stay locked.
LEMMA VersionsFinish ==
    ASSUME IInv, NEW w \in Workers, Step(w), NEW r \in RID
    PROVE  /\ IsActive(heap[r].t_min)' /\ heap'[r].t_min = heap[r].t_min => IsActive(heap[r].t_min)
           /\ StateOf(heap[r].t_max)' = "ACTIVE" /\ heap'[r].t_max = heap[r].t_max
                => IsActive(heap[r].t_max)
<1>1. heap[r].t_min \in TxID \cup {NoTx} /\ heap[r].t_max \in TxID \cup {NoTx}
  BY AllocatedIsRID DEF IInv, Version
<1> QED
  BY <1>1, StatesOnlyFinish DEF IInv, Chains, IdsAreFresh, IsActive, StateOf

--------------------------------------------------------------------------------
(****************************************************************************)
(* Chains.                                                                  *)
(****************************************************************************)

\* Which versions are being linked in, after each step that writes records.
LEMMA PendingSteps ==
    ASSUME IInv, NEW w \in Workers
    PROVE  /\ \A r : Pending(r) => r \in Allocated /\ heap[r].t_max = NoTx
           /\ Step(w) /\ InsertRecord(w) => \A r : Pending(r)' <=> Pending(r)
           /\ Step(w) /\ AppendVersion(w) => \A r : Pending(r)' <=> Pending(r) \/ r = next_rid
           /\ Step(w) /\ LinkVersion(w) =>
                 /\ \A r : Pending(r)' <=> Pending(r) /\ r # found[w]
                 /\ \A r : Pending(r) /\ heap[r].first = first[w] => r = found[w]
<1> USE DEF IInv, Chains
<1>1. \A r : Pending(r) => r \in Allocated /\ heap[r].t_max = NoTx
  BY DEF Pending, UpdateInProgress
<1>2. ASSUME InsertRecord(w) PROVE \A r : Pending(r)' <=> Pending(r)
  BY <1>2 DEF InsertRecord, Pending, walkVars
<1>3. ASSUME Step(w), AppendVersion(w) PROVE \A r : Pending(r)' <=> Pending(r) \/ r = next_rid
  <2>1. pc[w] # "link" /\ pc'[w] = "link" /\ found'[w] = next_rid
    BY <1>3 DEF AppendVersion, GoTo, TypeOK
  <2> QED
    BY <1>3, <2>1, OthersStay DEF Pending
<1>4. ASSUME Step(w), LinkVersion(w)
      PROVE  /\ \A r : Pending(r)' <=> Pending(r) /\ r # found[w]
             /\ \A r : Pending(r) /\ heap[r].first = first[w] => r = found[w]
  <2>1. pc[w] = "link" /\ pc'[w] # "link"
    BY <1>4 DEF LinkVersion, GoTo, TypeOK
  <2>2. \A v \in Workers : pc[v] = "link" => HasLock(v) /\ heap[found[v]].first = first[v]
    BY DEF HasLock, InUpdate, UpdateInProgress
  <2>3. \A v \in Workers : pc[v] = "link" /\ heap[found[v]].first = first[w] => v = w
    BY <2>1, <2>2, OneHolder
  <2> QED
    BY <1>4, <2>1, <2>2, <2>3, OthersStay DEF Pending
<1> QED
  BY <1>1, <1>2, <1>3, <1>4

\* The chains of the table, after a step that writes no record.
LEMMA QuietChains ==
    ASSUME IInv, NEW w \in Workers, Step(w),
           UNCHANGED heapVars, \A r : Pending(r)' <=> Pending(r)
    PROVE  (ChainsWellFormed /\ ChainOrder /\ ChainEnds)'
<1> USE DEF IInv, Chains, heapVars
<1>1. Allocated' = Allocated /\ Allocated \subseteq RID
  BY AllocatedIsRID DEF Allocated
<1>2. ChainsWellFormed'
  BY <1>1 DEF ChainsWellFormed
<1>3. ChainOrder'
  <2>1. \A r \in Allocated : IsActive(heap[r].t_min)' => IsActive(heap[r].t_min)
    BY <1>1, VersionsFinish
  <2> QED
    BY <1>1, <2>1 DEF ChainOrder
<1>4. ChainEnds'
  BY <1>1 DEF ChainEnds, Versions
<1> QED
  BY <1>2, <1>3, <1>4

\* An INSERT begins a new chain of one version.
LEMMA InsertChains ==
    ASSUME IInv, NEW w \in Workers, Step(w), InsertRecord(w)
    PROVE  (ChainsWellFormed /\ ChainOrder /\ ChainEnds)'
<1> USE DEF IInv, Chains
<1> DEFINE n == next_rid
<1>1. /\ n \in RID /\ n \notin Allocated /\ Allocated' = Allocated \cup {n}
      /\ \A r \in RID : r # n => heap'[r] = heap[r]
      /\ heap'[n].first = n /\ heap'[n].t_max = NoTx
      /\ heap'[n].t_min = tx[w] /\ heap'[n].value = {tx[w]}
      /\ \A r \in Allocated : r < n
  BY RecordIsNew
<1>2. \A r : Pending(r)' <=> Pending(r)
  BY PendingSteps
<1>3. Allocated \subseteq RID /\ \A r \in RID : r \in Nat
  BY AllocatedIsRID
<1>4. ~Pending(n)
  BY <1>1, PendingSteps
<1>5. \A r \in Allocated : heap'[r] = heap[r] /\ r # n /\ heap[r].first \in Allocated
  BY <1>1, <1>3 DEF ChainOrder
<1> HIDE DEF n
<1>6. ChainsWellFormed'
  BY <1>1, <1>3, <1>5 DEF ChainsWellFormed
<1>7. ChainOrder'
  <2>1. \A r \in (RID \ Allocated)' : heap'[r].t_max = NoTx
    BY <1>1 DEF ChainOrder
  <2>2. \A r \in Allocated' :
          /\ heap'[r].first \in Allocated' /\ heap'[r].first <= r
          /\ heap'[heap'[r].first].first = heap'[r].first
    BY <1>1, <1>3, <1>5 DEF ChainOrder
  <2>3. \A r \in Allocated' : heap'[r].t_max # NoTx =>
          /\ ~Pending(heap[r].next)'
          /\ \A q \in Allocated' : heap'[q].first = heap'[r].first /\ q > r => q >= heap'[r].next
    <3> SUFFICES ASSUME NEW r \in Allocated', heap'[r].t_max # NoTx
                 PROVE  /\ ~Pending(heap[r].next)'
                        /\ \A q \in Allocated' :
                             heap'[q].first = heap'[r].first /\ q > r => q >= heap'[r].next
      OBVIOUS
    <3>1. r \in Allocated /\ heap'[r] = heap[r] /\ heap[r].first # n
      BY <1>1, <1>5
    <3>2. ~Pending(heap[r].next)'
      BY <1>2, <3>1 DEF ChainOrder, Pending
    <3> QED
      BY <1>1, <1>5, <3>1, <3>2 DEF ChainOrder
  <2>4. \A r, q \in Allocated' :
          heap'[r].first = heap'[q].first /\ r < q /\ ~Pending(q)' => heap'[r].t_max # NoTx
    BY <1>1, <1>2, <1>3, <1>5 DEF ChainOrder
  <2>5. \A r, q \in Allocated' :
          heap'[r].first = heap'[q].first /\ r < q /\ IsActive(heap[r].t_min)' =>
              heap'[q].t_min = heap'[r].t_min
    <3>1. \A r \in Allocated : IsActive(heap[r].t_min)' => IsActive(heap[r].t_min)
      BY <1>3, <1>5, VersionsFinish
    <3> QED
      BY <1>1, <1>3, <1>5, <3>1 DEF ChainOrder
  <2> QED
    BY <2>1, <2>2, <2>3, <2>4, <2>5 DEF ChainOrder
<1>8. ChainEnds'
  <2>1. ASSUME NEW f \in Allocated', heap'[f].first = f
        PROVE  \E end \in Versions(f)' : heap'[end].t_max = NoTx /\ ~Pending(end)'
    <3>1. CASE f = n
      BY <3>1, <1>1, <1>2, <1>4 DEF Versions
    <3>2. CASE f # n
      <4>1. PICK end \in Versions(f) : heap[end].t_max = NoTx /\ ~Pending(end)
        BY <3>2, <2>1, <1>1, <1>5 DEF ChainEnds
      <4> QED
        BY <4>1, <1>1, <1>2, <1>5 DEF Versions
    <3> QED
      BY <3>1, <3>2
  <2>2. \A r, q \in Allocated' :
          /\ heap'[r].first = heap'[q].first
          /\ heap'[r].t_max = NoTx /\ ~Pending(q)' /\ heap'[q].t_min # NoTx
          => heap'[q].t_min \in heap'[r].value
    BY <1>1, <1>2, <1>5 DEF ChainEnds
  <2> QED
    BY <2>1, <2>2 DEF ChainEnds
<1> QED
  BY <1>6, <1>7, <1>8

\* An UPDATE first writes its version, which nothing points to yet.
LEMMA AppendChains ==
    ASSUME IInv, NEW w \in Workers, Step(w), AppendVersion(w)
    PROVE  (ChainsWellFormed /\ ChainOrder /\ ChainEnds)'
<1> USE DEF IInv, Chains
<1> DEFINE n == next_rid
<1>1. /\ n \in RID /\ n \notin Allocated /\ Allocated' = Allocated \cup {n}
      /\ \A r \in RID : r # n => heap'[r] = heap[r]
      /\ heap'[n].first = first[w] /\ heap'[n].t_max = NoTx
      /\ heap'[n].t_min = tx[w] /\ heap'[n].value = seen[w] \cup {tx[w]}
      /\ \A r \in Allocated : r < n
  BY RecordIsNew
<1>2. \A r : Pending(r)' <=> Pending(r) \/ r = n
  BY PendingSteps
<1>3. Allocated \subseteq RID /\ \A r \in RID : r \in Nat
  BY AllocatedIsRID
<1>4. pc[w] = "append" /\ first[w] \in Allocated /\ heap[first[w]].first = first[w]
  BY DEF AppendVersion, PlaceInTuple, InUpdate
<1>5. \A r \in Allocated : heap'[r] = heap[r] /\ r # n /\ heap[r].first \in Allocated
  BY <1>1, <1>3 DEF ChainOrder
<1> HIDE DEF n
<1>6. ChainsWellFormed'
  BY <1>1, <1>3, <1>5 DEF ChainsWellFormed
<1>7. ChainOrder'
  <2>1. \A r \in (RID \ Allocated)' : heap'[r].t_max = NoTx
    BY <1>1 DEF ChainOrder
  <2>2. \A r \in Allocated' :
          /\ heap'[r].first \in Allocated' /\ heap'[r].first <= r
          /\ heap'[heap'[r].first].first = heap'[r].first
    BY <1>1, <1>3, <1>4, <1>5 DEF ChainOrder
  <2>3. \A r \in Allocated' : heap'[r].t_max # NoTx =>
          /\ ~Pending(heap[r].next)'
          /\ \A q \in Allocated' : heap'[q].first = heap'[r].first /\ q > r => q >= heap'[r].next
    <3> SUFFICES ASSUME NEW r \in Allocated', heap'[r].t_max # NoTx
                 PROVE  /\ ~Pending(heap[r].next)'
                        /\ \A q \in Allocated' :
                             heap'[q].first = heap'[r].first /\ q > r => q >= heap'[r].next
      OBVIOUS
    <3>1. r \in Allocated /\ heap'[r] = heap[r] /\ heap[r].next \in Allocated
      BY <1>1, <1>5 DEF ChainsWellFormed
    <3>2. ~Pending(heap[r].next)'
      <4>1. PICK x \in Allocated : x = heap[r].next
        BY <3>1
      <4>2. ~Pending(x)
        BY <3>1, <4>1 DEF ChainOrder
      <4>3. ~Pending(x)'
        BY <1>1, <1>2, <4>2
      <4> QED
        BY <3>1, <4>1, <4>3 DEF Pending
    <3>3. n >= heap[r].next
      BY <1>1, <1>3, <3>1
    <3> QED
      BY <1>1, <1>5, <3>1, <3>2, <3>3 DEF ChainOrder
  <2>4. \A r, q \in Allocated' :
          heap'[r].first = heap'[q].first /\ r < q /\ ~Pending(q)' => heap'[r].t_max # NoTx
    BY <1>1, <1>2, <1>3, <1>5 DEF ChainOrder
  <2>5. \A r, q \in Allocated' :
          heap'[r].first = heap'[q].first /\ r < q /\ IsActive(heap[r].t_min)' =>
              heap'[q].t_min = heap'[r].t_min
    <3>1. \A r \in Allocated : IsActive(heap[r].t_min)' => IsActive(heap[r].t_min)
      BY <1>3, <1>5, VersionsFinish
    <3>2. \A r \in Allocated : heap[r].first = first[w] /\ IsActive(heap[r].t_min) =>
             heap[r].t_min = tx[w]
      BY <1>4 DEF UpdateInProgress, Versions
    <3> QED
      BY <1>1, <1>3, <1>5, <3>1, <3>2 DEF ChainOrder
  <2> QED
    BY <2>1, <2>2, <2>3, <2>4, <2>5 DEF ChainOrder
<1>8. ChainEnds'
  <2>1. ASSUME NEW f \in Allocated', heap'[f].first = f
        PROVE  \E end \in Versions(f)' : heap'[end].t_max = NoTx /\ ~Pending(end)'
    <3>1. f \in Allocated /\ heap[f].first = f
      BY <2>1, <1>1, <1>4, <1>5
    <3>2. PICK end \in Versions(f) : heap[end].t_max = NoTx /\ ~Pending(end)
      BY <3>1 DEF ChainEnds
    <3> QED
      BY <3>2, <1>1, <1>2, <1>5 DEF Versions
  <2>2. ASSUME NEW r \in Allocated', NEW q \in Allocated',
               heap'[r].first = heap'[q].first,
               heap'[r].t_max = NoTx, ~Pending(q)', heap'[q].t_min # NoTx
        PROVE  heap'[q].t_min \in heap'[r].value
    <3>1. q \in Allocated /\ ~Pending(q) /\ heap'[q] = heap[q]
      BY <2>2, <1>1, <1>2, <1>5
    <3>2. CASE r \in Allocated
      BY <3>1, <3>2, <2>2, <1>5 DEF ChainEnds
    <3>3. CASE r = n
      <4>1. PICK end \in Versions(first[w]) : heap[end].t_max = NoTx /\ ~Pending(end)
        BY <1>4 DEF ChainEnds
      <4>2. heap[q].t_min \in heap[end].value
        BY <4>1, <3>1, <3>3, <2>2, <1>1 DEF ChainEnds, Versions
      <4>3. heap[end].value \subseteq seen[w]
        BY <4>1, <1>4 DEF UpdateInProgress
      <4> QED
        BY <4>2, <4>3, <3>1, <3>3, <1>1
    <3> QED
      BY <3>2, <3>3, <1>1
  <2> QED
    BY <2>1, <2>2 DEF ChainEnds
<1> QED
  BY <1>6, <1>7, <1>8

\* ... and then closes the version that was the end: the new one becomes the end.
LEMMA LinkChains ==
    ASSUME IInv, NEW w \in Workers, Step(w), LinkVersion(w)
    PROVE  (ChainsWellFormed /\ ChainOrder /\ ChainEnds)'
<1> USE DEF IInv, Chains
<1> DEFINE c == current_rid[w]
           n == found[w]
<1>1. /\ c \in Allocated /\ n \in Allocated /\ c < n /\ tx[w] \in TxID
      /\ Allocated' = Allocated
      /\ \A r \in RID : r # c => heap'[r] = heap[r]
      /\ \A r \in RID : /\ heap'[r].t_min = heap[r].t_min
                        /\ heap'[r].first = heap[r].first
                        /\ heap'[r].value = heap[r].value
      /\ heap[c].t_max = NoTx /\ heap'[c].t_max = tx[w] /\ heap'[c].next = n
  BY RecordIsClosed
<1>2. /\ \A r : Pending(r)' <=> Pending(r) /\ r # n
      /\ \A r : Pending(r) /\ heap[r].first = first[w] => r = n
  BY PendingSteps
<1>3. Allocated \subseteq RID /\ \A r \in RID : r \in Nat
  BY AllocatedIsRID
<1>4. /\ pc[w] = "link" /\ first[w] \in Allocated /\ heap[c].first = first[w]
      /\ heap[n].first = first[w] /\ heap[n].t_min = tx[w] /\ heap[n].t_max = NoTx
      /\ tx[w] \in heap[n].value /\ ~Pending(c)
  BY DEF LinkVersion, PlaceInTuple, UpdateInProgress, InUpdate, Walking
<1> HIDE DEF c, n
<1>5. \A r \in Allocated : heap[r].first = first[w] /\ r # n /\ r # c =>
          r < c /\ heap[r].t_max # NoTx
  \* c is the newest version that is not being linked in
  <2> SUFFICES ASSUME NEW r \in Allocated, heap[r].first = first[w], r # n, r # c
               PROVE  r < c /\ heap[r].t_max # NoTx
    OBVIOUS
  <2>1. ~Pending(r)
    BY <1>2
  <2>2. ~(c < r)
    BY <2>1, <1>1, <1>4 DEF ChainOrder
  <2>3. r < c
    BY <2>2, <1>1, <1>3
  <2> QED
    BY <2>3, <1>1, <1>4 DEF ChainOrder
<1>0. NoTx \notin TxID
  BY Transactions
<1>6. ChainsWellFormed'
  <2> SUFFICES ASSUME NEW r \in Allocated, heap'[r].t_max # NoTx
               PROVE  /\ heap'[r].next \in Allocated /\ heap'[r].next > r
                      /\ heap'[heap'[r].next].first = heap'[r].first
                      /\ heap'[heap'[r].next].t_min = heap'[r].t_max
    BY <1>1 DEF ChainsWellFormed
  <2>1. CASE r = c
    BY <2>1, <1>1, <1>3, <1>4
  <2>2. CASE r # c
    BY <2>2, <1>1, <1>3 DEF ChainsWellFormed
  <2> QED
    BY <2>1, <2>2
<1>7. ChainOrder'
  <2>1. \A r \in (RID \ Allocated)' : heap'[r].t_max = NoTx
    BY <1>1 DEF ChainOrder
  <2>2. \A r \in Allocated' :
          /\ heap'[r].first \in Allocated' /\ heap'[r].first <= r
          /\ heap'[heap'[r].first].first = heap'[r].first
    BY <1>1, <1>3 DEF ChainOrder
  <2>3. \A r \in Allocated' : heap'[r].t_max # NoTx =>
          /\ ~Pending(heap[r].next)'
          /\ \A q \in Allocated' : heap'[q].first = heap'[r].first /\ q > r => q >= heap'[r].next
    <3> SUFFICES ASSUME NEW r \in Allocated, heap'[r].t_max # NoTx
                 PROVE  /\ ~Pending(heap[r].next)'
                        /\ \A q \in Allocated :
                             heap'[q].first = heap'[r].first /\ q > r => q >= heap'[r].next
      BY <1>1
    <3>1. CASE r = c
      <4>1. ~Pending(heap[r].next)'
        BY <3>1, <1>1, <1>2 DEF Pending
      <4>2. \A q \in Allocated : heap[q].first = first[w] /\ q > c => q = n
        BY <1>1, <1>3, <1>5
      <4> QED
        BY <4>1, <4>2, <3>1, <1>1, <1>3, <1>4
    <3>2. CASE r # c
      <4>0. heap'[r] = heap[r]
        BY <3>2, <1>1, <1>3
      <4>1. ~Pending(heap[r].next)'
        <5>1. PICK x : x = heap[r].next
          OBVIOUS
        <5>2. ~Pending(x)
          BY <4>0, <5>1 DEF ChainOrder
        <5>3. ~Pending(x)'
          BY <1>2, <5>2
        <5> QED
          BY <4>0, <5>1, <5>3 DEF Pending
      <4> QED
        BY <4>1, <3>2, <1>1, <1>3 DEF ChainOrder
    <3> QED
      BY <3>1, <3>2
  <2>4. \A r, q \in Allocated' :
          heap'[r].first = heap'[q].first /\ r < q /\ ~Pending(q)' => heap'[r].t_max # NoTx
    <3> SUFFICES ASSUME NEW r \in Allocated, NEW q \in Allocated,
                        heap[r].first = heap[q].first, r < q, ~Pending(q)'
                 PROVE  heap'[r].t_max # NoTx
      BY <1>1, <1>3
    <3>1. CASE r = c
      BY <3>1, <1>0, <1>1
    <3>2. CASE r # c /\ q = n
      BY <3>2, <1>1, <1>3, <1>4, <1>5
    <3>3. CASE r # c /\ q # n
      BY <3>3, <1>1, <1>2, <1>3 DEF ChainOrder
    <3> QED
      BY <3>1, <3>2, <3>3
  <2>5. \A r, q \in Allocated' :
          heap'[r].first = heap'[q].first /\ r < q /\ IsActive(heap[r].t_min)' =>
              heap'[q].t_min = heap'[r].t_min
    <3>1. \A r \in Allocated : IsActive(heap[r].t_min)' => IsActive(heap[r].t_min)
      BY <1>1, <1>3, VersionsFinish
    <3> QED
      BY <1>1, <1>3, <3>1 DEF ChainOrder
  <2> QED
    BY <2>1, <2>2, <2>3, <2>4, <2>5 DEF ChainOrder
<1>8. ChainEnds'
  <2>1. ASSUME NEW f \in Allocated, heap[f].first = f
        PROVE  \E end \in Versions(f)' : heap'[end].t_max = NoTx /\ ~Pending(end)'
    <3>1. CASE f = first[w]
      <4>1. PICK end \in Allocated : end = n
        BY <1>1
      <4>2. end \in Versions(f)' /\ heap'[end].t_max = NoTx /\ ~Pending(end)'
        BY <4>1, <3>1, <1>1, <1>2, <1>3, <1>4 DEF Versions
      <4> QED
        BY <4>2
    <3>2. CASE f # first[w]
      <4>1. PICK end \in Versions(f) : heap[end].t_max = NoTx /\ ~Pending(end)
        BY <2>1 DEF ChainEnds
      <4>2. end # c /\ end \in Allocated
        BY <4>1, <3>2, <1>4 DEF Versions
      <4> QED
        BY <4>1, <4>2, <1>1, <1>2, <1>3 DEF Versions
    <3> QED
      BY <3>1, <3>2
  <2>2. ASSUME NEW r \in Allocated, NEW q \in Allocated,
               heap[r].first = heap[q].first,
               heap'[r].t_max = NoTx, ~Pending(q)', heap[q].t_min # NoTx
        PROVE  heap[q].t_min \in heap[r].value
    <3>1. r # c /\ heap[r].t_max = NoTx
      BY <2>2, <1>0, <1>1, <1>3
    <3>2. CASE q = n
      <4>1. r = n
        BY <3>1, <3>2, <2>2, <1>4, <1>5
      <4> QED
        BY <4>1, <3>2, <1>4
    <3>3. CASE q # n
      BY <3>1, <3>3, <2>2, <1>2 DEF ChainEnds
    <3> QED
      BY <3>2, <3>3
  <2>3. \A f \in Allocated' : heap'[f].first = heap[f].first /\ heap'[f].t_min = heap[f].t_min
                              /\ heap'[f].value = heap[f].value
    BY <1>1, <1>3
  <2> QED
    BY <2>1, <2>2, <2>3, <1>1 DEF ChainEnds
<1> QED
  BY <1>6, <1>7, <1>8

\* Versions are never removed, and only t_max and next of an open one change.
LEMMA HeapGrows ==
    ASSUME IInv, NEW w \in Workers, Step(w)
    PROVE  /\ Allocated \subseteq Allocated'
           /\ \A r \in Allocated : /\ heap'[r].first = heap[r].first
                                   /\ heap'[r].t_min = heap[r].t_min
                                   /\ heap'[r].value = heap[r].value
           /\ \A r \in Allocated : heap'[r] = heap[r] \/ (LinkVersion(w) /\ r = current_rid[w])
           /\ \A r \in Allocated : heap[r].t_max # NoTx => heap'[r] = heap[r]
           /\ \A r \in Allocated : Pending(r)' => Pending(r)
           /\ \A r \in Allocated' : r \notin Allocated =>
                 r = next_rid /\ (InsertRecord(w) \/ AppendVersion(w))
<1>0. Allocated \subseteq RID
  BY AllocatedIsRID DEF IInv
<1>1. CASE InsertRecord(w) \/ AppendVersion(w)
  <2>1. \A r \in Allocated : Pending(r)' => Pending(r)
    BY <1>1, PendingSteps, RecordIsNew
  <2> QED
    BY <1>0, <1>1, <2>1, RecordIsNew
<1>2. CASE LinkVersion(w)
  <2>1. \A r \in Allocated : Pending(r)' => Pending(r)
    BY <1>2, PendingSteps
  <2> QED
    BY <1>0, <1>2, <2>1, RecordIsClosed
<1>3. CASE UNCHANGED heapVars /\ \A r : Pending(r)' <=> Pending(r)
  BY <1>3 DEF heapVars, Allocated
<1> QED
  BY <1>1, <1>2, <1>3, HeapSteps

\* The first version of a tuple is never one that is being linked in.
LEMMA FirstIsLinked ==
    ASSUME IInv, NEW f \in Allocated, heap[f].first = f
    PROVE  ~Pending(f)
<1> SUFFICES ASSUME NEW v \in Workers, pc[v] = "link", found[v] = f PROVE FALSE
  BY DEF Pending
<1>1. /\ current_rid[v] \in Allocated /\ heap[current_rid[v]].first = f /\ current_rid[v] < f
  BY DEF IInv, Chains, PlaceInTuple, UpdateInProgress, Walking
<1>2. f <= current_rid[v]
  BY <1>1 DEF IInv, Chains, ChainOrder
<1>3. f \in Nat /\ current_rid[v] \in Nat
  BY <1>1, AllocatedIsRID DEF IInv
<1> QED
  BY <1>1, <1>2, <1>3

\* New versions of unfinished transactions stay locked.
LEMMA NextDirtyLocked ==
    ASSUME IInv, NEW w \in Workers, Step(w)
    PROVE  DirtyVersionsAreLocked'
<1> USE DEF IInv, Chains
<1> SUFFICES ASSUME NEW r \in Allocated', heap'[r].first # r, IsActive(heap[r].t_min)'
             PROVE  lock_table'[heap'[r].first] = heap'[r].t_min
  BY DEF DirtyVersionsAreLocked
<1>1. CASE r \in Allocated
  <2>1. heap'[r].first = heap[r].first /\ heap'[r].t_min = heap[r].t_min /\ r \in RID
    BY <1>1, HeapGrows, AllocatedIsRID
  <2>2. IsActive(heap[r].t_min)
    BY <2>1, VersionsFinish
  <2>3. heap[r].first \in TupleKey
    BY <1>1, AllocatedIsRID, HeapFileAssumption DEF ChainOrder, RID
  <2>4. lock_table[heap[r].first] = heap[r].t_min
    BY <1>1, <2>1, <2>2 DEF DirtyVersionsAreLocked
  <2> QED
    BY <2>1, <2>2, <2>3, <2>4, LocksStay
<1>2. CASE r \notin Allocated
  <2>1. r = next_rid /\ AppendVersion(w)
    BY <1>2, HeapGrows, RecordIsNew
  <2>2. lock_table[first[w]] = tx[w] /\ lock_table' = lock_table
    BY <2>1 DEF AppendVersion, PlaceInTuple, HasLock, InUpdate
  <2> QED
    BY <2>1, <2>2, RecordIsNew
<1> QED
  BY <1>1, <1>2

\* The places of the workers that do not move.
LEMMA OthersPlace ==
    ASSUME IInv, NEW w \in Workers, Step(w), NEW v \in Workers, v # w
    PROVE  /\ pc[v] \in Reading \cup InUpdate \cup {"acquire", "retry"} =>
                 first'[v] \in Allocated' /\ heap'[first'[v]].first = first'[v]
           /\ pc[v] \in Walking =>
                 /\ current_rid'[v] \in Allocated'
                 /\ heap'[current_rid'[v]].first = first'[v]
                 /\ ~Pending(current_rid[v])'
           /\ HasLock(v)' <=> HasLock(v)
           /\ HasLock(v) => lock_table'[first'[v]] = tx'[v]
<1> USE DEF IInv, Chains
<1>1. /\ pc'[v] = pc[v] /\ tx'[v] = tx[v] /\ first'[v] = first[v] /\ goal'[v] = goal[v]
      /\ current_rid'[v] = current_rid[v]
  BY OthersStay
<1>2. HasLock(v)' <=> HasLock(v)
  BY <1>1 DEF HasLock
<1>3. ASSUME HasLock(v) PROVE lock_table'[first'[v]] = tx'[v]
  <2>1. lock_table[first[v]] = tx[v]
    BY <1>3 DEF PlaceInTuple
  <2>2. IsActive(tx[v])
    BY <1>3, Transactions DEF HasLock, InUpdate, Reading
  <2>3. first[v] \in TupleKey
    BY <1>3, AllocatedIsRID, HeapFileAssumption DEF PlaceInTuple, HasLock, RID
  <2> QED
    BY <1>1, <2>1, <2>2, <2>3, LocksStay
<1>4. ASSUME pc[v] \in Walking PROVE ~Pending(current_rid[v])'
  <2>1. PICK c \in Allocated : c = current_rid[v]
    BY <1>4 DEF PlaceInTuple
  <2>2. ~Pending(c)
    BY <1>4, <2>1 DEF PlaceInTuple
  <2>3. ~Pending(c)'
    BY <2>2, HeapGrows
  <2> QED
    BY <1>1, <2>1, <2>3 DEF Pending
<1> QED
  BY <1>1, <1>2, <1>3, <1>4, HeapGrows DEF PlaceInTuple

\* Following a closed version, from a copy of its header or from the page, leads
\* to a version of the same tuple that is not being linked in.
LEMMA NextInChain ==
    ASSUME IInv, NEW r \in Allocated, heap[r].t_max # NoTx
    PROVE  /\ heap[r].next \in Allocated /\ heap[r].next > r
           /\ heap[heap[r].next].first = heap[r].first
           /\ ~Pending(heap[r].next)
BY DEF IInv, Chains, ChainsWellFormed, ChainOrder

\* The place of the worker that moves.
LEMMA ActorPlace ==
    ASSUME IInv, NEW w \in Workers, Step(w)
    PROVE  /\ pc'[w] \in Reading \cup InUpdate \cup {"acquire", "retry"} =>
                 first'[w] \in Allocated' /\ heap'[first'[w]].first = first'[w]
           /\ pc'[w] \in Walking =>
                 /\ current_rid'[w] \in Allocated'
                 /\ heap'[current_rid'[w]].first = first'[w]
                 /\ ~Pending(current_rid[w])'
           /\ HasLock(w)' => lock_table'[first'[w]] = tx'[w]
<1> USE DEF IInv, Chains, GoTo
<1>t. /\ pc \in [Workers -> PC] /\ tx \in [Workers -> TxID \cup {NoTx}]
      /\ first \in [Workers -> RID \cup {NoRid}] /\ current_rid \in [Workers -> RID \cup {NoRid}]
      /\ goal \in [Workers -> {"select", "scan", "reread"}]
      /\ lock_table \in [TupleKey -> TxID \cup {NoTx}]
  BY DEF TypeOK, LockTableType
<1>q. ASSUME NEW c \in Allocated, ~Pending(c), current_rid'[w] = c
      PROVE  ~Pending(current_rid[w])'
  BY <1>q, HeapGrows DEF Pending
<1>1. CASE pc'[w] \notin Reading \cup InUpdate \cup {"acquire", "retry"}
  BY <1>1 DEF Reading, InUpdate, Walking, HasLock
<1>2. ASSUME NEW f \in RID, NEW why \in {"select", "scan"}, StartRead(w, f, why)
      PROVE  /\ first'[w] \in Allocated' /\ heap'[first'[w]].first = first'[w]
             /\ current_rid'[w] \in Allocated'
             /\ heap'[current_rid'[w]].first = first'[w]
             /\ ~Pending(current_rid[w])'
             /\ ~HasLock(w)'
  <2>1. /\ f \in Allocated /\ heap[f].first = f /\ first'[w] = f /\ current_rid'[w] = f
        /\ pc'[w] = "header" /\ goal'[w] = why
    BY <1>2, <1>t DEF StartRead
  <2>2. ~Pending(f)
    BY <2>1, FirstIsLinked
  <2> QED
    BY <2>1, <2>2, <1>q, HeapGrows DEF HasLock, InUpdate
<1>3. CASE ReadHeader(w) \/ ReadStateMin(w) \/ AppendVersion(w)
  <2>1. /\ UNCHANGED <<first, current_rid, goal, lock_table, tx>>
        /\ pc[w] \in Walking /\ pc'[w] \in Walking
        /\ HasLock(w)' => HasLock(w)
    BY <1>3, <1>t DEF ReadHeader, ReadStateMin, AppendVersion, Walking, HasLock, Reading, InUpdate
  <2> QED
    BY <2>1, <1>q, HeapGrows DEF PlaceInTuple, Walking, Reading, InUpdate
<1>4. CASE ReadStateMax(w)
  <2>1. /\ UNCHANGED <<first, goal, lock_table, tx>>
        /\ pc[w] = "max" /\ pc'[w] \in Reading
        /\ HasLock(w)' => HasLock(w)
    BY <1>4, <1>t DEF ReadStateMax, HasLock, Reading, InUpdate
  <2>2. current_rid[w] \in Allocated /\ heap[current_rid[w]].first = first[w]
    BY <2>1 DEF PlaceInTuple, Walking
  <2>3. ASSUME pc'[w] \in Walking
        PROVE  \E h \in header[w] : h.t_max # NoTx /\ current_rid'[w] = h.next
    BY <1>4, <2>3, <1>t DEF ReadStateMax, Walking
  <2>4. ASSUME pc'[w] \in Walking
        PROVE  /\ heap[current_rid[w]].t_max # NoTx
               /\ current_rid'[w] = heap[current_rid[w]].next
    BY <2>1, <2>3, <2>4 DEF CopiesAreFormer
  <2>5. first[w] \in Allocated /\ heap[first[w]].first = first[w]
    BY <2>1 DEF PlaceInTuple, Reading
  <2>6. HasLock(w)' => lock_table'[first'[w]] = tx'[w]
    BY <2>1 DEF PlaceInTuple
  <2>7. pc'[w] \in Walking =>
          /\ current_rid'[w] \in Allocated /\ heap[current_rid'[w]].first = first[w]
          /\ ~Pending(current_rid[w])'
    BY <2>2, <2>4, <1>q, NextInChain
  <2> QED
    BY <2>1, <2>5, <2>6, <2>7, HeapGrows
<1>5. CASE ReadReturns(w)
  <2>1. pc[w] = "got" /\ first[w] \in Allocated /\ heap[first[w]].first = first[w]
    BY <1>5 DEF ReadReturns, PlaceInTuple, Reading
  <2>2. CASE pc'[w] = "acquire" /\ first'[w] = first[w]
    BY <2>1, <2>2, HeapGrows DEF Walking, HasLock, InUpdate, Reading
  <2>3. CASE /\ pc'[w] = "last" /\ first'[w] = first[w] /\ current_rid'[w] = first[w]
             /\ goal[w] = "reread" /\ UNCHANGED <<tx, lock_table>>
    <3>1. ~Pending(first[w])
      BY <2>1, FirstIsLinked
    <3>2. lock_table[first[w]] = tx[w]
      BY <2>1, <2>3 DEF PlaceInTuple, HasLock, Reading
    <3> QED
      BY <2>1, <2>3, <3>1, <3>2, <1>q, HeapGrows
  <2>4. CASE pc'[w] = "ready"
    BY <1>1, <2>4 DEF Reading, InUpdate
  <2> QED
    BY <1>5, <1>t, <2>2, <2>3, <2>4 DEF ReadReturns
<1>6. CASE TryAcquireSucceeds(w)
  <2>1. first[w] \in Allocated /\ heap[first[w]].first = first[w] /\ ~Pending(first[w])
    BY <1>6, FirstIsLinked DEF TryAcquireSucceeds, PlaceInTuple
  <2>2. UNCHANGED <<first, tx>> /\ current_rid'[w] = first[w]
    BY <1>6, <1>t DEF TryAcquireSucceeds
  <2>3. first[w] \in TupleKey
    BY <2>1, AllocatedIsRID, HeapFileAssumption DEF RID
  <2>4. lock_table'[first[w]] = tx[w]
    BY <1>6, <1>t, <2>3 DEF TryAcquireSucceeds, AcquireLock, CanLock, LockGranted
  <2> QED
    BY <2>1, <2>2, <2>4, <1>q, HeapGrows
<1>7. CASE TryAcquireFails(w)
  BY <1>7, <1>t, HeapGrows DEF TryAcquireFails, walkVars, PlaceInTuple, Walking, HasLock, InUpdate, Reading
<1>8. CASE WalkToLastVersion(w)
  <2>1. /\ UNCHANGED <<first, goal, lock_table, tx>>
        /\ pc[w] = "last" /\ pc'[w] \in InUpdate
    BY <1>8, <1>t DEF WalkToLastVersion, InUpdate
  <2>2. /\ current_rid[w] \in Allocated /\ heap[current_rid[w]].first = first[w]
        /\ ~Pending(current_rid[w]) /\ lock_table[first[w]] = tx[w]
        /\ first[w] \in Allocated /\ heap[first[w]].first = first[w]
    BY <2>1 DEF PlaceInTuple, Walking, HasLock, InUpdate
  <2>3. \/ current_rid'[w] = current_rid[w]
        \/ /\ heap[current_rid[w]].t_max # NoTx
           /\ current_rid'[w] = heap[current_rid[w]].next
    BY <1>8, <1>t DEF WalkToLastVersion
  <2> QED
    BY <2>1, <2>2, <2>3, <1>q, NextInChain, HeapGrows
<1>9. CASE \/ Begin(w) \/ EndTransaction(w) \/ SetStateCommitted(w) \/ ReleaseLocks(w) \/ Erase(w)
           \/ InsertRecord(w) \/ LockTimeout(w) \/ LinkVersion(w)
  BY <1>1, <1>9, <1>t DEF Begin, EndTransaction, SetStateCommitted, ReleaseLocks, Erase,
     InsertRecord, LockTimeout, LinkVersion, Reading, InUpdate
<1> QED
  BY <1>2, <1>3, <1>4, <1>5, <1>6, <1>7, <1>8, <1>9 DEF Step

\* Every worker's place stays one in its tuple, under its lock if it has one.
LEMMA NextPlace ==
    ASSUME IInv, NEW w \in Workers, Step(w)
    PROVE  PlaceInTuple'
<1>1. \A v \in Workers : v # w => pc'[v] = pc[v]
  BY OthersStay
<1> QED
  BY <1>1, ActorPlace, OthersPlace DEF PlaceInTuple

--------------------------------------------------------------------------------
(****************************************************************************)
(* Reads and updates on their way.                                          *)
(****************************************************************************)

\* A version that another worker links out is none of a tuple this one has the
\* lock of.
LEMMA LockedStays ==
    ASSUME IInv, NEW w \in Workers, Step(w), NEW v \in Workers, v # w, HasLock(v),
           NEW r \in Versions(first[v])
    PROVE  heap'[r] = heap[r]
<1>1. CASE LinkVersion(w) /\ r = current_rid[w]
  <2>1. HasLock(w) /\ heap[current_rid[w]].first = first[w]
    BY <1>1 DEF LinkVersion, HasLock, InUpdate, IInv, Chains, PlaceInTuple, Walking
  <2> QED
    BY <1>1, <2>1, OneHolder DEF Versions
<1> QED
  BY <1>1, HeapGrows DEF Versions

\* Copies of headers stay former headers.
LEMMA NextCopies ==
    ASSUME IInv, NEW w \in Workers, Step(w)
    PROVE  CopiesAreFormer'
<1> USE DEF IInv, Chains
<1> SUFFICES ASSUME NEW v \in Workers, pc'[v] \in {"min", "max"}, NEW h \in header'[v]
             PROVE  /\ h.t_min = heap'[current_rid'[v]].t_min
                    /\ h.t_max # NoTx \/ HasLock(v)' => h = heap'[current_rid'[v]]
                    /\ pc'[v] = "max" /\ state_min'[v] = "COMMITTED" => ~IsActive(h.t_min)'
  BY DEF CopiesAreFormer
<1>1. CASE v # w
  <2>1. /\ pc'[v] = pc[v] /\ header'[v] = header[v] /\ current_rid'[v] = current_rid[v]
        /\ state_min'[v] = state_min[v]
    BY <1>1, OthersStay
  <2>2. /\ h.t_min = heap[current_rid[v]].t_min
        /\ h.t_max # NoTx \/ HasLock(v) => h = heap[current_rid[v]]
        /\ pc'[v] = "max" /\ state_min'[v] = "COMMITTED" => ~IsActive(h.t_min)
    BY <2>1 DEF CopiesAreFormer
  <2>3. /\ current_rid[v] \in Allocated /\ current_rid[v] \in RID
        /\ heap[current_rid[v]].first = first[v]
    BY <2>1, AllocatedIsRID DEF PlaceInTuple, Walking
  <2>4. h.t_min = heap'[current_rid'[v]].t_min
    BY <2>1, <2>2, <2>3, HeapGrows
  <2>5. h.t_max # NoTx \/ HasLock(v)' => h = heap'[current_rid'[v]]
    <3>1. HasLock(v)' <=> HasLock(v)
      BY <1>1, OthersPlace
    <3>2. CASE HasLock(v)
      BY <3>2, <1>1, <2>1, <2>2, <2>3, LockedStays DEF Versions
    <3>3. CASE h.t_max # NoTx
      BY <3>3, <2>1, <2>2, <2>3, HeapGrows
    <3> QED
      BY <3>1, <3>2, <3>3
  <2>6. ASSUME ~IsActive(h.t_min) PROVE ~IsActive(h.t_min)'
    <3>1. h.t_min \in TxID \cup {NoTx} /\ h.t_min < transaction_count
      BY <2>2, <2>3, AllocatedIsRID DEF IdsAreFresh, Version
    <3> QED
      BY <2>6, <3>1, StatesOnlyFinish
  <2> QED
    BY <2>2, <2>4, <2>5, <2>6
<1>2. CASE v = w
  <2>1. CASE ReadHeader(w)
    BY <1>2, <2>1 DEF ReadHeader, GoTo, heapVars, TypeOK
  <2>2. CASE ReadStateMin(w)
    <3>1. /\ UNCHANGED <<header, current_rid, heap, goal, active_transactions, tx_state>>
          /\ pc[w] = "min" /\ pc'[w] = "max"
          /\ \E g \in header[w] : state_min'[w] = StateOf(g.t_min)
      BY <2>2 DEF ReadStateMin, GoTo, heapVars, tmVars, TypeOK
    <3>2. \A g \in header[w] : /\ g.t_min = heap[current_rid[w]].t_min
                               /\ g.t_max # NoTx \/ HasLock(w) => g = heap[current_rid[w]]
      BY <3>1 DEF CopiesAreFormer
    <3>3. HasLock(w)' => HasLock(w)
      BY <3>1 DEF HasLock, InUpdate, Reading
    <3>4. state_min'[w] = "COMMITTED" => ~IsActive(h.t_min)'
      BY <1>2, <3>1, <3>2 DEF IsActive, StateOf
    <3> QED
      BY <1>2, <3>1, <3>2, <3>3, <3>4
  <2> QED
    BY <1>2, <2>1, <2>2 DEF Step, Begin, EndTransaction, SetStateCommitted, ReleaseLocks, Erase,
       StartRead, ReadStateMax, ReadReturns, InsertRecord, TryAcquireSucceeds, TryAcquireFails,
       LockTimeout, WalkToLastVersion, AppendVersion, LinkVersion, GoTo, TypeOK
<1> QED
  BY <1>1, <1>2

\* Under the lock of a tuple, no version was closed by another unfinished
\* transaction: what that one had written would be locked.
LEMMA LockedIsFinished ==
    ASSUME IInv, NEW w \in Workers, HasLock(w), NEW r \in Versions(first[w]),
           heap[r].t_max # NoTx, IsActive(heap[r].t_max)
    PROVE  heap[r].t_max = tx[w]
<1> USE DEF IInv, Chains
<1>1. r \in Allocated /\ heap[r].first = first[w]
  BY DEF Versions
<1>2. /\ heap[r].next \in Allocated /\ heap[r].next > r
      /\ heap[heap[r].next].first = first[w] /\ heap[heap[r].next].t_min = heap[r].t_max
  BY <1>1 DEF ChainsWellFormed
<1>3. first[w] <= r
  BY <1>1 DEF ChainOrder
<1>4. first[w] # heap[r].next
  BY <1>1, <1>2, <1>3, AllocatedIsRID DEF ChainOrder
<1>5. lock_table[first[w]] = heap[r].t_max
  BY <1>2, <1>4 DEF DirtyVersionsAreLocked
<1> QED
  BY <1>5 DEF PlaceInTuple

\* When a read is done: what it returns is a version of the tuple, not one of
\* another unfinished transaction, and under the lock it is the open end.
LEMMA ReadIsDone ==
    ASSUME IInv, NEW w \in Workers, ReadStateMax(w), pc'[w] = "got", found'[w] # NoRid
    PROVE  /\ found'[w] = current_rid[w]
           /\ heap[current_rid[w]].t_min = tx[w] \/ ~IsActive(heap[current_rid[w]].t_min)
           /\ goal[w] = "reread" => heap[current_rid[w]].t_max = NoTx
<1> USE DEF IInv, Chains
<1>1. PICK h \in header[w] : /\ IsVisible(h, state_min[w], StateOf(h.t_max), tx[w])
                             /\ found'[w] = current_rid[w]
  BY DEF ReadStateMax, GoTo, TypeOK
<1>2. pc[w] = "max"
  BY DEF ReadStateMax
<1>3. /\ h.t_min = heap[current_rid[w]].t_min
      /\ HasLock(w) => h = heap[current_rid[w]]
      /\ state_min[w] = "COMMITTED" => ~IsActive(h.t_min)
  BY <1>2 DEF CopiesAreFormer
<1>4. state_min[w] \in {"ACTIVE", "COMMITTED"}
  BY DEF TypeOK, TransactionState
<1>5. h.t_min = tx[w] \/ ~IsActive(h.t_min)
  BY <1>1, <1>3, <1>4 DEF IsVisible
<1>6. ASSUME goal[w] = "reread" PROVE heap[current_rid[w]].t_max = NoTx
  <2>1. HasLock(w)
    BY <1>2, <1>6 DEF HasLock, Reading
  <2>2. current_rid[w] \in Versions(first[w])
    BY <1>2 DEF PlaceInTuple, Walking, Versions
  <2>3. h.t_max # NoTx => StateOf(h.t_max) = "ACTIVE" /\ h.t_max # tx[w]
    BY <1>1 DEF IsVisible
  <2> QED
    BY <1>3, <2>1, <2>2, <2>3, LockedIsFinished DEF IsActive
<1> QED
  BY <1>1, <1>3, <1>5, <1>6

\* Results of reads stay versions of their tuple, and none is dirty.
LEMMA NextResults ==
    ASSUME IInv, NEW w \in Workers, Step(w)
    PROVE  (ResultIsVersion /\ NoDirtyRead)'
<1> USE DEF IInv, Chains
<1> SUFFICES ASSUME NEW v \in Workers, pc'[v] = "got", found'[v] # NoRid
             PROVE  /\ found'[v] \in Allocated'
                    /\ heap'[found'[v]].first = first'[v]
                    /\ goal'[v] = "reread" => heap'[found'[v]].t_max = NoTx
                    /\ heap'[found'[v]].t_min = tx'[v] \/ ~IsActive(heap[found[v]].t_min)'
  BY DEF ResultIsVersion, NoDirtyRead
<1>0. ASSUME NEW r \in Allocated, ~IsActive(heap[r].t_min), found'[v] = r
      PROVE  ~IsActive(heap[found[v]].t_min)'
  <2>1. heap'[r].t_min = heap[r].t_min /\ r \in RID
    BY HeapGrows, AllocatedIsRID
  <2>2. ~IsActive(heap[r].t_min)'
    BY <1>0, <2>1, VersionsFinish
  <2> QED
    BY <1>0, <2>2 DEF IsActive, StateOf
<1>1. CASE v # w
  <2>1. /\ pc'[v] = pc[v] /\ first'[v] = first[v] /\ goal'[v] = goal[v]
        /\ found'[v] = found[v] /\ tx'[v] = tx[v]
    BY <1>1, OthersStay
  <2>2. /\ found[v] \in Allocated /\ heap[found[v]].first = first[v]
        /\ goal[v] = "reread" => heap[found[v]].t_max = NoTx
        /\ heap[found[v]].t_min = tx[v] \/ ~IsActive(heap[found[v]].t_min)
    BY <2>1 DEF ResultIsVersion, NoDirtyRead
  <2>3. goal[v] = "reread" => heap'[found[v]] = heap[found[v]]
    BY <1>1, <2>1, <2>2, LockedStays DEF HasLock, Reading, Versions
  <2> QED
    BY <2>1, <2>2, <2>3, <1>0, HeapGrows
<1>2. CASE v = w
  <2>1. ReadStateMax(w)
    BY <1>2 DEF Step, Begin, EndTransaction, SetStateCommitted, ReleaseLocks, Erase,
       StartRead, ReadHeader, ReadStateMin, ReadReturns, InsertRecord, TryAcquireSucceeds,
       TryAcquireFails, LockTimeout, WalkToLastVersion, AppendVersion, LinkVersion, GoTo, TypeOK
  <2>2. UNCHANGED <<heap, first, goal, tx>> /\ pc[w] = "max"
    BY <2>1 DEF ReadStateMax, heapVars
  <2>3. current_rid[w] \in Allocated /\ heap[current_rid[w]].first = first[w]
    BY <2>2 DEF PlaceInTuple, Walking
  <2>4. /\ found'[w] = current_rid[w]
        /\ heap[current_rid[w]].t_min = tx[w] \/ ~IsActive(heap[current_rid[w]].t_min)
        /\ goal[w] = "reread" => heap[current_rid[w]].t_max = NoTx
    BY <1>2, <2>1, ReadIsDone
  <2> QED
    BY <1>2, <2>2, <2>3, <2>4, <1>0, HeapGrows
<1> QED
  BY <1>1, <1>2

\* The tuple of a worker that has its lock gets no version from anyone else.
LEMMA LockedVersions ==
    ASSUME IInv, NEW w \in Workers, Step(w), NEW v \in Workers, v # w, HasLock(v),
           NEW r \in Allocated', heap'[r].first = first[v]
    PROVE  r \in Versions(first[v]) /\ heap'[r] = heap[r]
<1>1. first[v] \in Allocated
  BY DEF IInv, Chains, PlaceInTuple, HasLock
<1>2. CASE r \in Allocated
  <2>1. r \in Versions(first[v])
    BY <1>2, HeapGrows DEF Versions
  <2> QED
    BY <2>1, LockedStays
<1>3. CASE r \notin Allocated
  <2>1. r = next_rid /\ (InsertRecord(w) \/ AppendVersion(w))
    BY <1>3, HeapGrows
  <2>2. AppendVersion(w) /\ first[w] = first[v]
    BY <2>1, <1>1, <1>3, RecordIsNew
  <2>3. HasLock(w)
    BY <2>2 DEF AppendVersion, HasLock, InUpdate
  <2> QED
    BY <2>2, <2>3, OneHolder
<1> QED
  BY <1>2, <1>3

\* The value and the owners of the versions of a tuple, when an UPDATE has read
\* it again under the lock.
LEMMA RereadIsCurrent ==
    ASSUME IInv, NEW w \in Workers, pc[w] = "got", goal[w] = "reread", found[w] # NoRid,
           NEW r \in Versions(first[w])
    PROVE  /\ heap[r].t_max = NoTx => r = found[w]
           /\ IsActive(heap[r].t_min) => heap[r].t_min = tx[w]
<1> USE DEF IInv, Chains
<1>1. HasLock(w)
  BY DEF HasLock, Reading
<1>2. /\ found[w] \in Allocated /\ heap[found[w]].first = first[w] /\ heap[found[w]].t_max = NoTx
      /\ heap[found[w]].t_min = tx[w] \/ ~IsActive(heap[found[w]].t_min)
  BY DEF ResultIsVersion, NoDirtyRead
<1>3. \A q \in Versions(first[w]) : ~Pending(q)
  <2> SUFFICES ASSUME NEW q \in Versions(first[w]), NEW v \in Workers,
                      pc[v] = "link", found[v] = q
               PROVE  FALSE
    BY DEF Pending
  <2>1. HasLock(v) /\ first[v] = first[w]
    BY DEF HasLock, InUpdate, UpdateInProgress, Versions
  <2> QED
    BY <1>1, <2>1, OneHolder
<1>4. /\ r \in Allocated /\ heap[r].first = first[w] /\ ~Pending(r) /\ ~Pending(found[w])
      /\ r \in Nat /\ found[w] \in Nat
  BY <1>2, <1>3, AllocatedIsRID DEF Versions
<1>5. ~(found[w] < r)
  BY <1>2, <1>4 DEF ChainOrder
<1>6. r < found[w] => heap[r].t_max # NoTx
  BY <1>2, <1>4 DEF ChainOrder
<1>7. r < found[w] /\ IsActive(heap[r].t_min) => heap[found[w]].t_min = heap[r].t_min
  BY <1>2, <1>4 DEF ChainOrder
<1>8. r < found[w] \/ r = found[w]
  BY <1>4, <1>5
<1> QED
  BY <1>2, <1>6, <1>7, <1>8

\* Updates on their way stay on it.
LEMMA NextUpdates ==
    ASSUME IInv, NEW w \in Workers, Step(w)
    PROVE  UpdateInProgress'
<1> USE DEF IInv, Chains
<1> DEFINE Before(v) ==
             pc'[v] \in {"last", "append"} =>
                 \A r \in Allocated' : heap'[r].first = first'[v] =>
                     /\ heap'[r].t_max = NoTx => heap'[r].value \subseteq seen'[v]
                     /\ IsActive(heap[r].t_min)' => heap'[r].t_min = tx'[v]
           End(v) == pc'[v] \in {"append", "link"} => heap'[current_rid'[v]].t_max = NoTx
           Linking(v) ==
             pc'[v] = "link" =>
                 /\ found'[v] \in Allocated'
                 /\ current_rid'[v] < found'[v]
                 /\ heap'[found'[v]].first = first'[v]
                 /\ heap'[found'[v]].t_min = tx'[v]
                 /\ heap'[found'[v]].t_max = NoTx
                 /\ heap'[current_rid'[v]].value \subseteq heap'[found'[v]].value
                 /\ tx'[v] \in heap'[found'[v]].value
<1> SUFFICES ASSUME NEW v \in Workers PROVE Before(v) /\ End(v) /\ Linking(v)
  BY DEF UpdateInProgress, Versions
<1>1. CASE v # w
  <2>1. /\ pc'[v] = pc[v] /\ first'[v] = first[v] /\ current_rid'[v] = current_rid[v]
        /\ found'[v] = found[v] /\ tx'[v] = tx[v] /\ seen'[v] = seen[v]
    BY <1>1, OthersStay
  <2>2. pc[v] \in InUpdate =>
          /\ HasLock(v)
          /\ current_rid[v] \in Versions(first[v])
          /\ heap'[current_rid[v]] = heap[current_rid[v]]
    BY <1>1, LockedStays DEF HasLock, InUpdate, PlaceInTuple, Walking, Versions
  <2>3. Before(v)
    <3> SUFFICES ASSUME pc[v] \in {"last", "append"},
                        NEW r \in Allocated', heap'[r].first = first[v]
                 PROVE  /\ heap'[r].t_max = NoTx => heap'[r].value \subseteq seen[v]
                        /\ IsActive(heap[r].t_min)' => heap'[r].t_min = tx[v]
      BY <2>1
    <3>1. r \in Versions(first[v]) /\ heap'[r] = heap[r]
      BY <1>1, <2>2, LockedVersions DEF InUpdate
    <3>2. IsActive(heap[r].t_min)' => IsActive(heap[r].t_min)
      BY <3>1, VersionsFinish, AllocatedIsRID DEF Versions
    <3> QED
      BY <3>1, <3>2 DEF UpdateInProgress
  <2>4. End(v)
    BY <2>1, <2>2 DEF UpdateInProgress, InUpdate
  <2>5. Linking(v)
    <3> SUFFICES ASSUME pc[v] = "link" PROVE Linking(v)
      BY <2>1
    <3>1. found[v] \in Versions(first[v])
      BY DEF UpdateInProgress, Versions
    <3>2. heap'[found[v]] = heap[found[v]] /\ found[v] \in Allocated'
      BY <1>1, <2>2, <3>1, LockedStays, HeapGrows DEF InUpdate, Versions
    <3> QED
      BY <2>1, <2>2, <3>2 DEF UpdateInProgress, InUpdate
  <2> QED
    BY <2>3, <2>4, <2>5
<1>2. CASE v = w
  <2>1. CASE ReadReturns(w) /\ pc'[w] = "last"
    <3>1. /\ pc[w] = "got" /\ goal[w] = "reread" /\ found[w] # NoRid
          /\ seen'[w] = heap[found[w]].value
          /\ UNCHANGED <<heap, next_rid, first, tx>>
      BY <2>1 DEF ReadReturns, GoTo, heapVars, TypeOK
    <3>2. Before(w)
      <4> SUFFICES ASSUME NEW r \in Allocated, heap[r].first = first[w]
                   PROVE  /\ heap[r].t_max = NoTx => heap[r].value \subseteq seen'[w]
                          /\ IsActive(heap[r].t_min)' => heap[r].t_min = tx[w]
        BY <3>1 DEF Allocated
      <4>1. IsActive(heap[r].t_min)' => IsActive(heap[r].t_min)
        BY <3>1, VersionsFinish, AllocatedIsRID
      <4> QED
        BY <3>1, <4>1, RereadIsCurrent DEF Versions
    <3> QED
      BY <1>2, <2>1, <3>2
  <2>2. CASE WalkToLastVersion(w)
    <3>1. /\ pc[w] = "last" /\ pc'[w] \in {"last", "append"}
          /\ UNCHANGED <<heap, next_rid, first, tx, seen>>
          /\ pc'[w] = "append" => heap[current_rid[w]].t_max = NoTx /\ UNCHANGED current_rid
      BY <2>2 DEF WalkToLastVersion, GoTo, heapVars, TypeOK
    <3>2. Before(w)
      <4> SUFFICES ASSUME NEW r \in Allocated, heap[r].first = first[w]
                   PROVE  /\ heap[r].t_max = NoTx => heap[r].value \subseteq seen[w]
                          /\ IsActive(heap[r].t_min)' => heap[r].t_min = tx[w]
        BY <3>1 DEF Allocated
      <4>1. IsActive(heap[r].t_min)' => IsActive(heap[r].t_min)
        BY <3>1, VersionsFinish, AllocatedIsRID
      <4> QED
        BY <3>1, <4>1 DEF UpdateInProgress, Versions
    <3> QED
      BY <1>2, <3>1, <3>2
  <2>3. CASE AppendVersion(w)
    <3>1. /\ pc[w] = "append" /\ pc'[w] = "link" /\ found'[w] = next_rid
          /\ UNCHANGED <<first, tx, current_rid>>
      BY <2>3 DEF AppendVersion, GoTo, TypeOK
    <3>2. /\ current_rid[w] \in Versions(first[w]) /\ heap[current_rid[w]].t_max = NoTx
          /\ current_rid[w] \in Allocated
      BY <3>1 DEF UpdateInProgress, PlaceInTuple, Walking, Versions
    <3>3. heap[current_rid[w]].value \subseteq seen[w]
      BY <3>1, <3>2 DEF UpdateInProgress
    <3>4. heap'[current_rid[w]] = heap[current_rid[w]]
      BY <2>3, <3>2, RecordIsNew, AllocatedIsRID
    <3>5. End(w)
      BY <3>1, <3>2, <3>4
    <3>6. Linking(w)
      BY <2>3, <3>1, <3>2, <3>3, <3>4, RecordIsNew
    <3> QED
      BY <1>2, <3>1, <3>5, <3>6
  <2>4. pc'[w] \notin InUpdate \/ (ReadReturns(w) /\ pc'[w] = "last")
        \/ WalkToLastVersion(w) \/ AppendVersion(w)
    BY DEF Step, Begin, EndTransaction, SetStateCommitted, ReleaseLocks, Erase,
       StartRead, ReadHeader, ReadStateMin, ReadStateMax, ReadReturns, InsertRecord,
       TryAcquireSucceeds, TryAcquireFails, LockTimeout, LinkVersion, GoTo, TypeOK, InUpdate
  <2> QED
    BY <1>2, <2>1, <2>2, <2>3, <2>4 DEF InUpdate
<1> QED
  BY <1>1, <1>2

--------------------------------------------------------------------------------
(****************************************************************************)
(* The theorems.                                                            *)
(****************************************************************************)

\* The initial state satisfies the invariant.
LEMMA InitIInv == Init => IInv
<1> SUFFICES ASSUME Init PROVE Chains
  BY InitTypeOK DEF IInv
<1>1. TypeOK
  BY InitTypeOK
<1>2. /\ active_transactions = {} /\ transaction_count = 1
      /\ \A w \in Workers : pc[w] = "idle" /\ header[w] = {}
      /\ \A r \in RID : /\ heap[r].t_min = NoTx /\ heap[r].t_max = NoTx
                        /\ heap[r].first = r /\ heap[r].value = {}
  BY DEF Init, TransactionsInit, NewVersion
<1>3. Allocated \subseteq RID /\ \A r \in RID : r \in Nat
  BY <1>1, AllocatedIsRID
<1>4. \A r : ~Pending(r) /\ ~IsActive(r)
  BY <1>2 DEF Pending, IsActive, StateOf
<1>5. IdsAreFresh /\ WorkersHaveTransactions
  BY <1>2 DEF IdsAreFresh, WorkersHaveTransactions, NoTx
<1>6. ChainsWellFormed /\ ChainOrder /\ ChainEnds /\ DirtyVersionsAreLocked
  BY <1>2, <1>3, <1>4 DEF ChainsWellFormed, ChainOrder, ChainEnds, Versions, DirtyVersionsAreLocked
<1>7. PlaceInTuple /\ CopiesAreFormer /\ ResultIsVersion /\ UpdateInProgress /\ NoDirtyRead
  BY <1>2 DEF PlaceInTuple, CopiesAreFormer, ResultIsVersion, UpdateInProgress, NoDirtyRead,
     HasLock, InUpdate, Walking, Reading
<1> QED
  BY <1>5, <1>6, <1>7 DEF Chains

\* Every step preserves the invariant.
LEMMA NextIInv ==
    ASSUME IInv, [Next]_vars
    PROVE  IInv'
<1>1. CASE Next
  <2>1. PICK w \in Workers : Step(w)
    BY <1>1 DEF Next
  <2>2. TypeOK'
    BY <1>1, NextTypeOK
  <2>3. (IdsAreFresh /\ WorkersHaveTransactions)'
    BY <2>1, <2>2, NextIds, NextTransactions
  <2>4. (ChainsWellFormed /\ ChainOrder /\ ChainEnds)'
    BY <2>1, HeapSteps, QuietChains, InsertChains, AppendChains, LinkChains
  <2>5. (PlaceInTuple /\ CopiesAreFormer /\ UpdateInProgress)'
    BY <2>1, NextPlace, NextCopies, NextUpdates
  <2>6. (ResultIsVersion /\ DirtyVersionsAreLocked /\ NoDirtyRead)'
    BY <2>1, NextResults, NextDirtyLocked
  <2> QED
    BY <2>2, <2>3, <2>4, <2>5, <2>6 DEF IInv, Chains
<1>2. CASE UNCHANGED vars
  BY <1>2 DEF vars, tmVars, heapVars, walkVars, IInv, Chains, TypeOK, LockTableType,
     TransactionsType, IdsAreFresh, WorkersHaveTransactions, ChainsWellFormed, ChainOrder,
     ChainEnds, PlaceInTuple, CopiesAreFormer, ResultIsVersion, UpdateInProgress,
     DirtyVersionsAreLocked, NoDirtyRead, Allocated, Versions, Pending, HasLock, IsActive, StateOf
<1> QED
  BY <1>1, <1>2

\* The inductive invariant holds in every reachable state.
THEOREM HeapInvariant == Spec => []IInv
BY InitIInv, NextIInv, PTL DEF Spec

\* State variables have their types.
THEOREM HeapTypes == Spec => []TypeOK
BY HeapInvariant, PTL DEF IInv

\* Chains lead forward, within a tuple, to what the closing transaction wrote:
\* HeapFile::update writes the version before it links it.
THEOREM ChainsLeadForward == Spec => []ChainsWellFormed
BY HeapInvariant, PTL DEF IInv, Chains

\* The open end of a tuple is unique.
LEMMA EndIsUnique ==
    ASSUME IInv, NEW f \in Allocated, heap[f].first = f
    PROVE  \E end \in Allocated : OpenEnds(f) = {end}
<1>1. PICK end \in Versions(f) : heap[end].t_max = NoTx /\ ~Pending(end)
  BY DEF IInv, Chains, ChainEnds
<1>2. end \in Allocated /\ heap[end].first = f
  BY <1>1 DEF Versions
<1>3. ASSUME NEW r \in Allocated, heap[r].first = f, heap[r].t_max = NoTx, ~Pending(r)
      PROVE  r = end
  <2>1. ~(r < end) /\ ~(end < r)
    BY <1>1, <1>2, <1>3 DEF IInv, Chains, ChainOrder
  <2>2. r \in Nat /\ end \in Nat
    BY <1>2, AllocatedIsRID DEF IInv
  <2> QED
    BY <2>1, <2>2
<1> QED
  BY <1>1, <1>2, <1>3 DEF OpenEnds

\* Two concurrent UPDATEs of a tuple never fork its chain.
THEOREM ChainsDoNotFork == Spec => []OneOpenEnd
<1>1. IInv => OneOpenEnd
  BY EndIsUnique DEF OneOpenEnd
<1> QED
  BY <1>1, HeapInvariant, PTL

\* The end of a chain contains the update of every finished transaction that
\* wrote a version of the tuple: UpdateIter::next reads again under the lock.
THEOREM UpdatesAreNotLost == Spec => []NoLostUpdate
<1>1. IInv => NoLostUpdate
  <2> SUFFICES ASSUME IInv, NEW r \in Allocated, NEW q \in Allocated,
                      heap[q].first = heap[r].first, heap[q].t_min # NoTx,
                      ~IsActive(heap[q].t_min), heap[r].t_max = NoTx
               PROVE  heap[q].t_min \in heap[r].value
    BY DEF NoLostUpdate
  <2>1. ~Pending(q)
    <3> SUFFICES ASSUME NEW v \in Workers, pc[v] = "link", found[v] = q PROVE FALSE
      BY DEF Pending
    <3>1. heap[q].t_min = tx[v]
      BY DEF IInv, Chains, UpdateInProgress
    <3>2. IsActive(tx[v])
      BY Transactions DEF IInv, Chains
    <3> QED
      BY <3>1, <3>2
  <2> QED
    BY <2>1 DEF IInv, Chains, ChainEnds
<1> QED
  BY <1>1, HeapInvariant, PTL

\* New versions of unfinished transactions are locked: release_all_locks comes
\* after the state is COMMITTED.
THEOREM DirtyIsLocked == Spec => []DirtyVersionsAreLocked
BY HeapInvariant, PTL DEF IInv, Chains

\* is_visible, on a copy of the header and on two states read one after the
\* other, never lets a read return a row of another unfinished transaction.
THEOREM ReadsAreNotDirty == Spec => []NoDirtyRead
BY HeapInvariant, PTL DEF IInv, Chains

\* The header of a closed version is final: t_max and next are written once.
ClosedVersionsAreFinal ==
    [][\A r \in RID : heap[r].t_max # NoTx => heap'[r] = heap[r]]_vars

\* update_record_header writes t_max and the next RID of a version once.
THEOREM ClosedIsFinal == Spec => ClosedVersionsAreFinal
<1>1. ASSUME IInv, [Next]_vars
      PROVE  [\A r \in RID : heap[r].t_max # NoTx => heap'[r] = heap[r]]_vars
  <2>1. ASSUME Next, NEW r \in RID, heap[r].t_max # NoTx PROVE heap'[r] = heap[r]
    <3>1. r \in Allocated
      BY <1>1, <2>1 DEF IInv, Chains, ChainOrder
    <3>2. PICK w \in Workers : Step(w)
      BY <2>1 DEF Next
    <3> QED
      BY <1>1, <2>1, <3>1, <3>2, HeapGrows
  <2> QED
    BY <1>1, <2>1
<1> QED
  BY <1>1, HeapInvariant, PTL DEF Spec, ClosedVersionsAreFinal

--------------------------------------------------------------------------------
(****************************************************************************)
(* HeapFile::read returns a version that was right at some moment.          *)
(****************************************************************************)

\* A closed version that is not visible stays invisible: its two transactions
\* finish in the order of the chain.
LEMMA ClosedStayInvisible ==
    ASSUME IInv, NEW w \in Workers, Step(w), NEW f, NEW t,
           NEW r \in Allocated, heap[r].t_max # NoTx, r \in VisibleNow(f, t)'
    PROVE  r \in VisibleNow(f, t)
<1> USE DEF IInv, Chains
<1>1. heap'[r] = heap[r] /\ r \in RID
  BY HeapGrows, AllocatedIsRID
<1>2. /\ heap[r].first = f /\ heap[r].t_max # t
      /\ ~IsActive(heap[r].t_min)' /\ IsActive(heap[r].t_max)'
  BY <1>1 DEF VisibleNow, IsVisible, IsActive
<1>3. IsActive(heap[r].t_max)
  BY <1>1, <1>2, VersionsFinish DEF IsActive
<1>4. ~IsActive(heap[r].t_min)
  <2> SUFFICES ASSUME IsActive(heap[r].t_min) PROVE FALSE
    OBVIOUS
  <2>1. heap[r].next \in Allocated /\ r < heap[r].next
        /\ heap[heap[r].next].first = heap[r].first /\ heap[heap[r].next].t_min = heap[r].t_max
    BY AllocatedIsRID DEF ChainsWellFormed
  <2>2. heap[r].t_max = heap[r].t_min
    BY <2>1 DEF ChainOrder
  <2> QED
    BY <1>1, <1>2, <2>2 DEF IsActive, StateOf
<1> QED
  BY <1>2, <1>3, <1>4 DEF VisibleNow, IsVisible, IsActive

\* The history variable: a read that still has only real versions as candidates
\* has the visible ones of now among them, and kept the ones it had.
LEMMA CandidatesGrow ==
    ASSUME IInv, RecordCandidates, NEW v \in Workers,
           pc'[v] \in Reading, NoRid \notin candidates'[v]
    PROVE  /\ VisibleNow(first[v], tx[v])' # {}
           /\ VisibleNow(first[v], tx[v])' \subseteq candidates'[v]
           /\ pc[v] \in Reading => candidates[v] \subseteq candidates'[v] /\ NoRid \notin candidates[v]
<1>1. candidates'[v] = IF pc[v] \in Reading THEN candidates[v] \cup ReadNow(first[v], tx[v])'
                       ELSE ReadNow(first[v], tx[v])'
  BY DEF RecordCandidates
<1>2. NoRid \notin ReadNow(first[v], tx[v])' /\ ReadNow(first[v], tx[v])' \subseteq candidates'[v]
  BY <1>1
<1> QED
  BY <1>1, <1>2 DEF ReadNow

\* What is visible from an open version that is not being linked in: that version
\* itself, or nothing behind it.
LEMMA OpenIsVisible ==
    ASSUME IInv, NEW w \in Workers, pc[w] \in {"header", "min", "max"},
           heap[current_rid[w]].t_max = NoTx,
           NEW x \in VisibleNow(first[w], tx[w]), x >= current_rid[w]
    PROVE  x = current_rid[w]
<1> USE DEF IInv, Chains
<1> SUFFICES ASSUME x # current_rid[w] PROVE FALSE
  OBVIOUS
<1>1. /\ current_rid[w] \in Allocated /\ heap[current_rid[w]].first = first[w]
      /\ ~Pending(current_rid[w])
  BY DEF PlaceInTuple, Walking
<1>2. /\ x \in Allocated /\ heap[x].first = first[w]
      /\ IsVisible(heap[x], StateOf(heap[x].t_min), StateOf(heap[x].t_max), tx[w])
  BY DEF VisibleNow
<1>3. current_rid[w] < x
  BY <1>1, <1>2, AllocatedIsRID
<1>4. Pending(x)
  BY <1>1, <1>2, <1>3 DEF ChainOrder
<1>5. PICK u \in Workers : pc[u] = "link" /\ found[u] = x
  BY <1>4 DEF Pending
<1>6. heap[x].t_min = tx[u]
  BY <1>5 DEF UpdateInProgress
<1>7. IsActive(tx[u])
  BY <1>5, Transactions
<1>8. tx[u] = tx[w]
  BY <1>2, <1>6, <1>7 DEF IsVisible, IsActive
<1> QED
  BY <1>5, <1>8 DEF WorkersHaveTransactions

\* A read that keeps its place while others move: nothing becomes visible behind it.
LEMMA NothingBehind ==
    ASSUME IInv, NEW w \in Workers, Step(w), NEW v \in Workers,
           pc[v] \in {"header", "min", "max"},
           NEW f, NEW t, f = first[v], t = tx[v],
           \A x \in VisibleNow(f, t) : x >= current_rid[v],
           NEW r \in VisibleNow(f, t)'
    PROVE  r >= current_rid[v]
<1> USE DEF IInv, Chains
<1>1. /\ current_rid[v] \in Allocated /\ heap[current_rid[v]].first = first[v]
      /\ ~Pending(current_rid[v])
  BY DEF PlaceInTuple, Walking
<1>2. r \in Allocated' /\ heap'[r].first = f
  BY DEF VisibleNow
<1>3. CASE r \notin Allocated
  BY <1>1, <1>2, <1>3, HeapGrows, RecordIsNew, AllocatedIsRID
<1>4. CASE r \in Allocated /\ r < current_rid[v]
  <2>1. heap[r].first = f
    BY <1>2, <1>4, HeapGrows
  <2>2. heap[r].t_max # NoTx
    BY <1>1, <1>4, <2>1 DEF ChainOrder
  <2> QED
    BY <1>4, <2>2, ClosedStayInvisible
<1>5. CASE r \in Allocated /\ ~(r < current_rid[v])
  BY <1>1, <1>5, AllocatedIsRID
<1> QED
  BY <1>3, <1>4, <1>5

\* A read that is not the one that moves.
LEMMA OthersRead ==
    ASSUME IInv, NEW w \in Workers, Step(w), RecordCandidates, NEW v \in Workers, v # w,
           pc'[v] \in Reading, NoRid \notin candidates'[v], ReadOf(v)
    PROVE  ReadOf(v)'
<1>1. /\ pc'[v] = pc[v] /\ first'[v] = first[v] /\ tx'[v] = tx[v]
      /\ current_rid'[v] = current_rid[v] /\ header'[v] = header[v]
      /\ state_min'[v] = state_min[v] /\ found'[v] = found[v]
  BY OthersStay
<1>2. /\ VisibleNow(first[v], tx[v])' # {}
      /\ VisibleNow(first[v], tx[v])' \subseteq candidates'[v]
      /\ candidates[v] \subseteq candidates'[v]
  BY <1>1, CandidatesGrow
<1>3. ASSUME pc[v] \in {"header", "min", "max"}, NEW x \in VisibleNow(first[v], tx[v])'
      PROVE  x >= current_rid[v]
  <2>1. PICK f, t : f = first[v] /\ t = tx[v]
    OBVIOUS
  <2>2. \A y \in VisibleNow(f, t) : y >= current_rid[v]
    BY <2>1, <1>3 DEF ReadOf
  <2>3. x \in VisibleNow(f, t)'
    BY <1>1, <1>3, <2>1 DEF VisibleNow
  <2> QED
    BY <1>3, <2>1, <2>2, <2>3, NothingBehind
<1> QED
  BY <1>1, <1>2, <1>3 DEF ReadOf

\* The read that moves.  One that begins stands before every version.
LEMMA ReadBegins ==
    ASSUME IInv, NEW w \in Workers, Step(w), RecordCandidates,
           pc'[w] = "header", pc[w] \notin Reading, NoRid \notin candidates'[w]
    PROVE  ReadOf(w)'
<1> USE DEF IInv, Chains
<1>1. /\ VisibleNow(first[w], tx[w])' # {}
      /\ VisibleNow(first[w], tx[w])' \subseteq candidates'[w]
  BY CandidatesGrow DEF Reading
<1>2. current_rid'[w] = first'[w] /\ UNCHANGED <<heap, next_rid>>
  BY DEF Reading, Step, Begin, EndTransaction, SetStateCommitted, ReleaseLocks, Erase,
     StartRead, ReadHeader, ReadStateMin, ReadStateMax, ReadReturns, InsertRecord,
     TryAcquireSucceeds, TryAcquireFails, LockTimeout, WalkToLastVersion, AppendVersion,
     LinkVersion, GoTo, TypeOK, heapVars
<1>3. \A x \in VisibleNow(first[w], tx[w])' : x >= current_rid'[w]
  <2> SUFFICES ASSUME NEW x \in VisibleNow(first[w], tx[w])' PROVE x >= current_rid'[w]
    OBVIOUS
  <2>1. x \in Allocated /\ heap[x].first = first'[w]
    BY <1>2 DEF VisibleNow, Allocated
  <2>2. heap[x].first <= x /\ heap[x].first \in Nat /\ x \in Nat
    BY <2>1, AllocatedIsRID DEF ChainOrder
  <2> QED
    BY <1>2, <2>1, <2>2
<1> QED
  BY <1>1, <1>3 DEF ReadOf

\* One that copies a header: if it is open, the version is what the read would
\* return now.
LEMMA ReadCopies ==
    ASSUME IInv, NEW w \in Workers, Step(w), RecordCandidates, ReadHeader(w),
           NoRid \notin candidates'[w], ReadOf(w)
    PROVE  ReadOf(w)'
<1> USE DEF IInv, Chains
<1>0. /\ pc[w] = "header" /\ pc'[w] = "min" /\ header'[w] = {heap[current_rid[w]]}
      /\ UNCHANGED <<heap, next_rid, first, tx, current_rid, active_transactions, tx_state>>
  BY DEF ReadHeader, GoTo, heapVars, tmVars, TypeOK
<1>1. /\ VisibleNow(first[w], tx[w])' # {}
      /\ VisibleNow(first[w], tx[w])' \subseteq candidates'[w]
      /\ candidates[w] \subseteq candidates'[w]
  BY <1>0, CandidatesGrow DEF Reading
<1>2. VisibleNow(first[w], tx[w])' = VisibleNow(first[w], tx[w])
  BY <1>0 DEF VisibleNow, Allocated, StateOf
<1>3. ASSUME heap[current_rid[w]].t_max = NoTx PROVE current_rid[w] \in candidates[w]
  <2>1. PICK x \in VisibleNow(first[w], tx[w]) : x >= current_rid[w]
    BY <1>0 DEF ReadOf
  <2>2. x = current_rid[w]
    BY <1>0, <1>3, <2>1, OpenIsVisible
  <2> QED
    BY <2>1, <2>2 DEF ReadOf
<1> QED
  BY <1>0, <1>1, <1>2, <1>3 DEF ReadOf

\* One that reads the first state: an unfinished inserter of a visible tuple is
\* the reader.
LEMMA ReadFirstState ==
    ASSUME IInv, NEW w \in Workers, Step(w), RecordCandidates, ReadStateMin(w),
           NoRid \notin candidates'[w], ReadOf(w)
    PROVE  ReadOf(w)'
<1> USE DEF IInv, Chains
<1>0. /\ pc[w] = "min" /\ pc'[w] = "max"
      /\ \E g \in header[w] : state_min'[w] = StateOf(g.t_min)
      /\ UNCHANGED <<heap, next_rid, first, tx, current_rid, header, active_transactions, tx_state>>
  BY DEF ReadStateMin, GoTo, heapVars, tmVars, TypeOK
<1>1. /\ VisibleNow(first[w], tx[w])' # {}
      /\ VisibleNow(first[w], tx[w])' \subseteq candidates'[w]
      /\ candidates[w] \subseteq candidates'[w]
  BY <1>0, CandidatesGrow DEF Reading
<1>2. VisibleNow(first[w], tx[w])' = VisibleNow(first[w], tx[w])
  BY <1>0 DEF VisibleNow, Allocated, StateOf
<1>3. ASSUME state_min'[w] = "ACTIVE", NEW h \in header[w] PROVE h.t_min = tx[w]
  <2>1. h.t_min = heap[current_rid[w]].t_min /\ IsActive(heap[current_rid[w]].t_min)
    BY <1>0, <1>3 DEF CopiesAreFormer, IsActive
  <2>2. PICK x \in VisibleNow(first[w], tx[w]) : x >= current_rid[w]
    BY <1>0 DEF ReadOf
  <2>3. /\ x \in Allocated /\ heap[x].first = first[w]
        /\ IsVisible(heap[x], StateOf(heap[x].t_min), StateOf(heap[x].t_max), tx[w])
    BY <2>2 DEF VisibleNow
  <2>4. current_rid[w] \in Allocated /\ heap[current_rid[w]].first = first[w]
    BY <1>0 DEF PlaceInTuple, Walking
  <2>5. heap[x].t_min = heap[current_rid[w]].t_min
    BY <2>1, <2>2, <2>3, <2>4, AllocatedIsRID DEF ChainOrder
  <2> QED
    BY <2>1, <2>3, <2>5 DEF IsVisible, IsActive
<1> QED
  BY <1>0, <1>1, <1>2, <1>3 DEF ReadOf

\* One that decides: the version is a candidate, or the walk goes on and leaves
\* nothing visible behind.
LEMMA ReadDecides ==
    ASSUME IInv, NEW w \in Workers, Step(w), RecordCandidates, ReadStateMax(w),
           NoRid \notin candidates'[w], ReadOf(w)
    PROVE  ReadOf(w)'
<1> USE DEF IInv, Chains
<1>0. /\ pc[w] = "max" /\ pc'[w] \in {"header", "got"}
      /\ UNCHANGED <<heap, next_rid, first, tx, active_transactions, tx_state>>
  BY DEF ReadStateMax, GoTo, heapVars, tmVars, TypeOK
<1>1. /\ VisibleNow(first[w], tx[w])' # {}
      /\ VisibleNow(first[w], tx[w])' \subseteq candidates'[w]
      /\ candidates[w] \subseteq candidates'[w]
  BY <1>0, CandidatesGrow DEF Reading
<1>2. VisibleNow(first[w], tx[w])' = VisibleNow(first[w], tx[w])
  BY <1>0 DEF VisibleNow, Allocated, StateOf
<1> DEFINE c == current_rid[w]
<1>3. /\ c \in Allocated /\ heap[c].first = first[w]
      /\ \A x \in VisibleNow(first[w], tx[w]) : x >= c
  BY <1>0 DEF PlaceInTuple, Walking, ReadOf
<1>4. PICK h \in header[w] :
        IF IsVisible(h, state_min[w], StateOf(h.t_max), tx[w])
        THEN pc'[w] = "got" /\ found'[w] = c
        ELSE IF h.t_max # NoTx
        THEN pc'[w] = "header" /\ current_rid'[w] = h.next
        ELSE pc'[w] = "got"
  BY DEF ReadStateMax, GoTo, TypeOK
<1>5. /\ h.t_min = heap[c].t_min
      /\ h.t_max # NoTx => h = heap[c]
      /\ state_min[w] = "COMMITTED" => ~IsActive(h.t_min)
      /\ h.t_max = NoTx => c \in candidates[w]
      /\ state_min[w] = "ACTIVE" => h.t_min = tx[w]
      /\ state_min[w] \in {"ACTIVE", "COMMITTED"}
  BY <1>0 DEF CopiesAreFormer, ReadOf, TypeOK, TransactionState
<1>6. ASSUME h.t_max = NoTx PROVE pc'[w] = "got" /\ found'[w] \in candidates[w]
  BY <1>4, <1>5, <1>6 DEF IsVisible
<1>7. ASSUME h.t_max # NoTx, pc'[w] = "got" PROVE found'[w] \in candidates[w]
  <2>1. /\ IsVisible(h, state_min[w], StateOf(h.t_max), tx[w]) /\ found'[w] = c
    BY <1>4, <1>7
  <2>2. IsVisible(heap[c], StateOf(heap[c].t_min), StateOf(heap[c].t_max), tx[w])
    BY <1>5, <1>7, <2>1 DEF IsVisible, IsActive
  <2>3. c \in VisibleNow(first[w], tx[w])
    BY <1>3, <2>2 DEF VisibleNow
  <2> QED
    BY <2>1, <2>3 DEF ReadOf
<1>8. ASSUME pc'[w] = "header", NEW x \in VisibleNow(first[w], tx[w])
      PROVE  x >= current_rid'[w]
  <2>1. /\ ~IsVisible(h, state_min[w], StateOf(h.t_max), tx[w])
        /\ h.t_max # NoTx /\ h = heap[c] /\ current_rid'[w] = heap[c].next
    BY <1>4, <1>5, <1>8
  <2>2. ~IsVisible(heap[c], StateOf(heap[c].t_min), StateOf(heap[c].t_max), tx[w])
    <3>1. state_min[w] = "ACTIVE" => IsActive(heap[c].t_min)
      BY <1>0, <1>5, Transactions
    <3> QED
      BY <1>5, <2>1, <3>1 DEF IsVisible, IsActive
  <2>3. x \in Allocated /\ heap[x].first = first[w] /\ x # c /\ x >= c
    BY <1>3, <2>2 DEF VisibleNow
  <2>4. x > c
    BY <1>3, <2>3, AllocatedIsRID
  <2> QED
    BY <1>3, <2>1, <2>3, <2>4 DEF ChainOrder
<1>9. pc'[w] = "got" => found'[w] \in candidates'[w]
  BY <1>1, <1>6, <1>7
<1> QED
  BY <1>0, <1>1, <1>2, <1>8, <1>9 DEF ReadOf

\* Every step preserves the reading invariant.
LEMMA NextReadInv ==
    ASSUME IInv, ReadInv, [Next]_vars
    PROVE  ReadInv'
<1>1. CASE Next
  <2>1. PICK w \in Workers : Step(w)
    BY <1>1 DEF Next
  <2>2. RecordCandidates
    BY <1>1 DEF Next
  <2> SUFFICES ASSUME NEW v \in Workers, pc'[v] \in Reading, NoRid \notin candidates'[v]
               PROVE  ReadOf(v)'
    BY DEF ReadInv
  <2>3. pc[v] \in Reading => ReadOf(v)
    BY <2>2, CandidatesGrow DEF ReadInv
  <2>4. CASE v # w
    <3>1. pc[v] \in Reading
      BY <2>1, <2>4, OthersStay
    <3> QED
      BY <2>1, <2>2, <2>3, <2>4, <3>1, OthersRead
  <2>5. CASE v = w
    <3>1. \/ ReadHeader(w) \/ ReadStateMin(w) \/ ReadStateMax(w)
          \/ pc'[w] = "header" /\ pc[w] \notin Reading
      BY <2>1, <2>5 DEF Reading, Step, Begin, EndTransaction, SetStateCommitted, ReleaseLocks,
         Erase, StartRead, ReadReturns, InsertRecord, TryAcquireSucceeds, TryAcquireFails,
         LockTimeout, WalkToLastVersion, AppendVersion, LinkVersion, GoTo, IInv, TypeOK
    <3>2. ReadHeader(w) \/ ReadStateMin(w) \/ ReadStateMax(w) => pc[w] \in Reading
      BY DEF ReadHeader, ReadStateMin, ReadStateMax, Reading
    <3> QED
      BY <2>1, <2>2, <2>3, <2>5, <3>1, <3>2, ReadBegins, ReadCopies, ReadFirstState, ReadDecides
  <2> QED
    BY <2>4, <2>5
<1>2. CASE UNCHANGED vars
  BY <1>2 DEF vars, tmVars, heapVars, walkVars, ReadInv, ReadOf, VisibleNow, Allocated, StateOf
<1> QED
  BY <1>1, <1>2

\* HeapFile::read takes no lock across the chain, and the states it judges by may
\* change under it; of a tuple that is visible all the time it still returns a
\* version that was the right one at some moment of the read.
THEOREM ReadsAreLatestCommitted == Spec => []ReadIsLatestCommitted
<1>1. Init => ReadInv
  BY DEF Init, ReadInv, Reading
<1>2. Spec => []ReadInv
  BY <1>1, HeapInvariant, NextReadInv, PTL DEF Spec
<1>3. ReadInv => ReadIsLatestCommitted
  BY DEF ReadInv, ReadOf, ReadIsLatestCommitted, Reading
<1> QED
  BY <1>2, <1>3, PTL

--------------------------------------------------------------------------------
(****************************************************************************)
(* Walks.                                                                   *)
(****************************************************************************)

\* The loops of read() and of get_last_version go from a version to a later one,
\* so that a walk along a chain has at most as many turns as there are versions:
\* no link that others write meanwhile leads it in a circle.
WalksGoForward ==
    [][\A w \in Workers :
          pc[w] \in {"max", "last"} /\ current_rid'[w] # current_rid[w] =>
              current_rid'[w] \in Allocated /\ current_rid'[w] > current_rid[w]]_vars

\* Walks go forward, although a reader follows the next RID of a copy of a header.
THEOREM WalksAdvance == Spec => WalksGoForward
<1> DEFINE Forward == \A w \in Workers :
             pc[w] \in {"max", "last"} /\ current_rid'[w] # current_rid[w] =>
                 current_rid'[w] \in Allocated /\ current_rid'[w] > current_rid[w]
<1>1. IInv /\ Next => Forward
  <2> SUFFICES ASSUME IInv, Next, NEW w \in Workers,
                      pc[w] \in {"max", "last"}, current_rid'[w] # current_rid[w]
               PROVE  current_rid'[w] \in Allocated /\ current_rid'[w] > current_rid[w]
    OBVIOUS
  <2> USE DEF IInv, Chains
  <2>1. PICK v \in Workers : Step(v)
    BY DEF Next
  <2>2. v = w
    BY <2>1, OthersStay
  <2>3. ReadStateMax(w) \/ WalkToLastVersion(w)
    BY <2>1, <2>2 DEF Step, Begin, EndTransaction, SetStateCommitted, ReleaseLocks, Erase,
       StartRead, ReadHeader, ReadStateMin, ReadReturns, InsertRecord, TryAcquireSucceeds,
       TryAcquireFails, LockTimeout, AppendVersion, LinkVersion
  <2>4. PICK c \in Allocated : c = current_rid[w]
    BY DEF PlaceInTuple, Walking
  <2>5. heap[c].t_max # NoTx /\ current_rid'[w] = heap[c].next
    <3>1. CASE ReadStateMax(w)
      <4>1. PICK h \in header[w] : h.t_max # NoTx /\ current_rid'[w] = h.next
        BY <3>1 DEF ReadStateMax, TypeOK
      <4>2. h = heap[c]
        BY <2>4, <3>1, <4>1 DEF ReadStateMax, CopiesAreFormer
      <4> QED
        BY <4>1, <4>2
    <3>2. CASE WalkToLastVersion(w)
      BY <2>4, <3>2 DEF WalkToLastVersion, TypeOK
    <3> QED
      BY <2>3, <3>1, <3>2
  <2> QED
    BY <2>4, <2>5 DEF ChainsWellFormed
<1>2. IInv /\ [Next]_vars => [Forward]_vars
  BY <1>1
<1> QED
  BY <1>2, HeapInvariant, PTL DEF Spec, WalksGoForward

================================================================================
