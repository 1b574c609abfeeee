---------------------------- MODULE AtomicityProofs ----------------------------
(****************************************************************************)
(* HeapFile implements AtomicUpdates, for any number of workers, tuples,    *)
(* versions and transactions: the many steps of UpdateIter::next and of     *)
(* HeapFile::update amount to one, at the moment at which the new version   *)
(* is linked to the chain.                                                  *)
(****************************************************************************)
EXTENDS HeapFileProofs

--------------------------------------------------------------------------------
(****************************************************************************)
(* The inductive invariant, on top of IInv.                                 *)
(****************************************************************************)

\* release_all_locks goes through the write set: every lock is in the write set
\* of its holder, and none is left when the Transaction object is erased.
LocksAreListed ==
    /\ \A k \in TupleKey : lock_table[k] # NoTx => k \in first_rids[lock_table[k]]
    /\ \A w \in Workers : pc[w] = "erase" => \A k \in TupleKey : lock_table[k] # tx[w]

\* What a record contains was written by the versions of its tuple.
ValuesAreWritten ==
    \A r \in Allocated : \A u \in heap[r].value :
        \E q \in Versions(heap[r].first) : heap[q].t_min = u

\* An UPDATE on its way adds itself to the open end, and nothing else.
UpdateIsExact ==
    \A w \in Workers :
        /\ pc[w] \in {"last", "append"} =>
              \A r \in Versions(first[w]) : heap[r].t_max = NoTx => heap[r].value = seen[w]
        /\ pc[w] = "link" =>
              /\ heap[found[w]].value = heap[current_rid[w]].value \cup {tx[w]}
              /\ \A r \in Versions(first[w]) :
                    IsActive(heap[r].t_min) => heap[r].t_min = tx[w]

AInv == LocksAreListed /\ ValuesAreWritten /\ UpdateIsExact

\* How a step changes locks and write sets.
LEMMA LockSteps ==
    ASSUME IInv, NEW w \in Workers, Step(w)
    PROVE  \/ TryAcquireSucceeds(w) \/ ReleaseLocks(w) \/ Erase(w) \/ InsertRecord(w)
           \/ UNCHANGED <<lock_table, first_rids>> /\ pc'[w] # "erase"
<1> USE DEF IInv, TypeOK, GoTo, tmVars
<1>1. CASE Begin(w) \/ EndTransaction(w) \/ SetStateCommitted(w) \/ TryAcquireFails(w) \/ LockTimeout(w)
  BY <1>1 DEF Begin, StartTransaction, EndTransaction, SetStateCommitted, SetCommitted,
              TryAcquireFails, LockTimeout
<1>2. CASE \/ \E f \in RID, why \in {"select", "scan"} : StartRead(w, f, why)
           \/ ReadHeader(w) \/ ReadStateMin(w) \/ ReadStateMax(w) \/ ReadReturns(w)
  BY <1>2 DEF StartRead, ReadHeader, ReadStateMin, ReadStateMax, ReadReturns
<1>3. CASE WalkToLastVersion(w) \/ AppendVersion(w) \/ LinkVersion(w)
  BY <1>3 DEF WalkToLastVersion, AppendVersion, LinkVersion
<1> QED
  BY <1>1, <1>2, <1>3 DEF Step

\* Locks stay in the write set of their holder.
LEMMA NextListed ==
    ASSUME IInv, LocksAreListed, NEW w \in Workers, Step(w)
    PROVE  LocksAreListed'
<1> USE DEF IInv, Chains
<1>0. /\ first_rids \in [TxID -> SUBSET TupleKey]
      /\ lock_table \in [TupleKey -> TxID \cup {NoTx}]
      /\ pc \in [Workers -> PC] /\ tx \in [Workers -> TxID \cup {NoTx}]
  BY DEF TypeOK, TransactionsType, LockTableType
<1>1. NoTx \notin TxID /\ \A v \in Workers : pc[v] # "idle" => tx[v] \in TxID
  BY Transactions
<1>2. \A u, v \in Workers : pc[u] # "idle" /\ pc[v] # "idle" /\ tx[u] = tx[v] => u = v
  BY DEF WorkersHaveTransactions
<1>3. \A v \in Workers : v # w => pc'[v] = pc[v] /\ tx'[v] = tx[v]
  BY OthersStay
<1>4. CASE TryAcquireSucceeds(w)
  <2>1. /\ pc[w] \in {"acquire", "retry"} /\ pc'[w] = "header" /\ tx' = tx
        /\ first[w] \in TupleKey
    BY <1>0, <1>4, AllocatedIsRID, HeapFileAssumption DEF TryAcquireSucceeds, GoTo, PlaceInTuple, RID
  <2>2. \/ UNCHANGED <<lock_table, first_rids>>
        \/ /\ lock_table' = [lock_table EXCEPT ![first[w]] = tx[w]]
           /\ first_rids' = [first_rids EXCEPT ![tx[w]] = first_rids[tx[w]] \cup {first[w]}]
    BY <1>4 DEF TryAcquireSucceeds, AcquireLock, LockGranted, AddToWriteSet, tmVars
  <2>3. ASSUME NEW k \in TupleKey, lock_table'[k] # NoTx PROVE k \in first_rids'[lock_table'[k]]
    BY <1>0, <1>1, <2>1, <2>2, <2>3 DEF LocksAreListed
  <2>4. ASSUME NEW v \in Workers, pc'[v] = "erase", NEW k \in TupleKey
        PROVE  lock_table'[k] # tx'[v]
    <3>1. v # w /\ pc[v] = "erase"
      BY <1>3, <2>1, <2>4
    <3>2. tx[v] # tx[w]
      BY <1>2, <2>1, <3>1
    <3> QED
      BY <1>0, <2>1, <2>2, <3>1, <3>2 DEF LocksAreListed
  <2> QED
    BY <2>3, <2>4 DEF LocksAreListed
<1>5. CASE ReleaseLocks(w)
  <2>1. /\ pc[w] = "release" /\ tx' = tx /\ first_rids' = first_rids
        /\ lock_table' = [k \in TupleKey |-> IF k \in first_rids[tx[w]] /\ lock_table[k] = tx[w]
                                             THEN NoTx ELSE lock_table[k]]
    BY <1>5 DEF ReleaseLocks, ReleaseAllLocks, tmVars
  <2>2. \A k \in TupleKey : lock_table'[k] = IF lock_table[k] = tx[w] THEN NoTx ELSE lock_table[k]
    BY <1>1, <2>1 DEF LocksAreListed
  <2>3. ASSUME NEW v \in Workers, pc'[v] = "erase", NEW k \in TupleKey
        PROVE  lock_table'[k] # tx'[v]
    <3>1. CASE v = w
      BY <1>1, <2>1, <2>2, <3>1
    <3>2. CASE v # w
      BY <1>1, <1>3, <2>1, <2>2, <2>3, <3>2 DEF LocksAreListed
    <3> QED
      BY <3>1, <3>2
  <2> QED
    BY <2>1, <2>2, <2>3 DEF LocksAreListed
<1>6. CASE Erase(w)
  <2>1. /\ pc[w] = "erase" /\ pc'[w] = "idle" /\ lock_table' = lock_table
        /\ first_rids' = [first_rids EXCEPT ![tx[w]] = {}]
    BY <1>0, <1>6 DEF Erase, EraseTransaction, GoTo
  <2>2. \A k \in TupleKey : lock_table[k] # tx[w]
    BY <2>1 DEF LocksAreListed
  <2>3. ASSUME NEW k \in TupleKey, lock_table'[k] # NoTx PROVE k \in first_rids'[lock_table'[k]]
    BY <1>0, <2>1, <2>2, <2>3 DEF LocksAreListed
  <2>4. ASSUME NEW v \in Workers, pc'[v] = "erase", NEW k \in TupleKey
        PROVE  lock_table'[k] # tx'[v]
    BY <1>3, <2>1, <2>4 DEF LocksAreListed
  <2> QED
    BY <2>3, <2>4 DEF LocksAreListed
<1>7. CASE InsertRecord(w)
  <2>1. /\ pc' = pc /\ tx' = tx /\ lock_table' = lock_table
        /\ first_rids' = [first_rids EXCEPT ![tx[w]] = first_rids[tx[w]] \cup {next_rid}]
    BY <1>7 DEF InsertRecord, AddToWriteSet
  <2>2. ASSUME NEW k \in TupleKey, lock_table'[k] # NoTx PROVE k \in first_rids'[lock_table'[k]]
    BY <1>0, <2>1, <2>2 DEF LocksAreListed
  <2> QED
    BY <2>1, <2>2 DEF LocksAreListed
<1>8. CASE UNCHANGED <<lock_table, first_rids>> /\ pc'[w] # "erase"
  BY <1>3, <1>8 DEF LocksAreListed
<1> QED
  BY <1>4, <1>5, <1>6, <1>7, <1>8, LockSteps

\* What an UPDATE in its last steps starts from is the value of an open version.
LEMMA SeenIsWritten ==
    ASSUME IInv, AInv, NEW w \in Workers, pc[w] = "append", NEW u \in seen[w]
    PROVE  \E q \in Versions(first[w]) : heap[q].t_min = u
<1>1. /\ current_rid[w] \in Allocated /\ heap[current_rid[w]].first = first[w]
      /\ heap[current_rid[w]].t_max = NoTx
  BY DEF IInv, Chains, PlaceInTuple, Walking, UpdateInProgress
<1>2. heap[current_rid[w]].value = seen[w]
  BY <1>1 DEF AInv, UpdateIsExact, Versions
<1> QED
  BY <1>1, <1>2 DEF AInv, ValuesAreWritten

\* What a record contains stays written by its tuple's versions.
LEMMA NextValues ==
    ASSUME IInv, AInv, NEW w \in Workers, Step(w)
    PROVE  ValuesAreWritten'
<1> SUFFICES ASSUME NEW r \in Allocated', NEW u \in heap'[r].value
             PROVE  \E q \in Allocated' : heap'[q].first = heap'[r].first /\ heap'[q].t_min = u
  BY DEF ValuesAreWritten, Versions
<1>1. CASE r \in Allocated
  <2>1. PICK q \in Allocated : heap[q].first = heap[r].first /\ heap[q].t_min = u
    BY <1>1, HeapGrows DEF AInv, ValuesAreWritten, Versions
  <2> QED
    BY <1>1, <2>1, HeapGrows
<1>2. CASE r \notin Allocated
  <2>1. r = next_rid /\ (InsertRecord(w) \/ AppendVersion(w))
    BY <1>2, HeapGrows
  <2>2. CASE u = tx[w]
    BY <2>1, <2>2, RecordIsNew
  <2>3. CASE u # tx[w]
    <3>1. AppendVersion(w) /\ u \in seen[w] /\ heap'[r].first = first[w]
      BY <2>1, <2>3, RecordIsNew
    <3>2. PICK q \in Allocated : heap[q].first = first[w] /\ heap[q].t_min = u
      BY <3>1, SeenIsWritten DEF AppendVersion, Versions
    <3> QED
      BY <3>1, <3>2, HeapGrows
  <2> QED
    BY <2>2, <2>3
<1> QED
  BY <1>1, <1>2

\* Updates on their way stay exact.
LEMMA NextExact ==
    ASSUME IInv, AInv, NEW w \in Workers, Step(w)
    PROVE  UpdateIsExact'
<1> USE DEF IInv, Chains
<1> DEFINE Before(v) ==
             pc'[v] \in {"last", "append"} =>
                 \A r \in Allocated' : heap'[r].first = first'[v] =>
                     (heap'[r].t_max = NoTx => heap'[r].value = seen'[v])
           Linking(v) ==
             pc'[v] = "link" =>
                 /\ heap'[found'[v]].value = heap'[current_rid'[v]].value \cup {tx'[v]}
                 /\ \A r \in Allocated' : heap'[r].first = first'[v] =>
                       (IsActive(heap[r].t_min)' => heap'[r].t_min = tx'[v])
<1> SUFFICES ASSUME NEW v \in Workers PROVE Before(v) /\ Linking(v)
  BY DEF UpdateIsExact, Versions
<1>1. CASE v # w
  <2>1. /\ pc'[v] = pc[v] /\ first'[v] = first[v] /\ current_rid'[v] = current_rid[v]
        /\ found'[v] = found[v] /\ tx'[v] = tx[v] /\ seen'[v] = seen[v]
    BY <1>1, OthersStay
  <2>2. ASSUME pc[v] \in InUpdate, NEW r \in Allocated', heap'[r].first = first[v]
        PROVE  r \in Versions(first[v]) /\ heap'[r] = heap[r]
    BY <1>1, <2>2, LockedVersions DEF HasLock
  <2>3. Before(v)
    BY <2>1, <2>2 DEF AInv, UpdateIsExact, InUpdate
  <2>4. ASSUME pc[v] = "link" PROVE Linking(v)
    <3>1. /\ found[v] \in Allocated /\ heap[found[v]].first = first[v]
          /\ current_rid[v] \in Allocated
      BY <2>4 DEF UpdateInProgress, PlaceInTuple, Walking
    <3>2. heap'[found[v]].value = heap'[current_rid[v]].value \cup {tx[v]}
      BY <2>4, <3>1, HeapGrows DEF AInv, UpdateIsExact
    <3>3. ASSUME NEW r \in Allocated', heap'[r].first = first[v], IsActive(heap[r].t_min)'
          PROVE  heap'[r].t_min = tx[v]
      <4>1. r \in Versions(first[v]) /\ heap'[r] = heap[r]
        BY <2>2, <2>4, <3>3 DEF InUpdate
      <4>2. IsActive(heap[r].t_min)
        BY <3>3, <4>1, VersionsFinish, AllocatedIsRID DEF Versions
      <4> QED
        BY <2>4, <4>1, <4>2 DEF AInv, UpdateIsExact
    <3> QED
      BY <2>1, <3>2, <3>3
  <2> QED
    BY <2>1, <2>3, <2>4
<1>2. CASE v = w
  <2>1. CASE ReadReturns(w) /\ pc'[w] = "last"
    <3>1. /\ pc[w] = "got" /\ goal[w] = "reread" /\ found[w] # NoRid
          /\ seen'[w] = heap[found[w]].value
          /\ UNCHANGED <<heap, next_rid, first, tx>>
      BY <2>1 DEF ReadReturns, GoTo, heapVars, TypeOK
    <3>2. ASSUME NEW r \in Allocated', heap'[r].first = first'[w], heap'[r].t_max = NoTx
          PROVE  heap'[r].value = seen'[w]
      <4>1. r \in Versions(first[w]) /\ heap[r].t_max = NoTx
        BY <3>1, <3>2 DEF Allocated, Versions
      <4> QED
        BY <3>1, <4>1, RereadIsCurrent
    <3> QED
      BY <1>2, <2>1, <3>2
  <2>2. CASE WalkToLastVersion(w)
    <3>1. /\ pc[w] = "last" /\ pc'[w] \in {"last", "append"}
          /\ UNCHANGED <<heap, next_rid, first, seen>>
      BY <2>2 DEF WalkToLastVersion, GoTo, heapVars, TypeOK
    <3>2. Before(w)
      BY <3>1 DEF AInv, UpdateIsExact, Versions, Allocated
    <3> QED
      BY <1>2, <3>1, <3>2
  <2>3. CASE AppendVersion(w)
    <3>1. /\ pc[w] = "append" /\ pc'[w] = "link" /\ found'[w] = next_rid
          /\ UNCHANGED <<first, tx, current_rid>>
      BY <2>3 DEF AppendVersion, GoTo, TypeOK
    <3>2. /\ current_rid[w] \in Versions(first[w]) /\ heap[current_rid[w]].t_max = NoTx
          /\ current_rid[w] \in Allocated
      BY <3>1 DEF UpdateInProgress, PlaceInTuple, Walking, Versions
    <3>3. heap[current_rid[w]].value = seen[w]
      BY <3>1, <3>2 DEF AInv, UpdateIsExact
    <3>4. heap'[next_rid].value = heap'[current_rid[w]].value \cup {tx[w]}
      BY <2>3, <3>2, <3>3, RecordIsNew, HeapGrows
    <3>5. ASSUME NEW r \in Allocated', heap'[r].first = first[w], IsActive(heap[r].t_min)'
          PROVE  heap'[r].t_min = tx[w]
      <4>1. CASE r = next_rid
        BY <2>3, <4>1, RecordIsNew
      <4>2. CASE r # next_rid
        <5>1. r \in Allocated /\ heap'[r] = heap[r] /\ r \in RID
          BY <2>3, <4>2, RecordIsNew, AllocatedIsRID
        <5>2. r \in Versions(first[w]) /\ IsActive(heap[r].t_min)
          BY <3>5, <5>1, VersionsFinish DEF Versions
        <5> QED
          BY <3>1, <5>1, <5>2 DEF UpdateInProgress
      <4> QED
        BY <4>1, <4>2
    <3> QED
      BY <1>2, <3>1, <3>4, <3>5
  <2>4. pc'[w] \notin InUpdate \/ (ReadReturns(w) /\ pc'[w] = "last")
        \/ WalkToLastVersion(w) \/ AppendVersion(w)
    BY DEF Step, Begin, EndTransaction, SetStateCommitted, ReleaseLocks, Erase,
       StartRead, ReadHeader, ReadStateMin, ReadStateMax, ReadReturns, InsertRecord,
       TryAcquireSucceeds, TryAcquireFails, LockTimeout, LinkVersion, GoTo, TypeOK, InUpdate
  <2> QED
    BY <1>2, <2>1, <2>2, <2>3, <2>4 DEF InUpdate
<1> QED
  BY <1>1, <1>2

\* The initial state and every step satisfy the invariant.
LEMMA InitAInv == Init => AInv
<1> SUFFICES ASSUME Init PROVE AInv
  OBVIOUS
<1>1. TypeOK
  BY InitTypeOK
<1>2. /\ \A w \in Workers : pc[w] = "idle"
      /\ \A r \in RID : heap[r].value = {}
      /\ \A k \in TupleKey : lock_table[k] = NoTx
  BY DEF Init, NewVersion, LockTableInit
<1> QED
  BY <1>1, <1>2, AllocatedIsRID DEF AInv, LocksAreListed, ValuesAreWritten, UpdateIsExact

LEMMA NextAInv ==
    ASSUME IInv, AInv, [Next]_vars
    PROVE  AInv'
<1>1. CASE Next
  <2>1. PICK w \in Workers : Step(w)
    BY <1>1 DEF Next
  <2> QED
    BY <2>1, NextListed, NextValues, NextExact DEF AInv
<1>2. CASE UNCHANGED vars
  BY <1>2 DEF vars, tmVars, heapVars, walkVars, AInv, LocksAreListed, ValuesAreWritten,
     UpdateIsExact, Allocated, Versions, IsActive, StateOf
<1> QED
  BY <1>1, <1>2

\* The invariant of the refinement holds in every reachable state.
THEOREM AtomicInvariant == Spec => [](IInv /\ AInv)
<1>1. IInv /\ AInv /\ [Next]_vars => (IInv /\ AInv)'
  BY NextIInv, NextAInv
<1> QED
  BY <1>1, InitIInv, InitAInv, PTL DEF Spec

--------------------------------------------------------------------------------
(****************************************************************************)
(* The table as the abstract specification sees it.                         *)
(****************************************************************************)

\* A step that writes no record changes nothing of the table.
LEMMA QuietContents ==
    ASSUME UNCHANGED heapVars, \A r : Pending(r)' <=> Pending(r)
    PROVE  UNCHANGED <<Tuples, Contents>>
<1>1. Allocated' = Allocated /\ heap' = heap
  BY DEF heapVars, Allocated
<1>2. \A f : OpenEnds(f)' = OpenEnds(f)
  BY <1>1 DEF OpenEnds
<1> QED
  BY <1>1, <1>2 DEF Tuples, Contents

\* A version that is not linked in yet is not seen.
LEMMA AppendContents ==
    ASSUME IInv, NEW w \in Workers, Step(w), AppendVersion(w)
    PROVE  UNCHANGED <<Tuples, Contents>>
<1> USE DEF IInv, Chains
<1>1. /\ Allocated' = Allocated \cup {next_rid} /\ next_rid \notin Allocated
      /\ \A r \in Allocated : heap'[r] = heap[r]
      /\ heap'[next_rid].first = first[w]
  BY RecordIsNew, AllocatedIsRID
<1>2. first[w] \in Allocated
  BY DEF AppendVersion, PlaceInTuple, InUpdate
<1>3. \A r : Pending(r)' <=> Pending(r) \/ r = next_rid
  BY PendingSteps
<1>4. \A f : OpenEnds(f)' = OpenEnds(f)
  BY <1>1, <1>3 DEF OpenEnds
<1>5. Tuples' = Tuples
  BY <1>1, <1>2 DEF Tuples
<1>6. \A f : {heap[r].value : r \in OpenEnds(f)}' = {heap[r].value : r \in OpenEnds(f)}
  BY <1>1, <1>4 DEF OpenEnds
<1> QED
  BY <1>5, <1>6 DEF Contents

\* An INSERT adds a tuple of its transaction.
LEMMA InsertContents ==
    ASSUME IInv, NEW w \in Workers, Step(w), InsertRecord(w)
    PROVE  /\ next_rid \in RID /\ next_rid \notin Tuples
           /\ Tuples' = Tuples \cup {next_rid}
           /\ Contents' = [Contents EXCEPT ![next_rid] = {tx[w]}]
<1> USE DEF IInv, Chains
<1>1. /\ Allocated' = Allocated \cup {next_rid} /\ next_rid \notin Allocated /\ next_rid \in RID
      /\ \A r \in Allocated : heap'[r] = heap[r]
      /\ heap'[next_rid].first = next_rid /\ heap'[next_rid].t_max = NoTx
      /\ heap'[next_rid].value = {tx[w]}
  BY RecordIsNew, AllocatedIsRID
<1>2. \A r : Pending(r)' <=> Pending(r)
  BY PendingSteps
<1>3. PICK n \in RID : n = next_rid
  BY <1>1
<1>4. ~Pending(n) /\ \A r \in Allocated : heap[r].first # n
  BY <1>1, <1>3, PendingSteps DEF ChainOrder
<1>5. OpenEnds(n)' = {n}
  BY <1>1, <1>2, <1>3, <1>4 DEF OpenEnds
<1>6. \A f : f # n => OpenEnds(f)' = OpenEnds(f)
  BY <1>1, <1>2, <1>3 DEF OpenEnds
<1>7. \A f : f # n =>
          {heap[r].value : r \in OpenEnds(f)}' = {heap[r].value : r \in OpenEnds(f)}
  BY <1>1, <1>6 DEF OpenEnds
<1>8. (UNION {heap[r].value : r \in OpenEnds(n)})' = {tx[w]}
  BY <1>1, <1>3, <1>5
<1>9. Contents' = [Contents EXCEPT ![n] = {tx[w]}]
  BY <1>7, <1>8 DEF Contents
<1>10. n \notin Tuples /\ Tuples' = Tuples \cup {n}
  BY <1>1, <1>3 DEF Tuples
<1> QED
  BY <1>3, <1>9, <1>10

\* The link replaces the open end by the new version, which contains the old one
\* and the transaction; whatever it contains else is of finished transactions.
LEMMA LinkContents ==
    ASSUME IInv, AInv, NEW w \in Workers, Step(w), LinkVersion(w)
    PROVE  /\ first[w] \in Tuples /\ first[w] \in RID
           /\ Tuples' = Tuples
           /\ Contents' = [Contents EXCEPT ![first[w]] = Contents[first[w]] \cup {tx[w]}]
           /\ \A u \in Contents[first[w]] : u # tx[w] =>
                 \E q \in Allocated : heap[q].t_min = u /\ ~IsActive(u)
<1> USE DEF IInv, Chains
<1>1. pc[w] = "link"
  BY DEF LinkVersion
<1>2. PICK f \in RID : f = first[w] /\ f \in Allocated /\ heap[f].first = f
  BY <1>1, AllocatedIsRID DEF PlaceInTuple, InUpdate
<1>3. PICK c \in RID : /\ c = current_rid[w] /\ c \in Allocated /\ heap[c].first = f
                       /\ ~Pending(c) /\ heap[c].t_max = NoTx
  BY <1>1, <1>2, AllocatedIsRID DEF PlaceInTuple, Walking, UpdateInProgress
<1>4. PICK n \in RID : /\ n = found[w] /\ n \in Allocated /\ heap[n].first = f
                       /\ heap[n].t_max = NoTx /\ Pending(n)
                       /\ heap[n].value = heap[c].value \cup {tx[w]}
  BY <1>1, <1>2, <1>3, AllocatedIsRID DEF UpdateInProgress, Pending, AInv, UpdateIsExact
<1>5. OpenEnds(f) = {c}
  <2>1. PICK end \in Allocated : OpenEnds(f) = {end}
    BY <1>2, EndIsUnique
  <2>2. c \in OpenEnds(f)
    BY <1>3 DEF OpenEnds
  <2> QED
    BY <2>1, <2>2
<1>6. /\ Allocated' = Allocated /\ Allocated \subseteq RID
      /\ \A r \in RID : heap'[r].first = heap[r].first /\ heap'[r].value = heap[r].value
      /\ \A r \in RID : r # c => heap'[r] = heap[r]
      /\ heap'[c].t_max # NoTx
  BY <1>3, RecordIsClosed, AllocatedIsRID, Transactions
<1>7. /\ \A r : Pending(r)' <=> Pending(r) /\ r # n
      /\ \A r : Pending(r) /\ heap[r].first = f => r = n
  BY <1>2, <1>4, PendingSteps
<1>8. OpenEnds(f)' = {n}
  <2>1. n \in OpenEnds(f)'
    BY <1>3, <1>4, <1>6, <1>7 DEF OpenEnds
  <2>2. ASSUME NEW r \in OpenEnds(f)', r # n PROVE FALSE
    <3>1. r \in Allocated /\ heap'[r].first = f /\ heap'[r].t_max = NoTx /\ ~Pending(r)'
      BY <1>6 DEF OpenEnds
    <3>2. r # c /\ heap[r].first = f /\ heap[r].t_max = NoTx /\ ~Pending(r)
      BY <1>6, <1>7, <2>2, <3>1
    <3> QED
      BY <1>5, <3>1, <3>2 DEF OpenEnds
  <2> QED
    BY <2>1, <2>2
<1>9. ASSUME NEW g, g # f PROVE OpenEnds(g)' = OpenEnds(g)
  <2>1. \A r \in Allocated : heap[r].first = g => heap'[r] = heap[r] /\ (Pending(r)' <=> Pending(r))
    BY <1>3, <1>4, <1>6, <1>7, <1>9
  <2> QED
    BY <1>6, <2>1 DEF OpenEnds
<1>10. ASSUME NEW g, g # f
       PROVE  {heap[r].value : r \in OpenEnds(g)}' = {heap[r].value : r \in OpenEnds(g)}
  BY <1>6, <1>9, <1>10 DEF OpenEnds
<1>11. (UNION {heap[r].value : r \in OpenEnds(f)})' = heap[c].value \cup {tx[w]}
  BY <1>4, <1>6, <1>8
<1>12. Contents[f] = heap[c].value
  BY <1>5 DEF Contents
<1>13. Contents' = [Contents EXCEPT ![f] = Contents[f] \cup {tx[w]}]
  BY <1>10, <1>11, <1>12 DEF Contents
<1>14. f \in Tuples /\ Tuples' = Tuples
  BY <1>2, <1>6 DEF Tuples
<1>15. ASSUME NEW u \in Contents[f], u # tx[w]
       PROVE  \E q \in Allocated : heap[q].t_min = u /\ ~IsActive(u)
  <2>1. PICK q \in Versions(f) : heap[q].t_min = u
    BY <1>3, <1>12 DEF AInv, ValuesAreWritten
  <2>2. ~IsActive(u)
    BY <1>1, <1>2, <1>15, <2>1 DEF AInv, UpdateIsExact
  <2> QED
    BY <2>1, <2>2 DEF Versions
<1> QED
  BY <1>2, <1>13, <1>14, <1>15

--------------------------------------------------------------------------------
(****************************************************************************)
(* The refinement.                                                          *)
(****************************************************************************)

\* The phases that the abstract specification sees.
Phases == [t \in TxID |-> Phase(t)]

\* A worker's transaction runs until its state is COMMITTED.
LEMMA PhaseOfWorker ==
    ASSUME IInv, NEW w \in Workers, pc[w] # "idle"
    PROVE  /\ tx[w] \in TxID
           /\ Phase(tx[w]) = IF pc[w] \in {"release", "erase"} THEN "finished" ELSE "running"
<1>1. tx[w] \in TxID /\ tx[w] \in active_transactions
  BY Transactions DEF IInv, Chains, WorkersHaveTransactions
<1>2. tx[w] < transaction_count
  BY <1>1 DEF IInv, Chains, IdsAreFresh
<1>3. ~(tx[w] >= transaction_count)
  BY <1>1, <1>2, MaxTxIdAssumption DEF IInv, TypeOK, TransactionsType, TxID
<1> QED
  BY <1>1, <1>3 DEF IInv, Chains, WorkersHaveTransactions, Phase, IsActive, StateOf

\* start_transaction begins the transaction whose id it hands out.
LEMMA BeginPhases ==
    ASSUME IInv, NEW w \in Workers, Begin(w)
    PROVE  \E t \in TxID : Phase(t) = "new" /\ Phases' = [Phases EXCEPT ![t] = "running"]
<1> USE MaxTxIdAssumption DEF IInv, TypeOK, TransactionsType
<1>1. PICK id \in TxID : id = transaction_count
  BY DEF Begin, StartTransaction
<1>2. /\ id \in Nat /\ transaction_count' = id + 1
      /\ active_transactions' = active_transactions \cup {id}
      /\ tx_state' = [tx_state EXCEPT ![id] = "ACTIVE"]
  BY <1>1 DEF Begin, StartTransaction, TxID
<1>3. Phase(id) = "new" /\ Phase(id)' = "running"
  BY <1>1, <1>2 DEF Phase, IsActive, StateOf
<1>4. ASSUME NEW t \in TxID, t # id PROVE Phase(t)' = Phase(t)
  <2>1. t >= transaction_count' <=> t >= transaction_count
    BY <1>1, <1>2, <1>4 DEF TxID
  <2>2. StateOf(t)' = StateOf(t)
    BY <1>2, <1>4 DEF StateOf
  <2> QED
    BY <2>1, <2>2 DEF Phase, IsActive
<1>5. Phases' = [Phases EXCEPT ![id] = "running"]
  BY <1>3, <1>4 DEF Phases
<1> QED
  BY <1>3, <1>5

\* The assignment to Transaction::state finishes the transaction.
LEMMA CommitPhases ==
    ASSUME IInv, NEW w \in Workers, SetStateCommitted(w)
    PROVE  Phases' = [Phases EXCEPT ![tx[w]] = "finished"]
<1>1. PICK t \in TxID : t = tx[w] /\ Phase(t) = "running"
  BY PhaseOfWorker DEF SetStateCommitted
<1>2. /\ tx_state' = [tx_state EXCEPT ![t] = "COMMITTED"]
      /\ UNCHANGED <<transaction_count, active_transactions>>
  BY <1>1 DEF SetStateCommitted, SetCommitted
<1>3. tx_state \in [TxID -> TransactionState]
  BY DEF IInv, TypeOK, TransactionsType
<1>4. Phase(t)' = "finished"
  BY <1>1, <1>2, <1>3 DEF Phase, IsActive, StateOf
<1>5. \A u \in TxID : u # t => Phase(u)' = Phase(u)
  BY <1>2, <1>3 DEF Phase, IsActive, StateOf
<1> QED
  BY <1>1, <1>4, <1>5 DEF Phases

\* No other step changes a phase: an erased transaction counts as committed.
LEMMA OtherPhases ==
    ASSUME IInv, NEW w \in Workers, Step(w), ~Begin(w), ~SetStateCommitted(w)
    PROVE  Phases' = Phases
<1>1. CASE Erase(w)
  <2>1. PICK t \in TxID : t = tx[w]
    BY <1>1, PhaseOfWorker DEF Erase
  <2>2. /\ active_transactions' = active_transactions \ {t}
        /\ UNCHANGED <<transaction_count, tx_state>>
    BY <1>1, <2>1 DEF Erase, EraseTransaction
  <2>3. tx_state[t] = "COMMITTED"
    BY <1>1, <2>1 DEF Erase, IInv, Chains, WorkersHaveTransactions
  <2>4. \A u \in TxID : StateOf(u)' = StateOf(u)
    BY <2>2, <2>3 DEF StateOf
  <2> QED
    BY <2>2, <2>4 DEF Phases, Phase, IsActive
<1>2. CASE UNCHANGED <<transaction_count, active_transactions, tx_state>>
  BY <1>2 DEF Phases, Phase, IsActive, StateOf
<1>3. Erase(w) \/ UNCHANGED <<transaction_count, active_transactions, tx_state>>
  BY DEF Step, EndTransaction, ReleaseLocks, StartRead, ReadHeader, ReadStateMin, ReadStateMax,
     ReadReturns, InsertRecord, TryAcquireSucceeds, TryAcquireFails, LockTimeout,
     WalkToLastVersion, AppendVersion, LinkVersion, AcquireLock, AddToWriteSet, tmVars
<1> QED
  BY <1>1, <1>2, <1>3

\* ... and releasing the locks gives up all that the transaction holds.
LEMMA ReleaseFreesAll ==
    ASSUME IInv, AInv, NEW w \in Workers, ReleaseLocks(w)
    PROVE  lock_table' = [k \in RID |-> IF lock_table[k] = tx[w] THEN NoTx ELSE lock_table[k]]
<1>1. tx[w] # NoTx
  BY PhaseOfWorker, MaxTxIdAssumption DEF ReleaseLocks, TxID, NoTx
<1>2. TupleKey = RID
  BY HeapFileAssumption DEF RID
<1> QED
  BY <1>1, <1>2 DEF ReleaseLocks, ReleaseAllLocks, AInv, LocksAreListed

\* The lock protocol of a step, in the words of StrictTwoPhaseLocking: what it
\* does to phases and locks, and that it then leaves the table alone.
LEMMA StepLocks ==
    ASSUME IInv, AInv, NEW w \in Workers, Step(w)
    PROVE  \/ UNCHANGED <<Phases, lock_table>>
           \/ /\ UNCHANGED <<Tuples, Contents>>
              /\ \E t \in TxID :
                    \/ Atomic!Locks!Begin(t) \/ Atomic!Locks!Finish(t) \/ Atomic!Locks!Unlock(t)
                    \/ \E k \in Tuples : Atomic!Locks!Lock(t, k)
<1>1. CASE Begin(w)
  <2>1. PICK t \in TxID : Phase(t) = "new" /\ Phases' = [Phases EXCEPT ![t] = "running"]
    BY <1>1, BeginPhases
  <2>2. Atomic!Locks!Begin(t)
    BY <1>1, <2>1 DEF Atomic!Locks!Begin, Begin, Phases
  <2>3. UNCHANGED <<Tuples, Contents>>
    BY <1>1, HeapSteps, QuietContents DEF Begin, InsertRecord, AppendVersion, LinkVersion
  <2> QED
    BY <2>2, <2>3
<1>2. CASE SetStateCommitted(w)
  <2>1. PICK t \in TxID : t = tx[w] /\ Phase(t) = "running"
    BY <1>2, PhaseOfWorker DEF SetStateCommitted
  <2>2. Atomic!Locks!Finish(t)
    BY <1>2, <2>1, CommitPhases DEF Atomic!Locks!Finish, SetStateCommitted, Phases
  <2>3. UNCHANGED <<Tuples, Contents>>
    BY <1>2, HeapSteps, QuietContents DEF SetStateCommitted, InsertRecord, AppendVersion, LinkVersion
  <2> QED
    BY <2>2, <2>3
<1>3. CASE ReleaseLocks(w)
  <2>1. PICK t \in TxID : t = tx[w] /\ Phase(t) = "finished"
    BY <1>3, PhaseOfWorker DEF ReleaseLocks
  <2>2. Phases' = Phases
    BY <1>3, OtherPhases DEF ReleaseLocks, Begin, SetStateCommitted
  <2>3. Atomic!Locks!Unlock(t)
    BY <1>3, <2>1, <2>2, ReleaseFreesAll DEF Atomic!Locks!Unlock, Phases
  <2>4. UNCHANGED <<Tuples, Contents>>
    BY <1>3, HeapSteps, QuietContents DEF ReleaseLocks, InsertRecord, AppendVersion, LinkVersion
  <2> QED
    BY <2>3, <2>4
<1>4. CASE TryAcquireSucceeds(w) /\ lock_table[first[w]] = NoTx
  <2>1. pc[w] \in {"acquire", "retry"}
    BY <1>4 DEF TryAcquireSucceeds
  <2>2. PICK t \in TxID : t = tx[w] /\ Phase(t) = "running"
    BY <2>1, PhaseOfWorker
  <2>3. PICK k \in Tuples : k = first[w]
    BY <2>1 DEF IInv, Chains, PlaceInTuple, Tuples
  <2>4. lock_table[k] = NoTx /\ lock_table' = [lock_table EXCEPT ![k] = t]
    BY <1>4, <2>2, <2>3 DEF TryAcquireSucceeds, AcquireLock, LockGranted
  <2>5. Phases' = Phases
    BY <2>1, OtherPhases DEF Begin, SetStateCommitted
  <2>6. Atomic!Locks!Lock(t, k)
    BY <2>2, <2>4, <2>5 DEF Atomic!Locks!Lock, Phases
  <2>7. UNCHANGED <<Tuples, Contents>>
    BY <2>1, HeapSteps, QuietContents DEF InsertRecord, AppendVersion, LinkVersion
  <2> QED
    BY <2>6, <2>7
<1>5. CASE /\ ~Begin(w) /\ ~SetStateCommitted(w) /\ ~ReleaseLocks(w)
           /\ ~(TryAcquireSucceeds(w) /\ lock_table[first[w]] = NoTx)
  <2>1. UNCHANGED lock_table
    BY <1>5, LockSteps DEF TryAcquireSucceeds, AcquireLock, Erase, InsertRecord
  <2> QED
    BY <1>5, <2>1, OtherPhases
<1> QED
  BY <1>1, <1>2, <1>3, <1>4, <1>5

\* Every step of the heap file is a step of the abstract specification, or none.
LEMMA StepIsAtomic ==
    ASSUME IInv, AInv, [Next]_vars
    PROVE  [Atomic!Next]_(Atomic!atomicVars)
<1>1. CASE UNCHANGED vars
  <2>1. UNCHANGED <<Phases, lock_table>>
    BY <1>1 DEF vars, tmVars, Phases, Phase, IsActive, StateOf
  <2>2. UNCHANGED <<Tuples, Contents>>
    BY <1>1, QuietContents DEF vars, walkVars, Pending
  <2> QED
    BY <2>1, <2>2 DEF Atomic!atomicVars, Phases
<1>2. ASSUME NEW w \in Workers, Step(w) PROVE [Atomic!Next]_(Atomic!atomicVars)
  <2>1. CASE ~UNCHANGED <<Phases, lock_table>>
    BY <1>2, <2>1, StepLocks DEF Atomic!Next, Atomic!Protocol
  <2>2. CASE UNCHANGED <<Phases, lock_table>> /\ InsertRecord(w)
    <3>1. PICK t \in TxID : t = tx[w] /\ Phase(t) = "running"
      BY <2>2, PhaseOfWorker DEF InsertRecord
    <3>2. PICK k \in RID : k = next_rid
      BY <2>2 DEF InsertRecord
    <3>3. Atomic!Insert(t, k)
      BY <1>2, <2>2, <3>1, <3>2, InsertContents DEF Atomic!Insert, Phases
    <3> QED
      BY <3>3 DEF Atomic!Next
  <2>3. CASE UNCHANGED <<Phases, lock_table>> /\ LinkVersion(w)
    <3>1. PICK t \in TxID : t = tx[w] /\ Phase(t) = "running"
      BY <2>3, PhaseOfWorker DEF LinkVersion
    <3>2. PICK k \in RID : /\ k = first[w] /\ k \in Tuples
                           /\ Tuples' = Tuples
                           /\ Contents' = [Contents EXCEPT ![k] = Contents[k] \cup {t}]
                           /\ \A u \in Contents[k] : u # t =>
                                 \E q \in Allocated : heap[q].t_min = u /\ ~IsActive(u)
      BY <1>2, <2>3, <3>1, LinkContents
    <3>3. lock_table[k] = t
      BY <2>3, <3>1, <3>2 DEF LinkVersion, IInv, Chains, PlaceInTuple, HasLock, InUpdate
    <3>4. ASSUME NEW u \in Contents[k], u # t PROVE u \in TxID /\ Phase(u) = "finished"
      <4>1. PICK q \in Allocated : heap[q].t_min = u /\ ~IsActive(u)
        BY <3>2, <3>4
      <4>2. u < transaction_count /\ transaction_count \in Nat /\ u \in TxID \cup {NoTx}
        BY <4>1, AllocatedIsRID, MaxTxIdAssumption
        DEF IInv, Chains, IdsAreFresh, TypeOK, TransactionsType, Version
      <4>3. u \in TxID
        BY <3>4, AllocatedIsRID DEF Contents, OpenEnds, IInv, Version
      <4>4. ~(u >= transaction_count)
        BY <4>2, <4>3, MaxTxIdAssumption DEF TxID
      <4> QED
        BY <4>1, <4>3, <4>4 DEF Phase
    <3>5. Atomic!Update(t, k)
      BY <2>3, <3>1, <3>2, <3>3, <3>4 DEF Atomic!Update, Phases
    <3> QED
      BY <3>5 DEF Atomic!Next
  <2>4. CASE UNCHANGED <<Phases, lock_table>> /\ ~InsertRecord(w) /\ ~LinkVersion(w)
    <3>1. UNCHANGED <<Tuples, Contents>>
      BY <1>2, <2>4, HeapSteps, QuietContents, AppendContents
    <3> QED
      BY <2>4, <3>1 DEF Atomic!atomicVars, Phases
  <2> QED
    BY <2>1, <2>2, <2>3, <2>4
<1> QED
  BY <1>1, <1>2 DEF Next

\* HeapFile implements AtomicUpdates: what UpdateIter::next and HeapFile::update do
\* to a tuple in many steps of many threads, they do as if in one, from the last
\* row there is, under the tuple's lock.
THEOREM UpdatesHappenAtOnce == Spec => UpdatesAreAtomic
<1>1. Init => Atomic!Init
  <2> SUFFICES ASSUME Init PROVE Atomic!Init
    OBVIOUS
  <2> USE HeapFileAssumption, MaxTxIdAssumption DEF Init
  <2>1. \A t \in TxID : Phase(t) = "new"
    BY DEF TransactionsInit, Phase, TxID
  <2>2. Atomic!Locks!Init
    BY <2>1 DEF Atomic!Locks!Init, LockTableInit, RID
  <2>3. Allocated = 1..InitialTuples /\ Allocated \subseteq RID
    BY DEF Allocated, RID
  <2>4. \A r \in RID : heap[r].first = r /\ heap[r].value = {}
    BY DEF NewVersion
  <2>5. Tuples = 1..InitialTuples
    BY <2>3, <2>4 DEF Tuples
  <2>6. \A f \in RID : UNION {heap[r].value : r \in OpenEnds(f)} = {}
    BY <2>3, <2>4 DEF OpenEnds
  <2>7. Contents = [f \in RID |-> {}]
    BY <2>6 DEF Contents
  <2> QED
    BY <2>2, <2>5, <2>7 DEF Atomic!Init
<1>2. IInv /\ AInv /\ [Next]_vars => [Atomic!Next]_(Atomic!atomicVars)
  BY StepIsAtomic
<1> QED
  BY <1>1, <1>2, AtomicInvariant, PTL DEF Spec, UpdatesAreAtomic, Atomic!Spec

\* The tuple locks of a table follow strict two-phase locking: a transaction takes
\* them while it runs and gives all of them up together, once it is COMMITTED
\* (transaction_manager.cc:114).  A consequence of the abstract specification.
THEOREM TupleLocksAreTwoPhase == Spec => Atomic!Locks!Safety
<1>1. Atomic!Init => Atomic!Locks!Init
  BY DEF Atomic!Init
<1>2. IInv /\ [Atomic!Next]_(Atomic!atomicVars) => [Atomic!Locks!Next]_(Atomic!Locks!twoPhaseVars)
  <2> SUFFICES ASSUME IInv, [Atomic!Next]_(Atomic!atomicVars)
               PROVE  [Atomic!Locks!Next]_(Atomic!Locks!twoPhaseVars)
    OBVIOUS
  <2>1. Tuples \subseteq RID
    BY AllocatedIsRID DEF IInv, Tuples
  <2>2. CASE Atomic!Protocol
    BY <2>1, <2>2 DEF Atomic!Protocol, Atomic!Locks!Next
  <2>3. CASE \E t \in TxID, k \in RID : Atomic!Insert(t, k) \/ Atomic!Update(t, k)
    BY <2>3 DEF Atomic!Insert, Atomic!Update, Atomic!Locks!twoPhaseVars
  <2>4. CASE UNCHANGED Atomic!atomicVars
    BY <2>4 DEF Atomic!atomicVars, Atomic!Locks!twoPhaseVars
  <2> QED
    BY <2>2, <2>3, <2>4 DEF Atomic!Next
<1> QED
  BY <1>1, <1>2, HeapInvariant, UpdatesHappenAtOnce, PTL
  DEF UpdatesAreAtomic, Atomic!Spec, Atomic!Locks!Safety

--------------------------------------------------------------------------------
(****************************************************************************)
(* Serializability.                                                         *)
(****************************************************************************)

\* Only a version that is appended makes a new pair, and its writer is the later
\* one of it.
LEMMA NewPairs ==
    ASSUME IInv, NEW w \in Workers, Step(w), NEW t, NEW u, WroteBefore(t, u)'
    PROVE  WroteBefore(t, u) \/ (AppendVersion(w) /\ u = tx[w])
<1> USE DEF IInv, Chains
<1>1. PICK r \in Allocated', q \in Allocated' :
          /\ heap'[r].first = heap'[q].first /\ r < q
          /\ heap'[r].t_min = t /\ heap'[q].t_min = u
  BY DEF WroteBefore
<1>2. CASE r \in Allocated /\ q \in Allocated
  BY <1>1, <1>2, HeapGrows DEF WroteBefore
<1>3. CASE q \notin Allocated
  <2>1. q = next_rid /\ (InsertRecord(w) \/ AppendVersion(w))
    BY <1>3, HeapGrows
  <2>2. CASE AppendVersion(w)
    BY <1>1, <2>1, <2>2, RecordIsNew
  <2>3. CASE InsertRecord(w)
    <3>1. r \in Allocated /\ heap'[q].first = q
      <4>1. r # q
        BY <1>1, <2>1 DEF TypeOK
      <4> QED
        BY <1>1, <2>1, <2>3, <4>1, RecordIsNew
    <3>2. heap'[r].first \in Allocated
      BY <3>1, HeapGrows DEF ChainOrder
    <3> QED
      BY <1>1, <1>3, <3>1, <3>2
  <2> QED
    BY <2>1, <2>2, <2>3
<1>4. CASE q \in Allocated /\ r \notin Allocated
  <2>1. r = next_rid
    BY <1>4, HeapGrows
  <2>2. q < r
    BY <1>4, <2>1 DEF Allocated, TypeOK
  <2>3. q \in Nat /\ r \in Nat
    BY <1>4, <2>1, AllocatedIsRID DEF TypeOK
  <2> QED
    BY <1>1, <2>2, <2>3
<1> QED
  BY <1>2, <1>3, <1>4

\* Nobody follows an unfinished transaction.
LEMMA UnfinishedIsLast ==
    ASSUME IInv, NEW t, IsActive(t), NEW u, u # t
    PROVE  ~WroteBefore(t, u)
BY DEF IInv, Chains, ChainOrder, WroteBefore

LEMMA NextSerializable ==
    ASSUME IInv, UpdatesAreSerializable, NEW w \in Workers, Step(w)
    PROVE  UpdatesAreSerializable'
<1> SUFFICES ASSUME NEW T \in SUBSET TxID, T # {}
             PROVE  \E t \in T : \A u \in T : u # t => ~WroteBefore(t, u)'
  BY DEF UpdatesAreSerializable
<1>1. CASE AppendVersion(w) /\ tx[w] \in T
  <2>1. PICK me \in T : me = tx[w] /\ IsActive(me)
    BY <1>1, Transactions DEF AppendVersion, IInv, Chains
  <2>2. \A u \in T : u # me => ~WroteBefore(me, u)'
    BY <2>1, NewPairs, UnfinishedIsLast
  <2> QED
    BY <2>2
<1>2. CASE ~(AppendVersion(w) /\ tx[w] \in T)
  <2>1. PICK t \in T : \A u \in T : u # t => ~WroteBefore(t, u)
    BY DEF UpdatesAreSerializable
  <2>2. \A u \in T : u # t => ~WroteBefore(t, u)'
    BY <1>2, <2>1, NewPairs
  <2> QED
    BY <2>2
<1> QED
  BY <1>1, <1>2

\* The updates of all transactions on all tuples of a table can be put in a serial
\* order, whatever locks are waited for, timed out or released in between.
THEOREM SerialOrderExists == Spec => []UpdatesAreSerializable
<1>1. Init => UpdatesAreSerializable
  <2> SUFFICES ASSUME Init PROVE UpdatesAreSerializable
    OBVIOUS
  <2>1. \A r \in Allocated : heap[r].t_min = NoTx
    BY InitTypeOK, AllocatedIsRID DEF Init, NewVersion
  <2>2. NoTx \notin TxID
    BY MaxTxIdAssumption DEF NoTx, TxID
  <2> QED
    BY <2>1, <2>2 DEF UpdatesAreSerializable, WroteBefore
<1>2. IInv /\ UpdatesAreSerializable /\ [Next]_vars => UpdatesAreSerializable'
  <2>1. ASSUME UpdatesAreSerializable, UNCHANGED vars PROVE UpdatesAreSerializable'
    <3>1. \A t, u : WroteBefore(t, u)' <=> WroteBefore(t, u)
      BY <2>1 DEF vars, heapVars, WroteBefore, Allocated
    <3> QED
      BY <2>1, <3>1 DEF UpdatesAreSerializable
  <2> QED
    BY <2>1, NextSerializable DEF Next
<1> QED
  BY <1>1, <1>2, HeapInvariant, PTL DEF Spec

================================================================================
