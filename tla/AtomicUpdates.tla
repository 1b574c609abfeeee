----------------------------- MODULE AtomicUpdates -----------------------------
(****************************************************************************)
(* What UPDATE promises to the transactions of a table, without versions,   *)
(* chains or threads: UpdateIter::next reads the row, computes and writes   *)
(* the new one as if in one step, by a transaction that holds the tuple's   *)
(* lock, and never on top of the write of another unfinished one.           *)
(*                                                                          *)
(* The value of a tuple is the set of transactions whose writes it          *)
(* contains, so that an update computed from an old row shows.  Locks       *)
(* follow StrictTwoPhaseLocking.                                            *)
(****************************************************************************)
CONSTANTS
    Tx, Key, NoTx,  \* as in StrictTwoPhaseLocking
    InitialKeys     \* the tuples at the start

VARIABLES
    phase, owner,   \* as in StrictTwoPhaseLocking
    tuples,         \* the tuples that exist
    value           \* tuple |-> the transactions whose writes it contains

atomicVars == <<phase, owner, tuples, value>>

Locks == INSTANCE StrictTwoPhaseLocking

Init ==
    /\ Locks!Init
    /\ tuples = InitialKeys
    /\ value = [k \in Key |-> {}]

\* A step of the lock protocol; only tuples that exist are locked.
Protocol ==
    /\ \E t \in Tx :
          \/ Locks!Begin(t) \/ Locks!Finish(t) \/ Locks!Unlock(t)
          \/ \E k \in tuples : Locks!Lock(t, k)
    /\ UNCHANGED <<tuples, value>>

\* INSERT: the new tuple is its transaction's own, without a lock.
Insert(t, k) ==
    /\ phase[t] = "running"
    /\ k \notin tuples
    /\ tuples' = tuples \cup {k}
    /\ value' = [value EXCEPT ![k] = {t}]
    /\ UNCHANGED <<phase, owner>>

\* UPDATE: the new row contains all that the last one contains.
Update(t, k) ==
    /\ phase[t] = "running"
    /\ k \in tuples
    /\ owner[k] = t
    /\ \A u \in value[k] \ {t} : phase[u] = "finished"
    /\ value' = [value EXCEPT ![k] = @ \cup {t}]
    /\ UNCHANGED <<phase, owner, tuples>>

Next ==
    \/ Protocol
    \/ \E t \in Tx, k \in Key : Insert(t, k) \/ Update(t, k)

Spec == Init /\ [][Next]_atomicVars
================================================================================
