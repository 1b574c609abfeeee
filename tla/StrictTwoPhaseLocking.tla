------------------------- MODULE StrictTwoPhaseLocking -------------------------
(****************************************************************************)
(* What the comments of lock_manager.cc:48 and transaction_manager.cc:114   *)
(* promise, without sessions, threads or maps: a transaction takes its      *)
(* exclusive locks one by one while it runs, and gives all of them up       *)
(* together, only after it has finished.                                    *)
(****************************************************************************)
CONSTANTS Tx, Key, NoTx   \* NoTx is not a member of Tx

VARIABLES
    phase,      \* "new", "running" or "finished"
    owner       \* the transaction that holds a key, or NoTx

twoPhaseVars == <<phase, owner>>

Init ==
    /\ phase = [t \in Tx |-> "new"]
    /\ owner = [k \in Key |-> NoTx]

Begin(t) ==
    /\ phase[t] = "new"
    /\ phase' = [phase EXCEPT ![t] = "running"]
    /\ UNCHANGED owner

Lock(t, k) ==
    /\ phase[t] = "running"
    /\ owner[k] = NoTx
    /\ owner' = [owner EXCEPT ![k] = t]
    /\ UNCHANGED phase

Finish(t) ==
    /\ phase[t] = "running"
    /\ phase' = [phase EXCEPT ![t] = "finished"]
    /\ UNCHANGED owner

Unlock(t) ==
    /\ phase[t] = "finished"
    /\ owner' = [k \in Key |-> IF owner[k] = t THEN NoTx ELSE owner[k]]
    /\ UNCHANGED phase

Next ==
    \E t \in Tx :
        Begin(t) \/ Finish(t) \/ Unlock(t) \/ \E k \in Key : Lock(t, k)

Safety == Init /\ [][Next]_twoPhaseVars

\* A finished transaction does not keep its locks.
Spec == Safety /\ \A t \in Tx : WF_twoPhaseVars(Unlock(t))
================================================================================
