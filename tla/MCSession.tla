------------------------------- MODULE MCSession -------------------------------
(****************************************************************************)
(* Instances of Session for TLC.                                            *)
(****************************************************************************)
EXTENDS Session, TLC

\* Sessions and table names are interchangeable, in the runs without liveness.
SessionAndNameSymmetry == Permutations(Sessions) \cup Permutations(TableName)
================================================================================
