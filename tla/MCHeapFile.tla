------------------------------ MODULE MCHeapFile -------------------------------
(****************************************************************************)
(* Instances of HeapFile for TLC.                                           *)
(****************************************************************************)
EXTENDS HeapFile, TLC

WorkerSymmetry == Permutations(Workers)
================================================================================
