---------------------------- MODULE MCBufferManager ----------------------------
(****************************************************************************)
(* Instances of BufferManager for TLC.                                      *)
(****************************************************************************)
EXTENDS BufferManager, TLC

ThreadSymmetry == Permutations(Threads)
================================================================================
