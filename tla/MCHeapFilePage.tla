---------------------------- MODULE MCHeapFilePage -----------------------------
(****************************************************************************)
(* Instance of HeapFilePage for TLC.                                        *)
(****************************************************************************)
EXTENDS HeapFilePage

\* A negative number, zero and one that is an offset inside the page.
UninitValues == {-1, 0, 4}
================================================================================
