---------------------------- MODULE MCHeapLoops ----------------------------
(* HeapLoops on every table of a small heap. *)
EXTENDS HeapLoops
=============================================================================
