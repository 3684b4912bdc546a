------------------------------- MODULE MCHeap -------------------------------
(* Heap on a small instance. *)
EXTENDS Heap

\* A heap of 5 blocks of 4 bytes and a word of 32: sizes of zero, within a
\* block, exactly a block, just over one, several blocks, the whole heap, more
\* than the heap, and the two last sizes of the word, which wrap to 0.
MCSizes == {0, 1, 4, 5, 11, 20, 21, 30, 31}
=============================================================================
