----------------------------- MODULE MCUserCopy -----------------------------
(* UserCopy on a small instance. *)
EXTENDS UserCopy

\* Six pages of four bytes in two tables: the kernel has pages 0 and 2, the
\* program is seen at page 1, the heap is pages 3 and 4. The user points at the
\* program's text, at its last byte, at the kernel, and at the heap.
MCKernelPages == {0, 2}
MCHeapPages   == {3, 4}
MCUserPtrs    == {0, 4, 7, 11, 13}
MCCopySizes   == {-1, 0, 1, 3, 4}
MCByte        == {0, 1}
=============================================================================
