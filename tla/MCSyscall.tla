----------------------------- MODULE MCSyscall -----------------------------
(* Interrupts and Syscall on small instances. *)
EXTENDS Interrupts

\* Two tasks: the one that runs, and one behind it that is made and released.
\* The numbers are one without a handler, below the table, one with, and the one
\* after the last. A program's registers have one value of its own, besides what
\* the kernel leaves there.
CONSTANTS t1, t2
MCTasks == {t1, t2}
MCNumbers == {-1, 0, 2}
MCValues == {"start"}

\* The timer, and the clock on the slave; a page fault, which as int n has no error
\* code, and a division.
MCMasters == {0}
MCSlaves == {8}
MCExceptions == {0, 14}
=============================================================================
