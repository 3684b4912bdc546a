----------------------------- MODULE MCProcess -----------------------------
(* Process on a small instance. *)
EXTENDS Process

\* Room for two processes, the filesystem's block and what failed loads lose; the
\* slots, the memory and the descriptors each run out first in some behaviour.
MCTasks == 0 .. MaxAddr
=============================================================================
