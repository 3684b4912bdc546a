------------------------------ MODULE TaskList ------------------------------
(***************************************************************************)
(* The task list of arch/x86/task/task.c: the doubly linked list of the    *)
(* live tasks, the current task, and the page directory the CPU has        *)
(* loaded. Tasks are made and released by the kernel, under its own page   *)
(* directory.                                                              *)
(*                                                                         *)
(* The links are the fields of struct task at an address; they keep their  *)
(* values when the task is freed. order is the list that they stand for.   *)
(***************************************************************************)
EXTENDS Integers, Sequences

CONSTANTS
  Tasks,       \* the addresses of struct task
  None,        \* NULL
  Kernel       \* the kernel's page directory

ASSUME TaskAssumption ==
  None \notin Tasks /\ Kernel \notin Tasks

VARIABLES
  next, prev,        \* the fields of each task
  head, tail,        \* head_task, tail_task
  current,           \* current_task
  directory,         \* current_directory: the kernel's, or the task whose it is
  order              \* the live tasks, oldest first
list == <<next, prev, head, tail, current, order>>
taskVars == <<list, directory>>

Live == {order[i] : i \in 1 .. Len(order)}

TaskInit ==
  /\ next = [t \in Tasks |-> None] /\ prev = [t \in Tasks |-> None]
  /\ head = None /\ tail = None /\ current = None
  /\ directory = Kernel
  /\ order = <<>>

----------------------------------------------------------------------------
\* Mutant: the old tail is not linked to the new task.
link_back_only(t) ==
  /\ IF head = None
     THEN head' = t /\ current' = t /\ prev' = [prev EXCEPT ![t] = None]
     ELSE prev' = [prev EXCEPT ![t] = tail] /\ UNCHANGED <<head, current>>
  /\ next' = [next EXCEPT ![t] = None]
  /\ tail' = t
  /\ order' = Append(order, t)

\* make_new_task, once task_init has cleared the task: it goes to the end of
\* the list, and the first one becomes the current task.
link(t) ==
  /\ IF head = None
     THEN /\ head' = t /\ current' = t
          /\ next' = [next EXCEPT ![t] = None]
          /\ prev' = [prev EXCEPT ![t] = None]
     ELSE /\ next' = [next EXCEPT ![tail] = t, ![t] = None]
          /\ prev' = [prev EXCEPT ![t] = tail]
          /\ UNCHANGED <<head, current>>
  /\ tail' = t
  /\ order' = Append(order, t)

\* remove_task_from_linked_list: the task before it is linked to the one after
\* it; the one after keeps its prev. If it is current_task, get_next_task
\* chooses another.
remove_task_from_linked_list(t) ==
  /\ next' = IF prev[t] # None THEN [next EXCEPT ![prev[t]] = next[t]] ELSE next
  /\ head' = IF t = head THEN next[t] ELSE head
  /\ tail' = IF t = tail THEN prev[t] ELSE tail
  /\ current' = IF t # current THEN current
                ELSE IF next'[t] = None THEN head' ELSE next'[t]
  /\ UNCHANGED prev

make_new_task(t) ==
  /\ directory = Kernel
  /\ t \in Tasks \ Live
  /\ link(t)
  /\ UNCHANGED directory

\* release_task of a task of the list: its directory, its links, its memory.
release_task(t) ==
  /\ directory = Kernel
  /\ \E i \in 1 .. Len(order) :
       /\ t = order[i]
       /\ order' = [j \in 1 .. Len(order) - 1 |->
                     IF j < i THEN order[j] ELSE order[j + 1]]
  /\ remove_task_from_linked_list(t)
  /\ UNCHANGED directory

\* run_first_task: task_switch to the head, and into user land.
run_first_task ==
  /\ current # None
  /\ current' = head
  /\ directory' = head
  /\ UNCHANGED <<next, prev, head, tail, order>>

\* load_user_task_page, at the end of a system call: task_switch(current_task).
load_user_task_page ==
  /\ current # None
  /\ directory' = current
  /\ UNCHANGED list

\* load_kernel_page, at its beginning.
load_kernel_page ==
  /\ directory' = Kernel
  /\ UNCHANGED list

----------------------------------------------------------------------------
\* The variables stay in their types and no task is in the list twice.
TaskTypeOK ==
  /\ next \in [Tasks -> Tasks \cup {None}] /\ prev \in [Tasks -> Tasks \cup {None}]
  /\ {head, tail, current} \subseteq Tasks \cup {None}
  /\ directory \in {Kernel} \cup Tasks
  /\ order \in Seq(Tasks)
  /\ \A i, j \in 1 .. Len(order) : order[i] = order[j] => i = j

\* The next fields lead from head_task through every live task, in the order
\* they were made, and end at tail_task: get_next_task reaches all of them and
\* never a freed one ("Next task in the task linked list.").
NextLinks ==
  /\ head = IF order = <<>> THEN None ELSE order[1]
  /\ tail = IF order = <<>> THEN None ELSE order[Len(order)]
  /\ \A i \in 1 .. Len(order) :
       next[order[i]] = IF i = Len(order) THEN None ELSE order[i + 1]

\* The prev fields lead back through the same tasks ("Previous task in the task
\* linked list.").
PrevLinks ==
  \A i \in 1 .. Len(order) : prev[order[i]] = IF i = 1 THEN None ELSE order[i - 1]

\* There is a current task whenever there is a task at all, and it is live; so
\* is the task whose page directory the CPU has loaded.
CurrentIsLive ==
  /\ IF order = <<>> THEN current = None ELSE current \in Live
  /\ directory # Kernel => directory = current

\* The inductive invariant.
TaskInv == TaskTypeOK /\ NextLinks /\ PrevLinks /\ CurrentIsLive
=============================================================================
