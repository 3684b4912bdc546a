------------------------------ MODULE Process ------------------------------
(***************************************************************************)
(* Loading processes: load_process of arch/x86/task/process.c, call by     *)
(* call, with the process table, the task list it builds, the heap and the *)
(* file descriptors it uses, and every point at which it can fail.         *)
(*                                                                         *)
(* The heap is the set of the objects allocated, one address to an object: *)
(* a kzalloc returns the first free address, or NULL as soon as there is   *)
(* an object besides the filesystem's, whose size is not known: the free   *)
(* blocks may be too few or too scattered for the size asked for. The      *)
(* pieces of a page directory are all of one block, so that the last of    *)
(* them is NULL if any is, and the directory is one object here. So are    *)
(* the parts of a path, and the descriptor of a file with its private data *)
(* and its item.                                                           *)
(***************************************************************************)
EXTENDS TaskList, FiniteSets

CONSTANTS
  MAX_PROCESSES,         \* 20
  MAX_FILE_DESCRIPTORS,  \* 512
  MaxAddr,               \* bound on the objects in the heap
  NullFrees              \* does kfree(NULL) release the chain of block 0?

ASSUME ProcessAssumption ==
  /\ MAX_PROCESSES \in Nat \ {0} /\ MAX_FILE_DESCRIPTORS \in Nat
  /\ MaxAddr \in Nat /\ Tasks = 0 .. MaxAddr
  /\ NullFrees \in BOOLEAN

Addrs == 0 .. MaxAddr

\* The first block: the filesystem's private data, the first kzalloc at boot.
Block0 == 0

Slots == 0 .. MAX_PROCESSES - 1

\* The program files: not there, below another item of the root directory, a
\* directory, of size 0, or with a text.
Files == {"missing", "nested", "directory", "empty", "program"}

VARIABLES
  processes,  \* the table: None, or the fields of the process
  heap,       \* the addresses allocated
  fds,        \* the files behind the descriptors that are open
  pc,         \* the next call of load_process, "idle" when none is running
  slot, file, \* its arguments
  p,          \* tmp_process: its address and fields
  res,        \* its result
  lost,       \* the objects that nothing points to any more
  before      \* history: those that were lost before this load
loadVars == <<processes, heap, fds, pc, slot, file, p, res, lost, before>>
vars == <<loadVars, taskVars>>

NoProcess == [at |-> None, id |-> 0, data |-> None, stack |-> None, task |-> None, dir |-> None]
Objects(q) == {q.at, q.data, q.stack, q.task, q.dir} \ {None}

Init ==
  /\ TaskInit
  /\ processes = [i \in Slots |-> NoProcess]
  /\ heap = {Block0} /\ fds = {}
  /\ pc = "idle" /\ slot = 0 /\ file = "missing" /\ p = NoProcess /\ res = 0
  /\ lost = {} /\ before = {}

----------------------------------------------------------------------------
\* The first address that is free in h.
First(h) == {a \in Addrs \ h : \A b \in Addrs \ h : a <= b}

\* What kzalloc returns: the first free address, or NULL. A fresh heap has room.
Given == First(heap) \cup (IF heap = {Block0} THEN {} ELSE {None})

\* What kfree(a) releases. For NULL, mark_blocks_free reads an entry before the
\* table and either stops there or walks to block 0.
Freed(a) == IF a # None THEN {a} ELSE IF NullFrees THEN {Block0} ELSE {}

\* Mutant: the process is not freed.
fail_keeps_process(error, new, left) ==
  /\ heap' = heap \cup new
  /\ lost' = lost \cup left
  /\ p' = NoProcess /\ res' = error /\ pc' = "idle"

\* out: of process_load_for_slot after an error, with no task to release: the
\* process is freed and nothing else is, neither what has just been allocated
\* nor what is left without an owner.
fail(error, new, left) ==
  /\ heap' = (heap \cup new) \ Freed(p.at)
  /\ lost' = lost \cup left
  /\ p' = NoProcess /\ res' = error /\ pc' = "idle"

EIO    == -5
ENOMEM == -12
EINVAL == -22

\* Mutant: any slot is as good as a free one.
IsFreeSlot_any(i) == i \in Slots

\* process_get_free_slot.
IsFreeSlot(i) ==
  /\ i \in Slots /\ processes[i] = NoProcess
  /\ \A j \in Slots : j < i => processes[j] # NoProcess

\* load_process: no slot is left.
load_refused ==
  /\ pc = "idle"
  /\ ~ \E i \in Slots : IsFreeSlot(i)
  /\ res' = ENOMEM /\ before' = lost
  /\ UNCHANGED <<taskVars, processes, heap, fds, pc, slot, file, p, lost>>

\* process_load_for_slot allocates the process; a NULL goes to kfree at out.
load_process(f) ==
  /\ pc = "idle" /\ directory = Kernel
  /\ \E i \in Slots : IsFreeSlot(i) /\ slot' = i
  /\ file' = f
  /\ \E a \in Given :
       IF a = None THEN fail(ENOMEM, {}, {})
       ELSE /\ heap' = heap \cup {a}
            /\ p' = [NoProcess EXCEPT !.at = a]
            /\ pc' = "open"
            /\ UNCHANGED <<res, lost>>
  /\ before' = lost
  /\ UNCHANGED <<taskVars, processes, fds>>

\* process_load_binary: fopen parses the path and never frees its parts; when
\* there is no memory for the first, it returns no descriptor.
path_parse ==
  /\ pc = "open"
  /\ \E a \in Given :
       IF a = None THEN fail(EIO, {}, {})
       ELSE /\ heap' = heap \cup {a} /\ lost' = lost \cup {a}
            /\ pc' = "file"
            /\ UNCHANGED <<p, res>>
  /\ UNCHANGED <<taskVars, processes, fds, slot, file, before>>

\* ... fat16_open finds no file, or has no memory for it or for a later part of
\* the path. Of a nested file it forgets the item of the first part.
fopen_fails ==
  /\ pc = "file"
  /\ \/ fail(EIO, {}, {})
     \/ \E a \in First(heap) : file = "nested" /\ fail(EIO, {a}, {a})
  /\ UNCHANGED <<taskVars, processes, fds, slot, file, before>>

IsThere == file \notin {"missing", "nested"}

\* ... the file is there, but the table is full, or there is no memory for the
\* descriptor, which fstat does not find then: what fat16_open made is lost.
fopen_loses ==
  /\ pc = "file" /\ IsThere
  /\ \E a \in First(heap) :
       fail(IF Cardinality(fds) = MAX_FILE_DESCRIPTORS THEN EIO ELSE EINVAL, {a}, {a})
  /\ UNCHANGED <<taskVars, processes, fds, slot, file, before>>

\* ... there is a descriptor, which is never closed. fstat fails on a directory
\* and on the last descriptor.
open_binary ==
  /\ pc = "file" /\ IsThere /\ Cardinality(fds) < MAX_FILE_DESCRIPTORS
  /\ \E a \in First(heap) :
       /\ fds' = fds \cup {a}
       /\ IF file = "directory" \/ Cardinality(fds') = MAX_FILE_DESCRIPTORS
          THEN fail(EINVAL, {a}, {})
          ELSE heap' = heap \cup {a} /\ pc' = "data" /\ UNCHANGED <<p, res, lost>>
  /\ UNCHANGED <<taskVars, processes, slot, file, before>>

\* ... the memory for the program (none for an empty file) and fread, which may
\* fail: program_data_ptr is then forgotten.
load_binary ==
  /\ pc = "data"
  /\ \E a \in Given :
       IF a = None \/ file = "empty" THEN fail(ENOMEM, {}, {})
       ELSE \/ /\ heap' = heap \cup {a}
               /\ p' = [p EXCEPT !.data = a]
               /\ pc' = "stack"
               /\ UNCHANGED <<res, lost>>
            \/ fail(EIO, {a}, {a})
  /\ UNCHANGED <<taskVars, processes, fds, slot, file, before>>

\* The user stack. From here on a failure forgets what the process points to.
alloc_stack ==
  /\ pc = "stack"
  /\ \E a \in Given :
       IF a = None THEN fail(ENOMEM, {}, {p.data})
       ELSE /\ heap' = heap \cup {a}
            /\ p' = [p EXCEPT !.stack = a, !.id = slot]
            /\ pc' = "task"
            /\ UNCHANGED <<res, lost>>
  /\ UNCHANGED <<taskVars, processes, fds, slot, file, before>>

\* make_new_task: no memory for the task.
task_refused ==
  /\ pc = "task"
  /\ fail(ENOMEM, {}, {p.data, p.stack})
  /\ UNCHANGED <<taskVars, processes, fds, slot, file, before>>

\* Mutant: the task is not released.
directory_refused_leaks ==
  /\ pc = "task"
  /\ \E t \in First(heap) :
       /\ heap' = (heap \cup {t}) \ Freed(p.at)
       /\ lost' = lost \cup {p.data, p.stack, t}
  /\ p' = NoProcess /\ res' = EIO /\ pc' = "idle"
  /\ UNCHANGED <<taskVars, processes, fds, slot, file, before>>

\* ... no memory for some piece of the page directory: release_task releases
\* the task, which is not in the list, and all pieces, some of which are NULL.
directory_refused ==
  /\ pc = "task"
  /\ Addrs \ heap # {}
  /\ heap' = heap \ (Freed(p.at) \cup Freed(None))
  /\ lost' = lost \cup {p.data, p.stack}
  /\ p' = NoProcess /\ res' = EIO /\ pc' = "idle"
  /\ UNCHANGED <<taskVars, processes, fds, slot, file, before>>

\* Mutant: the task is linked before its directory is made.
make_task_without_directory ==
  /\ pc = "task"
  /\ \E t \in First(heap) :
       /\ heap' = heap \cup {t}
       /\ p' = [p EXCEPT !.task = t]
       /\ link(t)
  /\ pc' = "map"
  /\ UNCHANGED <<directory, processes, fds, slot, file, res, lost, before>>

\* ... the task is made and linked.
make_task ==
  /\ pc = "task"
  /\ \E t \in First(heap), d \in Addrs :
       /\ d \in First(heap \cup {t})
       /\ heap' = heap \cup {t, d}
       /\ p' = [p EXCEPT !.task = t, !.dir = d]
       /\ link(t)
  /\ pc' = "map"
  /\ UNCHANGED <<directory, processes, fds, slot, file, res, lost, before>>

\* process_map_virtual_memory, which cannot fail on memory from the heap, and
\* the process goes to its slot.
install ==
  /\ pc = "map"
  /\ processes' = [processes EXCEPT ![slot] = p]
  /\ p' = NoProcess /\ res' = 0 /\ pc' = "idle"
  /\ UNCHANGED <<taskVars, heap, fds, slot, file, lost, before>>

Next ==
  \/ load_refused \/ (\E f \in Files : load_process(f))
  \/ path_parse \/ fopen_fails \/ fopen_loses \/ open_binary \/ load_binary \/ alloc_stack
  \/ task_refused \/ directory_refused \/ make_task \/ install

Spec == Init /\ [][Next]_vars

----------------------------------------------------------------------------
\* The processes loaded, and the one being loaded.
Loaded == {i \in Slots : processes[i] # NoProcess}
All == {processes[i] : i \in Loaded} \cup {p}

\* The variables stay in their types.
TypeOK ==
  /\ TaskTypeOK
  /\ heap \subseteq Addrs /\ lost \subseteq Addrs /\ fds \subseteq Addrs
  /\ Cardinality(fds) <= MAX_FILE_DESCRIPTORS
  /\ pc \in {"idle", "open", "file", "data", "stack", "task", "map"}
  /\ \A q \in All : q.id \in Slots /\ Objects(q) \subseteq Addrs

\* Every object in the heap has exactly one owner: the filesystem, a descriptor,
\* one process, the process being loaded, or nobody any more. No process uses an
\* object that was freed, or one that is another's.
OneOwner ==
  /\ TypeOK
  /\ heap = {Block0} \cup lost \cup fds \cup UNION {Objects(q) : q \in All}
  /\ \A q, r \in All : q # r => Objects(q) \cap Objects(r) = {}
  /\ \A q \in All : Objects(q) \cap ({Block0} \cup lost \cup fds) = {}
  /\ Block0 \notin lost \cup fds /\ lost \cap fds = {}

\* The task list has the tasks of the loaded processes, in the order of their
\* slots, each with a page directory: a load that fails leaves no task behind.
TasksMatch ==
  /\ \A i \in Loaded :
       /\ processes[i].id = i /\ processes[i].dir # None
       /\ i < Len(order) /\ order[i + 1] = processes[i].task
  /\ Live = {q.task : q \in All} \ {None}

\* A process stays in its slot: no load replaces another process.
SlotsAreKept ==
  [][\A i \in Loaded : processes'[i] = processes[i]]_vars

\* A load loses the parts of its path and, when it succeeds, nothing else; when it
\* fails, at whichever call, at most two objects more: the program and its stack,
\* or what a call of fopen has made.
LossPerLoad ==
  pc = "idle" => Cardinality(lost \ before) <= IF res = 0 THEN 1 ELSE 3

\* The memory of the filesystem is never freed by a failed load ("Ensure that
\* any other time your program calls `malloc` it does not return a memory
\* address that is unavailable").
FilesystemMemoryKept == Block0 \in heap
=============================================================================
