------------------------------ MODULE UserCopy ------------------------------
(***************************************************************************)
(* copy_from_user of arch/x86/task/task.c: a kernel buffer is made visible *)
(* in the task's page directory, the CPU is switched to that directory to  *)
(* copy the user's string into it, and switched back; the directory is     *)
(* then put back as it was. The task's directory is the one task_init      *)
(* builds, with the program's page in it; memory is bytes.                 *)
(***************************************************************************)
EXTENDS PageTable

CONSTANTS
  KernelPages, \* the pages of the kernel's code, data and stacks
  HeapPages,   \* the pages of the kernel heap
  Byte,        \* the values of a byte, 0 being '\0'
  Cap,         \* strncpy copies no more than this: 255
  UserPtrs,    \* the pointers the user passes
  CopySizes    \* the sizes the callers ask for; negative ones too

ASSUME CopyAssumption ==
  /\ KernelPages \subseteq Frames /\ HeapPages \subseteq Frames \ {0}
  /\ KernelPages \cap HeapPages = {}
  /\ Program \div PageSize \notin KernelPages \cup HeapPages
  /\ 0 \in Byte /\ Byte \subseteq 0 .. 255
  /\ Cap \in Nat \ {0}
  /\ UserPtrs \subseteq 0 .. Word - 1 /\ CopySizes \subseteq Int

EIO    == -5
ENOMEM == -12

VARIABLES
  pc,       \* the next step of copy_from_user, "user" when none is running
  loaded,   \* the directory in CR3: "kernel" or "task"
  mem,      \* physical memory
  held,     \* the heap pages allocated
  user_ptr, size, tmp, old_entry, res,
  to,       \* the caller's output: the bytes written there
  seen,     \* what the user sees at user_ptr when the call is made
  prog      \* the heap page with the program
vars == <<pc, page, loaded, mem, held, user_ptr, size, tmp, old_entry, res, to, seen, prog>>
args == <<user_ptr, size, seen, prog>>

\* The directory of the task: task_init and process_map_binary.
TaskDirectory ==
  set_entry(identity({"PRESENT", "ALL"}), Program, [frame |-> prog, flags |-> UserPage])

Init ==
  /\ prog \in HeapPages
  /\ page = TaskDirectory
  /\ held = {prog}
  /\ \E text \in [0 .. PageSize - 1 -> Byte], other \in Byte :
       mem = [a \in 0 .. Word - 1 |-> IF a \div PageSize = prog THEN text[a % PageSize] ELSE other]
  /\ pc = "user" /\ loaded = "kernel"
  /\ user_ptr = 0 /\ size = 0 /\ tmp = 0 /\ res = 0
  /\ old_entry = get_entry(page, 0)
  /\ to = <<>> /\ seen = <<>>

----------------------------------------------------------------------------
\* The bytes strncpy writes, as the sequence of what it reads: up to n or Cap
\* of them, and none after a '\0'.
Strncpy(read, n) ==
  [k \in {k \in 1 .. n : k <= Cap /\ \A j \in 1 .. k - 1 : read[j - 1] # 0} |-> read[k - 1]]

Addr(k) == (user_ptr + k) % Word

\* copy_from_user returns before it has changed anything.
copy_refused(u, s) ==
  /\ pc = "user"
  /\ \/ s >= PageSize /\ res' = EINVAL
     \/ s < PageSize /\ (s <= 0 \/ HeapPages \subseteq held) /\ res' = ENOMEM
  /\ to' = <<>>
  /\ UNCHANGED <<pc, page, loaded, mem, held, user_ptr, size, tmp, old_entry, seen, prog>>

\* The buffer is allocated and cleared.
copy_begin(u, s) ==
  /\ pc = "user"
  /\ s \in 1 .. PageSize - 1
  /\ \E h \in HeapPages \ held :
       /\ held' = held \cup {h}
       /\ tmp' = h * PageSize
       /\ mem' = [a \in 0 .. Word - 1 |-> IF a \in tmp' .. tmp' + s - 1 THEN 0 ELSE mem[a]]
  /\ user_ptr' = u /\ size' = s
  /\ seen' = [k \in 0 .. s - 1 |-> mem[Mmu(page, (u + k) % Word)]]
  /\ to' = <<>> /\ res' = 0
  /\ pc' = "map"
  /\ UNCHANGED <<page, loaded, old_entry, prog>>

\* Mutant: the buffer is mapped at the user's address.
map_tmp_at_user ==
  /\ pc = "map"
  /\ old_entry' = get_entry(page, tmp)
  /\ page' = set_entry(page, user_ptr - (user_ptr % PageSize),
                       [frame |-> tmp \div PageSize, flags |-> UserPage])
  /\ pc' = "switch"
  /\ UNCHANGED <<args, loaded, mem, held, tmp, res, to>>

\* The entry of the buffer in the task's directory is saved and replaced.
map_tmp ==
  /\ pc = "map"
  /\ old_entry' = get_entry(page, tmp)
  /\ page' = set_entry(page, tmp, [frame |-> tmp \div PageSize, flags |-> UserPage])
  /\ pc' = "switch"
  /\ UNCHANGED <<args, loaded, mem, held, tmp, res, to>>

switch_to_page ==
  /\ pc = "switch"
  /\ loaded' = "task"
  /\ pc' = "copy_in"
  /\ UNCHANGED <<args, page, mem, held, tmp, old_entry, res, to>>

\* Mutant: the user's pointer is read through the kernel's directory.
copy_in_untranslated ==
  /\ pc = "copy_in"
  /\ LET new == Strncpy([k \in 0 .. size - 1 |-> mem[Addr(k)]], size)
     IN  mem' = [a \in 0 .. Word - 1 |->
                   IF a - tmp + 1 \in DOMAIN new THEN new[a - tmp + 1] ELSE mem[a]]
  /\ pc' = "back"
  /\ UNCHANGED <<args, page, loaded, held, tmp, old_entry, res, to>>

\* Mutant: the arguments of strncpy are swapped.
copy_in_swapped ==
  /\ pc = "copy_in"
  /\ mem' = [mem EXCEPT ![Mmu(page, user_ptr)] = mem[tmp]]
  /\ pc' = "back"
  /\ UNCHANGED <<args, page, loaded, held, tmp, old_entry, res, to>>

\* The first strncpy, both pointers translated by the task's directory. Source
\* and destination may be the same memory: a byte already written is read as
\* written. A NULL source is refused, and nothing looks at that result.
copy_in ==
  /\ pc = "copy_in"
  /\ IF user_ptr = 0 THEN UNCHANGED mem
     ELSE \E read \in [0 .. size - 1 -> Byte] :
            LET d == Mmu(page, tmp)
                new == Strncpy(read, size)
            IN  /\ \A k \in 0 .. size - 1 :
                     LET a == Mmu(page, Addr(k))
                     IN  read[k] = IF a - d \in 0 .. k - 1 THEN read[a - d] ELSE mem[a]
                /\ mem' = [a \in 0 .. Word - 1 |->
                             IF a - d + 1 \in DOMAIN new THEN new[a - d + 1] ELSE mem[a]]
  /\ pc' = "back"
  /\ UNCHANGED <<args, page, loaded, held, tmp, old_entry, res, to>>

switch_to_kernel_page ==
  /\ pc = "back"
  /\ loaded' = "kernel"
  /\ pc' = "restore"
  /\ UNCHANGED <<args, page, mem, held, tmp, old_entry, res, to>>

\* Mutant: the old entry is not put back.
restore_forgotten ==
  /\ pc = "restore"
  /\ res' = 0
  /\ pc' = "copy_out"
  /\ UNCHANGED <<args, page, loaded, mem, held, tmp, old_entry, to>>

\* The old entry is put back; an unaligned buffer would end the call here.
restore_entry ==
  /\ pc = "restore"
  /\ page' = set_entry(page, tmp, old_entry)
  /\ res' = IF paging_check_address_is_aligned(tmp) THEN 0 ELSE EIO
  /\ pc' = IF paging_check_address_is_aligned(tmp) THEN "copy_out" ELSE "free"
  /\ UNCHANGED <<args, loaded, mem, held, tmp, old_entry, to>>

\* The second strncpy, in the kernel's directory, which maps memory to itself.
copy_out ==
  /\ pc = "copy_out"
  /\ to' = Strncpy([k \in 0 .. size - 1 |-> mem[tmp + k]], size)
  /\ pc' = "free"
  /\ UNCHANGED <<args, page, loaded, mem, held, tmp, old_entry, res>>

free_tmp ==
  /\ pc = "free"
  /\ held' = held \ {tmp \div PageSize}
  /\ pc' = "user"
  /\ UNCHANGED <<args, page, loaded, mem, tmp, old_entry, res, to>>

Next ==
  \/ \E u \in UserPtrs, s \in CopySizes : copy_refused(u, s) \/ copy_begin(u, s)
  \/ map_tmp \/ switch_to_page \/ copy_in \/ switch_to_kernel_page
  \/ restore_entry \/ copy_out \/ free_tmp

Spec == Init /\ [][Next]_vars

----------------------------------------------------------------------------
\* The variables stay in their types; a buffer is a heap page.
TypeOK ==
  /\ pc \in {"user", "map", "switch", "copy_in", "back", "restore", "copy_out", "free"}
  /\ page \in Directory
  /\ loaded \in {"kernel", "task"}
  /\ mem \in [0 .. Word - 1 -> Byte]
  /\ held \subseteq HeapPages
  /\ pc # "user" => tmp \div PageSize \in held /\ tmp % PageSize = 0
  /\ res \in {0, EINVAL, ENOMEM, EIO}
  /\ prog \in HeapPages

\* A call leaves nothing behind, whatever it returned: the task's directory
\* has its old entries, the kernel's directory is loaded and the buffer is
\* freed ("We need to restore the old task page back to the old entry").
LeavesNoTrace ==
  /\ TypeOK
  /\ pc = "user" => page = TaskDirectory /\ loaded = "kernel" /\ held = {prog}

\* Whichever directory is loaded, the kernel's own pages are where it was
\* linked: the switch does not pull them away from under the running code.
KernelStaysMapped ==
  loaded = "task" => \A p \in KernelPages : Mmu(page, p * PageSize) = p * PageSize

\* What a successful call gives its caller is the string the user sees at
\* user_ptr, cut at Cap, and the empty string for NULL, unless the user points
\* into the buffer itself.
ExactCopy ==
  pc = "free" /\ (\A k \in 0 .. size - 1 : Addr(k) \div PageSize # tmp \div PageSize)
    => to = Strncpy(IF user_ptr = 0 THEN [k \in 0 .. size - 1 |-> 0] ELSE seen, size)

\* The program's text is never written by a copy.
ProgramUntouched ==
  [][\A a \in 0 .. Word - 1 : a \div PageSize = prog => mem'[a] = mem[a]]_vars
=============================================================================
