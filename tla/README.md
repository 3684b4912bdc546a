# Larva OS in TLA+

TLA+ models of the Larva OS kernel (32-bit x86; C, C++ and assembly), the TLC
configurations that check them on small instances, and TLAPS proofs of the most
important results for every value of the constants. Paths below are relative to
`src/src/kernel/` of the repository; `x86/` stands for `arch/x86/`.

## 1. The system

`kernel_main` calls `arch::initialize` (`core/architecture.cc`), a straight line:
interrupts off, GDT, kernel heap, filesystem, IDT, TSS, kernel page directory,
system calls, and then one process, `/loop.bin`, is loaded. It is not run:
`kernel_main` loops with interrupts off. `run_first_task` and `interrupt::enable`,
with everything behind them (system calls, interrupts, the copy from a program's
memory), are operations that the kernel offers and no code calls at this commit;
the models call them as a kernel that uses them would, and take their code as it
is. In particular a program that `task_return` enters runs in ring 0, on the
kernel stack and with the kernel's interrupt flag, because the instruction that
would leave the kernel is misspelt (section 6). Handlers run with interrupts off
(interrupt gates), on one CPU, so a handler is never preempted: devices interleave
with the instructions of the program, or of the boot if it enables interrupts, and
with nothing else. What is hard is state that outlives a call (block table,
descriptor table, process table, task list, page directories), the address space
that is switched under the running code, failure half-way through an operation,
an interrupt or a drive that is not answered as the hardware wants it, and
arithmetic at the edges of tables, pages, sectors and words.

| Component | State it keeps | Operations | Uses / is used by | What makes it correct |
|---|---|---|---|---|
| Kernel heap (`x86/memory/heap.c`, `kheap.c`) | block table, one byte per 4096-byte block | `kmalloc`, `kzalloc`, `kfree` | used by everything | runs are disjoint, long enough, wholly given back, never touched by others |
| Virtual filesystem (`x86/fs/file.c`, `core/file.cc`) | table of 512 descriptors; members of `lava::file` | `fopen`, `fread`, `fseek`, `fstat`, `fclose`, the class on top | calls FAT16 through function pointers; used by the process loader | a descriptor has one holder and leads to that holder's file; nothing dangles |
| Path parser (`x86/fs/path_parser.c`) | the rest of the path | `path_parse` | heap; used by `fopen` | the parts are the components of the path |
| FAT16 (`x86/fs/fat16.c`) | root directory, per-open private data, three streams | resolve, open, read, seek, stat, close | disk streams, heap | mounted as a whole or not; what opens is what the path names; a read returns the bytes of the file; memory comes back |
| Disk and streams (`x86/disk/`) | position of a stream, the command the drive has | seek, read, poll | drive ports | reads cut at sectors give the bytes in order; a read ends |
| Paging (`x86/memory/paging.c`) | directories and tables, the loaded directory | build, map a page / a range, read and write an entry, switch | heap; used by tasks, process loader | a call changes what it was asked to change, as the MMU reads it |
| Copy from user (`x86/task/task.c`) | a temporary entry in the task's directory | `copy_from_user` | paging, heap, `strncpy` | exact copy, kernel stays mapped, no trace left |
| Tasks (`x86/task/task.c`, `switch.asm`) | linked list, current task, saved registers | make, release, run, switch, return | paging; used by system calls and loader | the list has the live tasks; the loaded directory is that of the current one |
| Process loader (`x86/task/process.c`, `core/process.cc`) | table of 20 processes | `load_process` | VFS, heap, tasks, paging | an object has one owner, also when a load fails |
| System calls (`core/syscall.cc`, `core/api.cc`, `x86/interrupt/syscall.asm`) | table of handlers, arguments, result | trap, dispatch, return | tasks, paging | arguments from the caller's address space, registers kept, every call returns |
| Interrupts (`x86/interrupt/interrupt.c`, `idt.asm`) | gates, controllers, what is on the kernel stack | unhandled vectors, division, end of interrupt | used by programs and devices | an interrupt is not noticed by the program, and the next one comes |
| Console (`x86/video/video.c`, `core/iostream.cc`) | row, column, color, cells | print, number, color, clear | used by everything | each character is in its cell, a number reads back |
| GDT, boot, panic, libc | see `PROJECT.json` | | | not modelled, or only in part (section 8) |

## 2. The modules

| Module | Stands for | Notes |
|---|---|---|
| `HeapTable` | the block table and the pure part of the functions of `heap.c` | no variables; each loop is given by what it computes |
| `Heap` | `kmalloc`, `kzalloc`, `kfree` as callers drive them | `entries` is the table; `asked`, `ret` are the callers' side |
| `HeapLoops` | the three loops of `heap.c`, an iteration a step, on any table | justifies `HeapTable` |
| `Allocator` | abstract: what the heap promises | `Heap` implements it (`AllocatorSpec`) |
| `VFS` | descriptor table, FAT16 private data, `lava::file` | one action per method; the whole call chain below it is in the action |
| `FatOpen` | mounting, the path parser, the search of the root directory, the objects of an open file, the drive | the heap is a count of objects |
| `Fat16` | nested loops of a read, `disk_stream_read` | EXTENDS `FatOpen`; a byte of the disk is its position, so "the right bytes" is an equality of positions |
| `PageTable` | the directory of a task, the functions on one, the MMU | declares the directory, no actions |
| `Paging` | mapping calls on that directory, `process_map_binary` | EXTENDS `PageTable` |
| `UserCopy` | `copy_from_user` step by step on byte memory | EXTENDS `PageTable` |
| `TaskList` | the linked list, current task, loaded directory | actions composed by the two modules below |
| `Process` | `load_process` call by call, every failure | EXTENDS `TaskList` |
| `Syscall` | `int 0x80` from trap to `iretd` | EXTENDS `TaskList`; has no specification of its own |
| `Interrupts` | all ways into the kernel and back: system calls, devices, exceptions | EXTENDS `Syscall` and composes its steps |
| `Terminal` | abstract: what a text screen promises | `Video` implements it (`TerminalSpec`) |
| `Video` | cursor, color and video memory | |
| `Console` | `write`, `print`, `print_number`, `itoa`, `atoi`, `ostream` | EXTENDS `Video`, a character a step |
| `HeapProofs`, `HeapLoopsProofs`, `VFSProofs`, `InterruptsProofs`, `ProcessProofs`, `PageTableProofs`, `Fat16Proofs`, `ConsoleProofs` | theorems | section 5 |
| `MC*` | instances for TLC | values of constants only |

How state corresponds to code where it is not a renaming:

- An entry of the heap table is the set of its marks (`TAKEN`, `IS_FIRST`,
  `HAS_NEXT`) in place of the bits of a byte; every write in `heap.c` stores one
  of the five sets in `Entries`.
- `file_descriptors[i]` is the private data of descriptor `i + 1` directly: the
  `file_descriptor` struct in between is allocated and freed with its slot.
- A page table entry is a frame and a set of flags. A directory is the array of
  its tables, because the entries that lead to the tables are written only when
  the directory is built. `Mmu` is the processor's translation, written from the
  bits of the address and not from `paging_get_indexes`.
- In `Process` the heap is a set of objects, one address each; `kzalloc` returns
  the first free one, or NULL once anything besides the filesystem's data is
  allocated, since blocks may then be too few or too scattered. What `fopen` allocates
  is in it: the parts of a path are one object, lost at once, and a descriptor with its
  private data and its item is another, which is lost if the table is full or the
  descriptor cannot be allocated. `kfree(NULL)` is modelled by what `mark_blocks_free` does with it
  (constant `NullFrees`, section 6).
- In `Syscall` a program's registers are `eax`, the stack pointer, and all the
  others as one; `Junk` is a word of the kernel's that happens to be there. A program
  starts as `task_return` leaves it: in ring 0, on the kernel stack (`KernelStack`),
  with registers from low memory, in the pages and with the data segment of its task.
  A trap from ring 0 pushes no stack pointer, and the frame has the word on top of the
  program's stack in its place. A program may move to a stack of its own, and a system
  call from there ends in `lost`: the handler switches to pages in which that stack
  is not mapped. The list of
  tasks is built and trimmed before the first task runs, as the loader does it.
  The frame and the arguments are on the stack and gone after the call.
- In `Interrupts` the controllers are the sets of lines requested (`irr`) and in
  service (`isr`). Each passes on a request of a higher priority than all it has in
  service; a line of the slave is in service there and, as line 2, at the master. The
  command at the end of a handler ends what has the highest priority at the master.
  `pushed` is what the CPU and `pushad` leave on the stack. Vectors with an error code
  end in `lost`: `iret` in `no_interrupt` takes the code for an address. After a
  division by zero the program goes on with interrupts off and with words left on its
  stack, since its handler ends in `ret`. A program in ring 0 could change the
  interrupt flag; it is taken to leave it alone.
- In `FatOpen` the drive is idle, busy, or has answered; every step that needs the
  disk first gives a command and polls. One transfer stands for all sectors that a
  step reads. A name is the sequence of characters in its 8.3 fields; `Lower` is
  the part of `tolower` that the instance needs.
- In `Video` row and column are words that wrap, as in the code, where a
  backspace can leave the column at 2^32 - 1. The mapping to `Terminal` takes the
  index in video memory for the position. A write outside the screen goes to
  other memory and is left out; `lost` records that it can happen.
- In `Fat16` the word read for a FAT entry may be anything, since the position it
  is read from is wrong (section 7); the loop over it, its error results and the
  reads that follow are as in the code. The position of a read is any of
  `Offsets`; `VFS` has the seeks that set it. It is a word of 32 bits (`Word` in the
  instance), which the reads take as an `int`: from half the word on it is negative
  (`IntOf`), and so are the remainders (`Rem`). Sizes stay below half the word, because
  there is no buffer of 2^31 bytes to read into.
- In `VFS` a read with a size or a count of 0 returns nothing, one of a regular file
  reads that file or fails, and one of a directory reads whatever is where its first
  cluster would be, since `fat16_read` does not test the type of the item.

Definitions whose comment begins with "Mutant" are wrong variants of the
definition after them. They are used by no specification; putting one in the
place of the original makes TLC report the property named with it under
`mutants` in `PROJECT.json`, which shows that the property depends on the code.

## 3. The runs

`tlc -workers 2 -config X.cfg M` in this directory.

| Run | Config | Distinct states | What it shows |
|---|---|---|---|
| `heap` | `MCHeap` | 3 815 | every sequence of calls on 5 blocks; the refinement to `Allocator` |
| `heap_loops` | `MCHeapLoops` | 38 291 | the loops on every table of 4 blocks, reachable or not; they terminate |
| `vfs` | `MCVFS` | 64 675 | 3 objects, 2 descriptors, 3 allocations, reads of any size and count; what is lost, and only when |
| `vfs_oom` | `MCVFSOom` | violation | `fopen` succeeds with no descriptor |
| `fat16` | `MCFat16` | 170 314 | mounting; paths with and without slashes and names against every root directory of 3 entries; reads over sectors and clusters and from negative positions; a drive that may fail |
| `paging` | `MCPaging` | 4 608 | sequences of mapping calls and a program on a directory of 4 pages |
| `user_copy` | `MCUserCopy` | 11 822 | every text, pointer and size on 6 pages of 4 bytes |
| `process` | `MCProcess` | 121 360 | loads into 2 slots with 5 descriptors, failing anywhere, `fopen` included |
| `process_null` | `MCProcessNull` | violation | `kfree(NULL)` releases block 0 |
| `syscall` | `MCSyscall` | 450 184 | 2 tasks; system calls with numbers below, in and at the end of the table; a timer, a clock on the slave, exceptions with and without an error code, a division |
| `syscall_ring` | `MCSyscallRing` | violation | the arguments are not read from the caller's stack pointer |
| `console` | `MCConsole` | 1 416 932 | characters, line feeds, backspaces, numbers and colors in every order on 2 by 2 cells; the refinement to `Terminal` |

Properties, by the hazard they are for (each is stated beside its definition):

- *Long sequences of legal calls.* `HeapInv`, `NoOverlap`, `HeldRunsUntouched`,
  `AllocatorSpec`; `VfsInv`, `ReadsOwnFile`; `TaskInv`; `SlotsAreKept`;
  `TerminalSpec` (every mixture of characters, line ends and backspaces keeps one
  position in the text).
- *Failure half-way.* `LeakOnlyWhenFull`, `UnownedOnlyLast` (what is lost is the
  last descriptor and the private data of an open that finds the table full, and
  nothing else); `LeaksOnlyParts` (what `fopen` allocates comes back but for the
  parts of the path); `MountedOrNothing`; `OneOwner`, `TasksMatch`,
  `LossPerLoad` (what one load costs for good, wherever it fails);
  `MapsFirstPage` (a refused mapping writes nothing, an accepted one a page).
- *The address space under running code.* `KernelStaysMapped`, `ExactCopy`,
  `LeavesNoTrace`, `ProgramUntouched`; `PagesMatch` (the pages of the arguments too).
- *Order of saves and restores; interrupts between any two instructions.*
  `SavedStateIsCallers`, `ReturnKeepsRegisters`, `ResumesWhereItWas`,
  `MasterIsTold` (also for a line that came through the cascade).
- *Edges.* `ServedInFull` (sizes that wrap), `LoopsCompute`, `ReadsWhatMmuUses`,
  `ReadIsExact`, `PartsAreComponents`, `OpensWhatIsThere`, `NumbersReadBack`,
  `OneCellInColor`, `Interrupts!TypeOK` (only the number after the last one leaves
  the table of handlers; no panic).
- *Something must happen.* `Terminates`, `Returns`, `EndsUnlessDriveFails`,
  `TicksServed`.

`UnownedOnlyLast`, `MapsFirstPage` and `MasterIsTold` hold where the code does less
than its documents say (section 6), and say how much less. `DescriptorBehindFd`,
`FilesystemMemoryKept` and `ArgsOfCaller` are what the documents say, and their runs
are counterexamples.

Bounds and why they are enough:

- Heap: 5 blocks hold two runs with gaps before, between and behind them, and a
  run of 3 beside one of 2; a word of 8 blocks lets a size wrap. The theorems
  remove the bound.
- VFS: with 2 descriptors the table fills, the last descriptor is used and lost,
  and the first is reused; 3 handles let a leaked one exhaust memory; a word of 4
  lets SEEK_CUR pass the end of the file and wrap. Objects and handles are
  symmetric: the model only compares them. The theorems remove these bounds too.
- FatOpen: three entries hold a file, a directory of one cluster and one of more,
  deleted ones before, between and behind them; paths have up to two slashes in
  front and one behind the first name, names in both cases, and one that is the
  beginning of another.
- Fat16: sectors of 4 bytes and clusters of 2 sectors; offsets and sizes on,
  before and after each boundary, and two that are negative as `int`; two members; a
  third cluster is reached; a word of 64 bytes.
- Paging and UserCopy: two tables, so that an address at the end of one table and
  the start of the next is used; unaligned addresses; pointers at the last byte of
  a page, into the kernel, and into the heap where the buffer is.
- Process: two loads succeed and a third finds no slot; 5 descriptors allow that
  and three failures; in 17 addresses two processes fit with what the loads before
  and between them lose, and failed loads can use up all of them.
- Syscall and Interrupts: one task runs and another is made and released behind
  it; only the newest task is ever released, so
  that a third would repeat what the second shows. One line of each controller is
  enough for requests that wait, yield to a higher priority or are blocked; the
  theorems are for any lines. Of the numbers, one takes each branch of the dispatch.
  Exceptions with and without an error code, and the division.
- Console: 2 by 2 cells have a last column, a last row and a corner; in a
  word of 8 a column below 0 is no column of the screen; numbers of one and two
  digits, one of them ending in 0.

Deadlock is checked except in `Interrupts`, where a jump to the word after the
table of handlers, or to an error code, ends the behaviour.

## 4. Fairness

Four liveness properties are checked. `Terminates` assumes that a loop of `heap.c`
that can take another iteration takes it. `Returns` assumes weak fairness of the
steps of the kernel once it is entered (`InKernel`); a program is under no
obligation to do anything. `EndsUnlessDriveFails` assumes weak fairness of the
kernel's steps and of the drive, which answers a command it has, with data or with
an error; the error is the fault model, and the property says that it is the only
way to hang. These are justified by one CPU and interrupts off: nothing else can
run until the code returns.

`TicksServed` needs strong fairness of `Interrupt`: a program that enters the
kernel again and again disables interrupts again and again, and in between the CPU
takes what the controller delivers after the next instruction with the flag on,
which the `iretd` of each system call is. The property is about a program with
interrupts on, which the kernel must have enabled before it starts it, and about
the timer, the line of the highest priority; a line of lower priority can be starved
by others and, at the slave, is blocked for good (section 6). Nothing is assumed of the end of
interrupt: without that command the property fails (its mutant).

## 5. What is proved

`tlapm M.tla` for each proof module. All theorems are for every value of the
constants that the named ASSUMEs allow: any number and size of blocks, objects,
descriptors, files, tasks, interrupt lines, processes, tables and pages.

- `HeapCorrect`: `Spec => []HeapInv`. `NoOverlap` by itself is not inductive: that
  `kfree` releases one run follows only from the marks that `mark_blocks_taken`
  wrote. `HeapInv` adds that each run held has exactly its marks (`ChainsAreRuns`),
  that no other block has any (`NoLostBlock`), and that no run is empty. From it
  come `HeapNoOverlap`, `HeapServedInFull` (with the lemma that a size which wraps
  needs no block), `HeapNoLostBlock`, the action property `HeapRunsUntouched`, and
  `HeapImplementsAllocator`: initial states and steps of `Heap` are those of
  `Allocator`, a failing `kmalloc` included, which needs that a block nobody
  holds is free.
- `LoopsCorrect`: the loop invariants of `HeapLoops` on every table, and from them
  `ScanCorrect`, `TakeCorrect`, `FreeCorrect`, together `LoopsComputeTables`: the loops compute the operators of
  `HeapTable` that `Heap` uses. `FreeCorrect` keeps the walk as it is in the code,
  which always tests the entry it started from. `LoopsBounded`: each step leaves
  fewer to be taken, at most twice the blocks and two, also on a table whose chain
  has no end.
- `VfsCorrect`: `~DescriptorOOM => (Spec => []VfsInv)`. The strengthening says
  that every number held has a descriptor, that the private data behind it is of
  the holder's file, and that only the last slot is without a holder; with it
  `VfsOneHolderPerFd`, `VfsNoDanglingPrivate` and the action property
  `VfsReadsOwnFile`, and, with the part that says which private data has no
  descriptor (`OpenKeepsPrivate`, `CloseKeepsPrivate`, `SeekKeepsPrivate`),
  `VfsUnownedOnlyLast` and `VfsLeakOnlyWhenFull`. The hypothesis is needed: with it
  dropped, `vfs_oom` is a counterexample to `DescriptorBehindFd`.
- `InterruptsCorrect`: `Spec => []InterruptInv`, through every interleaving of
  programs, system calls, devices and exceptions, with the ring and the stack that
  `task_return` gives. What a handler is given depends
  on what the trap pushed, on which directory and segments are loaded at that step
  and on which task is current, and none of the checked properties says all of it:
  `HeadRuns` (the task that runs is the head of the list), `PagesLoaded` (directory
  and segments at each step, in an interrupt those of what was interrupted),
  `StackHolds` (what is pushed at each step), `FlagKept` (a program and what it has
  pushed have the flag it was started with), `CallersState` (`cpu`, `saved` and the
  arguments at each step) and `Controllers` (the master has one line at most in
  service, and only in the handler) do. From it, with no hypothesis:
  `InterruptsTypeOK`, `TasksStayLinked`, `InterruptsPagesMatch`,
  `InterruptsSavedState`, `InterruptsMasterIsTold` and the action properties
  `InterruptsReturnKeepsRegisters` and `InterruptsResume`.
- `LoadsCorrect`: `Spec => []LoadInv`, which relates the slots, the objects of the
  running load and what it has lost so far (`Losses`: nothing, then the parts of
  the path, then two objects more if it fails), whatever `kfree(NULL)` does:
  `LoadsLossPerLoad`, `LoadsKeepSlots`. Each action is shown to be a load that fails
  (`Fails`), goes on (`GoesOn`) or is installed, and these keep the invariants.
  `ProcessCorrect` adds for `~NullFrees` who owns what at each step of a load (the
  objects that the running load has by then, its task in the list or not yet):
  `ProcessOneOwner`, `ProcessTasksMatch`. With `NullFrees` the filesystem's data is
  freed under its owner (`process_null`).
- `PageTableProofs` starts from the arithmetic of addresses: quotients and
  remainders are unique, so `paging_get_indexes` finds the table and the entry that
  the MMU uses (`IndexesOfAddress`), writing an entry changes that page and no other
  (`SetEntry`), and writing the old one again gives the old directory
  (`RestoreEntry`). `MappingReadsWhatMmuUses` and `MappingMapsFirstPage` follow for
  every sequence of mapping calls. `CopyCorrect`: `Spec => []CopyInv` for
  `copy_from_user`. `CopyInv` says at each step which entry differs from the task's
  own directory (`OneEntry`), that the buffer is a page of its own (`OneBuffer`), when
  CR3 is switched (`LoadedForCopy`) and where the user's string is (`StringKept`). From
  it come `CopyLeavesNoTrace`, `CopyKernelStaysMapped`, `CopyIsExact` and the action
  property `CopyLeavesProgram`. `CopyIsExact` needs that `strncpy` looks at nothing
  behind the first 0 (`StrncpyPrefix`).
- `FatCorrect`: `Spec => []FatInv` for `Fat16`, with the drive answering or failing
  at any sector. `ReadIsExact` speaks of the end of a read, and nothing in it is
  inductive. `FatInv` says what the disk record is at each step of the mount
  (`DiskInv`), that nothing is read before a file is open (`ItemInv`), how many bytes
  the buffer has at each step of the three nested loops, from the member, what is
  left of it and what is left of the round (`ProgressInv`), and, for a sound read,
  that it stays in the first cluster, where the stream is, and which bytes of the disk
  have been copied (`SoundInv`). From it come `FatMountedOrNothing` and
  `FatReadIsExact`.
- `PathCorrect`: `Spec => []PathInv` for `fopen`. The components of a path are
  stated apart from the parser, as its longest stretches without a slash in the
  order of their ranks; that ranks are 1 to their number, each once (`RankFacts`),
  follows by counting, and cutting a path where no stretch is cut keeps the ranks
  behind the cut (`ComponentsBehind`). So a skipped slash changes no component and a
  part is the first one. The search looks at the first `total` entries: all of them
  are in use, and all that are in use if none is deleted (`TotalItems`); a padded
  name up to its first blank is the name (`NameIsFullName`). `MadeInv` counts the
  objects at each step. From these come `FatPartsAreComponents`,
  `FatOpensWhatIsThere` and `FatLeaksOnlyParts`.
- `FatStepsDescend`: between a call and its return every step but polling lowers
  five natural numbers in lexicographic order: members, bytes of the member, phases,
  the rest of the path, of the walk or of the stream, and what the drive has to do. The
  walk ends although the FAT entries may be anything, because the offset bounds it,
  and a round that reads part of a member reads at least a byte.
- `ConsoleCorrect`: `Spec => []ConsoleInv`. After a backspace over the end of a row
  the column has wrapped below 0 and the row has not gone back, so that row and
  column are not those of the cell. `ConsoleInv` says that while the text is on the
  screen the column is one of the screen's, or row and column together reach the
  word. Then `Index` is a cell (`IndexOnScreen`), each of putting, going back and a
  new line moves it as the terminal does (`PutOnScreen`, `BackspaceOnScreen`,
  `NewlineOnScreen`), and `ConsoleImplementsTerminal` follows for every screen and
  every word. `ConsoleOneCellInColor` holds off the screen too, where only the types
  are known (`OneCell`).
- `ConsoleNumbersReadBack`: `itoa` and `atoi` are recursive functions, of which
  existence has to be shown before anything can be said of them. Both
  (`LowDefined`, `ValueDefined`) are built one argument further from the least number
  for which there is none. `Decimal` relates a number, its digits from the lowest on
  and the quotients that they are remainders of; the loop of `itoa` gives such digits
  (`LowDecimal`, again from the least number that fails), and `atoi`, on the digits
  reversed, passes through the quotients from the last to the first
  (`AtoiReadsDecimal`). Machine integers are not in question: no quotient exceeds the
  number.

Each of these inductive invariants was checked with TLC on the instance of its run
before it was proved.

Assumptions are the named ASSUMEs of the modules; TLC evaluates each of them in a
run. `FatAssumption` takes the entries of the disk as FAT16 writes them: a field is
padded with blanks at its end and has none inside (`Padded`), no name begins with
one, and the root directory fills whole sectors. `ConsoleAssumption` says that what
is printed consists of characters and that the ten digits are characters.
`VideoAssumption` asks of the word only that it exceeds the screen by a row.

Only model-checked: the four liveness properties, `Terminates`, `Returns`,
`EndsUnlessDriveFails` and `TicksServed`. Fairness and ENABLED are beyond the prover;
`LoopsBounded` and `FatStepsDescend` prove of the first and the third what does not
need them, that the code's own steps run out. Every invariant, action property and
refinement of a passing run is proved.

## 6. Where the code and its own words disagree

Each is a run, or is named with one, and is quoted under `findings`.

1. The last descriptor is handed out and never found again (`file.c:65`; run
   `vfs`, where `UnownedOnlyLast` says that it is the only one).
2. A descriptor that could not be allocated is returned as a success
   (`file.c:41`; `vfs_oom`).
3. A program of more than one page is mapped only in its first one
   (`paging.c:144`; run `paging`, where `MapsFirstPage` says so of every range).
4. A load that fails for want of memory frees NULL; unless a byte far before the
   heap table happens to have the IS_FIRST bit, this releases the filesystem's
   private data (`process.c:168`, `heap.c:149`; `process_null`).
5. `task_return` has `ireqd` for `iretd`, which NASM takes for a label: programs run
   in ring 0 on the kernel stack (`switch.asm:49`; `syscall_ring`).
6. The slave controller is never told that an interrupt is over
   (`interrupt.c:29`; run `syscall`, where `MasterIsTold` says that lines of the slave
   are all that is left in service). Of its lines, only those of a higher
   priority than the ones served before are still delivered.
7. The handler of a division by zero returns with `ret` (`interrupt.c:80`; run
   `syscall`, where `ResumesWhereItWas` excludes the flag after one).

## 7. Seen while modelling

Modelled as they are, or outside the model; no run is about them.

- `heap.c:149`: the walk to the first block tests the entry it began with. For
  pointers that `kmalloc` returned it does no harm (`FreeCorrect`).
- `heap.c:118` clips the end of a run at the end of the table. The only caller passes
  runs that the scan found, which end in it, so the clip never acts; `HeapLoops` has
  it where a call begins all the same.
- `fat16.c:301`: the position of a FAT entry is a product where a sum is meant,
  and `fat16.c:329` tests the 12-bit end-of-chain values. `ReadIsExact` therefore
  promises content in the first cluster only.
- `stream.c:45`: a read that crosses a sector copies from beyond the one-sector
  buffer. `ReadIsExact` promises content for reads that keep to sectors.
- `fat16.c:506`: the search looks at as many entries as are not deleted, deleted
  ones included, so an entry behind them may not be found. `OpensWhatIsThere`
  promises an item only where nothing is deleted.
- `fat16.c:561`: the item's type is compared with the attribute of a
  subdirectory; no path of two parts opens, and the item is leaked.
- A FAT directory with no free entry is read beyond its end (`fat16.c:164`);
  `OpenInit` takes the last entry to be free, so that the loop over entries ends there
  and is one step.
- `task.c:38`: removing a task from the list leaves the `prev` of the one after it.
  `release_task` of `TaskList` does so for any task; the callers at this commit, and
  so `drop_task`, release only the newest, which has none after it (`TaskInv`).
- `syscall.cc:47` and `:63` let the number after the last one through.
- `process.c` never closes the program's file (with the parts of the path this is what
  a successful load costs; over many loads the loss has no bound), and never maps the user stack it
  allocates. `load_process` returns 0, not the slot.
- `fopen` never frees the parts of the path (`LeaksOnlyParts` counts them), and
  `fat16_resolve` never the streams of a disk it refuses (`MountedOrNothing`).
- `fat16.c:463` returns the directory it has freed; closing it frees it again
  (`twice`, only for directories of more than a cluster).
- `fat16.c:204`: the sectors of the root directory are rounded up and the result is
  not used; the data area is taken from the rounded-down count.
- `enable_paging.asm` writes CR0 without reading it first.
- `video.c:47` clears as many bytes as there are cells, half of the screen;
  `video.c:39` sign-extends characters of 128 and more into the color; a newline
  on the last row and a backspace behind others leave the screen (`Leave`).
- `itoa` of a negative number gives characters below '0'; the kernel prints none.
- `file::read` has a buffer of `size` bytes for `size * nmemb`, and ends it with
  no zero; `fat16_stat` copies a name of 8 characters that may have no zero.
- `remap_master_PIC` sends what looks like ICW4 as ICW3; `init_pic`, which sends
  all of them, has no caller, and the slave stays at vectors 0x70 to 0x77. Both are
  vectors of `no_interrupt`.
- `fat16.c:689`: a position of 2^31 or more is a negative `int`; `ReadIsExact` bounds
  what such a read copies and promises no content.
- A system call made on a stack in the program's own pages does not find its return
  address after `load_kernel_page` (`lost` in `Syscall`).
- `no_interrupt` does not remove the error code of the exceptions that have one.

## 8. What is not modelled

The GDT and boot code (a straight line of set-up with no later change of state;
their order gives the initial states) and the encoding of descriptors. Ports and
registers of the drive beyond command, status and data. Of the C library the
functions that are a copy, a length or a comparison of bytes; `lava::string`, whose
only use is the result of `file::read`, which the kernel never calls. `write` of
`lava::file` has no body. Allocations that fail inside `fat16_open` and the parser,
in `FatOpen`; in `VFS` and `Process` an open may fail for them. Items of FAT16 subdirectories, which no path
reaches. Contents of files other than programs never reach a decision of the
kernel.

## 9. Plan

Done, in this order: heap (table, calls, loops, abstract allocator, proofs),
VFS (with proofs), paging, copy from user, tasks and system calls, process
loader, FAT16 from mounting to closing with the path parser and the drive,
interrupts around the system calls, console with its abstract terminal.

Then the proofs: every invariant, action property and refinement that a run checks
has its theorem.

To do: compose `Process` with the real heap table, so that the block 0 result has a
witness in blocks.
