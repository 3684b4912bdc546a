-------------------------------- MODULE Heap --------------------------------
(***************************************************************************)
(* The kernel heap (arch/x86/memory/heap.c and kheap.c) as its callers     *)
(* drive it: kmalloc/kzalloc with any of a set of sizes, kfree with a      *)
(* pointer it returned and that has not been freed since. The kernel runs  *)
(* with interrupts off, so a call is one step.                             *)
(*                                                                         *)
(* entries is the code's state; asked (who was given what), req and ret    *)
(* (the size and the result of the last call) are the callers' side.       *)
(***************************************************************************)
EXTENDS HeapTable

CONSTANT Sizes   \* the sizes in bytes the callers ask for

\* A size is a size_t.
ASSUME SizesAssumption == Sizes \subseteq 0 .. Word - 1

VARIABLES entries, asked, req, ret
vars == <<entries, asked, req, ret>>

NULL == -1
VOID == -2

\* The blocks given out and not freed, and the run each stands for.
Held      == {b \in Blocks : asked[b] # 0}
Extent(b) == b .. b + BlocksFor(asked[b]) - 1

\* kheap_init: heap_create accepts the kernel's constants and clears the table.
Init ==
  /\ entries = FreshTable
  /\ asked = [b \in Blocks |-> 0]
  /\ req = 0 /\ ret = VOID

\* malloc_blocks found a run: the pointer returned is block s of the heap.
\* kzalloc then clears `size` bytes from it.
kmalloc_ok(size) ==
  LET n == BlocksFor(size)
      s == get_free_blocks(entries, n)
  IN  /\ s >= 0
      /\ entries' = mark_blocks_taken(entries, s, n)
      /\ asked' = [asked EXCEPT ![s] = size]
      /\ req' = size /\ ret' = s

\* malloc_blocks returns NULL before it marks anything.
kmalloc_fail(size) ==
  /\ get_free_blocks(entries, BlocksFor(size)) < 0
  /\ req' = size /\ ret' = NULL
  /\ UNCHANGED <<entries, asked>>

kmalloc(size) == kmalloc_ok(size) \/ kmalloc_fail(size)

\* kfree of a pointer that kmalloc returned.
kfree(b) ==
  /\ b \in Held
  /\ entries' = mark_blocks_free(entries, b)
  /\ asked' = [asked EXCEPT ![b] = 0]
  /\ req' = 0 /\ ret' = VOID

Next ==
  \/ \E size \in Sizes : kmalloc(size)
  \/ \E b \in Blocks : kfree(b)

Spec == Init /\ [][Next]_vars

----------------------------------------------------------------------------
\* The variables stay in their types: the table holds only marks, a holder's
\* size is one that was asked for.
TypeOK ==
  /\ entries \in Table
  /\ asked \in [Blocks -> 0 .. Word - 1]
  /\ req \in 0 .. Word - 1
  /\ ret \in Blocks \cup {NULL, VOID}

\* No two holders share a block, and no holder's run leaves the heap: what
\* get_free_blocks returns is really free, whatever was freed before.
NoOverlap ==
  \A b \in Held :
    /\ Extent(b) \subseteq Blocks
    /\ \A c \in Held \ {b} : Extent(b) \cap Extent(c) = {}

\* Every holder was given at least the bytes it asked for (kzalloc clears that
\* many): a size that wraps in align_value_to_upper is refused, not served
\* with a run that is too short.
ServedInFull == \A b \in Held : BlocksFor(asked[b]) * BlockSize >= asked[b]

\* The mark of a block of the run s .. e, as mark_blocks_taken writes it.
RunMark(i, s, e) ==
  {"TAKEN"} \cup (IF i = s THEN {"IS_FIRST"} ELSE {})
            \cup (IF i < e THEN {"HAS_NEXT"} ELSE {})

\* The chains in the table are exactly the runs held: a holder's chain spans
\* its run and stops at its end.
ChainsAreRuns ==
  \A b \in Held : \A i \in Extent(b) :
    entries[i] = RunMark(i, b, b + BlocksFor(asked[b]) - 1)

\* No block is lost: a block nobody holds is free, with no mark left on it by
\* an earlier mark_blocks_taken.
NoLostBlock ==
  \A i \in Blocks : (\A b \in Held : i \notin Extent(b)) => entries[i] = FREE

\* A block is given out only for a request that needs one: a size of zero, or
\* one that wraps to zero, is refused.
NoEmptyRun == \A b \in Held : BlocksFor(asked[b]) > 0

\* The inductive invariant: the table and the holders agree.
HeapInv == TypeOK /\ NoOverlap /\ NoEmptyRun /\ ChainsAreRuns /\ NoLostBlock

\* A call never touches the entries of a run that is held before and after it:
\* kfree of one allocation cannot release a part of another.
HeldRunsUntouched ==
  [][\A b \in Blocks :
       asked[b] # 0 /\ asked'[b] = asked[b]
         => \A i \in Extent(b) : entries'[i] = entries[i]]_vars

\* The heap implements the allocator's promise: the callers' side is the state
\* of the allocator, and the block table is not seen.
Promise == INSTANCE Allocator WITH asked <- asked, req <- req, ret <- ret
AllocatorSpec == Promise!Spec
=============================================================================
