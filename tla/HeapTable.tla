----------------------------- MODULE HeapTable -----------------------------
(***************************************************************************)
(* The block table of the kernel heap (arch/x86/memory/heap.c): one entry  *)
(* per block, and the pure part of every function that reads or writes it. *)
(*                                                                         *)
(* An entry is one byte, a type in the low nibble (FREE 0, TAKEN 1) and    *)
(* the bits IS_FIRST 0x40 and HAS_NEXT 0x80; here it is the set of the     *)
(* marks that are on, the empty set being HEAP_BLOCK_TABLE_ENTRY_FREE.     *)
(* The loops are given by what they compute; HeapLoops runs them step by   *)
(* step and shows that this is what they compute.                          *)
(***************************************************************************)
EXTENDS Integers

CONSTANTS
  Total,      \* number of blocks: heap_table.total
  BlockSize,  \* HEAP_BLOCK_SIZE_BYTES
  Word        \* 2^32, the modulus of uint32_t and size_t arithmetic

\* heap_create refuses a heap that is not a whole number of blocks, and the
\* block size divides the word.
ASSUME TableAssumption ==
  /\ Total \in Nat \ {0}
  /\ BlockSize \in Nat \ {0}
  /\ Word \in Nat \ {0}
  /\ \E k \in 1 .. Word : Word = k * BlockSize

Blocks == 0 .. Total - 1

\* The values an entry takes: every write in heap.c stores one of these.
FREE    == {}
Entries ==
  { FREE,
    {"TAKEN"}, {"TAKEN", "HAS_NEXT"},
    {"TAKEN", "IS_FIRST"}, {"TAKEN", "IS_FIRST", "HAS_NEXT"} }
Table == [Blocks -> Entries]

ENOMEM == -1   \* the only negative result of get_free_blocks

block_entry_is_free(entry)  == "TAKEN" \notin entry
block_has_next_block(entry) == "HAS_NEXT" \in entry

\* The memset of heap_create.
FreshTable == [i \in Blocks |-> FREE]

----------------------------------------------------------------------------
\* Sizes: bytes to blocks, in uint32_t arithmetic (a size in the last block
\* of the word wraps to 0).

\* Mutant: rounds down.
align_value_to_lower(value) == value - (value % BlockSize)

align_value_to_upper(value) ==
  IF value % BlockSize = 0 THEN value
  ELSE (value - (value % BlockSize) + BlockSize) % Word

BlocksFor(size) == align_value_to_upper(size) \div BlockSize

----------------------------------------------------------------------------
\* get_free_blocks: the first run of n free blocks. No block count reaches
\* n = 0, so a request for no block always fails.

\* Mutant: the last block of the run is not looked at.
Fits_off_by_one(t, n, s) ==
  /\ n > 0
  /\ s + n <= Total
  /\ \A i \in s .. s + n - 2 : block_entry_is_free(t[i])

\* Mutant: the run may not end at the last block of the table.
Fits_not_at_end(t, n, s) ==
  /\ n > 0
  /\ s + n < Total
  /\ \A i \in s .. s + n - 1 : block_entry_is_free(t[i])

Fits(t, n, s) ==
  /\ n > 0
  /\ s + n <= Total
  /\ \A i \in s .. s + n - 1 : block_entry_is_free(t[i])

FirstFit(t, n, s) == Fits(t, n, s) /\ \A r \in 0 .. s - 1 : ~Fits(t, n, r)

get_free_blocks(t, n) ==
  IF \E s \in Blocks : Fits(t, n, s)
  THEN CHOOSE s \in Blocks : FirstFit(t, n, s)
  ELSE ENOMEM

\* Mutant: HAS_NEXT on every block but the last of the table.
mark_blocks_taken_open_end(t, start, n) ==
  [i \in Blocks |->
     IF i \in start .. start + n - 1
     THEN {"TAKEN"} \cup (IF i = start THEN {"IS_FIRST"} ELSE {})
                    \cup (IF i < Total - 1 THEN {"HAS_NEXT"} ELSE {})
     ELSE t[i]]

\* mark_blocks_taken: the end is clipped to the table. HAS_NEXT of the first
\* block depends on the size asked for, of the others on the clipped end.
mark_blocks_taken(t, start, n) ==
  LET end == IF start + n - 1 > Total - 1 THEN Total - 1 ELSE start + n - 1
  IN  [i \in Blocks |->
         CASE i = start -> {"TAKEN", "IS_FIRST"} \cup (IF n > 1 THEN {"HAS_NEXT"} ELSE {})
           [] i > start /\ i <= end -> {"TAKEN"} \cup (IF i # end THEN {"HAS_NEXT"} ELSE {})
           [] OTHER -> t[i]]

\* mark_blocks_free, first loop: it tests the entry of num, not that of the
\* block it has walked back to, so from a block that is not the first one of
\* its allocation it walks all the way to block 0.
FirstBlockNumber(t, num) == IF "IS_FIRST" \in t[num] THEN num ELSE 0

\* mark_blocks_free, second loop: the chain of HAS_NEXT marks from first.
Chain(t, first) ==
  {i \in Blocks : i >= first /\ \A k \in first .. i - 1 : block_has_next_block(t[k])}

\* Mutant: only the type of the entry is cleared.
mark_blocks_free_type_only(t, num) ==
  [i \in Blocks |->
     IF i \in Chain(t, FirstBlockNumber(t, num)) THEN t[i] \ {"TAKEN"} ELSE t[i]]

mark_blocks_free(t, num) ==
  [i \in Blocks |-> IF i \in Chain(t, FirstBlockNumber(t, num)) THEN FREE ELSE t[i]]
=============================================================================
