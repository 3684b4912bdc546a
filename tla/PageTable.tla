----------------------------- MODULE PageTable -----------------------------
(***************************************************************************)
(* The page directories of arch/x86/memory/paging.c and the functions that *)
(* build, read and write one.                                              *)
(*                                                                         *)
(* A page table entry is the frame it names and the set of its flags. The  *)
(* directory's own entries are only ever written when it is built, so it   *)
(* is the array of its tables.                                             *)
(***************************************************************************)
EXTENDS Integers

CONSTANTS
  Tables,     \* entries of a directory: 1024
  Pages,      \* entries of a table: PAGING_TOTAL_ENTRIES_PER_TABLE
  PageSize,   \* PAGING_PAGE_SIZE
  Program     \* PROGRAM_VIRTUAL_ADDRESS

Word   == Tables * Pages * PageSize   \* 2^32
Frames == 0 .. Tables * Pages - 1
Flags  == SUBSET {"PRESENT", "WRITEABLE", "ALL"}
Entry  == [frame : Frames, flags : Flags]
Directory == [0 .. Tables - 1 -> [0 .. Pages - 1 -> Entry]]

ASSUME PageTableAssumption ==
  /\ Tables \in Nat \ {0} /\ Pages \in Nat \ {0} /\ PageSize \in Nat \ {0}
  /\ Program \in 0 .. Word - 1 /\ Program % PageSize = 0

VARIABLE page  \* the directory of a task

\* The flags every caller of the mapping functions passes.
UserPage == {"PRESENT", "ALL", "WRITEABLE"}

EINVAL == -22

----------------------------------------------------------------------------
paging_check_address_is_aligned(addr) == addr % PageSize = 0

directory_index(addr) == addr \div (Pages * PageSize)

\* Mutant: one entry of the table is forgotten.
table_index_truncated(addr) == (addr \div PageSize) % (Pages - 1)

table_index(addr) == (addr % (Pages * PageSize)) \div PageSize

\* make_new_4GB_virtual_memory_address_space: page n is mapped to frame n.
identity(flags) ==
  [d \in 0 .. Tables - 1 |-> [t \in 0 .. Pages - 1 |->
     [frame |-> d * Pages + t, flags |-> flags]]]

\* Mutant: the table of directory entry 0 is always the one written.
set_entry_first_table(dir, addr, val) == [dir EXCEPT ![0][table_index(addr)] = val]

\* paging_set_entry_for_virtual_address: an unaligned address is refused.
set_entry(dir, addr, val) ==
  IF paging_check_address_is_aligned(addr)
  THEN [dir EXCEPT ![directory_index(addr)][table_index(addr)] = val]
  ELSE dir

\* paging_get_entry_of_address does not look at the result of
\* paging_get_indexes, which leaves both indexes at 0 for an unaligned address.
get_entry(dir, addr) ==
  IF paging_check_address_is_aligned(addr)
  THEN dir[directory_index(addr)][table_index(addr)]
  ELSE dir[0][0]

\* paging_align_address, in uint32_t arithmetic.
paging_align_address(addr) ==
  IF addr % PageSize > 0 THEN (addr + PageSize - (addr % PageSize)) % Word ELSE addr

\* What the MMU reads: the top bits choose the table, the next ones the entry.
Mmu(dir, addr) ==
  LET e == dir[(addr \div PageSize) \div Pages][(addr \div PageSize) % Pages]
  IN  e.frame * PageSize + (addr % PageSize)
=============================================================================
