------------------------------- MODULE Paging -------------------------------
(***************************************************************************)
(* One task's page directory over a sequence of mapping calls, and         *)
(* process_map_binary of arch/x86/task/process.c, which maps the program   *)
(* into it.                                                                *)
(***************************************************************************)
EXTENDS PageTable

CONSTANTS
  Addresses,  \* the addresses the mapping calls are given
  Sizes       \* the sizes of program files in bytes

ASSUME PagingAssumption ==
  /\ Addresses \subseteq 0 .. Word - 1
  /\ Sizes \subseteq 0 .. Word - 1

VARIABLES
  ret,    \* the result of the last call
  range,  \* the pages it was asked to map: from virt, onto phys, how many
  bound   \* process_map_binary has been called
mapVars == <<page, ret, range, bound>>

NoRange == [virt |-> 0, phys |-> 0, n |-> 0]

\* task_init builds the directory with these flags.
MapInit ==
  /\ page = identity({"PRESENT", "ALL"})
  /\ ret = 0 /\ range = NoRange
  /\ bound = FALSE

\* The test of paging_map_page.
map_page_allowed(virt, phys) == virt % PageSize = 0 /\ phys % PageSize = 0

\* paging_map_page.
paging_map_page(virt, phys, flags) ==
  /\ IF map_page_allowed(virt, phys)
     THEN /\ page' = set_entry(page, virt, [frame |-> phys \div PageSize, flags |-> flags])
          /\ ret' = 0
     ELSE /\ ret' = EINVAL
          /\ UNCHANGED page
  /\ range' = [virt |-> virt, phys |-> phys, n |-> 1]
  /\ UNCHANGED bound

\* paging_map_virtual_memory refuses what is unaligned or ends before it
\* starts; paging_map_memory_by_range then leaves its loop at the first page
\* that is mapped with success, which is the first one.
map_virtual_memory(virt, phys, phys_end, flags) ==
  LET n  == (phys_end - phys) \div PageSize
      ok == virt % PageSize = 0 /\ phys % PageSize = 0 /\ phys_end % PageSize = 0
            /\ phys_end >= phys
  IN  /\ page' = IF ok /\ n > 0
                THEN set_entry(page, virt, [frame |-> phys \div PageSize, flags |-> flags])
                ELSE page
      /\ ret' = IF ok THEN 0 ELSE EINVAL
      /\ range' = [virt |-> virt, phys |-> phys, n |-> IF ok THEN n ELSE 0]

paging_map_virtual_memory(virt, phys, phys_end, flags) ==
  map_virtual_memory(virt, phys, phys_end, flags) /\ UNCHANGED bound

\* process_map_binary of the memory that kzalloc returned for the program's
\* bytes: whole frames, and the heap ends below the last page.
process_map_binary(frame, size) ==
  /\ ~bound /\ bound' = TRUE
  /\ size > 0
  /\ frame * PageSize + size <= Word - PageSize
  /\ map_virtual_memory(Program, frame * PageSize,
                        paging_align_address(frame * PageSize + size),
                        UserPage)

MapNext ==
  \E phys \in Addresses :
    \/ \E virt \in Addresses : paging_map_page(virt, phys, UserPage)
    \/ \E virt, phys_end \in Addresses :
         paging_map_virtual_memory(virt, phys, phys_end, UserPage)
    \/ \E size \in Sizes : process_map_binary(phys \div PageSize, size)

MapSpec == MapInit /\ [][MapNext]_mapVars

----------------------------------------------------------------------------
\* The entry of a virtual page, as the MMU finds it.
EntryOf(d, n) == d[n \div Pages][n % Pages]

\* A mapping call that succeeds maps one page, the first of its range, onto the
\* frame it was given, however long the range is, and one that is refused maps
\* none: it never redirects memory the caller did not name, and of a program
\* only the first page is at PROGRAM_VIRTUAL_ADDRESS. The pages are those that
\* the MMU finds.
MapsFirstPage ==
  [][LET mapped == IF ret' = 0 /\ range'.n > 0 THEN {range'.virt \div PageSize} ELSE {}
     IN  /\ \A n \in Frames \ mapped : EntryOf(page', n) = EntryOf(page, n)
         /\ \A n \in mapped :
              Mmu(page', range'.virt) = range'.phys /\ EntryOf(page', n).flags = UserPage]_mapVars

\* What paging_get_entry_of_address returns for an aligned address is the
\* entry the MMU uses for it, and names a frame of memory: copy_from_user saves
\* and restores the right one.
ReadsWhatMmuUses ==
  \A n \in Frames :
    /\ get_entry(page, n * PageSize) = EntryOf(page, n)
    /\ EntryOf(page, n) \in Entry
=============================================================================
