-------------------------- MODULE PageTableProofs --------------------------
(***************************************************************************)
(* Proofs about page directories: the index arithmetic of paging.c, the    *)
(* mapping calls of Paging, and copy_from_user of UserCopy.                *)
(***************************************************************************)
EXTENDS Paging, UserCopy, WellFoundedInduction, TLAPS

----------------------------------------------------------------------------
\* Arithmetic of pages.

\* Division by a positive number, with its remainder.
LEMMA Division ==
  ASSUME NEW v \in Nat, NEW d \in Nat \ {0}
  PROVE  /\ v % d \in 0 .. d - 1
         /\ v \div d \in Nat
         /\ v = (v \div d) * d + (v % d)
  OBVIOUS

\* There is only one quotient and remainder.
LEMMA DivisionUnique ==
  ASSUME NEW q \in Nat, NEW d \in Nat \ {0}, NEW r \in 0 .. d - 1
  PROVE  /\ q * d + r \in Nat
         /\ (q * d + r) \div d = q
         /\ (q * d + r) % d = r
<1> DEFINE v == q * d + r
           p == v \div d
           s == v % d
<1>1. v \in Nat
  <2>1. q * d \in Nat
    OBVIOUS
  <2> QED BY <2>1
<1>2. p \in Nat /\ s \in 0 .. d - 1 /\ v = p * d + s
  BY <1>1, Division
<1> HIDE DEF p, s
<1>3. p = q
  <2>1. CASE p < q
    <3>1. PICK e \in Nat : q = p + 1 + e
      <4>1. q - p - 1 \in Nat /\ q = p + 1 + (q - p - 1)
        BY <1>2, <2>1
      <4> QED BY <4>1
    <3>2. q * d = p * d + d + e * d /\ e * d \in Nat
      BY <3>1, <1>2
    <3> QED BY <3>2, <1>2
  <2>2. CASE q < p
    <3>1. PICK e \in Nat : p = q + 1 + e
      <4>1. p - q - 1 \in Nat /\ p = q + 1 + (p - q - 1)
        BY <1>2, <2>2
      <4> QED BY <4>1
    <3>2. p * d = q * d + d + e * d /\ e * d \in Nat
      BY <3>1, <1>2
    <3> QED BY <3>2, <1>2
  <2> QED BY <2>1, <2>2, <1>2
<1>4. s = r
  BY <1>2, <1>3
<1> QED BY <1>1, <1>3, <1>4 DEF p, s

\* A quotient below a bound.
LEMMA QuotientBound ==
  ASSUME NEW v \in Nat, NEW d \in Nat \ {0}, NEW n \in Nat, v < n * d
  PROVE  v \div d \in 0 .. n - 1
<1> DEFINE q == v \div d
           r == v % d
<1>1. q \in Nat /\ r \in 0 .. d - 1 /\ v = q * d + r
  BY Division
<1> HIDE DEF q, r
<1>2. q < n
  <2> SUFFICES ASSUME n <= q PROVE FALSE
    BY <1>1
  <2>1. PICK e \in Nat : q = n + e
    <3>1. q - n \in Nat /\ q = n + (q - n)
      BY <1>1
    <3> QED BY <3>1
  <2>2. q * d = n * d + e * d /\ e * d \in Nat
    BY <2>1
  <2> QED BY <2>2, <1>1
<1> QED BY <1>1, <1>2 DEF q

\* A position in a row of n stretches of d.
LEMMA PositionBound ==
  ASSUME NEW n \in Nat, NEW d \in Nat \ {0}, NEW q \in 0 .. n - 1, NEW r \in 0 .. d - 1
  PROVE  q * d + r \in 0 .. n * d - 1
<1>1. PICK e \in Nat : n = q + 1 + e
  <2> WITNESS n - q - 1 \in Nat
  <2> QED OBVIOUS
<1>2. n * d = q * d + d + e * d /\ e * d \in Nat /\ q * d \in Nat
  BY <1>1
<1> QED BY <1>2

\* A page has a table and an entry in it, and they name no other page.
LEMMA PageIndexes ==
  ASSUME NEW n \in Frames
  PROVE  /\ n \div Pages \in 0 .. Tables - 1
         /\ n % Pages \in 0 .. Pages - 1
         /\ n = (n \div Pages) * Pages + (n % Pages)
<1>1. n \in Nat /\ Pages \in Nat \ {0} /\ Tables \in Nat /\ n < Tables * Pages
  BY PageTableAssumption DEF Frames
<1> QED BY ONLY <1>1, Division, QuotientBound

\* An address lies in a page, at an offset.
LEMMA AddressPage ==
  ASSUME NEW a \in 0 .. Word - 1
  PROVE  /\ a \div PageSize \in Frames
         /\ a % PageSize \in 0 .. PageSize - 1
         /\ a = (a \div PageSize) * PageSize + (a % PageSize)
<1>1. Tables * Pages \in Nat
  BY PageTableAssumption
<1>2. a \in Nat /\ a < (Tables * Pages) * PageSize
  BY <1>1, PageTableAssumption DEF Word
<1>3. a \div PageSize \in 0 .. Tables * Pages - 1
  BY <1>1, <1>2, PageTableAssumption, QuotientBound
<1> QED BY <1>2, <1>3, PageTableAssumption, Division DEF Frames

\* And the other way round.
LEMMA PageAddress ==
  ASSUME NEW n \in Frames, NEW k \in 0 .. PageSize - 1
  PROVE  /\ n * PageSize + k \in 0 .. Word - 1
         /\ (n * PageSize + k) \div PageSize = n
         /\ (n * PageSize + k) % PageSize = k
<1>1. Tables * Pages \in Nat /\ n \in Nat
  BY PageTableAssumption DEF Frames
<1>2. n * PageSize + k \in 0 .. Word - 1
  BY <1>1, PageTableAssumption, PositionBound DEF Word, Frames
<1>3. PageSize \in Nat \ {0}
  BY PageTableAssumption
<1> QED BY ONLY <1>1, <1>2, <1>3, k \in 0 .. PageSize - 1, DivisionUnique

\* paging_get_indexes finds the table and the entry that the MMU uses.
LEMMA IndexesOfAddress ==
  ASSUME NEW a \in 0 .. Word - 1
  PROVE  /\ directory_index(a) = (a \div PageSize) \div Pages
         /\ table_index(a) = (a \div PageSize) % Pages
<1> DEFINE n == a \div PageSize
           o == a % PageSize
           i == n \div Pages
           j == n % Pages
           big == Pages * PageSize
           r == j * PageSize + o
<1>1. n \in Frames /\ o \in 0 .. PageSize - 1 /\ a = n * PageSize + o
  BY AddressPage
<1> HIDE DEF n, o
<1>2. i \in 0 .. Tables - 1 /\ j \in 0 .. Pages - 1 /\ n = i * Pages + j
  BY <1>1, PageIndexes
<1> HIDE DEF i, j
<1>3. big \in Nat \ {0} /\ r \in 0 .. big - 1
  <2>1. r \in 0 .. big - 1
    BY <1>1, <1>2, PageTableAssumption, PositionBound
  <2> QED BY <2>1, PageTableAssumption
<1>4. a = i * big + r
  <2>1. \A x, y, z, u, w \in Int : (x * y + z) * u + w = x * (y * u) + (z * u + w)
    OBVIOUS
  <2> QED BY <2>1, <1>1, <1>2, PageTableAssumption
<1>5. a \div big = i /\ a % big = r
  <2> HIDE DEF big, r
  <2>1. i \in Nat
    BY <1>2
  <2> QED BY <2>1, <1>3, <1>4, DivisionUnique
<1>6. r \div PageSize = j
  <2>1. j \in Nat /\ PageSize \in Nat \ {0}
    BY <1>2, PageTableAssumption
  <2> QED BY <2>1, <1>1, DivisionUnique
<1> QED BY <1>5, <1>6 DEF directory_index, table_index, i, j, n

----------------------------------------------------------------------------
\* The functions on a directory.

\* Every page has an entry.
LEMMA EntryType ==
  ASSUME NEW d \in Directory, NEW n \in Frames
  PROVE  EntryOf(d, n) \in Entry
  BY PageIndexes DEF Directory, EntryOf

\* paging_get_entry_of_address reads the entry of the page of an aligned address.
LEMMA GetEntry ==
  ASSUME NEW d, NEW a \in 0 .. Word - 1, a % PageSize = 0
  PROVE  get_entry(d, a) = EntryOf(d, a \div PageSize)
  BY IndexesOfAddress DEF get_entry, paging_check_address_is_aligned, EntryOf

\* paging_set_entry_for_virtual_address writes it, and no other.
LEMMA SetEntry ==
  ASSUME NEW d \in Directory, NEW a \in 0 .. Word - 1, a % PageSize = 0, NEW v \in Entry
  PROVE  /\ set_entry(d, a, v) \in Directory
         /\ EntryOf(set_entry(d, a, v), a \div PageSize) = v
         /\ \A m \in Frames \ {a \div PageSize} : EntryOf(set_entry(d, a, v), m) = EntryOf(d, m)
<1> DEFINE n == a \div PageSize
           i == n \div Pages
           j == n % Pages
           e == set_entry(d, a, v)
<1>1. n \in Frames
  BY AddressPage
<1>2. i \in 0 .. Tables - 1 /\ j \in 0 .. Pages - 1 /\ n = i * Pages + j
  BY <1>1, PageIndexes
<1>3. e = [d EXCEPT ![i][j] = v]
  BY IndexesOfAddress DEF set_entry, paging_check_address_is_aligned
<1> HIDE DEF e, i, j
<1>4. e \in Directory
  BY <1>2, <1>3 DEF Directory
<1>5. e[i][j] = v
  BY <1>2, <1>3 DEF Directory
<1>6. ASSUME NEW m \in Frames \ {n}
      PROVE  EntryOf(e, m) = EntryOf(d, m)
  <2> DEFINE p == m \div Pages
             q == m % Pages
  <2>1. p \in 0 .. Tables - 1 /\ q \in 0 .. Pages - 1 /\ m = p * Pages + q
    BY PageIndexes
  <2> HIDE DEF p, q
  <2>2. p # i \/ q # j
    BY <1>2, <2>1
  <2>3. e[p][q] = d[p][q]
    BY <1>2, <1>3, <2>1, <2>2 DEF Directory
  <2> QED BY <2>3 DEF EntryOf, p, q
<1> QED BY <1>4, <1>5, <1>6 DEF EntryOf, e, i, j

\* Writing an entry and then the old one again leaves the directory as it was.
LEMMA RestoreEntry ==
  ASSUME NEW d \in Directory, NEW a \in 0 .. Word - 1, NEW v
  PROVE  set_entry(set_entry(d, a, v), a, get_entry(d, a)) = d
<1> DEFINE i == directory_index(a)
           j == table_index(a)
<1>1. i \in 0 .. Tables - 1 /\ j \in 0 .. Pages - 1
  BY AddressPage, IndexesOfAddress, PageIndexes
<1> HIDE DEF i, j
<1>2. [[d EXCEPT ![i][j] = v] EXCEPT ![i][j] = d[i][j]] = d
  BY <1>1 DEF Directory
<1> QED BY <1>2 DEF set_entry, get_entry, i, j

\* The directory of make_new_4GB_virtual_memory_address_space.
LEMMA IdentityEntries ==
  ASSUME NEW flags \in Flags
  PROVE  /\ identity(flags) \in Directory
         /\ \A n \in Frames : EntryOf(identity(flags), n) = [frame |-> n, flags |-> flags]
<1>1. ASSUME NEW i \in 0 .. Tables - 1, NEW j \in 0 .. Pages - 1
      PROVE  [frame |-> i * Pages + j, flags |-> flags] \in Entry
  <2>1. i * Pages + j \in Frames
    BY PageTableAssumption, PositionBound DEF Frames
  <2> QED BY <2>1 DEF Entry
<1>2. identity(flags) \in Directory
  BY <1>1 DEF identity, Directory
<1>3. ASSUME NEW n \in Frames
      PROVE  EntryOf(identity(flags), n) = [frame |-> n, flags |-> flags]
  BY PageIndexes DEF identity, EntryOf
<1> QED BY <1>2, <1>3

\* The MMU finds an address in memory.
LEMMA MmuAddress ==
  ASSUME NEW d \in Directory, NEW a \in 0 .. Word - 1
  PROVE  LET n == a \div PageSize
         IN  /\ Mmu(d, a) = EntryOf(d, n).frame * PageSize + (a % PageSize)
             /\ Mmu(d, a) \in 0 .. Word - 1
             /\ Mmu(d, a) \div PageSize = EntryOf(d, n).frame
<1> DEFINE n == a \div PageSize
           g == EntryOf(d, n).frame
<1>1. n \in Frames /\ a % PageSize \in 0 .. PageSize - 1
  BY AddressPage
<1>2. g \in Frames
  BY <1>1, EntryType DEF Entry
<1>3. Mmu(d, a) = g * PageSize + (a % PageSize)
  BY DEF Mmu, EntryOf
<1> HIDE DEF n, g
<1>4. Mmu(d, a) \in 0 .. Word - 1 /\ Mmu(d, a) \div PageSize = g
  BY <1>1, <1>2, <1>3, PageAddress
<1> QED BY <1>3, <1>4 DEF n, g

\* The entries of user pages.
LEMMA UserEntry ==
  ASSUME NEW n \in Frames
  PROVE  [frame |-> n, flags |-> UserPage] \in Entry
  BY DEF Entry, UserPage, Flags

----------------------------------------------------------------------------
\* The mapping calls.

\* A call that succeeds writes the entry of its first page, unless it has none,
\* and a call that fails writes nothing.
MapsOne ==
  \/ /\ ret' = 0 /\ range'.n > 0
     /\ range'.virt \in 0 .. Word - 1 /\ range'.virt % PageSize = 0
     /\ range'.phys \in 0 .. Word - 1 /\ range'.phys % PageSize = 0
     /\ page' = set_entry(page, range'.virt,
                          [frame |-> range'.phys \div PageSize, flags |-> UserPage])
  \/ ~(ret' = 0 /\ range'.n > 0) /\ page' = page

\* So does paging_map_virtual_memory, with what it is given.
LEMMA MapVirtualMemory ==
  ASSUME NEW virt \in 0 .. Word - 1, NEW phys \in 0 .. Word - 1, NEW phys_end,
         map_virtual_memory(virt, phys, phys_end, UserPage)
  PROVE  MapsOne
<1> DEFINE n  == (phys_end - phys) \div PageSize
           ok == virt % PageSize = 0 /\ phys % PageSize = 0 /\ phys_end % PageSize = 0
                 /\ phys_end >= phys
<1>1. /\ page' = IF ok /\ n > 0
                THEN set_entry(page, virt, [frame |-> phys \div PageSize, flags |-> UserPage])
                ELSE page
      /\ ret' = IF ok THEN 0 ELSE EINVAL
      /\ range' = [virt |-> virt, phys |-> phys, n |-> IF ok THEN n ELSE 0]
  BY DEF map_virtual_memory
<1>2. ok => virt % PageSize = 0 /\ phys % PageSize = 0
  OBVIOUS
<1> HIDE DEF n, ok
<1> QED BY <1>1, <1>2 DEF MapsOne, EINVAL

\* And so does every step.
LEMMA StepMapsOne ==
  ASSUME MapNext
  PROVE  MapsOne
<1>1. PICK phys \in Addresses :
        \/ \E virt \in Addresses : paging_map_page(virt, phys, UserPage)
        \/ \E virt, phys_end \in Addresses :
             paging_map_virtual_memory(virt, phys, phys_end, UserPage)
        \/ \E size_ \in Sizes : process_map_binary(phys \div PageSize, size_)
  BY DEF MapNext
<1>2. phys \in 0 .. Word - 1
  BY PagingAssumption
<1>3. ASSUME NEW virt \in Addresses, paging_map_page(virt, phys, UserPage)
      PROVE  MapsOne
  <2>1. virt \in 0 .. Word - 1
    BY PagingAssumption
  <2> QED BY <1>2, <1>3, <2>1 DEF paging_map_page, map_page_allowed, MapsOne, EINVAL
<1>4. ASSUME NEW virt \in Addresses, NEW phys_end \in Addresses,
             paging_map_virtual_memory(virt, phys, phys_end, UserPage)
      PROVE  MapsOne
  <2>1. virt \in 0 .. Word - 1
    BY PagingAssumption
  <2> QED BY <1>2, <1>4, <2>1, MapVirtualMemory DEF paging_map_virtual_memory
<1>5. ASSUME NEW size_ \in Sizes, process_map_binary(phys \div PageSize, size_)
      PROVE  MapsOne
  <2>1. phys \div PageSize \in Frames
    BY <1>2, AddressPage
  <2>2. 0 \in 0 .. PageSize - 1
    BY PageTableAssumption
  <2>3. (phys \div PageSize) * PageSize + 0 \in 0 .. Word - 1
    BY <2>1, <2>2, PageAddress
  <2>4. (phys \div PageSize) * PageSize \in 0 .. Word - 1
    BY <2>1, <2>3, PageTableAssumption DEF Frames
  <2> QED BY <1>5, <2>4, MapVirtualMemory, PageTableAssumption DEF process_map_binary
<1> QED BY <1>1, <1>3, <1>4, <1>5

\* The directory stays one.
LEMMA MapStepType ==
  ASSUME page \in Directory, MapsOne
  PROVE  page' \in Directory
<1>1. CASE page' = page
  BY <1>1
<1>2. CASE page' # page
  <2>1. /\ range'.virt \in 0 .. Word - 1 /\ range'.virt % PageSize = 0
        /\ range'.phys \in 0 .. Word - 1
        /\ page' = set_entry(page, range'.virt,
                             [frame |-> range'.phys \div PageSize, flags |-> UserPage])
    BY <1>2 DEF MapsOne
  <2>2. [frame |-> range'.phys \div PageSize, flags |-> UserPage] \in Entry
    BY <2>1, AddressPage, UserEntry
  <2> QED BY <2>1, <2>2, SetEntry
<1> QED BY <1>1, <1>2

THEOREM MappingKeepsDirectory == MapSpec => [](page \in Directory)
<1>1. MapInit => page \in Directory
  <2>1. {"PRESENT", "ALL"} \in Flags
    BY DEF Flags
  <2> QED BY <2>1, IdentityEntries DEF MapInit
<1>2. page \in Directory /\ [MapNext]_mapVars => (page \in Directory)'
  BY StepMapsOne, MapStepType DEF mapVars
<1> QED BY <1>1, <1>2, PTL DEF MapSpec

\* What paging_get_entry_of_address returns is what the MMU uses, after any
\* sequence of mapping calls.
THEOREM MappingReadsWhatMmuUses == MapSpec => []ReadsWhatMmuUses
<1>1. page \in Directory => ReadsWhatMmuUses
  <2> SUFFICES ASSUME page \in Directory, NEW n \in Frames
               PROVE  /\ get_entry(page, n * PageSize) = EntryOf(page, n)
                      /\ EntryOf(page, n) \in Entry
    BY DEF ReadsWhatMmuUses
  <2>1. 0 \in 0 .. PageSize - 1 /\ n * PageSize + 0 = n * PageSize
    BY PageTableAssumption DEF Frames
  <2>2. /\ n * PageSize \in 0 .. Word - 1
        /\ (n * PageSize) % PageSize = 0
        /\ (n * PageSize) \div PageSize = n
    BY <2>1, PageAddress
  <2> QED BY <2>2, GetEntry, EntryType
<1> QED BY <1>1, MappingKeepsDirectory, PTL

\* A mapping call maps the first page of its range or nothing.
THEOREM MappingMapsFirstPage == MapSpec => MapsFirstPage
<1> DEFINE mapped == IF ret' = 0 /\ range'.n > 0 THEN {range'.virt \div PageSize} ELSE {}
           Step == /\ \A n \in Frames \ mapped : EntryOf(page', n) = EntryOf(page, n)
                   /\ \A n \in mapped :
                        Mmu(page', range'.virt) = range'.phys /\ EntryOf(page', n).flags = UserPage
<1>1. ASSUME page \in Directory, MapNext
      PROVE  Step
  <2>1. MapsOne
    BY <1>1, StepMapsOne
  <2>2. CASE ~(ret' = 0 /\ range'.n > 0)
    BY <2>1, <2>2 DEF MapsOne
  <2>3. CASE ret' = 0 /\ range'.n > 0
    <3> DEFINE v == range'.virt
               f == range'.phys
               e == [frame |-> f \div PageSize, flags |-> UserPage]
    <3>1. /\ v \in 0 .. Word - 1 /\ v % PageSize = 0
          /\ f \in 0 .. Word - 1 /\ f % PageSize = 0
          /\ page' = set_entry(page, v, e)
      BY <2>1, <2>3 DEF MapsOne
    <3>2. e \in Entry /\ e.frame = f \div PageSize /\ e.flags = UserPage
      BY <3>1, AddressPage, UserEntry
    <3>3. mapped = {v \div PageSize}
      BY <2>3
    <3> HIDE DEF v, f, e, mapped
    <3>4. /\ page' \in Directory /\ EntryOf(page', v \div PageSize) = e
          /\ \A m \in Frames \ {v \div PageSize} : EntryOf(page', m) = EntryOf(page, m)
      BY <1>1, <3>1, <3>2, SetEntry
    <3>5. Mmu(page', v) = (f \div PageSize) * PageSize + 0
      BY <3>1, <3>2, <3>4, MmuAddress
    <3>6. Mmu(page', v) = f
      BY <3>1, <3>5, AddressPage
    <3> QED BY <3>2, <3>3, <3>4, <3>6 DEF v, f
  <2> QED BY <2>2, <2>3
<1>2. page \in Directory /\ [MapNext]_mapVars => [Step]_mapVars
  BY <1>1
<1> QED BY <1>2, MappingKeepsDirectory, PTL DEF MapSpec, MapsFirstPage

----------------------------------------------------------------------------
\* copy_from_user.

\* The types, and those of what the steps of a call read.
CopyTypes ==
  /\ TypeOK
  /\ user_ptr \in 0 .. Word - 1
  /\ old_entry \in Entry
  /\ pc # "user" => size \in 1 .. PageSize - 1 /\ seen \in [0 .. size - 1 -> Byte]

\* A call has one buffer, which is not the program's page.
Buffer == tmp \div PageSize
OneBuffer ==
  /\ pc = "user" => held = {prog}
  /\ pc # "user" =>
       /\ Buffer \in HeapPages \ {prog} /\ tmp = Buffer * PageSize
       /\ held = {prog, Buffer}

\* The directory of the task is its own but for the entry of the buffer, and
\* that is kept.
BufferEntry == [frame |-> Buffer, flags |-> UserPage]
OneEntry ==
  /\ pc \in {"user", "map", "copy_out", "free"} => page = TaskDirectory
  /\ pc \in {"switch", "copy_in", "back", "restore"} =>
       /\ old_entry = get_entry(TaskDirectory, tmp)
       /\ page = set_entry(TaskDirectory, tmp, BufferEntry)

\* The task's directory is loaded for the first strncpy only.
LoadedForCopy == loaded = "task" <=> pc \in {"copy_in", "back"}

\* The string that the caller is to get, and when it can be had.
UserString == IF user_ptr = 0 THEN [k \in 0 .. size - 1 |-> 0] ELSE seen
Apart == \A k \in 0 .. size - 1 : Addr(k) \div PageSize # Buffer

\* Where the string is at each step: at the user's, in the buffer, at the
\* caller's. The buffer is clear until the first strncpy.
StringKept ==
  /\ pc \in {"map", "switch", "copy_in"} =>
       /\ \A k \in 0 .. size - 1 : mem[tmp + k] = 0
       /\ Apart => \A k \in 0 .. size - 1 : mem[Mmu(TaskDirectory, Addr(k))] = seen[k]
  /\ pc \in {"back", "restore", "copy_out"} /\ Apart =>
       \A k \in DOMAIN Strncpy(UserString, size) : mem[tmp + (k - 1)] = UserString[k - 1]
  /\ pc = "free" /\ Apart => to = Strncpy(UserString, size)

CopyInv == CopyTypes /\ OneBuffer /\ OneEntry /\ LoadedForCopy /\ StringKept

\* A set of naturals that is not empty has a least element.
LEMMA LeastNatural ==
  ASSUME NEW S, S \subseteq Nat, S # {}
  PROVE  \E s \in S : \A r \in S : s <= r
<1>1. PICK s \in S : \A r \in S : ~(<<r, s>> \in OpToRel(<, Nat))
  BY WFMin, NatLessThanWellFounded, Zenon
<1>2. \A r \in S : ~(r < s)
  BY <1>1 DEF OpToRel
<1> QED BY <1>2

\* strncpy looks at nothing behind the end of a string: another memory with the
\* same bytes up to there gives the same copy.
LEMMA StrncpyPrefix ==
  ASSUME NEW n \in Nat, NEW s, NEW m,
         \A k \in DOMAIN Strncpy(s, n) : m[k - 1] = s[k - 1]
  PROVE  Strncpy(m, n) = Strncpy(s, n)
<1> DEFINE D(f) == {k \in 1 .. n : k <= Cap /\ \A j \in 1 .. k - 1 : f[j - 1] # 0}
<1>1. \A k \in D(s) : m[k - 1] = s[k - 1]
  BY DEF Strncpy
<1>2. ASSUME NEW k \in D(s)
      PROVE  k \in D(m)
  <2>1. \A j \in 1 .. k - 1 : j \in D(s)
    BY <1>2, CopyAssumption
  <2> QED BY <1>1, <2>1, <1>2
<1>3. ASSUME NEW k \in D(m), k \notin D(s)
      PROVE  FALSE
  <2> DEFINE Z == {j \in 1 .. k - 1 : s[j - 1] = 0}
  <2>1. Z \subseteq Nat /\ Z # {}
    <3>1. k \in 1 .. n /\ k <= Cap
      OBVIOUS
    <3>2. PICK j \in 1 .. k - 1 : s[j - 1] = 0
      BY <1>3, <3>1
    <3>3. j \in Z
      BY <3>2
    <3>4. Z \subseteq Nat
      BY <3>1
    <3> QED BY <3>3, <3>4
  <2>2. PICK z \in Z : \A j \in Z : z <= j
    BY <2>1, LeastNatural
  <2>3. z \in D(s)
    BY <2>2, <1>3, CopyAssumption
  <2>4. m[z - 1] = 0
    BY <1>1, <2>2, <2>3
  <2> QED BY <1>3, <2>2, <2>4
<1>4. D(m) = D(s)
  BY <1>2, <1>3
<1> HIDE DEF D
<1>5. [k \in D(m) |-> m[k - 1]] = [k \in D(s) |-> s[k - 1]]
  BY <1>1, <1>4
<1> QED BY <1>5 DEF Strncpy, D

\* The directory of the task maps memory to itself but for the program's page.
LEMMA TaskEntries ==
  ASSUME prog \in HeapPages
  PROVE  /\ TaskDirectory \in Directory
         /\ EntryOf(TaskDirectory, Program \div PageSize).frame = prog
         /\ \A n \in Frames \ {Program \div PageSize} : EntryOf(TaskDirectory, n).frame = n
<1>1. {"PRESENT", "ALL"} \in Flags
  BY DEF Flags
<1>2. prog \in Frames
  BY CopyAssumption
<1>3. [frame |-> prog, flags |-> UserPage] \in Entry
  BY <1>2, UserEntry
<1>4. Program \in 0 .. Word - 1 /\ Program % PageSize = 0
  BY PageTableAssumption
<1> QED BY <1>1, <1>3, <1>4, IdentityEntries, SetEntry DEF TaskDirectory

\* Where the user's bytes are: not in the buffer, unless they are pointed to.
LEMMA UserByte ==
  ASSUME prog \in HeapPages, NEW h \in HeapPages \ {prog},
         NEW a \in 0 .. Word - 1, a \div PageSize # h
  PROVE  /\ Mmu(TaskDirectory, a) \in 0 .. Word - 1
         /\ Mmu(TaskDirectory, a) \div PageSize # h
<1>1. a \div PageSize \in Frames
  BY AddressPage
<1>2. EntryOf(TaskDirectory, a \div PageSize).frame # h
  BY <1>1, TaskEntries
<1> QED BY <1>2, TaskEntries, MmuAddress

\* The addresses of a call.
LEMMA CallAddresses ==
  ASSUME CopyInv, pc # "user"
  PROVE  /\ Buffer \in Frames /\ Buffer \in HeapPages \ {prog}
         /\ tmp \in 0 .. Word - 1 /\ tmp % PageSize = 0
         /\ \A k \in 0 .. size - 1 :
              /\ tmp + k \in 0 .. Word - 1 /\ (tmp + k) \div PageSize = Buffer
              /\ Addr(k) \in 0 .. Word - 1
         /\ BufferEntry \in Entry
<1>1. Buffer \in Frames /\ Buffer \in HeapPages \ {prog} /\ tmp = Buffer * PageSize
      /\ size \in 1 .. PageSize - 1 /\ user_ptr \in Nat
  BY CopyAssumption DEF CopyInv, OneBuffer, CopyTypes
<1>2. Word \in Nat \ {0}
  BY PageTableAssumption DEF Word
<1> HIDE DEF Buffer
<1>3. 0 \in 0 .. PageSize - 1 /\ tmp = Buffer * PageSize + 0
  BY <1>1, PageTableAssumption DEF Frames
<1>4. tmp \in 0 .. Word - 1 /\ tmp % PageSize = 0
  BY <1>1, <1>3, PageAddress
<1>5. ASSUME NEW k \in 0 .. size - 1
      PROVE  /\ tmp + k \in 0 .. Word - 1 /\ (tmp + k) \div PageSize = Buffer
             /\ Addr(k) \in 0 .. Word - 1
  <2>1. k \in 0 .. PageSize - 1
    BY <1>1, PageTableAssumption
  <2>2. (user_ptr + k) % Word \in 0 .. Word - 1
    BY <1>1, <1>2, Division
  <2> QED BY <1>1, <2>1, <2>2, PageAddress DEF Addr
<1>6. BufferEntry \in Entry
  BY <1>1, UserEntry DEF BufferEntry
<1> QED BY <1>1, <1>4, <1>5, <1>6

\* While the buffer is mapped, the MMU finds the buffer at its own address, and
\* every other page where it was.
LEMMA BufferMapped ==
  ASSUME CopyInv, pc \in {"switch", "copy_in", "back", "restore"}
  PROVE  /\ page \in Directory
         /\ Mmu(page, tmp) = tmp
         /\ \A a \in 0 .. Word - 1 :
              a \div PageSize # Buffer => Mmu(page, a) = Mmu(TaskDirectory, a)
<1>1. pc # "user" /\ prog \in HeapPages /\ page = set_entry(TaskDirectory, tmp, BufferEntry)
  BY DEF CopyInv, CopyTypes, TypeOK, OneEntry
<1>2. /\ Buffer \in Frames /\ BufferEntry \in Entry
      /\ tmp \in 0 .. Word - 1 /\ tmp % PageSize = 0
  BY <1>1, CallAddresses
<1>3. /\ page \in Directory
      /\ EntryOf(page, Buffer) = BufferEntry
      /\ \A m \in Frames \ {Buffer} : EntryOf(page, m) = EntryOf(TaskDirectory, m)
  BY <1>1, <1>2, TaskEntries, SetEntry DEF Buffer
<1>4. Mmu(page, tmp) = Buffer * PageSize + 0
  BY <1>2, <1>3, MmuAddress DEF BufferEntry, Buffer
<1>5. Mmu(page, tmp) = tmp
  BY <1>2, <1>4, AddressPage DEF Buffer
<1>6. ASSUME NEW a \in 0 .. Word - 1, a \div PageSize # Buffer
      PROVE  Mmu(page, a) = Mmu(TaskDirectory, a)
  <2>1. EntryOf(page, a \div PageSize) = EntryOf(TaskDirectory, a \div PageSize)
    BY <1>3, <1>6, AddressPage
  <2> QED BY <2>1 DEF Mmu, EntryOf
<1> QED BY <1>3, <1>5, <1>6

----------------------------------------------------------------------------
\* The steps of copy_from_user keep the invariant, one by one.

LEMMA CopyInitInv == Init => CopyInv
<1> SUFFICES ASSUME Init PROVE CopyInv
  OBVIOUS
<1>1. prog \in HeapPages /\ prog \in Frames /\ pc = "user" /\ 0 \in 0 .. Word - 1
  <2>1. Word \in Nat \ {0}
    BY PageTableAssumption DEF Word
  <2> QED BY <2>1, CopyAssumption DEF Init
<1>2. page \in Directory /\ page = TaskDirectory
  BY <1>1, TaskEntries DEF Init
<1>3. old_entry \in Entry
  <2>1. 0 % PageSize = 0
    BY PageTableAssumption
  <2>2. old_entry = EntryOf(page, 0 \div PageSize)
    BY <1>1, <2>1, GetEntry DEF Init
  <2> QED BY <1>1, <1>2, <2>2, AddressPage, EntryType
<1>4. mem \in [0 .. Word - 1 -> Byte]
  <2>1. PICK text \in [0 .. PageSize - 1 -> Byte], other \in Byte :
          mem = [a \in 0 .. Word - 1 |->
                   IF a \div PageSize = prog THEN text[a % PageSize] ELSE other]
    BY DEF Init
  <2>2. \A a \in 0 .. Word - 1 : a % PageSize \in 0 .. PageSize - 1
    BY AddressPage
  <2> QED BY <2>1, <2>2
<1> QED BY <1>1, <1>2, <1>3, <1>4
       DEF Init, CopyInv, CopyTypes, TypeOK, OneBuffer, OneEntry, LoadedForCopy, StringKept

LEMMA RefusedInv ==
  ASSUME CopyInv, NEW u \in UserPtrs, NEW s \in CopySizes, copy_refused(u, s)
  PROVE  CopyInv'
<1>1. TaskDirectory' = TaskDirectory
  BY DEF copy_refused, TaskDirectory
<1> QED BY <1>1 DEF copy_refused, CopyInv, CopyTypes, TypeOK, OneBuffer, OneEntry, LoadedForCopy,
                    StringKept, Buffer

LEMMA BeginInv ==
  ASSUME CopyInv, NEW u \in UserPtrs, NEW s \in CopySizes, copy_begin(u, s)
  PROVE  CopyInv'
<1>1. /\ pc = "user" /\ held = {prog} /\ page = TaskDirectory /\ page \in Directory
      /\ prog \in HeapPages /\ mem \in [0 .. Word - 1 -> Byte] /\ loaded = "kernel"
      /\ old_entry \in Entry
  BY DEF copy_begin, CopyInv, OneBuffer, OneEntry, CopyTypes, TypeOK, LoadedForCopy
<1>2. PICK h \in HeapPages \ held :
        /\ held' = held \cup {h}
        /\ tmp' = h * PageSize
        /\ mem' = [a \in 0 .. Word - 1 |-> IF a \in tmp' .. tmp' + s - 1 THEN 0 ELSE mem[a]]
  BY DEF copy_begin
<1>3. /\ s \in 1 .. PageSize - 1 /\ user_ptr' = u /\ size' = s /\ pc' = "map" /\ res' = 0
      /\ seen' = [k \in 0 .. s - 1 |-> mem[Mmu(page, (u + k) % Word)]]
      /\ page' = page /\ loaded' = loaded /\ old_entry' = old_entry /\ prog' = prog
  BY DEF copy_begin
<1>4. h \in Frames /\ h # prog /\ h \in HeapPages /\ h \in Nat /\ PageSize \in Nat \ {0}
  BY <1>1, <1>2, CopyAssumption, PageTableAssumption DEF Frames
<1>5. u \in 0 .. Word - 1 /\ u \in Nat /\ Word \in Nat \ {0}
  BY CopyAssumption, PageTableAssumption DEF Word
<1>6. /\ tmp' \div PageSize = h /\ tmp' % PageSize = 0
      /\ \A k \in 0 .. s - 1 : tmp' + k \in 0 .. Word - 1 /\ (tmp' + k) \div PageSize = h
  <2>1. 0 \in 0 .. PageSize - 1 /\ tmp' = h * PageSize + 0
    BY <1>2, <1>4
  <2>2. \A k \in 0 .. s - 1 : k \in 0 .. PageSize - 1
    BY <1>3, <1>4
  <2> QED BY <1>2, <1>4, <2>1, <2>2, PageAddress
<1>7. ASSUME NEW k \in 0 .. s - 1
      PROVE  /\ (u + k) % Word \in 0 .. Word - 1
             /\ Mmu(page, (u + k) % Word) \in 0 .. Word - 1
  <2>1. (u + k) % Word \in 0 .. Word - 1
    BY <1>5, Division
  <2> QED BY <1>1, <2>1, MmuAddress
<1>8. mem' \in [0 .. Word - 1 -> Byte]
  BY <1>1, <1>2, CopyAssumption
<1>9. TaskDirectory' = TaskDirectory /\ Buffer' = h
  BY <1>3, <1>6 DEF TaskDirectory, Buffer
<1>10. CopyTypes'
  <2>1. seen' \in [0 .. size' - 1 -> Byte]
    BY <1>1, <1>3, <1>7
  <2> QED BY <1>1, <1>2, <1>3, <1>4, <1>5, <1>6, <1>8, <2>1 DEF CopyTypes, TypeOK
<1>11. OneBuffer' /\ OneEntry' /\ LoadedForCopy'
  BY <1>1, <1>2, <1>3, <1>4, <1>9 DEF OneBuffer, OneEntry, LoadedForCopy
<1>12. \A k \in 0 .. size' - 1 : mem'[tmp' + k] = 0
  <2>1. tmp' \in Int /\ s \in Int
    BY <1>2, <1>3, <1>4
  <2>2. \A k \in 0 .. s - 1 : tmp' + k \in tmp' .. tmp' + s - 1
    <3>1. \A x, y \in Int : \A k \in 0 .. y - 1 : x + k \in x .. x + y - 1
      OBVIOUS
    <3> QED BY <2>1, <3>1
  <2> QED BY <1>2, <1>3, <1>6, <2>2
<1>13. ASSUME Apart', NEW k \in 0 .. size' - 1
       PROVE  mem'[Mmu(TaskDirectory', Addr(k)')] = seen'[k]
  <2> DEFINE b == (u + k) % Word
             x == Mmu(page, b)
  <2>1. Addr(k)' = b /\ b \div PageSize # h
    BY <1>3, <1>9, <1>13 DEF Apart, Addr
  <2>2. b \in 0 .. Word - 1
    BY <1>3, <1>7
  <2> HIDE DEF b
  <2>3. x \in 0 .. Word - 1 /\ x \div PageSize # h
    BY <1>1, <1>4, <2>1, <2>2, UserByte
  <2> HIDE DEF x
  <2>4. x \notin tmp' .. tmp' + s - 1
    <3> SUFFICES ASSUME x \in tmp' .. tmp' + s - 1 PROVE FALSE
      OBVIOUS
    <3>1. x - tmp' \in 0 .. s - 1 /\ x = tmp' + (x - tmp')
      BY <1>2, <1>3, <1>4, <2>3
    <3> QED BY <3>1, <1>6, <2>3
  <2>5. mem'[x] = mem[x]
    BY <1>2, <2>3, <2>4
  <2>6. seen'[k] = mem[x]
    BY <1>3 DEF x, b
  <2> QED BY <1>1, <1>9, <2>1, <2>5, <2>6 DEF x
<1>14. StringKept'
  BY <1>3, <1>12, <1>13 DEF StringKept
<1> QED BY <1>10, <1>11, <1>14 DEF CopyInv

\* Nothing else depends on the variables that the steps of a call change.
LEMMA SameCall ==
  ASSUME UNCHANGED <<args, tmp>>
  PROVE  /\ TaskDirectory' = TaskDirectory /\ Buffer' = Buffer /\ BufferEntry' = BufferEntry
         /\ UserString' = UserString /\ (Apart <=> Apart')
         /\ \A k \in 0 .. size - 1 : Addr(k)' = Addr(k)
<1>1. \A k \in 0 .. size - 1 : Addr(k)' = Addr(k)
  BY DEF args, Addr
<1>2. Buffer' = Buffer
  BY DEF args, Buffer
<1>3. Apart <=> Apart'
  BY <1>1, <1>2 DEF args, Apart
<1> QED BY <1>1, <1>2, <1>3 DEF args, TaskDirectory, BufferEntry, UserString

LEMMA MapTmpInv ==
  ASSUME CopyInv, map_tmp
  PROVE  CopyInv'
<1>1. /\ pc = "map" /\ pc' = "switch" /\ UNCHANGED <<args, tmp>>
      /\ old_entry' = get_entry(page, tmp)
      /\ page' = set_entry(page, tmp, BufferEntry)
      /\ UNCHANGED <<loaded, mem, held, res, to>>
  BY DEF map_tmp, BufferEntry, Buffer
<1>2. page = TaskDirectory /\ page \in Directory
  BY <1>1 DEF CopyInv, CopyTypes, TypeOK, OneEntry
<1>3. /\ tmp \in 0 .. Word - 1 /\ tmp % PageSize = 0 /\ Buffer \in Frames
      /\ BufferEntry \in Entry
  BY <1>1, CallAddresses
<1>4. page' \in Directory
  BY <1>1, <1>2, <1>3, SetEntry
<1>5. old_entry' \in Entry
  BY <1>1, <1>2, <1>3, GetEntry, EntryType DEF Buffer
<1>6. CopyTypes' /\ OneBuffer' /\ LoadedForCopy'
  BY <1>1, <1>4, <1>5, SameCall
     DEF CopyInv, CopyTypes, TypeOK, OneBuffer, LoadedForCopy, args
<1>7. OneEntry'
  BY <1>1, <1>2, SameCall DEF OneEntry
<1>8. StringKept'
  BY <1>1, SameCall DEF CopyInv, StringKept, args
<1> QED BY <1>6, <1>7, <1>8 DEF CopyInv

LEMMA SwitchInv ==
  ASSUME CopyInv, switch_to_page \/ switch_to_kernel_page
  PROVE  CopyInv'
<1>1. /\ UNCHANGED <<args, tmp>> /\ UNCHANGED <<page, mem, held, old_entry, res, to>>
      /\ \/ pc = "switch" /\ pc' = "copy_in" /\ loaded' = "task"
         \/ pc = "back" /\ pc' = "restore" /\ loaded' = "kernel"
  BY DEF switch_to_page, switch_to_kernel_page
<1>2. CopyTypes' /\ OneBuffer' /\ LoadedForCopy'
  BY <1>1, SameCall DEF CopyInv, CopyTypes, TypeOK, OneBuffer, LoadedForCopy, args
<1>3. OneEntry'
  BY <1>1, SameCall DEF CopyInv, OneEntry
<1>4. StringKept'
  BY <1>1, SameCall DEF CopyInv, StringKept, args
<1> QED BY <1>2, <1>3, <1>4 DEF CopyInv

LEMMA RestoreInv ==
  ASSUME CopyInv, restore_entry
  PROVE  CopyInv'
<1>1. pc = "restore" /\ UNCHANGED <<args, tmp>> /\ UNCHANGED <<loaded, mem, held, old_entry, to>>
  BY DEF restore_entry
<1>2. tmp \in 0 .. Word - 1 /\ tmp % PageSize = 0
  BY <1>1, CallAddresses
<1>3. pc' = "copy_out" /\ res' = 0 /\ page' = set_entry(page, tmp, old_entry)
  BY <1>2 DEF restore_entry, paging_check_address_is_aligned
<1>4. /\ prog \in HeapPages /\ old_entry = get_entry(TaskDirectory, tmp)
      /\ page = set_entry(TaskDirectory, tmp, BufferEntry)
  BY <1>1 DEF CopyInv, CopyTypes, TypeOK, OneEntry
<1>5. page' = TaskDirectory /\ page' \in Directory
  BY <1>2, <1>3, <1>4, TaskEntries, RestoreEntry
<1>6. CopyTypes' /\ OneBuffer' /\ LoadedForCopy'
  BY <1>1, <1>3, <1>5, SameCall DEF CopyInv, CopyTypes, TypeOK, OneBuffer, LoadedForCopy, args
<1>7. OneEntry'
  BY <1>1, <1>3, <1>5, SameCall DEF OneEntry
<1>8. StringKept'
  BY <1>1, <1>3, SameCall DEF CopyInv, StringKept, args
<1> QED BY <1>6, <1>7, <1>8 DEF CopyInv

LEMMA CopyOutInv ==
  ASSUME CopyInv, copy_out
  PROVE  CopyInv'
<1>1. /\ pc = "copy_out" /\ pc' = "free" /\ UNCHANGED <<args, tmp>>
      /\ UNCHANGED <<page, loaded, mem, held, old_entry, res>>
      /\ to' = Strncpy([k \in 0 .. size - 1 |-> mem[tmp + k]], size)
  BY DEF copy_out
<1>2. CopyTypes' /\ OneBuffer' /\ LoadedForCopy'
  BY <1>1, SameCall DEF CopyInv, CopyTypes, TypeOK, OneBuffer, LoadedForCopy, args
<1>3. OneEntry'
  BY <1>1, SameCall DEF CopyInv, OneEntry
<1>4. ASSUME Apart
      PROVE  to' = Strncpy(UserString, size)
  <2> DEFINE m == [k \in 0 .. size - 1 |-> mem[tmp + k]]
             D == DOMAIN Strncpy(UserString, size)
  <2>1. size \in Nat
    BY <1>1 DEF CopyInv, CopyTypes
  <2>2. D \subseteq 1 .. size
    BY DEF Strncpy
  <2>3. \A k \in D : mem[tmp + (k - 1)] = UserString[k - 1]
    BY <1>1, <1>4 DEF CopyInv, StringKept
  <2>4. ASSUME NEW k \in D
        PROVE  m[k - 1] = UserString[k - 1]
    <3>1. k - 1 \in 0 .. size - 1
      BY <2>1, <2>2
    <3> QED BY <2>3, <3>1
  <2> HIDE DEF m, UserString
  <2>5. Strncpy(m, size) = Strncpy(UserString, size)
    BY <2>1, <2>4, StrncpyPrefix
  <2> QED BY <1>1, <2>5 DEF m
<1>5. StringKept'
  BY <1>1, <1>4, SameCall DEF StringKept, args
<1> QED BY <1>2, <1>3, <1>5 DEF CopyInv

LEMMA FreeInv ==
  ASSUME CopyInv, free_tmp
  PROVE  CopyInv'
<1>1. /\ pc = "free" /\ pc' = "user" /\ UNCHANGED <<args, tmp>>
      /\ UNCHANGED <<page, loaded, mem, old_entry, res, to>>
      /\ held' = held \ {Buffer}
  BY DEF free_tmp, Buffer
<1>2. held' = {prog}
  BY <1>1 DEF CopyInv, OneBuffer
<1>3. CopyTypes' /\ OneBuffer' /\ LoadedForCopy'
  BY <1>1, <1>2, SameCall DEF CopyInv, CopyTypes, TypeOK, OneBuffer, LoadedForCopy, args
<1>4. OneEntry' /\ StringKept'
  BY <1>1, SameCall DEF CopyInv, OneEntry, StringKept
<1> QED BY <1>3, <1>4 DEF CopyInv

\* The first strncpy writes to the buffer and nowhere else, and what it writes
\* there is the user's string.
LEMMA CopyInWrites ==
  ASSUME CopyInv, copy_in
  PROVE  /\ mem' \in [0 .. Word - 1 -> Byte]
         /\ \A a \in 0 .. Word - 1 : a \div PageSize # Buffer => mem'[a] = mem[a]
         /\ Apart => \A k \in DOMAIN Strncpy(UserString, size) :
                       mem'[tmp + (k - 1)] = UserString[k - 1]
<1>1. pc = "copy_in" /\ pc # "user"
  BY DEF copy_in
<1>2. /\ mem \in [0 .. Word - 1 -> Byte] /\ size \in 1 .. PageSize - 1
      /\ seen \in [0 .. size - 1 -> Byte] /\ prog \in HeapPages
      /\ \A k \in 0 .. size - 1 : mem[tmp + k] = 0
      /\ Apart => \A k \in 0 .. size - 1 : mem[Mmu(TaskDirectory, Addr(k))] = seen[k]
  BY <1>1 DEF CopyInv, CopyTypes, TypeOK, StringKept
<1>3. /\ Buffer \in HeapPages \ {prog} /\ tmp \in 0 .. Word - 1
      /\ \A k \in 0 .. size - 1 : /\ tmp + k \in 0 .. Word - 1
                                  /\ (tmp + k) \div PageSize = Buffer
                                  /\ Addr(k) \in 0 .. Word - 1
  BY <1>1, CallAddresses
<1>4. /\ Mmu(page, tmp) = tmp
      /\ \A a \in 0 .. Word - 1 :
           a \div PageSize # Buffer => Mmu(page, a) = Mmu(TaskDirectory, a)
  BY <1>1, BufferMapped
<1>5. \A str : DOMAIN Strncpy(str, size) \subseteq 1 .. size
  BY DEF Strncpy
<1>6. CASE user_ptr = 0
  <2>1. mem' = mem
    BY <1>6 DEF copy_in
  <2>2. UserString = [k \in 0 .. size - 1 |-> 0]
    BY <1>6 DEF UserString
  <2>3. \A k \in 1 .. size : k - 1 \in 0 .. size - 1
    BY <1>2
  <2>4. \A k \in 1 .. size : mem[tmp + (k - 1)] = UserString[k - 1]
    BY <1>2, <2>2, <2>3
  <2> QED BY <1>2, <1>5, <2>1, <2>4
<1>7. CASE user_ptr # 0
  <2>1. PICK read \in [0 .. size - 1 -> Byte] :
          /\ \A k \in 0 .. size - 1 :
               read[k] = IF Mmu(page, Addr(k)) - tmp \in 0 .. k - 1
                         THEN read[Mmu(page, Addr(k)) - tmp] ELSE mem[Mmu(page, Addr(k))]
          /\ mem' = [a \in 0 .. Word - 1 |->
                       IF a - tmp + 1 \in DOMAIN Strncpy(read, size)
                       THEN Strncpy(read, size)[a - tmp + 1] ELSE mem[a]]
    BY <1>4, <1>7 DEF copy_in
  <2> DEFINE new == Strncpy(read, size)
  <2>2. \A k \in DOMAIN new : new[k] = read[k - 1] /\ k \in 1 .. size /\ k - 1 \in 0 .. size - 1
    BY <1>2 DEF Strncpy
  <2> HIDE DEF new
  <2>3. mem' \in [0 .. Word - 1 -> Byte]
    BY <1>2, <2>1, <2>2 DEF new
  <2>4. ASSUME NEW a \in 0 .. Word - 1, a \div PageSize # Buffer
        PROVE  mem'[a] = mem[a]
    <3>1. a - tmp + 1 \notin DOMAIN new
      <4> SUFFICES ASSUME a - tmp + 1 \in DOMAIN new PROVE FALSE
        OBVIOUS
      <4>1. (a - tmp + 1) - 1 \in 0 .. size - 1
        BY <2>2
      <4>2. a - tmp \in 0 .. size - 1 /\ a = tmp + (a - tmp)
        BY <4>1, <1>2, <1>3
      <4> QED BY <4>2, <1>3, <2>4
    <3> QED BY <2>1, <3>1 DEF new
  <2>5. ASSUME Apart
        PROVE  read = seen
    <3>1. ASSUME NEW k \in 0 .. size - 1
          PROVE  read[k] = seen[k]
      <4> DEFINE a == Mmu(page, Addr(k))
      <4>1. Addr(k) \in 0 .. Word - 1 /\ Addr(k) \div PageSize # Buffer
        BY <1>3, <2>5 DEF Apart
      <4>2. a = Mmu(TaskDirectory, Addr(k)) /\ a \in 0 .. Word - 1 /\ a \div PageSize # Buffer
        BY <1>2, <1>3, <1>4, <4>1, UserByte
      <4>3. mem[a] = seen[k]
        BY <1>2, <2>5, <4>2
      <4>4. read[k] = IF a - tmp \in 0 .. k - 1 THEN read[a - tmp] ELSE mem[a]
        BY <2>1
      <4> HIDE DEF a
      <4>5. a - tmp \notin 0 .. k - 1
        <5> SUFFICES ASSUME a - tmp \in 0 .. k - 1 PROVE FALSE
          OBVIOUS
        <5>1. a - tmp \in 0 .. size - 1 /\ a = tmp + (a - tmp)
          BY <1>2, <1>3, <4>2
        <5> QED BY <5>1, <1>3, <4>2
      <4> QED BY <4>3, <4>4, <4>5
    <3> QED BY <1>2, <3>1
  <2>6. ASSUME Apart, NEW k \in DOMAIN Strncpy(UserString, size)
        PROVE  mem'[tmp + (k - 1)] = UserString[k - 1]
    <3>1. UserString = seen /\ read = seen /\ k \in DOMAIN new
      BY <1>7, <2>5, <2>6 DEF UserString, new
    <3>2. new[k] = seen[k - 1] /\ k - 1 \in 0 .. size - 1 /\ k \in 1 .. size
      BY <2>2, <3>1
    <3>3. tmp + (k - 1) \in 0 .. Word - 1
      BY <1>3, <3>2
    <3>4. (tmp + (k - 1)) - tmp + 1 = k
      BY <1>3, <3>2
    <3> QED BY <2>1, <3>1, <3>2, <3>3, <3>4 DEF new
  <2> QED BY <2>3, <2>4, <2>6
<1> QED BY <1>6, <1>7

LEMMA CopyInInv ==
  ASSUME CopyInv, copy_in
  PROVE  CopyInv'
<1>1. /\ pc = "copy_in" /\ pc' = "back" /\ UNCHANGED <<args, tmp>>
      /\ UNCHANGED <<page, loaded, held, old_entry, res, to>>
  BY DEF copy_in
<1>2. CopyTypes' /\ OneBuffer' /\ LoadedForCopy'
  BY <1>1, SameCall, CopyInWrites
     DEF CopyInv, CopyTypes, TypeOK, OneBuffer, LoadedForCopy, args
<1>3. OneEntry'
  BY <1>1, SameCall DEF CopyInv, OneEntry
<1>4. StringKept'
  BY <1>1, SameCall, CopyInWrites DEF StringKept, args
<1> QED BY <1>2, <1>3, <1>4 DEF CopyInv

\* The invariant of copy_from_user.
THEOREM CopyCorrect == Spec => []CopyInv
<1>1. CopyInv /\ [Next]_vars => CopyInv'
  <2> SUFFICES ASSUME CopyInv, [Next]_vars PROVE CopyInv'
    OBVIOUS
  <2>1. CASE UNCHANGED vars
    <3>1. UNCHANGED <<args, tmp>> /\ UNCHANGED <<pc, page, loaded, mem, held, old_entry, res, to>>
      BY <2>1 DEF vars, args
    <3>2. CopyTypes' /\ OneBuffer' /\ LoadedForCopy'
      BY <3>1, SameCall DEF CopyInv, CopyTypes, TypeOK, OneBuffer, LoadedForCopy, args
    <3>3. OneEntry'
      BY <3>1, SameCall DEF CopyInv, OneEntry
    <3>4. StringKept'
      BY <3>1, SameCall DEF CopyInv, StringKept, args
    <3> QED BY <3>2, <3>3, <3>4 DEF CopyInv
  <2> QED BY <2>1, RefusedInv, BeginInv, MapTmpInv, SwitchInv, CopyInInv, RestoreInv, CopyOutInv,
             FreeInv DEF Next
<1> QED BY <1>1, CopyInitInv, PTL DEF Spec

\* A call leaves the directory, CR3 and the heap as they were.
THEOREM CopyLeavesNoTrace == Spec => []LeavesNoTrace
<1>1. CopyInv => LeavesNoTrace
  BY DEF CopyInv, CopyTypes, OneBuffer, OneEntry, LoadedForCopy, LeavesNoTrace, TypeOK
<1> QED BY <1>1, CopyCorrect, PTL

\* The kernel's pages stay where they are while the task's directory is loaded.
THEOREM CopyKernelStaysMapped == Spec => []KernelStaysMapped
<1>1. CopyInv => KernelStaysMapped
  <2> SUFFICES ASSUME CopyInv, loaded = "task", NEW p \in KernelPages
               PROVE  Mmu(page, p * PageSize) = p * PageSize
    BY DEF KernelStaysMapped
  <2>1. pc \in {"switch", "copy_in", "back", "restore"} /\ pc # "user" /\ prog \in HeapPages
    BY DEF CopyInv, CopyTypes, TypeOK, LoadedForCopy
  <2>2. p \in Frames /\ p # Program \div PageSize /\ p # Buffer
    BY <2>1, CallAddresses, CopyAssumption
  <2>3. 0 \in 0 .. PageSize - 1 /\ p * PageSize = p * PageSize + 0
    BY <2>2, PageTableAssumption DEF Frames
  <2>4. /\ p * PageSize \in 0 .. Word - 1
        /\ (p * PageSize) \div PageSize = p /\ (p * PageSize) % PageSize = 0
    BY <2>2, <2>3, PageAddress
  <2>5. Mmu(page, p * PageSize) = Mmu(TaskDirectory, p * PageSize)
    BY <2>1, <2>2, <2>4, BufferMapped
  <2>6. Mmu(TaskDirectory, p * PageSize) = p * PageSize + 0
    BY <2>1, <2>2, <2>4, TaskEntries, MmuAddress
  <2> QED BY <2>3, <2>5, <2>6
<1> QED BY <1>1, CopyCorrect, PTL

\* The caller gets the user's string.
THEOREM CopyIsExact == Spec => []ExactCopy
<1>1. CopyInv => ExactCopy
  <2>1. ExactCopy <=> (pc = "free" /\ Apart => to = Strncpy(UserString, size))
    BY DEF ExactCopy, Apart, UserString, Buffer
  <2> QED BY <2>1 DEF CopyInv, StringKept
<1> QED BY <1>1, CopyCorrect, PTL

\* No call writes to the program.
THEOREM CopyLeavesProgram == Spec => ProgramUntouched
<1> DEFINE Kept == \A a \in 0 .. Word - 1 : a \div PageSize = prog => mem'[a] = mem[a]
<1>1. ASSUME CopyInv, NEW u \in UserPtrs, NEW s \in CopySizes, copy_begin(u, s)
      PROVE  Kept
  <2> SUFFICES ASSUME NEW a \in 0 .. Word - 1, a \div PageSize = prog
               PROVE  mem'[a] = mem[a]
    OBVIOUS
  <2>1. held = {prog} /\ s \in 1 .. PageSize - 1
    BY <1>1 DEF CopyInv, OneBuffer, copy_begin
  <2>2. PICK h \in HeapPages \ {prog} :
          /\ tmp' = h * PageSize
          /\ mem' = [b \in 0 .. Word - 1 |-> IF b \in tmp' .. tmp' + s - 1 THEN 0 ELSE mem[b]]
    BY <1>1, <2>1 DEF copy_begin
  <2>3. h \in Frames /\ h * PageSize \in Int
    BY CopyAssumption, PageTableAssumption DEF Frames
  <2>4. a \notin tmp' .. tmp' + s - 1
    <3> SUFFICES ASSUME a \in tmp' .. tmp' + s - 1 PROVE FALSE
      OBVIOUS
    <3>1. a - h * PageSize \in 0 .. PageSize - 1 /\ a = h * PageSize + (a - h * PageSize)
      BY <2>1, <2>2, <2>3, PageTableAssumption
    <3>2. a \div PageSize = h
      BY <2>3, <3>1, PageAddress
    <3> QED BY <3>2, <2>2
  <2> QED BY <2>2, <2>4
<1>2. ASSUME CopyInv, copy_in
      PROVE  Kept
  <2>1. Buffer # prog
    BY <1>2, CallAddresses DEF copy_in
  <2> QED BY <1>2, <2>1, CopyInWrites
<1>3. ASSUME CopyInv, [Next]_vars
      PROVE  [Kept]_vars
  <2>1. CASE mem' = mem
    BY <2>1
  <2> QED BY <1>1, <1>2, <1>3, <2>1
         DEF Next, copy_refused, map_tmp, switch_to_page, switch_to_kernel_page, restore_entry,
             copy_out, free_tmp
<1>4. CopyInv /\ [Next]_vars => [Kept]_vars
  BY <1>3
<1> QED BY <1>4, CopyCorrect, PTL DEF Spec, ProgramUntouched
=============================================================================
