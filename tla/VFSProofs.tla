----------------------------- MODULE VFSProofs -----------------------------
(***************************************************************************)
(* For every table size, set of objects, disk contents and amount of       *)
(* memory: holders, descriptors and private data agree, as long as the     *)
(* kzalloc of a descriptor does not fail.                                  *)
(***************************************************************************)
EXTENDS VFS, TLAPS

\* Every state with no descriptor, no private data and no open object is good.
LEMMA VfsInit == Init => VfsInv
<1> SUFFICES ASSUME Init PROVE VfsInv
  OBVIOUS
<1>1. TypeOK
  BY VfsAssumption DEF Init, TypeOK
<1>2. \A o \in Objs : ~(fd[o] > 0)
  BY DEF Init
<1>3. \A i \in Slots : file_descriptors[i] = None
  BY DEF Init
<1> QED BY <1>1, <1>2, <1>3 DEF VfsInv, OneHolderPerFd, DescriptorBehindFd,
          NoDanglingPrivate, HolderHasItsFile, UnownedOnlyLast

\* fopen of a file with a free slot.
LEMMA OpenInv ==
  ASSUME ~DescriptorOOM, VfsInv, NEW o \in Objs, open_ok(o)
  PROVE  VfsInv'
<1> USE VfsAssumption
<1>1. PICK i \in Slots, h \in FreeHandles :
        /\ IsFirst(i)
        /\ priv' = [priv EXCEPT ![h] = [name |-> name[o], pos |-> 0]]
        /\ file_descriptors' = [file_descriptors EXCEPT ![i] = h]
        /\ fd' = [fd EXCEPT ![o] = index(i)]
        /\ stat' = IF index(i) < MAX_FILE_DESCRIPTORS /\ name[o] \in Files
                   THEN [stat EXCEPT ![o] = FileSize[name[o]]] ELSE stat
  <2>1. PICK i \in Slots, h \in FreeHandles :
          /\ IsFirst(i)
          /\ priv' = [priv EXCEPT ![h] = [name |-> name[o], pos |-> 0]]
          /\ \E d \in make_descriptor(h) :
               /\ file_descriptors' = [file_descriptors EXCEPT ![i] = d]
               /\ stat' = IF index(i) < MAX_FILE_DESCRIPTORS /\ d # None
                          THEN [stat EXCEPT ![o] = fat16_stat(name[o], stat[o])] ELSE stat
          /\ fd' = [fd EXCEPT ![o] = index(i)]
    BY DEF open_ok
  <2>2. h # None /\ make_descriptor(h) = {h}
    BY <2>1 DEF make_descriptor, FreeHandles
  <2>3. /\ file_descriptors' = [file_descriptors EXCEPT ![i] = h]
        /\ stat' = IF index(i) < MAX_FILE_DESCRIPTORS
                   THEN [stat EXCEPT ![o] = fat16_stat(name[o], stat[o])] ELSE stat
    BY <2>1, <2>2
  <2>4. name[o] \notin Files => [stat EXCEPT ![o] = fat16_stat(name[o], stat[o])] = stat
    BY DEF VfsInv, TypeOK, fat16_stat
  <2>5. name[o] \in Files => fat16_stat(name[o], stat[o]) = FileSize[name[o]]
    BY DEF fat16_stat
  <2>6. stat' = IF index(i) < MAX_FILE_DESCRIPTORS /\ name[o] \in Files
                THEN [stat EXCEPT ![o] = FileSize[name[o]]] ELSE stat
    BY <2>3, <2>4, <2>5
  <2> QED BY <2>1, <2>3, <2>6
<1>2. fd[o] = 0 /\ name[o] \in Files \cup Dirs /\ UNCHANGED <<fs, name, mode, got>>
  BY DEF open_ok, OpenRefused
<1>3. TypeOK
  BY DEF VfsInv
<1>4. /\ i \in Slots /\ i \in Int /\ file_descriptors[i] = None
      /\ index(i) = i + 1 /\ index(i) \in 1 .. MAX_FILE_DESCRIPTORS
      /\ h \in Handles /\ h # None /\ priv[h] = None
      /\ [name |-> name[o], pos |-> 0] \in Private
  BY <1>1, <1>2 DEF IsFirst, FreeSlots, FreeHandles, Slots, index, Private
<1>5. \A j \in Slots : file_descriptors'[j] = IF j = i THEN h ELSE file_descriptors[j]
  BY <1>1, <1>3, <1>4 DEF TypeOK
<1>6. \A p \in Objs : fd'[p] = IF p = o THEN i + 1 ELSE fd[p]
  BY <1>1, <1>3, <1>4 DEF TypeOK
<1>7. \A g \in Handles : priv'[g] = IF g = h THEN [name |-> name[o], pos |-> 0] ELSE priv[g]
  BY <1>1, <1>3, <1>4 DEF TypeOK
<1>8. \A p \in Objs : fd[p] \in 0 .. MAX_FILE_DESCRIPTORS /\ (fd[p] > 0 => fd[p] - 1 \in Slots)
  BY <1>3 DEF TypeOK, Slots
<1>9. \A j \in Slots : file_descriptors[j] \in Handles \cup {None} /\ file_descriptors[j] # h
  BY <1>3, <1>4 DEF TypeOK, VfsInv, NoDanglingPrivate
<1>10. \A p \in Objs : fd[p] > 0 => fd[p] # i + 1
  BY <1>4, <1>8 DEF VfsInv, DescriptorBehindFd
<1>11. TypeOK'
  <2>1. stat' \in [Objs -> 0 .. Word - 1 \cup {None}]
    BY <1>1, <1>3 DEF TypeOK
  <2>2. priv' \in [Handles -> Private \cup {None}]
    BY <1>1, <1>3, <1>4 DEF TypeOK
  <2>3. fd' \in [Objs -> 0 .. MAX_FILE_DESCRIPTORS]
    BY <1>1, <1>3, <1>4 DEF TypeOK
  <2> QED BY <1>1, <1>2, <1>3, <1>4, <2>1, <2>2, <2>3 DEF TypeOK
<1>12. OneHolderPerFd'
  BY <1>6, <1>8, <1>10, <1>4, <1>2 DEF VfsInv, OneHolderPerFd
<1>13. DescriptorBehindFd'
  BY <1>4, <1>5, <1>6, <1>8 DEF VfsInv, DescriptorBehindFd
<1>14. NoDanglingPrivate'
  BY <1>4, <1>5, <1>7, <1>9 DEF VfsInv, NoDanglingPrivate
<1>15. HolderHasItsFile'
  <2> SUFFICES ASSUME NEW p \in Objs, fd'[p] > 0
               PROVE  /\ LET g == file_descriptors'[fd'[p] - 1]
                         IN  g # None => priv'[g].name = name'[p]
                      /\ name'[p] \in Files /\ fd'[p] < MAX_FILE_DESCRIPTORS
                           => stat'[p] = FileSize[name'[p]]
    BY DEF HolderHasItsFile
  <2>1. CASE p = o
    <3>1. fd'[p] - 1 = i /\ file_descriptors'[i] = h /\ priv'[h].name = name[o]
      BY <2>1, <1>4, <1>5, <1>6, <1>7
    <3>2. name[o] \in Files /\ i + 1 < MAX_FILE_DESCRIPTORS => stat'[o] = FileSize[name[o]]
      BY <1>1, <1>3, <1>4 DEF TypeOK
    <3> QED BY <2>1, <3>1, <3>2, <1>2, <1>4, <1>6
  <2>2. CASE p # o
    <3>1. fd'[p] = fd[p] /\ fd[p] > 0 /\ fd[p] - 1 \in Slots /\ fd[p] - 1 # i /\ name'[p] = name[p]
      BY <2>2, <1>2, <1>4, <1>6, <1>8, <1>10
    <3>2. stat'[p] = stat[p]
      BY <2>2, <1>1, <1>3 DEF TypeOK
    <3>3. file_descriptors'[fd[p] - 1] = file_descriptors[fd[p] - 1]
      BY <3>1, <1>5
    <3>4. file_descriptors[fd[p] - 1] # None => priv'[file_descriptors[fd[p] - 1]] = priv[file_descriptors[fd[p] - 1]]
      BY <3>1, <1>7, <1>9
    <3> QED BY <3>1, <3>2, <3>3, <3>4 DEF VfsInv, HolderHasItsFile
  <2> QED BY <2>1, <2>2
<1>16. UnownedOnlyLast'
  <2> SUFFICES ASSUME NEW j \in Slots, file_descriptors'[j] # None, \A p \in Objs : fd'[p] # j + 1
               PROVE  j = MAX_FILE_DESCRIPTORS - 1
    BY DEF UnownedOnlyLast
  <2>1. j # i
    BY <1>6
  <2>2. \A p \in Objs : fd[p] # j + 1
    <3> SUFFICES ASSUME NEW p \in Objs, fd[p] = j + 1 PROVE FALSE
      OBVIOUS
    <3>1. p # o
      BY <1>2 DEF Slots
    <3> QED BY <3>1, <1>6
  <2> QED BY <2>1, <2>2, <1>5 DEF VfsInv, UnownedOnlyLast
<1> QED BY <1>11, <1>12, <1>13, <1>14, <1>15, <1>16 DEF VfsInv

\* fopen with the table full: private data that nothing points to.
LEMMA TableFullInv ==
  ASSUME VfsInv, NEW o \in Objs, open_table_full(o)
  PROVE  VfsInv'
<1> USE VfsAssumption
<1>1. PICK h \in FreeHandles : priv' = [priv EXCEPT ![h] = [name |-> name[o], pos |-> 0]]
  BY DEF open_table_full
<1>2. name[o] \in Files \cup Dirs /\ UNCHANGED <<file_descriptors, fs, name, mode, fd, stat, got>>
  BY DEF open_table_full, OpenRefused
<1>3. TypeOK
  BY DEF VfsInv
<1>4. h \in Handles /\ priv[h] = None /\ [name |-> name[o], pos |-> 0] \in Private
  BY <1>1, <1>2 DEF FreeHandles, Private
<1>5. \A g \in Handles : g # h => priv'[g] = priv[g]
  BY <1>1, <1>3, <1>4 DEF TypeOK
<1>6. \A j \in Slots : file_descriptors[j] # h
  BY <1>4 DEF VfsInv, NoDanglingPrivate
<1>7. \A j \in Slots : file_descriptors[j] # None => priv'[file_descriptors[j]] = priv[file_descriptors[j]]
  BY <1>3, <1>5, <1>6 DEF TypeOK
<1>8. TypeOK'
  BY <1>1, <1>2, <1>3, <1>4 DEF TypeOK
<1>9. NoDanglingPrivate'
  BY <1>2, <1>7 DEF VfsInv, NoDanglingPrivate
<1>10. HolderHasItsFile'
  <2>1. \A p \in Objs : fd[p] > 0 => fd[p] - 1 \in Slots
    BY <1>3 DEF TypeOK, Slots
  <2> QED BY <1>2, <1>7, <2>1 DEF VfsInv, HolderHasItsFile
<1> QED BY <1>2, <1>8, <1>9, <1>10 DEF VfsInv, OneHolderPerFd, DescriptorBehindFd, UnownedOnlyLast

\* A seek moves the position of one descriptor.
LEMMA SeekInv ==
  ASSUME VfsInv, NEW o \in Objs, NEW offset \in Offsets, NEW whence, seekg(o, offset, whence)
  PROVE  VfsInv'
<1> USE VfsAssumption
<1>1. PICK h : h = get_file_descriptor(fd[o]) /\ h # None
  BY DEF seekg
<1>2. UNCHANGED <<file_descriptors, fs, name, mode, fd, stat, got>>
  BY DEF seekg
<1>3. TypeOK
  BY DEF VfsInv
<1>4. h \in Handles /\ fd[o] - 1 \in Slots /\ h = file_descriptors[fd[o] - 1]
  BY <1>1, <1>3 DEF TypeOK, get_file_descriptor, Slots
<1>5. priv[h] \in Private
  <2>1. priv[h] # None
    BY <1>1, <1>4 DEF VfsInv, NoDanglingPrivate
  <2> QED BY <1>3, <1>4, <2>1 DEF TypeOK
<1>6. PICK q \in 0 .. Word - 1 : priv' = [priv EXCEPT ![h].pos = q]
  <2>1. CASE whence = "SET" /\ priv' = [priv EXCEPT ![h].pos = offset]
    BY <2>1
  <2>2. CASE whence = "CUR" /\ priv' = [priv EXCEPT ![h].pos = (@ + offset) % Word]
    <3>1. (priv[h].pos + offset) % Word \in 0 .. Word - 1
      BY <1>5 DEF Private
    <3> QED BY <2>2, <3>1
  <2> QED BY <2>1, <2>2, <1>1 DEF seekg, fat16_seek
<1>7. /\ priv'[h] \in Private /\ priv'[h].name = priv[h].name
      /\ \A g \in Handles : g # h => priv'[g] = priv[g]
      /\ priv' \in [Handles -> Private \cup {None}]
  <2>1. priv' = [priv EXCEPT ![h] = [priv[h] EXCEPT !.pos = q]]
    BY <1>6
  <2>2. [priv[h] EXCEPT !.pos = q] \in Private /\ [priv[h] EXCEPT !.pos = q].name = priv[h].name
    BY <1>5 DEF Private
  <2> HIDE DEF Private
  <2> QED BY <1>3, <1>4, <2>1, <2>2 DEF TypeOK
<1>8. TypeOK'
  BY <1>2, <1>3, <1>7 DEF TypeOK
<1>9. NoDanglingPrivate'
  <2>1. \A j \in Slots : file_descriptors[j] # None => priv'[file_descriptors[j]] # None
    BY <1>3, <1>4, <1>7 DEF TypeOK, VfsInv, NoDanglingPrivate
  <2> QED BY <1>2, <2>1 DEF VfsInv, NoDanglingPrivate
<1>10. HolderHasItsFile'
  <2>1. \A p \in Objs : fd[p] > 0 => fd[p] - 1 \in Slots
    BY <1>3 DEF TypeOK, Slots
  <2>2. \A j \in Slots : file_descriptors[j] # None =>
          priv'[file_descriptors[j]].name = priv[file_descriptors[j]].name
    BY <1>3, <1>4, <1>7 DEF TypeOK
  <2> QED BY <1>2, <2>1, <2>2 DEF VfsInv, HolderHasItsFile
<1> QED BY <1>2, <1>8, <1>9, <1>10 DEF VfsInv, OneHolderPerFd, DescriptorBehindFd, UnownedOnlyLast

\* file::close, of a descriptor that fclose finds and of one that it does not.
LEMMA CloseInv ==
  ASSUME VfsInv, NEW o \in Objs, close(o)
  PROVE  VfsInv'
<1> USE VfsAssumption
<1>1. fd[o] > 0 /\ fd' = [fd EXCEPT ![o] = 0] /\ UNCHANGED <<fs, name, mode, stat, got>>
  BY DEF close
<1>2. TypeOK
  BY DEF VfsInv
<1>3. fd[o] \in 1 .. MAX_FILE_DESCRIPTORS /\ fd[o] - 1 \in Slots
  BY <1>1, <1>2 DEF TypeOK, Slots
<1>4. \A p \in Objs : fd'[p] = IF p = o THEN 0 ELSE fd[p]
  BY <1>1, <1>2 DEF TypeOK
<1>5. \A p \in Objs : fd[p] \in 0 .. MAX_FILE_DESCRIPTORS /\ (fd[p] > 0 => fd[p] - 1 \in Slots)
  BY <1>2 DEF TypeOK, Slots
<1>6. \A p \in Objs : p # o /\ fd[p] > 0 => fd[p] # fd[o]
  BY <1>1 DEF VfsInv, OneHolderPerFd
<1>7. fd' \in [Objs -> 0 .. MAX_FILE_DESCRIPTORS]
  BY <1>1, <1>2 DEF TypeOK
<1>8. OneHolderPerFd'
  BY <1>4, <1>5 DEF VfsInv, OneHolderPerFd
<1>9. CASE get_file_descriptor(fd[o]) = None
  <2>1. UNCHANGED <<file_descriptors, priv>>
    BY <1>9 DEF close, fclose
  <2>2. fd[o] = MAX_FILE_DESCRIPTORS
    <3>1. file_descriptors[fd[o] - 1] # None
      BY <1>1 DEF VfsInv, DescriptorBehindFd
    <3> QED BY <1>3, <1>9, <3>1 DEF get_file_descriptor
  <2>3. TypeOK'
    BY <1>1, <1>2, <1>7, <2>1 DEF TypeOK
  <2>4. UnownedOnlyLast'
    <3> SUFFICES ASSUME NEW j \in Slots, file_descriptors[j] # None, \A p \in Objs : fd'[p] # j + 1,
                        j # MAX_FILE_DESCRIPTORS - 1
                 PROVE  FALSE
      BY <2>1 DEF UnownedOnlyLast
    <3>1. \A p \in Objs : fd[p] # j + 1
      BY <1>4, <2>2 DEF Slots
    <3> QED BY <3>1 DEF VfsInv, UnownedOnlyLast
  <2>5. DescriptorBehindFd' /\ HolderHasItsFile'
    BY <1>1, <1>4, <2>1 DEF VfsInv, DescriptorBehindFd, HolderHasItsFile
  <2>6. NoDanglingPrivate'
    BY <2>1 DEF VfsInv, NoDanglingPrivate
  <2> QED BY <1>8, <2>3, <2>4, <2>5, <2>6 DEF VfsInv
<1>10. CASE get_file_descriptor(fd[o]) # None
  <2>1. PICK h : h = get_file_descriptor(fd[o])
    OBVIOUS
  <2>2. PICK k \in Slots : k = fd[o] - 1
    BY <1>3
  <2>3. h = file_descriptors[k] /\ h \in Handles /\ k \in Int
    BY <1>2, <1>3, <1>10, <2>1, <2>2 DEF get_file_descriptor, TypeOK, Slots
  <2>4. priv' = [priv EXCEPT ![h] = None] /\ file_descriptors' = [file_descriptors EXCEPT ![k] = None]
    BY <1>10, <2>1, <2>2 DEF close, fclose
  <2>5. \A j \in Slots : file_descriptors'[j] = IF j = k THEN None ELSE file_descriptors[j]
    BY <1>2, <2>4 DEF TypeOK
  <2>6. \A j \in Slots : j # k /\ file_descriptors[j] # None =>
          priv'[file_descriptors[j]] = priv[file_descriptors[j]]
    <3>1. \A j \in Slots : j # k => file_descriptors[j] # h
      BY <2>3, <1>10, <2>1 DEF VfsInv, NoDanglingPrivate
    <3> QED BY <1>2, <2>4, <3>1 DEF TypeOK
  <2>7. \A p \in Objs : p # o /\ fd[p] > 0 => fd[p] - 1 # k
    BY <1>3, <1>5, <1>6, <2>2
  <2>8. TypeOK'
    BY <1>1, <1>2, <1>7, <2>3, <2>4 DEF TypeOK
  <2>9. DescriptorBehindFd'
    BY <1>4, <1>5, <2>5, <2>7 DEF VfsInv, DescriptorBehindFd
  <2>10. NoDanglingPrivate'
    BY <2>5, <2>6 DEF VfsInv, NoDanglingPrivate
  <2>11. HolderHasItsFile'
    BY <1>1, <1>4, <1>5, <2>5, <2>6, <2>7 DEF VfsInv, HolderHasItsFile
  <2>12. UnownedOnlyLast'
    <3> SUFFICES ASSUME NEW j \in Slots, file_descriptors'[j] # None, \A p \in Objs : fd'[p] # j + 1
                 PROVE  j = MAX_FILE_DESCRIPTORS - 1
      BY DEF UnownedOnlyLast
    <3>1. j # k /\ file_descriptors[j] # None
      BY <2>5
    <3>2. \A p \in Objs : fd[p] # j + 1
      BY <1>3, <1>4, <2>2, <3>1 DEF Slots
    <3> QED BY <3>1, <3>2 DEF VfsInv, UnownedOnlyLast
  <2> QED BY <1>8, <2>8, <2>9, <2>10, <2>11, <2>12 DEF VfsInv
<1> QED BY <1>9, <1>10

\* A new object in the place of a closed one.
LEMMA ConstructInv ==
  ASSUME VfsInv, NEW o \in Objs, NEW nm \in Names, NEW md \in Modes, construct(o, nm, md)
  PROVE  VfsInv'
<1>1. /\ fd[o] = 0 /\ UNCHANGED <<file_descriptors, priv, fs, fd, got>>
      /\ name' = [name EXCEPT ![o] = nm] /\ mode' = [mode EXCEPT ![o] = md]
      /\ stat' = [stat EXCEPT ![o] = None]
  BY DEF construct
<1>2. TypeOK
  BY DEF VfsInv
<1>3. \A p \in Objs : p # o => name'[p] = name[p] /\ stat'[p] = stat[p]
  BY <1>1, <1>2 DEF TypeOK
<1>4. TypeOK'
  BY <1>1, <1>2 DEF TypeOK
<1>5. HolderHasItsFile'
  BY <1>1, <1>3 DEF VfsInv, HolderHasItsFile
<1> QED BY <1>1, <1>4, <1>5 DEF VfsInv, OneHolderPerFd, DescriptorBehindFd,
          NoDanglingPrivate, UnownedOnlyLast

\* A read changes nothing but what was read last.
LEMMA ReadInv ==
  ASSUME VfsInv, NEW o \in Objs, NEW size, NEW nmemb, read(o, size, nmemb)
  PROVE  VfsInv' /\ (got' # None /\ name[got'.by] \in Files => got'.name = name[got'.by])
<1> USE VfsAssumption
<1>1. PICK h : h = get_file_descriptor(fd[o])
  OBVIOUS
<1>2. fd[o] > 0 /\ UNCHANGED <<file_descriptors, priv, fs, name, mode, fd, stat>>
  BY DEF read
<1>3. TypeOK
  BY DEF VfsInv
<1>4. h # None => h = file_descriptors[fd[o] - 1] /\ fd[o] - 1 \in Slots /\ h \in Handles
  BY <1>1, <1>2, <1>3 DEF get_file_descriptor, TypeOK, Slots
<1>5. h # None => priv[h] \in Private /\ priv[h].name = name[o]
  <2>1. h # None => priv[h] # None /\ priv[h].name = name[o]
    BY <1>2, <1>4 DEF VfsInv, NoDanglingPrivate, HolderHasItsFile
  <2> QED BY <1>3, <1>4, <2>1 DEF TypeOK
<1>6. CASE got' = None
  BY <1>2, <1>3, <1>6 DEF TypeOK, VfsInv, OneHolderPerFd, DescriptorBehindFd,
     NoDanglingPrivate, HolderHasItsFile, UnownedOnlyLast
<1>7. CASE got' # None
  <2>1. h # None /\ \E nm \in fat16_read(h) : got' = [by |-> o, name |-> nm, pos |-> priv[h].pos]
    BY <1>1, <1>7 DEF read, fread
  <2>2. PICK nm \in fat16_read(h) : got' = [by |-> o, name |-> nm, pos |-> priv[h].pos]
    BY <2>1
  <2>3. nm \in Files \cup Dirs /\ (name[o] \in Files => nm = name[o]) /\ priv[h].pos \in 0 .. Word - 1
    BY <1>5, <2>1 DEF fat16_read, Private
  <2>4. got'.by = o /\ got'.name = nm
    BY <2>2
  <2>5. got' \in [by : Objs, name : Files \cup Dirs, pos : 0 .. Word - 1]
    BY <2>2, <2>3
  <2>6. TypeOK'
    BY <1>2, <1>3, <2>5 DEF TypeOK
  <2> QED BY <1>2, <2>3, <2>4, <2>6 DEF VfsInv, OneHolderPerFd, DescriptorBehindFd,
            NoDanglingPrivate, HolderHasItsFile, UnownedOnlyLast
<1> QED BY <1>6, <1>7

\* Every step keeps the invariant when descriptors can be allocated.
LEMMA VfsStep == ~DescriptorOOM /\ VfsInv /\ [Next]_vars => VfsInv'
<1> SUFFICES ASSUME ~DescriptorOOM, VfsInv, [Next]_vars PROVE VfsInv'
  OBVIOUS
<1>1. CASE UNCHANGED vars
  BY <1>1 DEF vars, VfsInv, TypeOK, OneHolderPerFd, DescriptorBehindFd,
     NoDanglingPrivate, HolderHasItsFile, UnownedOnlyLast
<1>2. ASSUME NEW o \in Objs, open(o) PROVE VfsInv'
  BY <1>1, <1>2, OpenInv, TableFullInv DEF open, open_refused
<1> QED BY <1>1, <1>2, ReadInv, CloseInv, SeekInv, ConstructInv DEF Next

\* As long as a descriptor can be allocated, no two open objects share one, a
\* descriptor stands behind each, none dangles, and only the last descriptor
\* of the table is ever left behind by a close.
THEOREM VfsCorrect == ~DescriptorOOM => (Spec => []VfsInv)
<1> SUFFICES ASSUME ~DescriptorOOM PROVE Spec => []VfsInv
  OBVIOUS
<1>1. VfsInv /\ [Next]_vars => VfsInv'
  BY VfsStep
<1> QED BY <1>1, VfsInit, PTL DEF Spec

\* Two open objects never have the same descriptor.
THEOREM VfsOneHolderPerFd == ~DescriptorOOM => (Spec => []OneHolderPerFd)
<1> SUFFICES ASSUME ~DescriptorOOM PROVE Spec => []OneHolderPerFd
  OBVIOUS
<1>1. VfsInv => OneHolderPerFd
  BY DEF VfsInv
<1> QED BY <1>1, VfsCorrect, PTL

\* No descriptor points to freed private data or to another's.
THEOREM VfsNoDanglingPrivate == ~DescriptorOOM => (Spec => []NoDanglingPrivate)
<1> SUFFICES ASSUME ~DescriptorOOM PROVE Spec => []NoDanglingPrivate
  OBVIOUS
<1>1. VfsInv => NoDanglingPrivate
  BY DEF VfsInv
<1> QED BY <1>1, VfsCorrect, PTL

\* A read of a regular file is always of the file its object was constructed
\* with.
THEOREM VfsReadsOwnFile == ~DescriptorOOM => (Spec => ReadsOwnFile)
<1> SUFFICES ASSUME ~DescriptorOOM PROVE Spec => ReadsOwnFile
  OBVIOUS
<1> DEFINE Own == got' # got /\ got' # None /\ name[got'.by] \in Files => got'.name = name[got'.by]
<1>1. VfsInv /\ [Next]_vars => [Own]_vars
  <2> SUFFICES ASSUME VfsInv, [Next]_vars, got' # got, got' # None, name[got'.by] \in Files
               PROVE  got'.name = name[got'.by]
    OBVIOUS
  <2>1. \E o \in Objs : \E size, nmemb \in {0, 1} : read(o, size, nmemb)
    BY DEF Next, vars, open, open_refused, open_ok, open_table_full,
       seekg, close, construct
  <2> QED BY <2>1, ReadInv
<1> QED BY <1>1, VfsCorrect, PTL DEF Spec, ReadsOwnFile

\* A close leaves no descriptor behind but the last one of the table.
THEOREM VfsUnownedOnlyLast == ~DescriptorOOM => (Spec => []UnownedOnlyLast)
<1> SUFFICES ASSUME ~DescriptorOOM PROVE Spec => []UnownedOnlyLast
  OBVIOUS
<1>1. VfsInv => UnownedOnlyLast
  BY DEF VfsInv
<1> QED BY <1>1, VfsCorrect, PTL

\* An fopen that has a slot and a descriptor to put there loses no private data.
LEMMA OpenKeepsPrivate ==
  ASSUME ~DescriptorOOM, VfsInv, NEW o \in Objs, open_ok(o)
  PROVE  Orphans' \subseteq Orphans
<1>1. PICK i \in Slots, h \in FreeHandles :
        /\ IsFirst(i)
        /\ priv' = [priv EXCEPT ![h] = [name |-> name[o], pos |-> 0]]
        /\ \E d \in make_descriptor(h) :
             file_descriptors' = [file_descriptors EXCEPT ![i] = d]
  BY DEF open_ok
<1>2. file_descriptors' = [file_descriptors EXCEPT ![i] = h]
  BY <1>1 DEF make_descriptor
<1>3. file_descriptors[i] = None /\ priv[h] = None
  BY <1>1 DEF IsFirst, FreeSlots, FreeHandles
<1>4. \A g \in Orphans' : g # h
  BY <1>2 DEF Orphans, VfsInv, TypeOK
<1>5. \A g \in Orphans' : priv[g] # None /\ g # None /\ \A j \in Slots : file_descriptors[j] # g
  BY <1>1, <1>2, <1>3, <1>4, VfsAssumption DEF Orphans, VfsInv, TypeOK
<1> QED BY <1>5 DEF Orphans

\* A close frees what stands behind the descriptor that it releases.
LEMMA CloseKeepsPrivate ==
  ASSUME VfsInv, NEW o \in Objs, close(o)
  PROVE  Orphans' \subseteq Orphans
<1> DEFINE h == get_file_descriptor(fd[o])
<1>1. CASE h = None
  BY <1>1 DEF close, fclose, Orphans
<1>2. CASE h # None
  <2>1. /\ priv' = [priv EXCEPT ![h] = None]
        /\ file_descriptors' = [file_descriptors EXCEPT ![fd[o] - 1] = None]
    BY <1>2 DEF close, fclose
  <2>2. h = file_descriptors[fd[o] - 1]
    BY <1>2 DEF get_file_descriptor
  <2>3. \A g \in Orphans' : priv[g] # None /\ g # h
    BY <2>1 DEF Orphans, VfsInv, TypeOK
  <2> QED BY <2>1, <2>2, <2>3 DEF Orphans, VfsInv, TypeOK
<1> QED BY <1>1, <1>2

\* A seek moves a position that a descriptor leads to.
LEMMA SeekKeepsPrivate ==
  ASSUME VfsInv, NEW o \in Objs, NEW offset, NEW whence, seekg(o, offset, whence)
  PROVE  Orphans' \subseteq Orphans
<1> DEFINE h == get_file_descriptor(fd[o])
<1>1. h # None /\ UNCHANGED file_descriptors
  BY DEF seekg
<1>2. h = file_descriptors[fd[o] - 1] /\ fd[o] - 1 \in Slots
  BY <1>1, VfsAssumption DEF get_file_descriptor, seekg, VfsInv, TypeOK, Slots
<1>3. \E v : priv' = [priv EXCEPT ![h] = v]
  BY DEF seekg, fat16_seek
<1>4. \A g \in Handles : g # h => priv'[g] = priv[g]
  BY <1>3 DEF VfsInv, TypeOK
<1> QED BY <1>1, <1>2, <1>4 DEF Orphans

\* As long as a descriptor can be allocated, private data is lost by nothing but
\* an fopen that finds the table full.
THEOREM VfsLeakOnlyWhenFull == ~DescriptorOOM => (Spec => LeakOnlyWhenFull)
<1> SUFFICES ASSUME ~DescriptorOOM PROVE Spec => LeakOnlyWhenFull
  OBVIOUS
<1> DEFINE Leak == Orphans' \ Orphans # {} => FreeSlots = {}
<1>1. VfsInv /\ [Next]_vars => [Leak]_vars
  <2> SUFFICES ASSUME VfsInv, Next PROVE Leak
    OBVIOUS
  <2>1. PICK o \in Objs :
          \/ open(o) \/ close(o)
          \/ \E size, nmemb \in {0, 1} : read(o, size, nmemb)
          \/ \E offset \in Offsets, whence \in {"SET", "CUR"} : seekg(o, offset, whence)
          \/ \E nm \in Names, md \in Modes : construct(o, nm, md)
    BY DEF Next
  <2>2. CASE open(o)
    <3>1. CASE open_refused(o)
      BY <3>1 DEF open_refused, vars, Orphans
    <3>2. CASE open_ok(o)
      BY <3>2, OpenKeepsPrivate
    <3>3. CASE open_table_full(o)
      BY <3>3 DEF open_table_full
    <3> QED BY <2>2, <3>1, <3>2, <3>3 DEF open
  <2>3. CASE \E size, nmemb \in {0, 1} : read(o, size, nmemb)
    BY <2>3 DEF read, Orphans
  <2>4. CASE close(o)
    BY <2>4, CloseKeepsPrivate
  <2>5. CASE \E offset \in Offsets, whence \in {"SET", "CUR"} : seekg(o, offset, whence)
    BY <2>5, SeekKeepsPrivate
  <2>6. CASE \E nm \in Names, md \in Modes : construct(o, nm, md)
    BY <2>6 DEF construct, Orphans
  <2> QED BY <2>1, <2>2, <2>3, <2>4, <2>5, <2>6
<1> QED BY <1>1, VfsCorrect, PTL DEF Spec, LeakOnlyWhenFull
=============================================================================
