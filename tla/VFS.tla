-------------------------------- MODULE VFS --------------------------------
(***************************************************************************)
(* The virtual filesystem: the descriptor table of arch/x86/fs/file.c, the *)
(* per-open private data FAT16 keeps behind it (fat16_open, _seek, _close) *)
(* and the C++ class lava::file of core/file.cc that the kernel uses.      *)
(*                                                                         *)
(* A file object runs open, seekg, read and close any number of times; its *)
(* destructor closes it, after which the object is constructed again with  *)
(* any name and mode. What a read returns byte by byte is FAT16's affair;  *)
(* here a read is of a file at a position.                                 *)
(***************************************************************************)
EXTENDS Integers

CONSTANTS
  MAX_FILE_DESCRIPTORS,  \* 512 in file.h
  Objs,                  \* the lava::file objects
  Names,                 \* the paths the objects are constructed with
  Files,                 \* the paths that name a regular file of the disk
  Dirs,                  \* the paths that name a directory of its root
  FileSize,              \* the size in bytes of each regular file
  Handles,               \* the addresses kzalloc has for private data
  Offsets,               \* the offsets given to seekg
  Word,                  \* 2^32: fat_file_descriptor.pos is a uint32_t
  DescriptorOOM,         \* may the kzalloc of a file_descriptor return NULL?
  None                   \* NULL

\* struct fat_file_descriptor: the file or directory and the position.
Private == [name : Files \cup Dirs, pos : 0 .. Word - 1]

ASSUME VfsAssumption ==
  /\ MAX_FILE_DESCRIPTORS \in Nat \ {0}
  /\ Files \subseteq Names /\ Dirs \subseteq Names /\ Files \cap Dirs = {}
  /\ Word \in Nat \ {0}
  /\ FileSize \in [Files -> 0 .. Word - 1]
  /\ Offsets \subseteq 0 .. Word - 1
  /\ DescriptorOOM \in BOOLEAN
  /\ None \notin Handles /\ None \notin Private

VARIABLES
  file_descriptors,  \* file_descriptors[i]: None, or the private data (fd->p) of fd i + 1
  priv,              \* the fat_file_descriptor at each address, None if it is free
  fs,                \* disk->fs # NULL: fs_resolve found a filesystem at boot
  name, mode, fd,    \* the members _name, _mode and _fd of each object
  stat,              \* its member _stat.filesize, None while it is uninitialised
  got                \* what the last read returned: the file and position, or None
vars == <<file_descriptors, priv, fs, name, mode, fd, stat, got>>

Slots == 0 .. MAX_FILE_DESCRIPTORS - 1
Modes == {"r", "w", "a"}

\* fs_init clears the table, disk_init binds whatever fs_resolve returns.
Init ==
  /\ file_descriptors = [i \in Slots |-> None]
  /\ priv = [h \in Handles |-> None]
  /\ fs \in BOOLEAN
  /\ name \in [Objs -> Names] /\ mode \in [Objs -> Modes]
  /\ fd = [o \in Objs |-> 0] /\ stat = [o \in Objs |-> None]
  /\ got = None

----------------------------------------------------------------------------
\* Mutant: descriptors numbered from 2.
index_off_by_one(i) == i + 2

\* File descriptor will start at 1.
index(i) == i + 1

\* Mutant: the bound is one too low.
get_file_descriptor_low(n) ==
  IF n <= 0 \/ n >= MAX_FILE_DESCRIPTORS - 1 THEN None
  ELSE file_descriptors[n - 1]

\* Mutant: the table indexed with the descriptor number.
get_file_descriptor_shifted(n) ==
  IF n <= 0 \/ n >= MAX_FILE_DESCRIPTORS THEN None
  ELSE file_descriptors[n]

\* get_file_descriptor: the test is index >= MAX_FILE_DESCRIPTORS although
\* descriptors are numbered from 1, so the last one is never found.
get_file_descriptor(n) ==
  IF n <= 0 \/ n >= MAX_FILE_DESCRIPTORS THEN None
  ELSE file_descriptors[n - 1]

FreeSlots == {i \in Slots : file_descriptors[i] = None}

\* make_new_file_descriptor takes the first slot that is NULL.
IsFirst(i) == i \in FreeSlots /\ \A j \in FreeSlots : i <= j
FreeHandles == {h \in Handles : priv[h] = None}

\* fat16_open fails, or fopen fails before it: no filesystem on the disk, no
\* such path (or an unparsable one), a mode other than "r", no memory.
OpenRefused(o) ==
  \/ ~fs
  \/ mode[o] # "r"
  \/ name[o] \notin Files \cup Dirs
  \/ FreeHandles = {}

\* fopen returns 0: file::open leaves _fd at 0.
open_refused(o) ==
  /\ fd[o] = 0
  /\ OpenRefused(o)
  /\ UNCHANGED vars

\* fat16_stat refuses a directory and leaves the size as it was.
fat16_stat(nm, old) == IF nm \in Files THEN FileSize[nm] ELSE old

\* What the kzalloc of a descriptor with private data h leaves in the table. NULL
\* is not tested: the index is written to address 0 and read back from there.
make_descriptor(h) == {h} \cup (IF DescriptorOOM THEN {None} ELSE {})

\* fat16_open succeeded and make_new_file_descriptor returned a number; then
\* fstat, which fails on a descriptor it does not find.
open_ok(o) ==
  /\ fd[o] = 0
  /\ ~OpenRefused(o)
  /\ \E i \in Slots, h \in FreeHandles :
       /\ IsFirst(i)
       /\ priv' = [priv EXCEPT ![h] = [name |-> name[o], pos |-> 0]]
       /\ \E d \in make_descriptor(h) :
            /\ file_descriptors' = [file_descriptors EXCEPT ![i] = d]
            /\ stat' = IF index(i) < MAX_FILE_DESCRIPTORS /\ d # None
                       THEN [stat EXCEPT ![o] = fat16_stat(name[o], stat[o])] ELSE stat
       /\ fd' = [fd EXCEPT ![o] = index(i)]
  /\ UNCHANGED <<fs, name, mode, got>>

\* The table is full: fopen returns 0 and the private data stays allocated.
open_table_full(o) ==
  /\ fd[o] = 0
  /\ ~OpenRefused(o)
  /\ FreeSlots = {}
  /\ \E h \in FreeHandles : priv' = [priv EXCEPT ![h] = [name |-> name[o], pos |-> 0]]
  /\ UNCHANGED <<file_descriptors, fs, name, mode, fd, stat, got>>

\* file::open; on an open object it returns at once.
open(o) == open_refused(o) \/ open_ok(o) \/ open_table_full(o)

\* fat16_seek refuses a directory and an offset outside the file; SEEK_CUR adds
\* the offset with no test of the sum; SEEK_END is not implemented.
fat16_seek(h, offset, whence) ==
  /\ priv[h].name \in Files
  /\ offset < FileSize[priv[h].name]
  /\ \/ whence = "SET" /\ priv' = [priv EXCEPT ![h].pos = offset]
     \/ whence = "CUR" /\ priv' = [priv EXCEPT ![h].pos = (@ + offset) % Word]

\* file::seekg of an object that is open; fseek refuses an unknown descriptor.
seekg(o, offset, whence) ==
  LET h == get_file_descriptor(fd[o])
  IN  /\ fd[o] > 0
      /\ h # None
      /\ fat16_seek(h, offset, whence)
      /\ UNCHANGED <<file_descriptors, fs, name, mode, fd, stat, got>>

\* The files whose bytes fat16_read may find behind private data: it does not
\* test that the item is a file, and takes for the first cluster of a directory
\* what its fat_directory has in that place.
fat16_read(h) == IF priv[h].name \in Files THEN {priv[h].name} ELSE Files \cup Dirs

\* What fread for an object may return: an error, always for an unknown
\* descriptor and for nothing to read, or bytes from the position behind the
\* descriptor, which fat16_read does not move.
fread(o, size, nmemb) ==
  LET h == get_file_descriptor(fd[o])
  IN  {None} \cup (IF size = 0 \/ nmemb = 0 \/ h = None THEN {}
                   ELSE {[by |-> o, name |-> nm, pos |-> priv[h].pos] : nm \in fat16_read(h)})

\* file::read of an object that is open.
read(o, size, nmemb) ==
  /\ fd[o] > 0
  /\ got' \in fread(o, size, nmemb)
  /\ UNCHANGED <<file_descriptors, priv, fs, name, mode, fd, stat>>

\* Mutant: fclose returns before fs->close.
close_keeps_private(o) ==
  LET h == get_file_descriptor(fd[o])
  IN  /\ fd[o] > 0
      /\ file_descriptors' =
           IF h = None THEN file_descriptors ELSE [file_descriptors EXCEPT ![fd[o] - 1] = None]
      /\ fd' = [fd EXCEPT ![o] = 0]
      /\ UNCHANGED <<priv, fs, name, mode, stat, got>>

\* fclose refuses a descriptor that it does not find; fat16_close frees the
\* private data and release_file_descriptor the slot.
fclose(n) ==
  LET h == get_file_descriptor(n)
  IN  IF h = None THEN UNCHANGED <<file_descriptors, priv>>
      ELSE /\ priv' = [priv EXCEPT ![h] = None]
           /\ file_descriptors' = [file_descriptors EXCEPT ![n - 1] = None]

\* file::close, also run by the destructor: _fd is reset whatever fclose did.
close(o) ==
  /\ fd[o] > 0
  /\ fclose(fd[o])
  /\ fd' = [fd EXCEPT ![o] = 0]
  /\ UNCHANGED <<fs, name, mode, stat, got>>

\* A closed object is destroyed and another one constructed in its place.
construct(o, nm, md) ==
  /\ fd[o] = 0
  /\ name' = [name EXCEPT ![o] = nm] /\ mode' = [mode EXCEPT ![o] = md]
  /\ stat' = [stat EXCEPT ![o] = None]
  /\ UNCHANGED <<file_descriptors, priv, fs, fd, got>>

Next ==
  \E o \in Objs :
    \/ open(o) \/ close(o)
    \/ \E size, nmemb \in {0, 1} : read(o, size, nmemb)
    \/ \E offset \in Offsets, whence \in {"SET", "CUR"} : seekg(o, offset, whence)
    \/ \E nm \in Names, md \in Modes : construct(o, nm, md)

Spec == Init /\ [][Next]_vars

----------------------------------------------------------------------------
\* The variables stay in their types; no descriptor number leaves the table and
\* no position leaves its word.
TypeOK ==
  /\ file_descriptors \in [Slots -> Handles \cup {None}]
  /\ priv \in [Handles -> Private \cup {None}]
  /\ fs \in BOOLEAN
  /\ name \in [Objs -> Names] /\ mode \in [Objs -> Modes]
  /\ fd \in [Objs -> 0 .. MAX_FILE_DESCRIPTORS]
  /\ stat \in [Objs -> 0 .. Word - 1 \cup {None}]
  /\ got = None \/ got \in [by : Objs, name : Files \cup Dirs, pos : 0 .. Word - 1]

\* Two open objects never have the same descriptor: closing one cannot close
\* the file of the other.
OneHolderPerFd == \A o, p \in Objs : fd[o] > 0 /\ fd[o] = fd[p] => o = p

\* A number that fopen returned names a descriptor: failure is returned as 0
\* (fopen: "fopen should not return negative values, return 0 indicate a
\* error. If success, it return a file descriptor.").
DescriptorBehindFd == \A o \in Objs : fd[o] > 0 => file_descriptors[fd[o] - 1] # None

\* No descriptor outlives its private data and no two share it: fread and fseek
\* never touch freed memory or another file's position.
NoDanglingPrivate ==
  \A i \in Slots : file_descriptors[i] # None =>
    /\ priv[file_descriptors[i]] # None
    /\ \A j \in Slots : file_descriptors[j] = file_descriptors[i] => i = j

\* What stands behind an object's descriptor is the file the object was
\* constructed with, whoever used that descriptor before, and size() of a
\* regular file is right unless the descriptor is the last one.
HolderHasItsFile ==
  \A o \in Objs : fd[o] > 0 =>
    /\ LET h == file_descriptors[fd[o] - 1] IN h # None => priv[h].name = name[o]
    /\ name[o] \in Files /\ fd[o] < MAX_FILE_DESCRIPTORS => stat[o] = FileSize[name[o]]

\* A read of a regular file returns bytes of the file its object was constructed
\* with.
ReadsOwnFile ==
  [][got' # got /\ got' # None /\ name[got'.by] \in Files => got'.name = name[got'.by]]_vars

\* A descriptor that no object holds any more is the last one of the table:
\* every other one was released when its holder closed it.
UnownedOnlyLast ==
  \A i \in Slots :
    file_descriptors[i] # None /\ (\A o \in Objs : fd[o] # i + 1)
      => i = MAX_FILE_DESCRIPTORS - 1

\* Private data that no descriptor points to.
Orphans == {h \in Handles : priv[h] # None /\ \A i \in Slots : file_descriptors[i] # h}

\* Private data is lost only by an fopen that finds the table full.
LeakOnlyWhenFull == [][Orphans' \ Orphans # {} => FreeSlots = {}]_vars

\* The inductive invariant: holders, descriptors and private data agree.
VfsInv ==
  /\ TypeOK /\ OneHolderPerFd /\ DescriptorBehindFd
  /\ NoDanglingPrivate /\ HolderHasItsFile /\ UnownedOnlyLast
=============================================================================
