------------------------------ MODULE FatOpen ------------------------------
(***************************************************************************)
(* Mounting the disk and opening a file: vfs::initialize, fs_resolve,      *)
(* disk_init and fat16_resolve; fopen with the path parser, fat16_open     *)
(* with the search of the root directory, and fclose. The heap is the      *)
(* number of objects that a call has allocated and not freed.              *)
(*                                                                         *)
(* Every step that reads the disk first waits for the drive, which the     *)
(* driver polls. Allocations succeed here: VFS and Process have the ones   *)
(* that fail. One file is open at a time: VFS has the table of them.       *)
(***************************************************************************)
EXTENDS Integers, FiniteSets, SequencesExt

CONSTANTS
  SectorSize,    \* DISK_SECTOR_SIZE: 512
  PerCluster,    \* sectors_per_cluster
  Header,        \* the boot sector: reserved, fats, per_fat, root_entries
  EntrySize,     \* the bytes of a directory entry: 32
  Files,         \* the files of the disk
  Subdirs,       \* its directories
  Filename, Ext, \* the padded 8.3 name of each in its entry
  SubdirSize,    \* the bytes of the entries of each directory
  Paths, Modes,  \* what fopen is called with, as sequences of characters
  Lower,         \* the lower case of each letter that has one
  None

ClusterSize == PerCluster * SectorSize
Names == Files \cup Subdirs

\* A field of an entry is filled up with blanks, and has no other.
Blank == " "
Padded(s) == \A i, j \in DOMAIN s : i < j /\ s[i] = Blank => s[j] = Blank

ASSUME FatAssumption ==
  /\ SectorSize \in Nat \ {0} /\ PerCluster \in Nat \ {0} /\ EntrySize \in Nat \ {0}
  /\ Header \in [reserved : Nat, fats : Nat, per_fat : Nat, root_entries : Nat \ {0}]
  /\ (Header.root_entries * EntrySize) % SectorSize = 0
  /\ Files \cap Subdirs = {} /\ {"free", "deleted", None} \cap Names = {}
  /\ None # "FAT16"
  /\ Filename \in [Names -> Seq(STRING) \ {<<>>}] /\ Ext \in [Names -> Seq(STRING) \ {<<>>}]
  /\ \A n \in Names : Padded(Filename[n]) /\ Filename[n][1] # Blank /\ Padded(Ext[n])
  /\ Paths \subseteq Seq(STRING) /\ Modes \subseteq Seq(STRING)
  /\ SubdirSize \in [Subdirs -> Nat \ {0}]

VARIABLES
  pc,        \* the next step of the call that is running, "ready" when none is
  drive,     \* the drive: "idle", or its answer to the last command
  disk,      \* disk.fs, disk.fs_private_data # NULL, and the private data's
             \* root_dir.total and root_dir.ending_sector_pos
  streams,   \* the disk streams that are allocated
  dir,       \* the entries of the root directory: an item, "deleted" or "free"
  call,      \* fopen: the path and the mode, and what is parsed of the path
  made,      \* the objects allocated and not freed since fopen was called
  item,      \* the item behind the descriptor that is open, None if none is
  dangling,  \* its directory was freed when it could not be loaded
  twice      \* memory was freed that had been freed
openVars == <<disk, streams, dir, call, made, item, dangling, twice>>

NoCall == [text |-> <<>>, mode |-> None, rest |-> <<>>, parts |-> <<>>]

\* What disk_init starts with.
NoDisk == [fs |-> None, private |-> FALSE, total |-> 0, ending |-> 0]

\* A directory has no two items of one name, and ends with a free entry.
OpenInit ==
  /\ pc = "boot" /\ drive = "idle"
  /\ disk = NoDisk /\ streams = 0
  /\ dir \in [1 .. Header.root_entries -> Names \cup {"free", "deleted"}]
  /\ dir[Header.root_entries] = "free"
  /\ \A i, j \in DOMAIN dir : dir[i] = dir[j] /\ dir[i] \in Names => i = j
  /\ call = NoCall /\ made = 0
  /\ item = None /\ dangling = FALSE /\ twice = FALSE

----------------------------------------------------------------------------
\* disk_read_sectors gives the drive its command ...
disk_read_sectors(reading) ==
  /\ reading /\ drive = "idle"
  /\ drive' = "busy"
  /\ UNCHANGED <<pc, openVars>>

\* ... polls its status, of which it tests the data request bit alone ...
poll ==
  /\ drive \in {"busy", "failed"}
  /\ UNCHANGED <<pc, drive, openVars>>

\* ... and the drive answers, with the data or with an error.
drive_answers ==
  /\ drive = "busy"
  /\ drive' \in {"ready", "failed"}
  /\ UNCHANGED <<pc, openVars>>

\* The sector is copied from the data port.
Transferred == drive = "ready" /\ drive' = "idle"

----------------------------------------------------------------------------
\* The entries before the first free one.
Used(d) == {i \in DOMAIN d : \A j \in 1 .. i : d[j] # "free"}

\* Mutant: the entries after the first free one are counted too.
total_items_all(d) == Cardinality({i \in DOMAIN d : d[i] # "deleted"})

\* fat16_get_total_items_for_directory counts those that are not deleted.
fat16_get_total_items_for_directory(d) ==
  Cardinality({i \in Used(d) : d[i] # "deleted"})

\* The table of filesystems as fs_init leaves it.
filesystems == <<"FAT16">>

\* vfs::initialize calls disk_init, and that the resolve of each filesystem.
\* fat16_resolve starts: private data with three streams, a stream of its own,
\* and the disk already bound.
fat16_resolve ==
  /\ pc = "boot"
  /\ disk' = [NoDisk EXCEPT !.fs = filesystems[1], !.private = TRUE]
  /\ streams' = 4
  /\ pc' = "header"
  /\ UNCHANGED <<drive, dir, call, made, item, dangling, twice>>

\* The boot sector has not the signature: the private data is freed, but not
\* its streams, and the disk is still bound.
resolve_fails ==
  /\ pc = "header" /\ Transferred
  /\ disk' = [disk EXCEPT !.private = FALSE]
  /\ streams' = streams - 1
  /\ pc' = "resolved"
  /\ UNCHANGED <<dir, call, made, item, dangling, twice>>

\* It has it.
resolve_header ==
  /\ pc = "header" /\ Transferred
  /\ pc' = "root"
  /\ UNCHANGED openVars

\* fat16_get_root_directory: its sectors follow the tables.
root_dir_sector_pos == Header.fats * Header.per_fat + Header.reserved

fat16_get_root_directory ==
  /\ pc = "root" /\ Transferred
  /\ disk' = [disk EXCEPT
                !.total = fat16_get_total_items_for_directory(dir),
                !.ending = root_dir_sector_pos
                             + (Header.root_entries * EntrySize) \div SectorSize]
  /\ streams' = streams - 1
  /\ pc' = "resolved"
  /\ UNCHANGED <<dir, call, made, item, dangling, twice>>

\* Mutant: disk_init leaves the disk as resolve has bound it.
fs_resolve_unassigned ==
  /\ pc = "resolved"
  /\ pc' = "ready"
  /\ UNCHANGED <<drive, openVars>>

\* fs_resolve returns the filesystem whose resolve gave 0, or NULL, and
\* disk_init binds the disk to that.
fs_resolve ==
  /\ pc = "resolved"
  /\ disk' = [disk EXCEPT !.fs = IF disk.private THEN filesystems[1] ELSE None]
  /\ pc' = "ready"
  /\ UNCHANGED <<drive, streams, dir, call, made, item, dangling, twice>>

----------------------------------------------------------------------------
\* path_format_is_valid: the path starts with a slash.
path_format_is_valid(path) == path # <<>> /\ path[1] = "/"

\* fopen calls path_parse.
fopen(path, mode) ==
  /\ pc = "ready" /\ item = None
  /\ call' = [text |-> path, mode |-> mode, parts |-> <<>>,
              rest |-> IF path_format_is_valid(path) THEN path ELSE <<>>]
  /\ made' = 0
  /\ pc' = "parse"
  /\ UNCHANGED <<drive, disk, streams, dir, item, dangling, twice>>

\* get_and_remove_prefix_path skips a slash ...
skip_slash ==
  /\ pc = "parse" /\ call.rest # <<>> /\ Head(call.rest) = "/"
  /\ call' = [call EXCEPT !.rest = Tail(@)]
  /\ UNCHANGED <<pc, drive, disk, streams, dir, made, item, dangling, twice>>

\* Where the first of a character is, 0 if nowhere.
strchr(s, stop) == SelectInSeq(s, LAMBDA c : c = stop)

\* What is before it, or all.
UpTo(s, stop) == IF strchr(s, stop) = 0 THEN s ELSE SubSeq(s, 1, strchr(s, stop) - 1)

\* Mutant: the string of the last part ends a character too early.
parse_one_path_part_short ==
  /\ pc = "parse" /\ call.rest # <<>> /\ Head(call.rest) # "/"
  /\ LET part == UpTo(call.rest, "/")
         cut  == IF part = call.rest THEN SubSeq(part, 1, Len(part) - 1) ELSE part
     IN  call' = [call EXCEPT !.parts = Append(@, cut),
                              !.rest = SubSeq(@, Len(part) + 1, Len(@))]
  /\ made' = made + 2
  /\ UNCHANGED <<pc, drive, disk, streams, dir, item, dangling, twice>>

\* ... or takes what is before the next one, and parse_one_path_part makes a
\* part of it: two objects, the part and its string.
parse_one_path_part ==
  /\ pc = "parse" /\ call.rest # <<>> /\ Head(call.rest) # "/"
  /\ LET part == UpTo(call.rest, "/")
     IN  call' = [call EXCEPT !.parts = Append(@, part),
                              !.rest = SubSeq(@, Len(part) + 1, Len(@))]
  /\ made' = made + 2
  /\ UNCHANGED <<pc, drive, disk, streams, dir, item, dangling, twice>>

\* get_file_mode_by_string looks at the first character.
get_file_mode_by_string(str) ==
  CASE str # <<>> /\ str[1] = "r" -> "FILE_MODE_READ"
    [] str # <<>> /\ str[1] = "w" -> "FILE_MODE_WRITE"
    [] str # <<>> /\ str[1] = "a" -> "FILE_MODE_APPEND"
    [] OTHER -> "FILE_MODE_INVALID"

\* The path is parsed. There may be no part, no filesystem, or a mode that is
\* invalid or that fat16_open refuses.
path_parse ==
  /\ pc = "parse" /\ call.rest = <<>>
  /\ pc' = IF /\ call.parts # <<>> /\ disk.fs # None
              /\ get_file_mode_by_string(call.mode) = "FILE_MODE_READ"
           THEN "search" ELSE "returned"
  /\ UNCHANGED <<drive, openVars>>

----------------------------------------------------------------------------
\* fat16_to_proper_string: up to the first blank or the end of the field.
fat16_to_proper_string(s) == UpTo(s, Blank)

\* DATA    TXT becomes DATA.TXT.
fat16_get_full_relative_filename(n) ==
  fat16_to_proper_string(Filename[n])
    \o (IF Ext[n][1] # Blank THEN <<".">> \o fat16_to_proper_string(Ext[n]) ELSE <<>>)

tolower(c) == IF c \in DOMAIN Lower THEN Lower[c] ELSE c

\* strcasecmp = 0.
strcasecmp(s, t) ==
  Len(s) = Len(t) /\ \A i \in DOMAIN s : tolower(s[i]) = tolower(t[i])

\* fat16_find_item_in_directory looks at as many entries as the root directory
\* has items, deleted ones included.
fat16_find_item_in_directory(name) ==
  LET hits == {i \in 1 .. disk.total :
                 dir[i] \in Names /\ strcasecmp(fat16_get_full_relative_filename(dir[i]), name)}
  IN  IF hits = {} THEN None ELSE dir[CHOOSE i \in hits : TRUE]

\* The objects of an item: itself, and a copy of a file's entry or a directory
\* with its entries, unless fat16_load_fat_directory freed them.
item_objects(n, freed) == IF n \in Files THEN 2 ELSE IF freed THEN 1 ELSE 3

\* fat16_load_fat_directory reads the entries from the clusters of a directory.
\* Behind the first cluster the FAT entry may be anything, and the read may
\* fail: the directory is freed and returned all the same.
load_freed(n) ==
  IF n \in Subdirs /\ SubdirSize[n] > ClusterSize THEN BOOLEAN ELSE {FALSE}

\* fat16_get_directory_entry with the item of the first part: for a longer path
\* its type, 0 or 1, is compared with the attribute 0x10, so that it is given
\* up, without being freed.
fat16_get_directory_entry(found) == IF Len(call.parts) > 1 THEN None ELSE found

Found == fat16_find_item_in_directory(call.parts[1])

\* fat16_open, and fopen's descriptor: two objects more.
fat16_open ==
  /\ pc = "search"
  /\ IF Found \in Subdirs THEN Transferred ELSE UNCHANGED drive
  /\ item' = fat16_get_directory_entry(Found)
  /\ \E freed \in load_freed(Found) :
       /\ dangling' = (item' # None /\ freed)
       /\ made' = made + (IF Found = None THEN 0 ELSE item_objects(Found, freed))
                      + (IF item' = None THEN 0 ELSE 2)
  /\ pc' = "returned"
  /\ UNCHANGED <<disk, streams, dir, call, twice>>

\* fopen returns: nobody has its parts any more, and what counts from here on
\* is what stands behind the descriptor.
fopen_returns ==
  /\ pc = "returned"
  /\ made' = IF item = None THEN 0 ELSE made - 2 * Len(call.parts)
  /\ call' = NoCall
  /\ pc' = "ready"
  /\ UNCHANGED <<drive, disk, streams, dir, item, dangling, twice>>

\* Mutant: the item is not freed.
fclose_descriptor_only ==
  /\ pc = "ready" /\ item # None
  /\ made' = made - 2
  /\ twice' = (twice \/ dangling)
  /\ item' = None /\ dangling' = FALSE
  /\ UNCHANGED <<pc, drive, disk, streams, dir, call>>

\* fclose: the item with its directory, also when that was freed, the private
\* data and the descriptor.
fclose ==
  /\ pc = "ready" /\ item # None
  /\ made' = made - item_objects(item, dangling) - 2
  /\ twice' = (twice \/ dangling)
  /\ item' = None /\ dangling' = FALSE
  /\ UNCHANGED <<pc, drive, disk, streams, dir, call>>

\* The steps of mounting and opening that read the disk.
OpenReads == pc \in {"header", "root"} \/ (pc = "search" /\ Found \in Subdirs)

OpenSteps ==
  \/ fat16_resolve \/ resolve_fails \/ resolve_header \/ fat16_get_root_directory \/ fs_resolve
  \/ skip_slash \/ parse_one_path_part \/ path_parse \/ fat16_open \/ fopen_returns

----------------------------------------------------------------------------
\* The longest stretches of a path without a slash: where each begins and ends.
Spans(s) ==
  {p \in (DOMAIN s) \X (DOMAIN s) :
     /\ p[1] <= p[2] /\ \A k \in p[1] .. p[2] : s[k] # "/"
     /\ p[1] = 1 \/ s[p[1] - 1] = "/"
     /\ p[2] = Len(s) \/ s[p[2] + 1] = "/"}

\* How many of them begin no later than one does, itself included.
Rank(s, p) == Cardinality({q \in Spans(s) : q[1] <= p[1]})
Span(s, k) == CHOOSE p \in Spans(s) : Rank(s, p) = k

\* The components of a path: these stretches, in order.
Components(s) ==
  [k \in 1 .. Cardinality(Spans(s)) |-> SubSeq(s, Span(s, k)[1], Span(s, k)[2])]

Asked == IF call.text # <<>> /\ call.text[1] = "/" THEN Components(call.text) ELSE <<>>

\* The parser loses nothing of a path and adds nothing to it: at every point the
\* parts and the components of what is left are those of the path, however many
\* slashes are before, between and behind them; a path that does not start with
\* a slash has no parts.
PartsAreComponents ==
  pc \in {"parse", "search", "returned"} => call.parts \o Components(call.rest) = Asked

\* The name of an item without its padding.
NameOf(n) ==
  LET text(s) == SubSeq(s, 1, Cardinality({i \in DOMAIN s : s[i] # Blank}))
  IN  text(Filename[n]) \o (IF text(Ext[n]) = <<>> THEN <<>> ELSE <<".">> \o text(Ext[n]))

\* What the path of the call names in the root directory, in any case of letters.
Named ==
  {n \in {dir[i] : i \in Used(dir)} \ {"deleted"} :
     /\ Len(Asked) = 1 /\ Len(NameOf(n)) = Len(Asked[1])
     /\ \A k \in DOMAIN Asked[1] : tolower(NameOf(n)[k]) = tolower(Asked[1][k])}

\* fopen opens nothing but the item of the root directory that the path names:
\* no deleted one, none behind the end of the directory, none for a longer path
\* and none when there is no FAT16 disk. And it opens that item, unless an entry
\* of the directory is deleted: then the search may end before it.
OpensWhatIsThere ==
  pc = "returned" =>
    /\ item # None => item \in Named /\ disk.private /\ call.mode[1] = "r"
    /\ disk.fs # None /\ call.mode # <<>> /\ call.mode[1] = "r" /\ Named # {}
         => item \in Named \/ \E i \in Used(dir) : dir[i] = "deleted"

\* After boot the disk is bound to FAT16 exactly if the private data is there
\* with the root directory in it; the three streams are allocated either way,
\* and nobody has them when it is not.
MountedOrNothing ==
  pc \notin {"boot", "header", "root", "resolved"} =>
    /\ streams = 3
    /\ IF disk.fs # None THEN disk.private /\ disk.ending > root_dir_sector_pos ELSE disk = NoDisk

\* What fopen allocates is freed by fclose, but for the parts of the path, which
\* are lost with every call, and the item that the first part of a longer path
\* names. Nothing is freed twice unless a directory is longer than a cluster.
LeaksOnlyParts ==
  /\ pc = "ready" /\ item = None => made = 0
  /\ pc = "returned" /\ item = None /\ Len(Asked) < 2 => made = 2 * Len(Asked)
  /\ twice => \E i \in Used(dir) : dir[i] \in Subdirs /\ SubdirSize[dir[i]] > ClusterSize
=============================================================================
