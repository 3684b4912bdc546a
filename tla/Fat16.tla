------------------------------- MODULE Fat16 -------------------------------
(***************************************************************************)
(* Reading a file of a FAT16 disk that FatOpen has opened: the nested      *)
(* loops of a read (arch/x86/fs/fat16.c), down to the sectors of           *)
(* disk_stream_read (arch/x86/disk/stream.c).                              *)
(*                                                                         *)
(* A byte of the disk is its position. A read is the sequence of the       *)
(* positions that it copies, with Junk for what it takes from outside the  *)
(* one-sector buffer on the stack.                                         *)
(***************************************************************************)
EXTENDS FatOpen

CONSTANTS
  ChainOf,       \* the clusters of each file, in order
  Words,         \* what the 16 bits read for a FAT entry may be
  EndWords,      \* those of them that end a walk: 0, 0xFF0, 0xFF6 ... 0xFF8, 0xFFF
  Word,          \* 2^32: the position is a uint32_t, the offset of a read an int
  Offsets, Sizes, Counts,  \* the positions, sizes and nmemb of reads
  Junk

ASSUME ReadAssumption ==
  /\ ChainOf \in [Files -> Seq(Nat \ {0, 1})] /\ \A f \in Files : ChainOf[f] # <<>>
  /\ EndWords \subseteq Words /\ Words \subseteq Nat
  /\ Word \in Nat \ {0} /\ ClusterSize <= Word \div 2
  /\ Offsets \subseteq 0 .. Word - 1 /\ Counts \subseteq Nat \ {0}
  /\ Sizes \subseteq 1 .. (Word \div 2) - 1  \* there is no buffer of 2^31 bytes
  /\ Junk \notin Nat

VARIABLE
  rd   \* the read that is running or was the last one: the first cluster of the
       \* item; offset, size and count as asked; i of fat16_read; offset and left
       \* of fat16_read_internal_from_stream; cluster_to_use and the clusters
       \* still to walk; position and total of disk_stream_read; what has been
       \* copied to the caller's buffer; the result
vars == <<pc, drive, openVars, rd>>

EIO == -5

NoRead ==
  [start |-> 0, want |-> [offset |-> 0, size |-> 0, count |-> 0], member |-> 0,
   offset |-> 0, left |-> 0, cluster |-> 0, ahead |-> 0, pos |-> 0, total |-> 0,
   out |-> <<>>, res |-> 0]

Init == OpenInit /\ rd = NoRead

----------------------------------------------------------------------------
\* fat16_read of the open item: the first member. A directory's item is not a
\* fat_directory_item, and what is read for its cluster may be anything.
fat16_read(off, size, count) ==
  /\ pc = "ready" /\ item # None
  /\ \E first \in IF item \in Files THEN {ChainOf[item][1]} ELSE Words :
       rd' = [NoRead EXCEPT !.start = first, !.offset = off, !.left = size,
                            !.want = [offset |-> off, size |-> size, count |-> count]]
  /\ pc' = "locate"
  /\ UNCHANGED <<drive, openVars>>

\* The int that a number is when it is taken for one, and the remainder of an
\* int in C: that of a negative one is negative.
IntOf(x) == LET w == x % Word IN IF w < Word \div 2 THEN w ELSE w - Word
Rem(x, n) == IF x < 0 THEN -((-x) % n) ELSE x % n

\* fat16_read_internal_from_stream: the cluster of the offset is looked for
\* from the first one. An offset from 2^31 on is negative: no cluster ahead.
locate ==
  /\ pc = "locate"
  /\ LET offset == IntOf(rd.offset)
     IN  rd' = [rd EXCEPT !.cluster = rd.start,
                          !.ahead = IF offset < 0 THEN 0 ELSE offset \div ClusterSize]
  /\ pc' = "walk"
  /\ UNCHANGED <<drive, openVars>>

\* fat16_get_cluster_for_offset: one FAT entry. The position it is read from
\* is the product, not the sum, of the table's and the entry's, so that the
\* word may be anything.
walk ==
  /\ pc = "walk" /\ rd.ahead > 0 /\ Transferred
  /\ \E entry \in Words :
       IF entry \in EndWords
       THEN pc' = "ready" /\ rd' = [rd EXCEPT !.res = EIO]
       ELSE pc' = pc /\ rd' = [rd EXCEPT !.cluster = entry, !.ahead = @ - 1]
  /\ UNCHANGED openVars

fat16_cluster_to_sector(c) == disk.ending + (c - 2) * PerCluster

\* Never more than a cluster, from wherever in the cluster.
total_to_read(n) == IF n > ClusterSize THEN ClusterSize ELSE n

\* The stream is set to the position.
seek ==
  /\ pc = "walk" /\ rd.ahead = 0
  /\ rd' = [rd EXCEPT
              !.pos = fat16_cluster_to_sector(rd.cluster) * SectorSize
                        + Rem(IntOf(rd.offset), ClusterSize),
              !.total = total_to_read(rd.left)]
  /\ pc' = "stream"
  /\ UNCHANGED <<drive, openVars>>

\* The bytes of the one-sector buffer from the stream's position.
tmp_buf(q, n) ==
  [k \in 1 .. n |-> IF Rem(q, SectorSize) + k \in 1 .. SectorSize THEN q + k - 1 ELSE Junk]

\* disk_stream_read: a sector, of which a sector's worth of bytes is copied from
\* the offset of the position, or all that is left.
disk_stream_read ==
  /\ pc = "stream" /\ rd.total > 0 /\ Transferred
  /\ LET n == IF rd.total > SectorSize THEN SectorSize ELSE rd.total
     IN  rd' = [rd EXCEPT !.out = @ \o tmp_buf(rd.pos, n), !.pos = @ + n, !.total = @ - n]
  /\ UNCHANGED <<pc, openVars>>

\* The stream has what was asked of it: the whole rest of the member or not.
Streamed == pc = "stream" /\ rd.total = 0
MemberRead == Streamed /\ rd.left = total_to_read(rd.left)

\* Mutant: the size of the rest stays what it was.
more_all ==
  /\ Streamed /\ ~MemberRead
  /\ rd' = [rd EXCEPT !.out = <<>>]
  /\ pc' = "locate"
  /\ UNCHANGED <<drive, openVars>>

\* The rest of the member, from the first cluster again.
more ==
  /\ Streamed /\ ~MemberRead
  /\ rd' = [rd EXCEPT !.offset = @ + total_to_read(rd.left), !.left = @ - total_to_read(rd.left)]
  /\ pc' = "locate"
  /\ UNCHANGED <<drive, openVars>>

\* Mutant: the same member is read again.
next_member_same ==
  /\ MemberRead /\ rd.member + 1 < rd.want.count
  /\ rd' = [rd EXCEPT !.member = @ + 1, !.offset = rd.want.offset, !.left = rd.want.size]
  /\ pc' = "locate"
  /\ UNCHANGED <<drive, openVars>>

\* The next member of fat16_read.
next_member ==
  /\ MemberRead /\ rd.member + 1 < rd.want.count
  /\ rd' = [rd EXCEPT !.member = @ + 1, !.left = rd.want.size,
                      !.offset = rd.want.offset + (rd.member + 1) * rd.want.size]
  /\ pc' = "locate"
  /\ UNCHANGED <<drive, openVars>>

\* fat16_read returns nmemb; the position of the descriptor does not move.
done ==
  /\ MemberRead /\ rd.member + 1 = rd.want.count
  /\ rd' = [rd EXCEPT !.res = rd.want.count]
  /\ pc' = "ready"
  /\ UNCHANGED <<drive, openVars>>

\* fclose; the reads of the file are over.
close == fclose /\ rd' = NoRead

Reading ==
  OpenReads \/ (pc = "walk" /\ rd.ahead > 0) \/ (pc = "stream" /\ rd.total > 0)

\* What the kernel does by itself once it is called.
Kernel ==
  \/ (OpenSteps \/ disk_read_sectors(Reading) \/ poll) /\ UNCHANGED rd
  \/ locate \/ walk \/ seek \/ disk_stream_read \/ more \/ next_member \/ done

Answer == drive_answers /\ UNCHANGED rd

Next ==
  \/ Kernel \/ Answer
  \/ \E path \in Paths, mode \in Modes : fopen(path, mode) /\ UNCHANGED rd
  \/ close
  \/ \E off \in Offsets, size \in Sizes, count \in Counts : fat16_read(off, size, count)

\* The kernel goes on by itself, and a drive that has a command answers it, if
\* with an error; nobody has to call fopen, fread or fclose.
Spec == Init /\ [][Next]_vars /\ WF_vars(Kernel) /\ WF_vars(Answer)

----------------------------------------------------------------------------
\* The sectors of the data area begin after the root directory.
DataStart ==
  Header.reserved + Header.fats * Header.per_fat
    + (Header.root_entries * EntrySize + SectorSize - 1) \div SectorSize

\* The byte of the file at an offset, where there is one.
FileByte(f, k) ==
  IF k \div ClusterSize < Len(ChainOf[f])
  THEN (DataStart + (ChainOf[f][(k \div ClusterSize) + 1] - 2) * PerCluster) * SectorSize
         + (k % ClusterSize)
  ELSE None

AskedBytes == rd.want.size * rd.want.count
Returned == pc = "ready" /\ item \in Files /\ rd.out # <<>> /\ rd.res > 0

\* The reads that disk_stream_read and the FAT entries do not garble: from the
\* start of a sector, within the first cluster, and in whole sectors or in one
\* member.
Sound ==
  /\ rd.want.offset % SectorSize = 0 /\ rd.want.offset + AskedBytes <= ClusterSize
  /\ rd.want.count = 1 \/ rd.want.size % SectorSize = 0

\* However a read is cut into members, clusters and sectors, fat16_read never
\* copies more than was asked for, copies all of it when it returns nmemb, and
\* copies the bytes of the file, in order, when the read is a sound one.
ReadIsExact ==
  /\ Len(rd.out) <= AskedBytes
  /\ Returned => Len(rd.out) = AskedBytes /\ rd.res = rd.want.count
  /\ Returned /\ Sound =>
       \A k \in 1 .. Len(rd.out) : rd.out[k] = FileByte(item, rd.want.offset + k - 1)

\* Mounting, opening and reading come to an end, whatever the path, the disk and
\* the sizes, unless the drive reports an error: then the driver polls for ever.
EndsUnlessDriveFails == pc # "ready" ~> (pc = "ready" \/ drive = "failed")
=============================================================================
