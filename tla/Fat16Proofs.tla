---------------------------- MODULE Fat16Proofs ----------------------------
(***************************************************************************)
(* Proofs about mounting a FAT16 disk, opening and reading its files.      *)
(***************************************************************************)
EXTENDS Fat16, FiniteSetTheorems, SequenceTheorems, TLAPS

----------------------------------------------------------------------------
\* The inductive invariant.

MountSteps == {"boot", "header", "root", "resolved"}
OpeningSteps == {"parse", "search", "returned"}
ReadSteps == {"locate", "walk", "stream"}

\* The states of a read.
ReadState ==
  [start : Nat, want : [offset : Nat, size : Nat, count : Nat], member : Nat, offset : Nat,
   left : Nat, cluster : Nat, ahead : Nat, pos : Int, total : Nat,
   out : Seq(Int \cup {Junk}), res : Int]

\* The disk while it is resolved, and once it is.
RootEnding == root_dir_sector_pos + (Header.root_entries * EntrySize) \div SectorSize
Resolving == [fs |-> "FAT16", private |-> TRUE, total |-> 0, ending |-> 0]
Unresolved == [fs |-> "FAT16", private |-> FALSE, total |-> 0, ending |-> 0]
Resolved == [fs |-> "FAT16", private |-> TRUE,
             total |-> fat16_get_total_items_for_directory(dir), ending |-> RootEnding]
DiskInv ==
  /\ pc = "boot" => disk = NoDisk
  /\ pc \in {"header", "root"} => disk = Resolving
  /\ pc = "resolved" => disk \in {Unresolved, Resolved}
  /\ pc \notin MountSteps => disk \in {NoDisk, Resolved}
  /\ pc = "search" => disk = Resolved
  /\ streams = CASE pc = "boot" -> 0 [] pc \in {"header", "root"} -> 4 [] OTHER -> 3

\* Nothing is read before a file is open.
ItemInv ==
  /\ pc \in MountSteps \cup {"parse", "search"} => item = None
  /\ item = None => rd = NoRead /\ pc \notin ReadSteps
  /\ item # None => disk = Resolved
  /\ pc \in OpeningSteps => rd = NoRead

\* How far a read is: the bytes before the member, those of the member before
\* this round of fat16_read_internal, and those of the round.
RoundBytes == IF pc = "stream" THEN total_to_read(rd.left) - rd.total ELSE 0
Progress == rd.member * rd.want.size + (rd.want.size - rd.left) + RoundBytes
ProgressInv ==
  /\ pc \in ReadSteps =>
       /\ rd.want.count > 0 /\ rd.member \in 0 .. rd.want.count - 1
       /\ rd.left \in 1 .. rd.want.size
       /\ rd.offset = rd.want.offset + rd.member * rd.want.size + (rd.want.size - rd.left)
       /\ Len(rd.out) = Progress
       /\ item \in Files => rd.start = ChainOf[item][1]
  /\ pc = "stream" => rd.total \in 0 .. total_to_read(rd.left)
  /\ pc \notin ReadSteps =>
       /\ Len(rd.out) <= AskedBytes
       /\ rd.res > 0 => Len(rd.out) = AskedBytes /\ rd.res = rd.want.count

\* A sound read of a file stays in the first cluster, a member a round, and the
\* stream is at the start of a sector as long as there is something to read.
FirstByte == (RootEnding + (ChainOf[item][1] - 2) * PerCluster) * SectorSize
SoundInv ==
  item \in Files /\ Sound =>
    /\ pc \in ReadSteps => rd.left = rd.want.size
    /\ pc = "walk" => rd.ahead = 0 /\ rd.cluster = rd.start
    /\ pc = "stream" => /\ rd.pos = FirstByte + rd.want.offset + Len(rd.out)
                        /\ rd.total > 0 => rd.pos % SectorSize = 0
    /\ \A k \in 1 .. Len(rd.out) : rd.out[k] = FirstByte + rd.want.offset + (k - 1)

FatTypes ==
  /\ pc \in MountSteps \cup OpeningSteps \cup ReadSteps \cup {"ready"}
  /\ rd \in ReadState

FatInv == FatTypes /\ DiskInv /\ ItemInv /\ ProgressInv /\ SoundInv

\* The directory, and the call of fopen: what it has parsed and what is left are
\* the components of the path.
Calls == [text : Seq(STRING), mode : Seq(STRING), rest : Seq(STRING), parts : Seq(Seq(STRING))]
CallInv ==
  /\ dir \in [1 .. Header.root_entries -> Names \cup {"free", "deleted"}]
  /\ pc \in OpeningSteps => call \in Calls /\ call.parts \o Components(call.rest) = Asked
  /\ pc \in {"search", "returned"} => call.rest = <<>>
  /\ pc = "search" => call.mode # <<>> /\ call.mode[1] = "r" /\ call.parts # <<>>

\* What fopen has found when it returns.
FoundInv == pc = "returned" => OpensWhatIsThere

\* The objects of a call and of the item behind the descriptor.
TooLong(n) == n \in Subdirs /\ SubdirSize[n] > ClusterSize /\ \E i \in Used(dir) : dir[i] = n
MadeInv ==
  /\ pc \in {"parse", "search"} => made = 2 * Len(call.parts)
  /\ pc = "returned" /\ item = None /\ Len(call.parts) < 2 => made = 2 * Len(call.parts)
  /\ pc = "returned" /\ item # None =>
       made = 2 * Len(call.parts) + item_objects(item, dangling) + 2
  /\ pc \notin OpeningSteps => made = IF item = None THEN 0 ELSE item_objects(item, dangling) + 2
  /\ dangling \in BOOLEAN /\ twice \in BOOLEAN
  /\ dangling => TooLong(item)
  /\ twice => \E n \in Subdirs : TooLong(n)

PathInv == CallInv /\ FoundInv /\ MadeInv

----------------------------------------------------------------------------
\* Arithmetic.

\* Division by a positive number, with its remainder.
LEMMA Division ==
  ASSUME NEW v \in Nat, NEW d \in Nat \ {0}
  PROVE  /\ v % d \in 0 .. d - 1
         /\ v \div d \in Nat
         /\ v = (v \div d) * d + (v % d)
  OBVIOUS

\* There is only one quotient and remainder.
LEMMA DivisionUnique ==
  ASSUME NEW q \in Nat, NEW d \in Nat \ {0}, NEW r \in 0 .. d - 1
  PROVE  /\ q * d + r \in Nat
         /\ (q * d + r) \div d = q
         /\ (q * d + r) % d = r
<1> DEFINE v == q * d + r
           p == v \div d
           s == v % d
<1>1. v \in Nat
  <2>1. q * d \in Nat
    OBVIOUS
  <2> QED BY <2>1
<1>2. p \in Nat /\ s \in 0 .. d - 1 /\ v = p * d + s
  BY <1>1, Division
<1> HIDE DEF p, s
<1>3. p = q
  <2>1. CASE p < q
    <3>1. PICK e \in Nat : q = p + 1 + e
      <4>1. q - p - 1 \in Nat /\ q = p + 1 + (q - p - 1)
        BY <1>2, <2>1
      <4> QED BY <4>1
    <3>2. q * d = p * d + d + e * d /\ e * d \in Nat
      BY <3>1, <1>2
    <3> QED BY <3>2, <1>2
  <2>2. CASE q < p
    <3>1. PICK e \in Nat : p = q + 1 + e
      <4>1. p - q - 1 \in Nat /\ p = q + 1 + (p - q - 1)
        BY <1>2, <2>2
      <4> QED BY <4>1
    <3>2. p * d = q * d + d + e * d /\ e * d \in Nat
      BY <3>1, <1>2
    <3> QED BY <3>2, <1>2
  <2> QED BY <2>1, <2>2, <1>2
<1>4. s = r
  BY <1>2, <1>3
<1> QED BY <1>1, <1>3, <1>4 DEF p, s

\* What is less than the divisor.
LEMMA DivisionSmall ==
  ASSUME NEW v \in Nat, NEW d \in Nat, v < d
  PROVE  v \div d = 0 /\ v % d = v
<1>1. d \in Nat \ {0} /\ v \in 0 .. d - 1 /\ 0 * d + v = v
  OBVIOUS
<1> QED BY <1>1, DivisionUnique

\* Multiples of the size of a sector.
LEMMA MultipleOf ==
  ASSUME NEW q \in Nat, NEW d \in Nat \ {0}
  PROVE  (q * d) % d = 0 /\ (q * d) \div d = q
<1>1. q * d = q * d + 0 /\ 0 \in 0 .. d - 1
  OBVIOUS
<1> QED BY <1>1, DivisionUnique

LEMMA MultiplesAdd ==
  ASSUME NEW v \in Nat, NEW w \in Nat, NEW d \in Nat \ {0}, v % d = 0, w % d = 0
  PROVE  (v + w) % d = 0
<1>1. PICK p \in Nat : v = p * d
  <2>1. v \div d \in Nat /\ v = (v \div d) * d
    BY Division
  <2> QED BY <2>1
<1>2. PICK q \in Nat : w = q * d
  <2>1. w \div d \in Nat /\ w = (w \div d) * d
    BY Division
  <2> QED BY <2>1
<1>3. v + w = (p + q) * d /\ p + q \in Nat
  BY <1>1, <1>2
<1> QED BY <1>3, MultipleOf

LEMMA MultipleTimes ==
  ASSUME NEW v \in Nat, NEW m \in Nat, NEW d \in Nat \ {0}, v % d = 0
  PROVE  (m * v) % d = 0
<1>1. PICK p \in Nat : v = p * d
  <2>1. v \div d \in Nat /\ v = (v \div d) * d
    BY Division
  <2> QED BY <2>1
<1>2. m * v = (m * p) * d /\ m * p \in Nat
  BY <1>1
<1> QED BY <1>2, MultipleOf

----------------------------------------------------------------------------
\* The operators of the model.

LEMMA DiskSizes ==
  /\ ClusterSize \in Nat \ {0} /\ SectorSize \in Nat \ {0} /\ PerCluster \in Nat \ {0}
  /\ root_dir_sector_pos \in Nat
  /\ RootEnding \in Nat /\ RootEnding > root_dir_sector_pos
  /\ DataStart = RootEnding
<1> DEFINE x == Header.root_entries * EntrySize
           S == SectorSize
<1>1. /\ S \in Nat \ {0} /\ PerCluster \in Nat \ {0} /\ EntrySize \in Nat \ {0}
      /\ Header.reserved \in Nat /\ Header.fats \in Nat /\ Header.per_fat \in Nat
      /\ Header.root_entries \in Nat \ {0} /\ x % S = 0
  BY FatAssumption
<1>2. x \in Nat \ {0}
  BY <1>1
<1>3. ClusterSize \in Nat \ {0} /\ root_dir_sector_pos \in Nat
  BY <1>1 DEF ClusterSize, root_dir_sector_pos
<1>4. PICK q \in Nat : x = q * S /\ q = x \div S
  <2> HIDE DEF x, S
  <2>1. x \div S \in Nat /\ x = (x \div S) * S + (x % S)
    BY <1>1, <1>2, Division
  <2>2. (x \div S) * S \in Nat
    BY <1>1, <2>1
  <2> QED BY <1>1, <2>1, <2>2
<1>5. q > 0
  <2> SUFFICES ASSUME q = 0 PROVE FALSE
    BY <1>4
  <2> QED BY <1>1, <1>2, <1>4
<1>6. (x + S - 1) \div S = q
  <2> HIDE DEF x, S
  <2>1. x + S - 1 = q * S + (S - 1) /\ S - 1 \in 0 .. S - 1
    BY <1>1, <1>4
  <2> QED BY <1>1, <2>1, DivisionUnique
<1>7. RootEnding = root_dir_sector_pos + q
  BY <1>4 DEF RootEnding
<1>8. DataStart = root_dir_sector_pos + q
  <2>1. DataStart = Header.reserved + Header.fats * Header.per_fat + q
    BY <1>6 DEF DataStart
  <2>2. Header.fats * Header.per_fat \in Nat
    BY <1>1
  <2> QED BY <1>1, <2>1, <2>2 DEF root_dir_sector_pos
<1> QED BY <1>1, <1>3, <1>5, <1>7, <1>8

\* A round reads something, and never more than is left or than a cluster.
LEMMA RoundSize ==
  ASSUME NEW n \in Nat \ {0}
  PROVE  /\ total_to_read(n) \in 1 .. n
         /\ n <= ClusterSize => total_to_read(n) = n
  BY DiskSizes DEF total_to_read

\* What an int is, and the offsets of the first cluster, which are the same as ints.
LEMMA IntOfFacts ==
  ASSUME NEW x \in Nat
  PROVE  IntOf(x) \in Int /\ (x < ClusterSize => IntOf(x) = x)
<1>1. Word \in Nat \ {0} /\ Word \div 2 \in Nat /\ Word \div 2 <= Word /\ ClusterSize <= Word \div 2
  BY ReadAssumption
<1>2. x % Word \in Nat
  BY <1>1, Division
<1>3. x < Word => x % Word = x
  BY <1>1, DivisionSmall
<1> HIDE DEF ClusterSize
<1>4. IntOf(x) \in Int
  BY <1>1, <1>2 DEF IntOf
<1>5. x < ClusterSize => x < Word /\ x < Word \div 2
  BY <1>1, DiskSizes
<1> QED BY <1>3, <1>4, <1>5 DEF IntOf

LEMMA RemFacts ==
  ASSUME NEW x \in Int, NEW n \in Nat \ {0}
  PROVE  Rem(x, n) \in Int /\ (x \in Nat => Rem(x, n) = x % n)
<1>1. CASE x < 0
  <2>1. -x \in Nat
    BY <1>1
  <2>2. (-x) % n \in Nat
    BY <2>1, Division
  <2> QED BY <1>1, <2>2 DEF Rem
<1>2. CASE ~(x < 0)
  <2>1. x \in Nat
    BY <1>2
  <2> QED BY <1>2, <2>1, Division DEF Rem
<1> QED BY <1>1, <1>2

LEMMA NoReadFacts ==
  /\ NoRead \in ReadState
  /\ NoRead.out = <<>> /\ NoRead.res = 0
  /\ NoRead.want.size = 0 /\ NoRead.want.count = 0
<1>1. <<>> \in Seq(Int \cup {Junk})
  OBVIOUS
<1> QED BY <1>1 DEF NoRead, ReadState

LEMMA AskedNat ==
  ASSUME rd \in ReadState
  PROVE  AskedBytes \in Nat /\ Len(rd.out) \in Nat
  BY DEF ReadState, AskedBytes

\* What the file has at an offset in its first cluster.
LEMMA FirstCluster ==
  ASSUME item \in Files, NEW k \in Nat, k < ClusterSize
  PROVE  FileByte(item, k) = FirstByte + k
<1>1. k \div ClusterSize = 0 /\ k % ClusterSize = k
  BY DiskSizes, DivisionSmall
<1>2. Len(ChainOf[item]) > 0
  BY ReadAssumption
<1> QED BY <1>1, <1>2, DiskSizes DEF FileByte, FirstByte

\* The first byte of a file is the first of a sector.
LEMMA FirstByteAligned ==
  ASSUME item \in Files
  PROVE  FirstByte \in Nat /\ FirstByte % SectorSize = 0
<1> DEFINE c == ChainOf[item][1]
           q == RootEnding + (c - 2) * PerCluster
<1>1. c \in Nat \ {0, 1}
  BY ReadAssumption
<1>2. (c - 2) * PerCluster \in Nat
  <2> HIDE DEF c
  <2>1. c - 2 \in Nat
    BY <1>1
  <2> QED BY <2>1, DiskSizes
<1>3. q \in Nat
  BY <1>2, DiskSizes
<1> HIDE DEF q
<1>4. q * SectorSize \in Nat /\ (q * SectorSize) % SectorSize = 0
  BY <1>3, DiskSizes, MultipleOf
<1> QED BY <1>4 DEF FirstByte, q

----------------------------------------------------------------------------
\* Paths.

\* A set of naturals that is not empty has a least element.
LEMMA LeastNatural ==
  ASSUME NEW S, S \subseteq Nat, S # {}
  PROVE  \E s \in S : \A r \in S : s <= r
<1>1. PICK s \in S : \A r \in S : ~(<<r, s>> \in OpToRel(<, Nat))
  BY WFMin, NatLessThanWellFounded, Zenon
<1>2. \A r \in S : ~(r < s)
  BY <1>1 DEF OpToRel
<1> QED BY <1>2

\* strchr gives the first place of the character, or 0.
LEMMA StrchrFirst ==
  ASSUME NEW s \in Seq(STRING), NEW stop
  PROVE  \/ strchr(s, stop) = 0 /\ \A i \in 1 .. Len(s) : s[i] # stop
         \/ /\ strchr(s, stop) \in 1 .. Len(s) /\ s[strchr(s, stop)] = stop
            /\ \A i \in 1 .. strchr(s, stop) - 1 : s[i] # stop
<1> DEFINE I == {i \in 1 .. Len(s) : s[i] = stop}
<1>1. strchr(s, stop) = IF I # {} THEN Min(I) ELSE 0
  BY DEF strchr, SelectInSeq
<1>2. CASE I = {}
  BY <1>1, <1>2
<1>3. CASE I # {}
  <2>1. \E x \in I : \A y \in I : x <= y
    <3>1. I \subseteq Nat
      OBVIOUS
    <3> HIDE DEF I
    <3> QED BY <1>3, <3>1, LeastNatural
  <2>2. Min(I) \in I /\ \A y \in I : Min(I) <= y
    BY <2>1 DEF Min
  <2>3. strchr(s, stop) \in I /\ \A y \in I : strchr(s, stop) <= y
    BY <1>1, <1>3, <2>2
  <2> QED BY <2>3
<1> QED BY <1>2, <1>3

\* What a stretch is, and what is known of two.
LEMMA SpansFacts ==
  ASSUME NEW s \in Seq(STRING)
  PROVE  /\ IsFiniteSet(Spans(s)) /\ Cardinality(Spans(s)) \in Nat
         /\ \A p \in Spans(s) : /\ p = <<p[1], p[2]>> /\ p[1] \in 1 .. Len(s) /\ p[2] \in p[1] .. Len(s)
         /\ \A p, q \in Spans(s) : p[1] = q[1] => p = q
<1>1. DOMAIN s = 1 .. Len(s) /\ Len(s) \in Nat
  OBVIOUS
<1>2. \A p \in Spans(s) : /\ p = <<p[1], p[2]>> /\ p[1] \in 1 .. Len(s) /\ p[2] \in p[1] .. Len(s)
  BY <1>1 DEF Spans
<1>3. ASSUME NEW p \in Spans(s), NEW q \in Spans(s), p[1] = q[1]
      PROVE  ~(p[2] < q[2])
  <2> SUFFICES ASSUME p[2] < q[2] PROVE FALSE
    OBVIOUS
  <2>1. s[p[2] + 1] = "/"
    BY <1>1, <1>2 DEF Spans
  <2>2. \A k \in q[1] .. q[2] : s[k] # "/"
    BY DEF Spans
  <2> QED BY <1>2, <1>3, <2>1, <2>2
<1>4. ASSUME NEW p \in Spans(s), NEW q \in Spans(s), p[1] = q[1]
      PROVE  p = q
  <2>1. ~(p[2] < q[2]) /\ ~(q[2] < p[2])
    BY <1>3, <1>4
  <2>2. p[2] = q[2]
    BY <1>2, <2>1
  <2> QED BY <1>2, <1>4, <2>2
<1>5. IsFiniteSet(Spans(s))
  <2> DEFINE f == [p \in Spans(s) |-> p[1]]
  <2>1. f \in Injection(Spans(s), 1 .. Len(s))
    BY <1>2, <1>4 DEF Injection, IsInjective
  <2>2. IsFiniteSet(1 .. Len(s))
    BY <1>1, FS_Interval
  <2> QED BY <2>1, <2>2, FS_Injection
<1> QED BY <1>2, <1>4, <1>5, FS_CardinalityType

\* The ranks of the stretches are 1 to their number.
LEMMA RankFacts ==
  ASSUME NEW s \in Seq(STRING)
  PROVE  /\ \A p \in Spans(s) : Rank(s, p) \in 1 .. Cardinality(Spans(s))
         /\ \A p, q \in Spans(s) : Rank(s, p) = Rank(s, q) => p = q
         /\ \A k \in 1 .. Cardinality(Spans(s)) : \E p \in Spans(s) : Rank(s, p) = k
<1> DEFINE S == Spans(s)
           Upto(p) == {q \in S : q[1] <= p[1]}
           n == Cardinality(S)
<1>1. IsFiniteSet(S) /\ n \in Nat /\ \A p \in S : p[1] \in Nat
  BY SpansFacts
<1>2. ASSUME NEW p \in S
      PROVE  IsFiniteSet(Upto(p)) /\ Rank(s, p) = Cardinality(Upto(p)) /\ Rank(s, p) \in 1 .. n
  <2>1. IsFiniteSet(Upto(p)) /\ Cardinality(Upto(p)) <= n
    BY <1>1, FS_Subset
  <2>2. p \in Upto(p)
    BY <1>1
  <2>3. Cardinality(Upto(p)) \in Nat /\ Cardinality(Upto(p)) # 0
    BY <2>1, <2>2, FS_CardinalityType, FS_EmptySet
  <2>4. Rank(s, p) = Cardinality(Upto(p))
    BY DEF Rank
  <2> QED BY <1>1, <2>1, <2>3, <2>4
<1>3. ASSUME NEW p \in S, NEW q \in S, Rank(s, p) = Rank(s, q)
      PROVE  ~(p[1] < q[1])
  <2> SUFFICES ASSUME p[1] < q[1] PROVE FALSE
    OBVIOUS
  <2>1. Upto(p) \subseteq Upto(q) /\ q \in Upto(q) /\ q \notin Upto(p)
    BY <1>1
  <2>2. Cardinality(Upto(q)) = Cardinality(Upto(p)) /\ IsFiniteSet(Upto(q))
    BY <1>2, <1>3
  <2>3. Upto(q) = Upto(p)
    BY <2>1, <2>2, FS_Subset
  <2> QED BY <2>1, <2>3
<1>4. ASSUME NEW p \in S, NEW q \in S, Rank(s, p) = Rank(s, q)
      PROVE  p = q
  <2>1. p[1] = q[1]
    BY <1>1, <1>3, <1>4
  <2> QED BY <2>1, SpansFacts
<1>5. \A k \in 1 .. n : \E p \in S : Rank(s, p) = k
  <2> DEFINE f == [p \in S |-> Rank(s, p)]
  <2>1. f \in Injection(S, 1 .. n)
    BY <1>2, <1>4 DEF Injection, IsInjective
  <2>2. IsFiniteSet(1 .. n) /\ Cardinality(1 .. n) = n
    <3> HIDE DEF n
    <3> QED BY <1>1, FS_Interval
  <2>3. f \in Surjection(S, 1 .. n)
    BY <2>1, <2>2, FS_Injection
  <2> QED BY <2>3 DEF Surjection
<1> QED BY <1>2, <1>4, <1>5

\* A stretch in terms of its two ends.
IsSpan(s, i, j) ==
  /\ i \in 1 .. Len(s) /\ j \in 1 .. Len(s) /\ i <= j /\ \A k \in i .. j : s[k] # "/"
  /\ i = 1 \/ s[i - 1] = "/"
  /\ j = Len(s) \/ s[j + 1] = "/"

LEMMA SpanEnds ==
  ASSUME NEW s \in Seq(STRING)
  PROVE  /\ \A i, j : <<i, j>> \in Spans(s) <=> IsSpan(s, i, j)
         /\ \A p \in Spans(s) : p = <<p[1], p[2]>> /\ IsSpan(s, p[1], p[2])
<1>1. DOMAIN s = 1 .. Len(s)
  OBVIOUS
<1> QED BY <1>1 DEF Spans, IsSpan

\* Cutting off the first n characters where no stretch is cut.
Cut(s, n, r) ==
  /\ n \in 1 .. Len(s) /\ Len(r) = Len(s) - n /\ \A i \in 1 .. Len(r) : r[i] = s[i + n]
  /\ s[n] = "/" \/ n = Len(s) \/ s[n + 1] = "/"

LEMMA SpanBehind ==
  ASSUME NEW s, NEW n, NEW r, Len(s) \in Nat, Cut(s, n, r), NEW i \in Int, NEW j \in Int
  PROVE  IsSpan(r, i, j) <=> i >= 1 /\ IsSpan(s, i + n, j + n)
<1> DEFINE L == Len(s)
           R == Len(r)
<1>1. /\ n \in Nat /\ n > 0 /\ n <= L /\ L \in Nat /\ R = L - n /\ R \in Nat
      /\ \A k \in 1 .. R : r[k] = s[k + n]
      /\ s[n] = "/" \/ n = L \/ s[n + 1] = "/"
  BY DEF Cut
<1>2. \A a, b : IsSpan(r, a, b) <=>
        /\ a \in 1 .. R /\ b \in 1 .. R /\ a <= b /\ \A k \in a .. b : r[k] # "/"
        /\ a = 1 \/ r[a - 1] = "/"
        /\ b = R \/ r[b + 1] = "/"
  BY DEF IsSpan
<1>3. \A a, b : IsSpan(s, a, b) <=>
        /\ a \in 1 .. L /\ b \in 1 .. L /\ a <= b /\ \A k \in a .. b : s[k] # "/"
        /\ a = 1 \/ s[a - 1] = "/"
        /\ b = L \/ s[b + 1] = "/"
  BY DEF IsSpan
<1> HIDE DEF L, R
<1>0. PICK x \in Int, y \in Int : x = i + n /\ y = j + n
  BY <1>1
<1>4. ASSUME i \in 1 .. R, j \in 1 .. R, i <= j
      PROVE  /\ (\A k \in i .. j : r[k] # "/") <=> (\A k \in x .. y : s[k] # "/")
             /\ i # 1 => r[i - 1] = s[x - 1]
             /\ j # R => r[j + 1] = s[y + 1]
             /\ r[i] = s[x] /\ x # 1
  <2>1. ASSUME NEW k \in i .. j PROVE r[k] = s[k + n] /\ k + n \in x .. y
    BY <1>0, <1>1, <1>4
  <2>2. ASSUME NEW k \in x .. y PROVE r[k - n] = s[k] /\ k - n \in i .. j
    <3>1. k - n \in i .. j /\ k - n \in 1 .. R /\ (k - n) + n = k
      BY <1>0, <1>1, <1>4
    <3> QED BY <1>1, <3>1
  <2>3. (\A k \in i .. j : r[k] # "/") <=> (\A k \in x .. y : s[k] # "/")
    BY <2>1, <2>2
  <2>4. i # 1 => r[i - 1] = s[x - 1]
    <3> SUFFICES ASSUME i # 1 PROVE r[i - 1] = s[x - 1]
      OBVIOUS
    <3>1. i - 1 \in 1 .. R /\ (i - 1) + n = x - 1
      BY <1>0, <1>1, <1>4
    <3> QED BY <1>1, <3>1
  <2>5. j # R => r[j + 1] = s[y + 1]
    <3> SUFFICES ASSUME j # R PROVE r[j + 1] = s[y + 1]
      OBVIOUS
    <3>1. j + 1 \in 1 .. R /\ (j + 1) + n = y + 1
      BY <1>0, <1>1, <1>4
    <3> QED BY <1>1, <3>1
  <2>6. r[i] = s[x] /\ x # 1
    BY <1>0, <1>1, <1>4
  <2> QED BY <2>3, <2>4, <2>5, <2>6
<1>5. i \in 1 .. R /\ j \in 1 .. R /\ i <= j
        <=> i >= 1 /\ x \in 1 .. L /\ y \in 1 .. L /\ x <= y
  BY <1>0, <1>1
<1>6. ASSUME i \in 1 .. R, j \in 1 .. R, i <= j
      PROVE  IsSpan(r, i, j) <=> IsSpan(s, x, y)
  <2>1. j = R <=> y = L
    BY <1>0, <1>1
  <2>2. x \in 1 .. L /\ y \in 1 .. L /\ x <= y
    BY <1>5, <1>6
  <2>3. i = 1 /\ r[i] # "/" => s[x - 1] = "/"
    <3> SUFFICES ASSUME i = 1, r[i] # "/" PROVE s[x - 1] = "/"
      OBVIOUS
    <3>1. x - 1 = n /\ n # L /\ x = n + 1
      BY <1>0, <1>1, <1>6
    <3>2. s[x] # "/"
      BY <1>4, <1>6
    <3> QED BY <1>1, <3>1, <3>2
  <2>4. (\A k \in i .. j : r[k] # "/") => r[i] # "/"
    BY <1>6
  <2>5. /\ (\A k \in i .. j : r[k] # "/") <=> (\A k \in x .. y : s[k] # "/")
        /\ i # 1 => r[i - 1] = s[x - 1]
        /\ j # R => r[j + 1] = s[y + 1]
        /\ x # 1
    BY <1>4, <1>6
  <2>6. IsSpan(r, i, j) <=>
        /\ \A k \in i .. j : r[k] # "/"
        /\ i = 1 \/ r[i - 1] = "/"
        /\ j = R \/ r[j + 1] = "/"
    BY <1>2, <1>6
  <2>7. IsSpan(s, x, y) <=>
        /\ \A k \in x .. y : s[k] # "/"
        /\ s[x - 1] = "/"
        /\ y = L \/ s[y + 1] = "/"
    BY <1>3, <2>2, <2>5
  <2> QED BY <2>1, <2>3, <2>4, <2>5, <2>6, <2>7
<1>7. IsSpan(r, i, j) <=> i >= 1 /\ IsSpan(s, x, y)
  BY <1>2, <1>3, <1>5, <1>6
<1> QED BY <1>0, <1>7

\* The stretches behind the cut are those of the rest.
Moved(p, n) == <<p[1] + n, p[2] + n>>
LEMMA SpansBehind ==
  ASSUME NEW s \in Seq(STRING), NEW n, NEW r \in Seq(STRING), Cut(s, n, r)
  PROVE  /\ \A p \in Spans(r) : Moved(p, n) \in Spans(s)
         /\ \A q \in Spans(s) : q[1] > n => \E p \in Spans(r) : q = Moved(p, n)
<1>1. n \in Nat /\ Len(s) \in Nat /\ Len(r) \in Nat
  BY DEF Cut
<1>2. ASSUME NEW p \in Spans(r)
      PROVE  Moved(p, n) \in Spans(s)
  <2>1. IsSpan(r, p[1], p[2]) /\ p[1] \in Int /\ p[2] \in Int
    BY SpanEnds DEF IsSpan
  <2>2. IsSpan(s, p[1] + n, p[2] + n)
    BY <1>1, <2>1, SpanBehind
  <2> QED BY <2>2, SpanEnds DEF Moved
<1>3. ASSUME NEW q \in Spans(s), q[1] > n
      PROVE  \E p \in Spans(r) : q = Moved(p, n)
  <2> DEFINE i == q[1] - n
             j == q[2] - n
  <2>1. IsSpan(s, q[1], q[2]) /\ q[1] \in Int /\ q[2] \in Int /\ q = <<q[1], q[2]>>
    BY SpanEnds DEF IsSpan
  <2>2. i \in Int /\ j \in Int /\ i + n = q[1] /\ j + n = q[2] /\ i >= 1
    BY <1>1, <1>3, <2>1
  <2> HIDE DEF i, j
  <2>3. IsSpan(r, i, j)
    BY <1>1, <2>1, <2>2, SpanBehind
  <2>4. <<i, j>> \in Spans(r) /\ q = Moved(<<i, j>>, n)
    BY <2>1, <2>2, <2>3, SpanEnds DEF Moved
  <2> QED BY <2>4
<1> QED BY <1>2, <1>3

\* A stretch has the same characters in the rest.
Slice(s, p) == SubSeq(s, p[1], p[2])
LEMMA SameSlice ==
  ASSUME NEW s \in Seq(STRING), NEW n, NEW r \in Seq(STRING), Cut(s, n, r), NEW p \in Spans(r)
  PROVE  Slice(s, Moved(p, n)) = Slice(r, p)
<1> DEFINE a == p[1]
           b == p[2]
<1>1. a \in Nat \ {0} /\ b \in a .. Len(r)
  BY SpansFacts
<1> HIDE DEF a, b
<1> DEFINE u == SubSeq(s, a + n, b + n)
           v == SubSeq(r, a, b)
           L == Len(r)
<1>2. /\ L \in Nat /\ n \in Nat /\ Len(s) = L + n /\ a \in Nat /\ b \in Nat
      /\ a > 0 /\ a <= b /\ b <= L /\ \A i \in 1 .. L : r[i] = s[i + n]
  BY <1>1 DEF Cut
<1>3. (\A i \in a .. b : r[i] \in STRING) /\ (\A i \in a + n .. b + n : s[i] \in STRING)
  <2>1. \A i \in 1 .. L : r[i] \in STRING
    BY ElementOfSeq
  <2>2. \A i \in 1 .. L + n : s[i] \in STRING
    BY <1>2, ElementOfSeq
  <2> HIDE DEF L
  <2> QED BY <1>2, <2>1, <2>2
<1>4. v \in Seq(STRING) /\ Len(v) = b - a + 1 /\ \A i \in 1 .. b - a + 1 : v[i] = r[a + i - 1]
  BY <1>2, <1>3, SubSeqProperties
<1>5. /\ u \in Seq(STRING) /\ Len(u) = b - a + 1
      /\ \A i \in 1 .. b - a + 1 : u[i] = s[(a + n) + i - 1]
  <2> DEFINE x == a + n
             y == b + n
  <2>1. x \in Int /\ y \in Int /\ y - x + 1 = b - a + 1 /\ x <= y
    BY <1>2
  <2>2. \A i \in x .. y : s[i] \in STRING
    BY <1>3
  <2> HIDE DEF x, y
  <2>3. /\ SubSeq(s, x, y) \in Seq(STRING) /\ Len(SubSeq(s, x, y)) = y - x + 1
        /\ \A i \in 1 .. y - x + 1 : SubSeq(s, x, y)[i] = s[x + i - 1]
    BY <2>1, <2>2, SubSeqProperties
  <2> QED BY <2>1, <2>3 DEF x, y
<1>6. ASSUME NEW i \in 1 .. b - a + 1
      PROVE  u[i] = v[i]
  <2>1. a + i - 1 \in 1 .. L /\ (a + i - 1) + n = (a + n) + i - 1
    <3> HIDE DEF L
    <3> QED BY <1>2
  <2> QED BY <1>2, <1>4, <1>5, <2>1
<1> HIDE DEF u, v
<1>7. u = v
  BY <1>4, <1>5, <1>6, SeqEqual
<1> QED BY <1>7 DEF u, v, a, b, Slice, Moved

\* The components behind the cut are those of the rest.
LEMMA ComponentsBehind ==
  ASSUME NEW s \in Seq(STRING), NEW n, NEW r \in Seq(STRING), Cut(s, n, r),
         NEW m \in Nat, Cardinality({q \in Spans(s) : q[1] <= n}) = m
  PROVE  /\ Len(Components(r)) \in Nat /\ Len(Components(s)) = m + Len(Components(r))
         /\ \A k \in 1 .. Len(Components(r)) : Components(s)[m + k] = Components(r)[k]
<1> DEFINE F == {q \in Spans(s) : q[1] <= n}
           c == Cardinality(Spans(r))
<1>1. /\ r \in Seq(STRING) /\ n \in Nat /\ Len(s) \in Nat
      /\ \A p \in Spans(r) : Moved(p, n) \in Spans(s)
      /\ \A q \in Spans(s) : q[1] > n => \E p \in Spans(r) : q = Moved(p, n)
  <2>1. n \in Nat /\ Len(s) \in Nat
    BY DEF Cut
  <2> QED BY <2>1, SpansBehind
<1>2. /\ IsFiniteSet(Spans(s)) /\ IsFiniteSet(Spans(r)) /\ c \in Nat
      /\ \A p \in Spans(r) : p = <<p[1], p[2]>> /\ p[1] \in 1 .. Len(r) /\ p[2] \in p[1] .. Len(r)
      /\ \A p \in Spans(s) : p[1] \in 1 .. Len(s)
  BY <1>1, SpansFacts
<1>3. IsFiniteSet(F)
  BY <1>2, FS_Subset
<1> HIDE DEF c
\* A set of stretches of the rest, moved, together with F.
<1>4. ASSUME NEW T \in SUBSET Spans(r)
      PROVE  Cardinality(F \cup {Moved(p, n) : p \in T}) = m + Cardinality(T)
  <2> DEFINE M == {Moved(p, n) : p \in T}
             f == [p \in T |-> Moved(p, n)]
  <2>1. IsFiniteSet(T) /\ Cardinality(T) \in Nat
    BY <1>2, FS_Subset, FS_CardinalityType
  <2>2. \A p, q \in T : Moved(p, n) = Moved(q, n) => p = q
    <3> SUFFICES ASSUME NEW p \in T, NEW q \in T, Moved(p, n) = Moved(q, n)
                 PROVE  p = q
      OBVIOUS
    <3>1. p[1] + n = q[1] + n /\ p[2] + n = q[2] + n
      BY DEF Moved
    <3>2. p[1] = q[1] /\ p[2] = q[2]
      BY <1>1, <1>2, <3>1
    <3> QED BY <1>2, <3>2
  <2>3. f \in Bijection(T, M)
    BY <2>2 DEF Bijection, Injection, Surjection, IsInjective
  <2>4. IsFiniteSet(M) /\ Cardinality(M) = Cardinality(T)
    BY <2>1, <2>3, FS_Bijection DEF ExistsBijection
  <2>5. F \cap M = {}
    <3> SUFFICES ASSUME NEW p \in T, Moved(p, n) \in F PROVE FALSE
      OBVIOUS
    <3>1. Moved(p, n)[1] = p[1] + n /\ p[1] > 0 /\ p[1] \in Int
      BY <1>2 DEF Moved
    <3> QED BY <1>1, <3>1
  <2> HIDE DEF F, M
  <2>6. Cardinality(F \cup M) = m + Cardinality(T) - 0
    <3>1. Cardinality(F) = m
      BY DEF F
    <3> QED BY <1>3, <2>4, <2>5, <3>1, FS_Union, FS_EmptySet
  <2> QED BY <2>1, <2>6 DEF M
<1>5. Cardinality(Spans(s)) = m + c
  <2>1. Spans(s) = F \cup {Moved(p, n) : p \in Spans(r)}
    BY <1>1, <1>2
  <2> QED BY <1>4, <2>1 DEF c
<1>6. ASSUME NEW p \in Spans(r)
      PROVE  Rank(s, Moved(p, n)) = m + Rank(r, p)
  <2> DEFINE T == {q \in Spans(r) : q[1] <= p[1]}
  <2>1. {q \in Spans(s) : q[1] <= Moved(p, n)[1]} = F \cup {Moved(q, n) : q \in T}
    <3>1. \A q \in Spans(r) : Moved(q, n)[1] = q[1] + n /\ q[1] \in Nat /\ q[1] > 0
      BY <1>2 DEF Moved
    <3>2. \A q \in F : q \in Spans(s) /\ q[1] <= Moved(p, n)[1]
      BY <1>1, <1>2, <3>1
    <3>3. \A q \in T : Moved(q, n) \in Spans(s) /\ Moved(q, n)[1] <= Moved(p, n)[1]
      BY <1>1, <3>1
    <3>4. ASSUME NEW q \in Spans(s), q[1] <= Moved(p, n)[1], q \notin F
          PROVE  \E t \in T : q = Moved(t, n)
      <4>1. PICK t \in Spans(r) : q = Moved(t, n)
        <5>1. q[1] > n
          BY <1>1, <1>2, <3>4
        <5> QED BY <1>1, <5>1
      <4>2. t[1] + n <= p[1] + n
        BY <3>1, <3>4, <4>1
      <4> QED BY <1>1, <3>1, <4>1, <4>2
    <3> QED BY <3>2, <3>3, <3>4
  <2>2. T \in SUBSET Spans(r)
    OBVIOUS
  <2>3. Cardinality(F \cup {Moved(q, n) : q \in T}) = m + Cardinality(T)
    BY <1>4, <2>2
  <2> QED BY <2>1, <2>3 DEF Rank
<1>7. Len(Components(r)) = c /\ Len(Components(s)) = m + c
  <2>1. m + c \in Nat
    BY <1>2
  <2> QED BY <1>2, <1>5, <2>1 DEF Components, c
<1>8. ASSUME NEW k \in 1 .. c
      PROVE  Components(s)[m + k] = Components(r)[k]
  <2>1. PICK p \in Spans(r) : Rank(r, p) = k
    BY <1>1, <1>8, RankFacts DEF c
  <2>2. Span(r, k) = p
    <3>1. Span(r, k) \in Spans(r) /\ Rank(r, Span(r, k)) = k
      BY <2>1 DEF Span
    <3> QED BY <1>1, <2>1, <3>1, RankFacts
  <2>3. Span(s, m + k) = Moved(p, n)
    <3>1. Moved(p, n) \in Spans(s) /\ Rank(s, Moved(p, n)) = m + k
      BY <1>1, <1>6, <2>1
    <3>2. Span(s, m + k) \in Spans(s) /\ Rank(s, Span(s, m + k)) = m + k
      BY <3>1 DEF Span
    <3> QED BY <3>1, <3>2, RankFacts
  <2>4. Slice(s, Moved(p, n)) = Slice(r, p)
    BY SameSlice
  <2>5. Components(r)[k] = Slice(r, p)
    BY <1>2, <2>2 DEF Components, Slice, c
  <2>6. Components(s)[m + k] = Slice(s, Moved(p, n))
    <3>1. m + k \in 1 .. m + c
      BY <1>2
    <3>2. Components(s)[m + k] = Slice(s, Span(s, m + k))
      BY <3>1, <1>5 DEF Components, Slice
    <3> QED BY <2>3, <3>2
  <2> QED BY <2>4, <2>5, <2>6
<1> QED BY <1>2, <1>7, <1>8

\* The components are strings, and there are none in the empty path.
LEMMA ComponentsType ==
  ASSUME NEW s \in Seq(STRING)
  PROVE  Components(s) \in Seq(Seq(STRING))
<1>1. Cardinality(Spans(s)) \in Nat
  BY SpansFacts
<1>2. ASSUME NEW k \in 1 .. Cardinality(Spans(s))
      PROVE  SubSeq(s, Span(s, k)[1], Span(s, k)[2]) \in Seq(STRING)
  <2>1. Span(s, k) \in Spans(s)
    BY RankFacts DEF Span
  <2>2. Span(s, k)[1] \in 1 .. Len(s) /\ Span(s, k)[2] \in 1 .. Len(s)
    BY <2>1, SpanEnds DEF IsSpan
  <2> QED BY <2>2
<1> DEFINE n == Cardinality(Spans(s))
<1>3. Components(s) \in [1 .. n -> Seq(STRING)] /\ n \in Nat
  BY <1>1, <1>2 DEF Components
<1> HIDE DEF n
<1> QED BY <1>3, SeqDef

LEMMA ComponentsOfEmpty == Components(<<>>) = <<>>
<1>1. Spans(<<>>) = {}
  BY DEF Spans
<1>2. Cardinality(Spans(<<>>)) = 0
  BY <1>1, FS_EmptySet
<1> QED BY <1>2 DEF Components

\* Skipping a slash loses no component.
LEMMA SkipKeepsComponents ==
  ASSUME NEW s \in Seq(STRING), s # <<>>, Head(s) = "/"
  PROVE  Tail(s) \in Seq(STRING) /\ Components(Tail(s)) = Components(s)
<1> DEFINE r == Tail(s)
           F == {q \in Spans(s) : q[1] <= 1}
<1>1. r \in Seq(STRING) /\ Len(s) \in Nat /\ Len(s) > 0 /\ Len(r) = Len(s) - 1
      /\ s[1] = "/" /\ \A i \in 1 .. Len(r) : r[i] = s[i + 1]
  OBVIOUS
<1>2. Cut(s, 1, r)
  BY <1>1 DEF Cut
<1>3. F = {}
  <2> SUFFICES ASSUME NEW q \in Spans(s), q[1] <= 1 PROVE FALSE
    OBVIOUS
  <2>1. IsSpan(s, q[1], q[2])
    BY SpanEnds
  <2>2. q[1] = 1 /\ 1 \in q[1] .. q[2]
    BY <2>1 DEF IsSpan
  <2> QED BY <1>1, <2>1, <2>2 DEF IsSpan
<1>4. Cardinality(F) = 0
  BY <1>3, FS_EmptySet
<1> HIDE DEF r
<1>5. /\ Len(Components(r)) \in Nat /\ Len(Components(s)) = 0 + Len(Components(r))
      /\ \A k \in 1 .. Len(Components(r)) : Components(s)[0 + k] = Components(r)[k]
  BY <1>1, <1>2, <1>4, ComponentsBehind
<1>6. Components(s) \in Seq(Seq(STRING)) /\ Components(r) \in Seq(Seq(STRING))
  BY <1>1, ComponentsType
<1>7. Components(r) = Components(s)
  <2>1. Len(Components(s)) = Len(Components(r))
        /\ \A k \in 1 .. Len(Components(r)) : Components(s)[k] = Components(r)[k]
    BY <1>5
  <2> QED BY <1>6, <2>1, SeqEqual
<1> QED BY <1>1, <1>7 DEF r

\* What is before a character, and what is behind that.
LEMMA UpToFacts ==
  ASSUME NEW s \in Seq(STRING), NEW stop
  PROVE  LET n == Len(UpTo(s, stop))
         IN  /\ UpTo(s, stop) = SubSeq(s, 1, n) /\ UpTo(s, stop) \in Seq(STRING)
             /\ n \in 0 .. Len(s) /\ \A i \in 1 .. n : s[i] # stop
             /\ n = Len(s) \/ s[n + 1] = stop
<1> DEFINE c == strchr(s, stop)
<1>1. CASE c = 0 /\ \A i \in 1 .. Len(s) : s[i] # stop
  <2>1. UpTo(s, stop) = s /\ SubSeq(s, 1, Len(s)) = s
    BY <1>1, SubSeqFull DEF UpTo
  <2> QED BY <1>1, <2>1
<1>2. CASE c \in 1 .. Len(s) /\ s[c] = stop /\ \A i \in 1 .. c - 1 : s[i] # stop
  <2>1. UpTo(s, stop) = SubSeq(s, 1, c - 1)
    BY <1>2 DEF UpTo
  <2> HIDE DEF c
  <2>2. Len(SubSeq(s, 1, c - 1)) = c - 1 /\ SubSeq(s, 1, c - 1) \in Seq(STRING)
    BY <1>2
  <2>3. c - 1 \in 0 .. Len(s) /\ (c - 1) + 1 = c
    BY <1>2
  <2> QED BY <1>2, <2>1, <2>2, <2>3
<1> QED BY <1>1, <1>2, StrchrFirst

\* A stretch that a path begins with is its first component.
LEMMA FirstComponent ==
  ASSUME NEW s \in Seq(STRING), NEW n, NEW r \in Seq(STRING), Cut(s, n, r),
         NEW part, part = SubSeq(s, 1, n), part \in Seq(STRING),
         \A i \in 1 .. n : s[i] # "/"
  PROVE  Components(s) = <<part>> \o Components(r)
<1> DEFINE F == {q \in Spans(s) : q[1] <= n}
<1>1. n \in 1 .. Len(s) /\ Len(s) \in Nat
  BY DEF Cut
<1>2. n = Len(s) \/ s[n + 1] = "/"
  BY <1>1 DEF Cut
<1>3. F = {<<1, n>>}
  <2>1. <<1, n>> \in F
    <3>1. IsSpan(s, 1, n)
      BY <1>2, <1>1 DEF IsSpan
    <3> QED BY <1>1, <3>1, SpanEnds
  <2>2. ASSUME NEW q \in F PROVE q[1] = 1
    <3>1. IsSpan(s, q[1], q[2]) /\ q[1] <= n
      BY SpanEnds
    <3>2. q[1] \in 1 .. Len(s) /\ (q[1] = 1 \/ s[q[1] - 1] = "/")
      BY <3>1 DEF IsSpan
    <3>3. q[1] # 1 => q[1] - 1 \in 1 .. n
      BY <1>1, <3>1, <3>2
    <3> QED BY <3>2, <3>3
  <2>3. \A q \in F : q = <<1, n>>
    BY <2>1, <2>2, SpansFacts
  <2> QED BY <2>1, <2>3
<1>4. Cardinality(F) = 1
  BY <1>3, FS_Singleton
<1>5. /\ Len(Components(r)) \in Nat /\ Len(Components(s)) = 1 + Len(Components(r))
      /\ \A k \in 1 .. Len(Components(r)) : Components(s)[1 + k] = Components(r)[k]
  <2>1. PICK m \in Nat : m = 1
    OBVIOUS
  <2>2. Cardinality({q \in Spans(s) : q[1] <= n}) = m
    BY <1>4, <2>1
  <2>4. /\ Len(Components(r)) \in Nat /\ Len(Components(s)) = m + Len(Components(r))
        /\ \A k \in 1 .. Len(Components(r)) : Components(s)[m + k] = Components(r)[k]
    BY <2>2, ComponentsBehind
  <2> QED BY <2>1, <2>4
<1>6. Components(s)[1] = part
  <2>1. <<1, n>> \in Spans(s) /\ Rank(s, <<1, n>>) = 1
    <3>1. {q \in Spans(s) : q[1] <= <<1, n>>[1]} = F
      <4>1. \A q \in Spans(s) : q[1] \in Nat /\ q[1] >= 1
        BY SpansFacts
      <4>2. <<1, n>>[1] = 1 /\ <<1, n>> \in Spans(s)
        BY <1>3
      <4>3. \A q \in Spans(s) : q[1] <= 1 <=> q \in F
        BY <1>1, <1>3, <4>1, <4>2
      <4> QED BY <4>2, <4>3
    <3> QED BY <1>3, <1>4, <3>1 DEF Rank
  <2>2. Span(s, 1) = <<1, n>>
    <3>1. Span(s, 1) \in Spans(s) /\ Rank(s, Span(s, 1)) = 1
      BY <2>1 DEF Span
    <3> QED BY <2>1, <3>1, RankFacts
  <2>3. 1 \in 1 .. Cardinality(Spans(s))
    BY <2>1, RankFacts
  <2>4. Components(s)[1] = SubSeq(s, Span(s, 1)[1], Span(s, 1)[2])
    BY <2>3 DEF Components
  <2>5. Span(s, 1)[1] = 1 /\ Span(s, 1)[2] = n
    BY <2>2
  <2> QED BY <2>4, <2>5
<1>7. Components(s) \in Seq(Seq(STRING)) /\ Components(r) \in Seq(Seq(STRING))
  BY ComponentsType
<1>8. Components(s) = <<part>> \o Components(r)
  <2> DEFINE u == Components(s)
             v == Components(r)
  <2> HIDE DEF u, v
  <2>1. /\ u \in Seq(Seq(STRING)) /\ v \in Seq(Seq(STRING)) /\ Len(u) = 1 + Len(v) /\ u[1] = part
        /\ \A k \in 1 .. Len(v) : u[1 + k] = v[k]
    BY <1>5, <1>6, <1>7 DEF u, v
  <2>2. /\ <<part>> \o v \in Seq(Seq(STRING)) /\ Len(<<part>> \o v) = 1 + Len(v)
        /\ (<<part>> \o v)[1] = part /\ \A k \in 1 .. Len(v) : (<<part>> \o v)[1 + k] = v[k]
    BY <2>1
  <2>3. ASSUME NEW i \in 1 .. Len(u) PROVE u[i] = (<<part>> \o v)[i]
    <3>1. i = 1 \/ (i - 1 \in 1 .. Len(v) /\ 1 + (i - 1) = i)
      BY <2>1
    <3> QED BY <2>1, <2>2, <3>1
  <2> DEFINE w == <<part>> \o v
  <2>4. w \in Seq(Seq(STRING)) /\ Len(u) = Len(w) /\ \A i \in 1 .. Len(u) : u[i] = w[i]
    BY <2>1, <2>2, <2>3
  <2> HIDE DEF w
  <2>5. u = w
    BY <2>1, <2>4, SeqEqual
  <2> QED BY <2>5 DEF u, v, w
<1> QED BY <1>8

\* Taking a part takes the first component.
LEMMA PartIsFirstComponent ==
  ASSUME NEW s \in Seq(STRING), s # <<>>, Head(s) # "/", NEW part, part = UpTo(s, "/")
  PROVE  /\ SubSeq(s, Len(part) + 1, Len(s)) \in Seq(STRING) /\ part \in Seq(STRING)
         /\ Components(s) = <<part>> \o Components(SubSeq(s, Len(part) + 1, Len(s)))
<1> DEFINE n == Len(part)
           r == SubSeq(s, n + 1, Len(s))
<1>1. /\ part = SubSeq(s, 1, n) /\ part \in Seq(STRING) /\ n \in 0 .. Len(s)
      /\ \A i \in 1 .. n : s[i] # "/"
      /\ n = Len(s) \/ s[n + 1] = "/"
  BY UpToFacts
<1>2. Len(s) \in Nat /\ Len(s) > 0 /\ s[1] # "/"
  OBVIOUS
<1>3. n \in 1 .. Len(s)
  BY <1>1, <1>2
<1> HIDE DEF n
<1>4. r \in Seq(STRING) /\ Len(r) = Len(s) - n /\ \A i \in 1 .. Len(r) : r[i] = s[i + n]
  BY <1>3
<1> HIDE DEF r
<1>5. Cut(s, n, r)
  BY <1>1, <1>3, <1>4 DEF Cut
<1>6. Components(s) = <<part>> \o Components(r)
  BY <1>1, <1>4, <1>5, FirstComponent
<1> QED BY <1>1, <1>4, <1>6 DEF n, r

----------------------------------------------------------------------------
\* Names and directories.

\* A padded field up to its first blank is what is in it but the blanks.
Unpadded(s) == SubSeq(s, 1, Cardinality({i \in DOMAIN s : s[i] # Blank}))
LEMMA UnpaddedIsProper ==
  ASSUME NEW s \in Seq(STRING), s # <<>>, Padded(s)
  PROVE  /\ Unpadded(s) = fat16_to_proper_string(s) /\ Unpadded(s) \in Seq(STRING)
         /\ Unpadded(s) = <<>> <=> s[1] = Blank
<1> DEFINE m == Len(UpTo(s, Blank))
           B == {i \in DOMAIN s : s[i] # Blank}
<1>1. /\ UpTo(s, Blank) = SubSeq(s, 1, m) /\ UpTo(s, Blank) \in Seq(STRING)
      /\ m \in 0 .. Len(s) /\ \A i \in 1 .. m : s[i] # Blank
      /\ m = Len(s) \/ s[m + 1] = Blank
  BY UpToFacts
<1>2. Len(s) \in Nat /\ Len(s) > 0 /\ DOMAIN s = 1 .. Len(s)
  OBVIOUS
<1>3. (UpTo(s, Blank) = <<>>) <=> m = 0
  BY <1>1
<1> DEFINE L == Len(s)
<1> HIDE DEF m
<1>4. /\ m \in Nat /\ L \in Nat /\ m <= L /\ L > 0 /\ DOMAIN s = 1 .. L
      /\ \A i \in 1 .. m : s[i] # Blank
      /\ m = L \/ s[m + 1] = Blank
  <2>1. m \in 0 .. L /\ (m = L \/ s[m + 1] = Blank) /\ (\A i \in 1 .. m : s[i] # Blank)
    BY <1>1
  <2>2. L \in Nat /\ L > 0 /\ DOMAIN s = 1 .. L
    BY <1>2
  <2> HIDE DEF L
  <2> QED BY <2>1, <2>2
<1> HIDE DEF L
<1>5. Cardinality(B) = m
  <2>1. \A i \in 1 .. m : i \in B
    BY <1>4
  <2>2. ASSUME NEW i \in B, i \notin 1 .. m PROVE FALSE
    <3>1. i \in 1 .. L /\ s[i] # Blank
      BY <1>4
    <3>2. i > m /\ m # L
      BY <1>4, <2>2, <3>1
    <3>3. s[m + 1] = Blank /\ m + 1 \in 1 .. L
      BY <1>4, <3>2
    <3>4. m + 1 < i
      BY <1>4, <3>1, <3>2, <3>3
    <3> QED BY <1>4, <3>1, <3>3, <3>4 DEF Padded
  <2>3. B = 1 .. m
    BY <2>1, <2>2
  <2>4. Cardinality(1 .. m) = m
    BY <1>4, FS_Interval
  <2> QED BY <2>3, <2>4
<1>6. Unpadded(s) = UpTo(s, Blank)
  BY <1>1, <1>5 DEF Unpadded
<1>7. m = 0 <=> s[1] = Blank
  <2>1. m = 0 => s[1] = Blank
    BY <1>4
  <2>2. m # 0 => 1 \in 1 .. m
    BY <1>4
  <2> QED BY <1>4, <2>1, <2>2
<1> QED BY <1>1, <1>3, <1>6, <1>7 DEF fat16_to_proper_string

NameChars == STRING \cup {"."}
LEMMA NameIsFullName ==
  ASSUME NEW n \in Names
  PROVE  fat16_get_full_relative_filename(n) = NameOf(n) /\ NameOf(n) \in Seq(NameChars)
<1>1. /\ Filename[n] \in Seq(STRING) /\ Filename[n] # <<>> /\ Padded(Filename[n])
      /\ Ext[n] \in Seq(STRING) /\ Ext[n] # <<>> /\ Padded(Ext[n])
  BY FatAssumption
<1>2. /\ Unpadded(Filename[n]) = fat16_to_proper_string(Filename[n])
      /\ Unpadded(Ext[n]) = fat16_to_proper_string(Ext[n])
      /\ Unpadded(Filename[n]) \in Seq(STRING) /\ Unpadded(Ext[n]) \in Seq(STRING)
      /\ Unpadded(Ext[n]) = <<>> <=> Ext[n][1] = Blank
  BY <1>1, UnpaddedIsProper
<1>3. NameOf(n) = Unpadded(Filename[n])
                    \o (IF Unpadded(Ext[n]) = <<>> THEN <<>> ELSE <<".">> \o Unpadded(Ext[n]))
  BY Zenon DEF NameOf, Unpadded
<1>4. NameOf(n) = fat16_get_full_relative_filename(n)
  BY <1>2, <1>3 DEF fat16_get_full_relative_filename
<1>5. NameOf(n) \in Seq(NameChars)
  <2>1. /\ Unpadded(Filename[n]) \in Seq(NameChars) /\ Unpadded(Ext[n]) \in Seq(NameChars)
        /\ <<>> \in Seq(NameChars) /\ <<".">> \in Seq(NameChars)
    BY <1>2, SeqMonotonic DEF NameChars
  <2>2. \A t, u \in Seq(NameChars) : t \o u \in Seq(NameChars)
    OBVIOUS
  <2>3. <<".">> \o Unpadded(Ext[n]) \in Seq(NameChars)
    BY <2>1, <2>2
  <2> QED BY <1>3, <2>1, <2>2, <2>3
<1> QED BY <1>4, <1>5

\* The entries in use are the first ones, and the search looks at no other; it
\* looks at all of them if none is deleted.
LEMMA TotalItems ==
  ASSUME NEW N \in Nat, NEW d, DOMAIN d = 1 .. N
  PROVE  LET total == fat16_get_total_items_for_directory(d)
         IN  /\ total \in Nat /\ 1 .. total \subseteq Used(d)
             /\ (\A i \in Used(d) : d[i] # "deleted") => Used(d) = 1 .. total
<1>1. \E u \in 0 .. N : Used(d) = 1 .. u
  <2> DEFINE Z == {i \in 1 .. N : d[i] = "free"}
  <2>1. CASE Z = {}
    <3>1. Used(d) = 1 .. N
      BY <2>1 DEF Used
    <3> QED BY <3>1
  <2>2. CASE Z # {}
    <3>1. Z \subseteq Nat
      OBVIOUS
    <3>2. PICK z \in Z : \A y \in Z : z <= y
      <4> HIDE DEF Z
      <4> QED BY <2>2, <3>1, LeastNatural
    <3>3. z \in 1 .. N /\ d[z] = "free" /\ \A j \in 1 .. z - 1 : d[j] # "free"
      BY <3>2
    <3>4. Used(d) = 1 .. z - 1
      <4>1. \A i \in 1 .. z - 1 : i \in Used(d)
        BY <3>3 DEF Used
      <4>2. \A i \in Used(d) : i \in 1 .. z - 1
        BY <3>3 DEF Used
      <4> QED BY <4>1, <4>2
    <3>5. z - 1 \in 0 .. N
      BY <3>3
    <3> QED BY <3>4, <3>5
  <2> QED BY <2>1, <2>2
<1>2. PICK u \in 0 .. N : Used(d) = 1 .. u
  BY <1>1
<1> DEFINE D == {i \in Used(d) : d[i] # "deleted"}
           t == Cardinality(D)
<1>3. u \in Nat /\ IsFiniteSet(1 .. u) /\ Cardinality(1 .. u) = u
  BY FS_Interval
<1>4. IsFiniteSet(D) /\ t <= u /\ t \in Nat
  <2>1. D \in SUBSET (1 .. u)
    BY <1>2
  <2> QED BY <1>3, <2>1, FS_Subset, FS_CardinalityType
<1>5. (\A i \in Used(d) : d[i] # "deleted") => t = u
  <2> SUFFICES ASSUME \A i \in Used(d) : d[i] # "deleted" PROVE t = u
    OBVIOUS
  <2>1. D = 1 .. u
    BY <1>2
  <2> QED BY <1>3, <2>1
<1>6. fat16_get_total_items_for_directory(d) = t
  BY DEF fat16_get_total_items_for_directory
<1> HIDE DEF t
<1> QED BY <1>2, <1>3, <1>4, <1>5, <1>6

----------------------------------------------------------------------------
\* Mounting and opening.

\* A step that is not of a read keeps what is known of reads.
LEMMA SameRead ==
  ASSUME FatInv, rd' = rd, pc \notin ReadSteps, pc' \notin ReadSteps,
         item' = item \/ rd = NoRead
  PROVE  ProgressInv' /\ SoundInv'
<1>1. ProgressInv'
  <2>1. AskedBytes' = AskedBytes
    BY DEF AskedBytes
  <2> QED BY <2>1 DEF FatInv, ProgressInv, ReadSteps
<1>2. SoundInv'
  <2>1. pc' # "walk" /\ pc' # "stream"
    BY DEF ReadSteps
  <2>2. CASE rd = NoRead
    <3>1. Len(rd'.out) = 0
      BY <2>2, NoReadFacts
    <3> QED BY <2>1, <3>1 DEF SoundInv
  <2>3. CASE item' = item
    <3>1. FirstByte' = FirstByte /\ (Sound' <=> Sound)
      BY <2>3 DEF FirstByte, Sound, AskedBytes
    <3> QED BY <2>1, <2>3, <3>1 DEF FatInv, SoundInv
  <2> QED BY <2>2, <2>3
<1> QED BY <1>1, <1>2

\* A step of the drive changes nothing of it.
LEMMA DriveInv ==
  ASSUME FatInv, UNCHANGED <<pc, openVars, rd>>
  PROVE  FatInv'
<1>1. UNCHANGED <<pc, disk, streams, dir, call, made, item, dangling, twice, rd>>
  BY DEF openVars
<1>2. FatTypes' /\ DiskInv' /\ ItemInv'
  BY <1>1 DEF FatInv, FatTypes, DiskInv, ItemInv, Resolved
<1>3. ProgressInv'
  BY <1>1 DEF FatInv, ProgressInv, Progress, RoundBytes, AskedBytes
<1>4. SoundInv'
  BY <1>1 DEF FatInv, SoundInv, Sound, AskedBytes, FirstByte
<1> QED BY <1>2, <1>3, <1>4 DEF FatInv

\* The steps of mounting.
LEMMA MountInv ==
  ASSUME FatInv, rd' = rd,
         \/ fat16_resolve \/ resolve_fails \/ resolve_header \/ fat16_get_root_directory
         \/ fs_resolve
  PROVE  FatInv'
<1>1. /\ pc \in MountSteps /\ pc' \in {"header", "root", "resolved", "ready"}
      /\ item' = item /\ dir' = dir
  BY DEF fat16_resolve, resolve_fails, resolve_header, fat16_get_root_directory, fs_resolve,
         MountSteps, openVars
<1>2. item = None /\ rd = NoRead /\ None # "FAT16"
  BY <1>1, FatAssumption DEF FatInv, ItemInv
<1>3. pc \notin ReadSteps /\ pc' \notin ReadSteps /\ Resolved' = Resolved
  BY <1>1 DEF ReadSteps, MountSteps, Resolved
<1>4. DiskInv'
  <2>1. CASE fat16_resolve
    BY <2>1 DEF fat16_resolve, DiskInv, Resolving, NoDisk, filesystems, MountSteps
  <2>2. CASE resolve_fails
    <3>1. disk = Resolving /\ streams = 4 /\ disk' = [disk EXCEPT !.private = FALSE]
          /\ streams' = streams - 1 /\ pc' = "resolved"
      BY <2>2 DEF resolve_fails, FatInv, DiskInv
    <3>2. disk' = Unresolved
      BY <3>1 DEF Resolving, Unresolved
    <3> QED BY <3>1, <3>2 DEF DiskInv, MountSteps
  <2>3. CASE resolve_header
    BY <2>3 DEF resolve_header, openVars, FatInv, DiskInv, MountSteps
  <2>4. CASE fat16_get_root_directory
    <3>1. /\ disk = Resolving /\ streams = 4 /\ streams' = streams - 1 /\ pc' = "resolved"
          /\ disk' = [disk EXCEPT !.total = fat16_get_total_items_for_directory(dir),
                                  !.ending = RootEnding]
      BY <2>4 DEF fat16_get_root_directory, FatInv, DiskInv, RootEnding
    <3>2. disk' = Resolved
      BY <3>1 DEF Resolving, Resolved
    <3> QED BY <1>3, <3>1, <3>2 DEF DiskInv, MountSteps
  <2>5. CASE fs_resolve
    <3>1. /\ disk \in {Unresolved, Resolved} /\ pc' = "ready" /\ streams' = 3
          /\ disk' = [disk EXCEPT !.fs = IF disk.private THEN "FAT16" ELSE None]
      BY <2>5 DEF fs_resolve, FatInv, DiskInv, filesystems
    <3>2. disk' = NoDisk \/ disk' = Resolved
      <4>1. CASE disk = Unresolved
        <5>1. disk' = [Unresolved EXCEPT !.fs = None]
          BY <3>1, <4>1 DEF Unresolved
        <5> QED BY <5>1 DEF Unresolved, NoDisk
      <4>2. CASE disk = Resolved
        <5>1. disk' = [Resolved EXCEPT !.fs = "FAT16"]
          BY <3>1, <4>2 DEF Resolved
        <5> QED BY <5>1 DEF Resolved
      <4> QED BY <3>1, <4>1, <4>2
    <3> QED BY <1>3, <3>1, <3>2 DEF DiskInv, MountSteps
  <2> QED BY <2>1, <2>2, <2>3, <2>4, <2>5
<1>5. FatTypes' /\ ItemInv'
  BY <1>1, <1>2, <1>3 DEF FatInv, FatTypes, ItemInv, MountSteps, OpeningSteps, ReadSteps
<1> QED BY <1>1, <1>3, <1>4, <1>5, SameRead DEF FatInv

\* The steps of fopen, and fclose.
LEMMA OpenInv ==
  ASSUME FatInv, rd' = rd,
         \/ \E path \in Paths, mode \in Modes : fopen(path, mode)
         \/ skip_slash \/ parse_one_path_part \/ path_parse \/ fat16_open \/ fopen_returns
  PROVE  FatInv'
<1>1. /\ disk' = disk /\ streams' = streams /\ dir' = dir
      /\ pc \in {"ready", "parse", "search", "returned"}
      /\ pc' \in {"ready", "parse", "search", "returned"}
      /\ pc' = "search" => pc = "search" \/ disk.fs # None
      /\ pc = "ready" => item = None
      /\ item' = item \/ pc = "search"
      /\ pc' \in {"parse", "search"} => item' = item /\ pc \in {"ready", "parse"}
  BY DEF fopen, skip_slash, parse_one_path_part, path_parse, fat16_open, fopen_returns, openVars
<1>2. pc \notin ReadSteps /\ pc' \notin ReadSteps /\ Resolved' = Resolved
  BY <1>1 DEF ReadSteps, Resolved
<1>3. rd = NoRead
  BY <1>1 DEF FatInv, ItemInv, OpeningSteps
<1>4. DiskInv'
  <2>1. disk \in {NoDisk, Resolved} /\ streams = 3 /\ (pc = "search" => disk = Resolved)
    BY <1>1 DEF FatInv, DiskInv, MountSteps
  <2>2. disk.fs # None => disk = Resolved
    BY <2>1 DEF NoDisk
  <2> QED BY <1>1, <1>2, <2>1, <2>2 DEF DiskInv, MountSteps
<1>5. FatTypes'
  BY <1>1 DEF FatInv, FatTypes, OpeningSteps
<1>6. ItemInv'
  <2>1. pc = "search" => disk = Resolved
    BY DEF FatInv, DiskInv
  <2> QED BY <1>1, <1>2, <1>3, <2>1 DEF FatInv, ItemInv, MountSteps, OpeningSteps
<1>7. ProgressInv' /\ SoundInv'
  BY <1>2, <1>3, SameRead
<1> QED BY <1>4, <1>5, <1>6, <1>7 DEF FatInv

LEMMA CloseInv ==
  ASSUME FatInv, close
  PROVE  FatInv'
<1>1. /\ pc = "ready" /\ pc' = pc /\ item' = None /\ rd' = NoRead
      /\ disk' = disk /\ streams' = streams /\ dir' = dir
  BY DEF close, fclose
<1>2. FatTypes' /\ DiskInv' /\ ItemInv'
  BY <1>1, NoReadFacts
     DEF FatInv, FatTypes, DiskInv, ItemInv, Resolved, MountSteps, OpeningSteps, ReadSteps
<1>3. AskedBytes' = 0 /\ Len(rd'.out) = 0 /\ rd'.res = 0
  BY <1>1, NoReadFacts DEF AskedBytes
<1>4. ProgressInv' /\ SoundInv'
  BY <1>1, <1>3 DEF ProgressInv, SoundInv, ReadSteps
<1> QED BY <1>2, <1>4 DEF FatInv

----------------------------------------------------------------------------
\* Reading.

\* The members up to one of them are within what was asked for.
LEMMA MembersBound ==
  ASSUME NEW c \in Nat, NEW m \in 0 .. c - 1, NEW z \in Nat
  PROVE  /\ m * z \in Nat /\ m * z + z <= z * c
         /\ m + 1 = c => m * z + z = z * c
         /\ (m + 1) * z = m * z + z
<1>1. PICK e \in Nat : c = m + 1 + e
  <2>1. c - m - 1 \in Nat /\ c = m + 1 + (c - m - 1)
    OBVIOUS
  <2> QED BY <2>1
<1>2. z * c = m * z + z + z * e /\ z * e \in Nat /\ m * z \in Nat
  BY <1>1
<1>3. m + 1 = c => z * e = 0
  BY <1>1
<1> QED BY <1>2, <1>3

\* A step of a read leaves the rest alone.
LEMMA ReadStepOpen ==
  ASSUME FatInv, UNCHANGED openVars, item # None, rd' \in ReadState,
         pc \in ReadSteps \cup {"ready"}, pc' \in ReadSteps \cup {"ready"}
  PROVE  FatTypes' /\ DiskInv' /\ ItemInv' /\ FirstByte' = FirstByte /\ item' = item
<1>1. item' = item /\ disk' = disk /\ streams' = streams /\ dir' = dir
  BY DEF openVars
<1>2. Resolved' = Resolved /\ FirstByte' = FirstByte
  BY <1>1 DEF Resolved, FirstByte
<1>3. disk \in {NoDisk, Resolved} /\ streams = 3
  BY DEF FatInv, DiskInv, ReadSteps, MountSteps
<1>4. DiskInv'
  BY <1>1, <1>2, <1>3 DEF DiskInv, ReadSteps, MountSteps
<1>5. FatTypes' /\ ItemInv'
  BY <1>1, <1>2 DEF FatInv, FatTypes, ItemInv, ReadSteps, MountSteps, OpeningSteps
<1> QED BY <1>1, <1>2, <1>4, <1>5

\* What is known during a read.
LEMMA ReadFacts ==
  ASSUME FatInv, pc \in ReadSteps
  PROVE  /\ item # None /\ disk.ending = RootEnding
         /\ rd \in ReadState /\ rd.out \in Seq(Int \cup {Junk})
         /\ rd.want.offset \in Nat /\ rd.want.size \in Nat \ {0} /\ rd.want.count \in Nat
         /\ rd.member \in 0 .. rd.want.count - 1
         /\ rd.left \in 1 .. rd.want.size /\ rd.left \in Nat \ {0} /\ rd.offset \in Nat
         /\ rd.member * rd.want.size \in Nat
         /\ rd.member * rd.want.size + rd.want.size <= AskedBytes
         /\ rd.member + 1 = rd.want.count => rd.member * rd.want.size + rd.want.size = AskedBytes
         /\ (rd.member + 1) * rd.want.size = rd.member * rd.want.size + rd.want.size
         /\ rd.offset = rd.want.offset + rd.member * rd.want.size + (rd.want.size - rd.left)
         /\ total_to_read(rd.left) \in 1 .. rd.left
<1>1. item # None /\ disk.ending = RootEnding
  BY DEF FatInv, ItemInv, Resolved
<1>2. /\ rd \in ReadState /\ rd.out \in Seq(Int \cup {Junk})
      /\ rd.want.offset \in Nat /\ rd.want.size \in Nat /\ rd.want.count \in Nat
      /\ rd.offset \in Nat /\ rd.left \in Nat /\ rd.member \in Nat
  BY DEF FatInv, FatTypes, ReadState
<1>3. /\ rd.member \in 0 .. rd.want.count - 1 /\ rd.left \in 1 .. rd.want.size
      /\ rd.offset = rd.want.offset + rd.member * rd.want.size + (rd.want.size - rd.left)
  BY DEF FatInv, ProgressInv
<1>4. rd.want.size \in Nat \ {0} /\ rd.left \in Nat \ {0}
  BY <1>2, <1>3
<1>5. /\ rd.member * rd.want.size \in Nat
      /\ rd.member * rd.want.size + rd.want.size <= AskedBytes
      /\ rd.member + 1 = rd.want.count => rd.member * rd.want.size + rd.want.size = AskedBytes
      /\ (rd.member + 1) * rd.want.size = rd.member * rd.want.size + rd.want.size
  BY <1>2, <1>3, MembersBound DEF AskedBytes
<1>6. total_to_read(rd.left) \in 1 .. rd.left
  BY <1>4, RoundSize
<1> QED BY <1>1, <1>2, <1>3, <1>4, <1>5, <1>6

\* A sound read needs no other cluster, and starts each member on a sector.
LEMMA SoundFacts ==
  ASSUME FatInv, pc \in ReadSteps, item \in Files, Sound
  PROVE  /\ rd.left = rd.want.size /\ total_to_read(rd.left) = rd.left
         /\ rd.start = ChainOf[item][1]
         /\ rd.offset = rd.want.offset + rd.member * rd.want.size
         /\ rd.offset < ClusterSize
         /\ rd.offset % SectorSize = 0
<1> DEFINE z == rd.want.size
           m == rd.member
           o == rd.want.offset
           p == m * z
<1>1. rd.left = z /\ rd.start = ChainOf[item][1]
  BY DEF FatInv, SoundInv, ProgressInv
<1>2. /\ o \in Nat /\ z \in Nat \ {0} /\ m * z \in Nat /\ m * z + z <= AskedBytes
      /\ rd.offset = o + m * z + (z - rd.left) /\ m \in 0 .. rd.want.count - 1
      /\ rd.want.count \in Nat
  BY ReadFacts
<1>3. /\ o % SectorSize = 0 /\ o + AskedBytes <= ClusterSize
      /\ rd.want.count = 1 \/ z % SectorSize = 0
  BY DEF Sound
<1>4. AskedBytes \in Nat /\ ClusterSize \in Nat /\ SectorSize \in Nat \ {0}
  BY AskedNat, DiskSizes DEF FatInv, FatTypes
<1>5. p \in Nat /\ p + z <= AskedBytes /\ rd.offset = o + p
  BY <1>1, <1>2
<1> HIDE DEF z, m, o, p
<1>6. rd.offset < ClusterSize /\ z <= ClusterSize
  <2> HIDE DEF AskedBytes, ClusterSize
  <2>1. z \in Nat \ {0} /\ o \in Nat
    BY <1>2
  <2> QED BY <1>3, <1>4, <1>5, <2>1
<1>7. total_to_read(rd.left) = rd.left
  BY <1>1, <1>2, <1>6, RoundSize
<1>8. p % SectorSize = 0
  <2>1. CASE rd.want.count = 1
    <3>1. m * z = 0 * SectorSize /\ 0 \in Nat
      <4>1. m = 0
        BY <1>2, <2>1
      <4> QED BY <4>1, <1>2, <1>4
    <3> QED BY <3>1, <1>4, MultipleOf DEF p
  <2>2. CASE z % SectorSize = 0
    <3>1. m \in Nat /\ z \in Nat
      BY <1>2
    <3> QED BY <1>4, <2>2, <3>1, MultipleTimes DEF p
  <2> QED BY <1>3, <2>1, <2>2
<1>9. rd.offset % SectorSize = 0
  <2>1. o \in Nat /\ p \in Nat /\ o % SectorSize = 0
    BY <1>2, <1>3, <1>5
  <2>2. (o + p) % SectorSize = 0
    BY <1>4, <1>8, <2>1, MultiplesAdd
  <2> QED BY <1>5, <2>2
<1> QED BY <1>1, <1>5, <1>6, <1>7, <1>9 DEF z, m, o, p

LEMMA StartReadInv ==
  ASSUME FatInv, NEW off \in Offsets, NEW size \in Sizes, NEW count \in Counts,
         fat16_read(off, size, count)
  PROVE  FatInv'
<1> DEFINE want == [offset |-> off, size |-> size, count |-> count]
<1>1. PICK first \in IF item \in Files THEN {ChainOf[item][1]} ELSE Words :
        rd' = [NoRead EXCEPT !.start = first, !.offset = off, !.left = size, !.want = want]
  BY DEF fat16_read
<1>2. pc = "ready" /\ pc' = "locate" /\ item # None /\ UNCHANGED openVars
  BY DEF fat16_read
<1>3. /\ off \in Nat /\ size \in Nat \ {0} /\ count \in Nat \ {0} /\ first \in Nat
      /\ item \in Files => first = ChainOf[item][1]
  <2>1. off \in Nat /\ size \in Nat \ {0} /\ count \in Nat \ {0}
    BY ReadAssumption
  <2>2. CASE item \in Files
    <3>1. first = ChainOf[item][1]
      BY <2>2
    <3>2. first \in Nat
      BY <2>2, <3>1, ReadAssumption
    <3> QED BY <2>1, <3>1, <3>2
  <2>3. CASE item \notin Files
    <3>1. first \in Words
      BY <2>3
    <3> QED BY <2>1, <2>3, <3>1, ReadAssumption
  <2> QED BY <2>2, <2>3
<1>4. /\ rd'.start = first /\ rd'.offset = off /\ rd'.left = size /\ rd'.want = want
      /\ rd'.member = 0 /\ rd'.out = <<>>
  BY <1>1 DEF NoRead
<1>5. rd' \in ReadState
  <2>1. want \in [offset : Nat, size : Nat, count : Nat]
    BY <1>3
  <2> HIDE DEF want
  <2> QED BY <1>1, <1>3, <2>1, NoReadFacts DEF ReadState
<1>6. FatTypes' /\ DiskInv' /\ ItemInv' /\ FirstByte' = FirstByte /\ item' = item
  BY <1>2, <1>5, ReadStepOpen DEF ReadSteps
<1>7. ProgressInv'
  <2>1. rd'.want.size = size /\ rd'.want.count = count /\ rd'.want.offset = off
    BY <1>4
  <2>2. 0 * size = 0 /\ Len(<<>>) = 0
    BY <1>3
  <2> QED BY <1>2, <1>3, <1>4, <1>6, <2>1, <2>2 DEF ProgressInv, Progress, RoundBytes, ReadSteps
<1>8. SoundInv'
  BY <1>2, <1>4 DEF SoundInv
<1> QED BY <1>6, <1>7, <1>8 DEF FatInv

LEMMA LocateInv ==
  ASSUME FatInv, locate
  PROVE  FatInv'
<1> DEFINE o == IntOf(rd.offset)
           ahead == IF o < 0 THEN 0 ELSE o \div ClusterSize
<1>1. /\ pc = "locate" /\ pc' = "walk" /\ pc \in ReadSteps /\ UNCHANGED openVars
      /\ rd' = [rd EXCEPT !.cluster = rd.start, !.ahead = ahead]
  BY DEF locate, ReadSteps
<1>2. item # None /\ rd \in ReadState /\ rd.offset \in Nat
  BY <1>1, ReadFacts
<1>3. ahead \in Nat
  <2>1. o \in Int
    BY <1>2, IntOfFacts
  <2> HIDE DEF o
  <2>2. CASE o < 0
    BY <2>2
  <2>3. CASE ~(o < 0)
    <3>1. o \in Nat
      BY <2>1, <2>3
    <3> QED BY <2>3, <3>1, DiskSizes, Division
  <2> QED BY <2>2, <2>3
<1> HIDE DEF ahead
<1>4. rd' \in ReadState
  BY <1>1, <1>2, <1>3 DEF ReadState
<1>5. /\ rd'.cluster = rd.start /\ rd'.ahead = ahead /\ rd'.start = rd.start
      /\ rd'.want = rd.want /\ rd'.left = rd.left /\ rd'.member = rd.member
      /\ rd'.offset = rd.offset /\ rd'.out = rd.out
  BY <1>1, <1>2 DEF ReadState
<1>6. FatTypes' /\ DiskInv' /\ ItemInv' /\ FirstByte' = FirstByte /\ item' = item
  BY <1>1, <1>2, <1>4, ReadStepOpen DEF ReadSteps
<1>7. ProgressInv'
  BY <1>1, <1>5, <1>6 DEF FatInv, ProgressInv, Progress, RoundBytes, ReadSteps
<1>8. SoundInv'
  <2> SUFFICES ASSUME item \in Files, Sound
               PROVE  SoundInv'
    BY <1>5, <1>6 DEF SoundInv, Sound, AskedBytes
  <2>1. ahead = 0
    <3>1. rd.offset < ClusterSize
      BY <1>1, SoundFacts
    <3>2. o = rd.offset
      BY <1>2, <3>1, IntOfFacts
    <3>3. rd.offset \div ClusterSize = 0
      BY <1>2, <3>1, DiskSizes, DivisionSmall
    <3> HIDE DEF o
    <3> QED BY <1>2, <3>2, <3>3 DEF ahead
  <2> QED BY <1>1, <1>5, <1>6, <2>1 DEF FatInv, SoundInv
<1> QED BY <1>6, <1>7, <1>8 DEF FatInv

LEMMA WalkInv ==
  ASSUME FatInv, walk
  PROVE  FatInv'
<1>1. PICK entry \in Words :
        IF entry \in EndWords
        THEN pc' = "ready" /\ rd' = [rd EXCEPT !.res = EIO]
        ELSE pc' = pc /\ rd' = [rd EXCEPT !.cluster = entry, !.ahead = @ - 1]
  BY DEF walk
<1>2. pc = "walk" /\ pc \in ReadSteps /\ UNCHANGED openVars /\ rd.ahead > 0 /\ entry \in Nat
  BY ReadAssumption DEF walk, ReadSteps
<1>3. item # None /\ rd \in ReadState
  BY <1>2, ReadFacts
<1>4. ~(item \in Files /\ Sound)
  BY <1>2 DEF FatInv, SoundInv
<1>5. rd' \in ReadState
  <2>1. CASE entry \in EndWords
    <3>1. rd' = [rd EXCEPT !.res = EIO] /\ EIO \in Int
      BY <1>1, <2>1 DEF EIO
    <3> QED BY <1>3, <3>1 DEF ReadState
  <2>2. CASE entry \notin EndWords
    <3>1. rd' = [rd EXCEPT !.cluster = entry, !.ahead = rd.ahead - 1]
      BY <1>1, <2>2
    <3>2. rd.ahead - 1 \in Nat
      BY <1>2, <1>3 DEF ReadState
    <3> QED BY <1>2, <1>3, <3>1, <3>2 DEF ReadState
  <2> QED BY <2>1, <2>2
<1>6. /\ rd'.want = rd.want /\ rd'.left = rd.left /\ rd'.member = rd.member
      /\ rd'.offset = rd.offset /\ rd'.out = rd.out /\ rd'.start = rd.start
      /\ pc' = "ready" => rd'.res = EIO
  BY <1>1, <1>2, <1>3 DEF ReadState
<1>7. FatTypes' /\ DiskInv' /\ ItemInv' /\ FirstByte' = FirstByte /\ item' = item
  BY <1>1, <1>2, <1>3, <1>5, ReadStepOpen DEF ReadSteps
<1>8. ProgressInv'
  <2>1. CASE pc' = "ready"
    <3>1. Len(rd.out) <= AskedBytes
      <4>1. Len(rd.out) = rd.member * rd.want.size + (rd.want.size - rd.left) + 0
        BY <1>2 DEF FatInv, ProgressInv, Progress, RoundBytes
      <4>2. AskedBytes \in Nat
        BY <1>3, AskedNat
      <4> DEFINE p == rd.member * rd.want.size
      <4>3. /\ p \in Nat /\ p + rd.want.size <= AskedBytes
            /\ rd.left \in Nat /\ rd.want.size \in Nat
        BY <1>2, ReadFacts
      <4> HIDE DEF p, AskedBytes
      <4> QED BY <4>1, <4>2, <4>3 DEF p
    <3> QED BY <1>6, <2>1, <3>1 DEF ProgressInv, ReadSteps, AskedBytes, EIO
  <2>2. CASE pc' = "walk"
    BY <1>2, <1>6, <1>7, <2>2 DEF FatInv, ProgressInv, Progress, RoundBytes, ReadSteps
  <2> QED BY <1>1, <1>2, <2>1, <2>2
<1>9. SoundInv'
  BY <1>4, <1>6, <1>7 DEF SoundInv, Sound, AskedBytes
<1> QED BY <1>7, <1>8, <1>9 DEF FatInv

LEMMA SeekInv ==
  ASSUME FatInv, seek
  PROVE  FatInv'
<1> DEFINE at == fat16_cluster_to_sector(rd.cluster) * SectorSize + Rem(IntOf(rd.offset), ClusterSize)
           n  == total_to_read(rd.left)
<1>1. /\ pc = "walk" /\ pc' = "stream" /\ pc \in ReadSteps /\ UNCHANGED openVars
      /\ rd' = [rd EXCEPT !.pos = at, !.total = n]
  BY DEF seek, ReadSteps
<1>2. /\ item # None /\ rd \in ReadState /\ rd.offset \in Nat /\ disk.ending = RootEnding
      /\ n \in 1 .. rd.left /\ rd.left \in Nat
  BY <1>1, ReadFacts
<1>3. at \in Int /\ n \in Nat
  <2>1. rd.cluster \in Nat
    BY <1>2 DEF ReadState
  <2>2. fat16_cluster_to_sector(rd.cluster) \in Int
    BY <1>2, <2>1, DiskSizes DEF fat16_cluster_to_sector
  <2>3. Rem(IntOf(rd.offset), ClusterSize) \in Int
    <3>1. IntOf(rd.offset) \in Int
      BY <1>2, IntOfFacts
    <3> QED BY <3>1, DiskSizes, RemFacts
  <2> QED BY <1>2, <2>2, <2>3, DiskSizes
<1> HIDE DEF at, n
<1>4. rd' \in ReadState
  BY <1>1, <1>2, <1>3 DEF ReadState
<1>5. /\ rd'.pos = at /\ rd'.total = n /\ rd'.start = rd.start
      /\ rd'.want = rd.want /\ rd'.left = rd.left /\ rd'.member = rd.member
      /\ rd'.offset = rd.offset /\ rd'.out = rd.out
  BY <1>1, <1>2 DEF ReadState
<1>6. FatTypes' /\ DiskInv' /\ ItemInv' /\ FirstByte' = FirstByte /\ item' = item
  BY <1>1, <1>2, <1>4, ReadStepOpen DEF ReadSteps
<1>7. Len(rd.out) = rd.member * rd.want.size + (rd.want.size - rd.left) + 0
  BY <1>1 DEF FatInv, ProgressInv, Progress, RoundBytes
<1>8. ProgressInv'
  <2>1. RoundBytes' = 0
    BY <1>1, <1>3, <1>5 DEF RoundBytes, total_to_read, n
  <2>2. total_to_read(rd'.left) = n /\ n \in 0 .. n
    BY <1>3, <1>5 DEF n
  <2> QED BY <1>1, <1>5, <1>6, <1>7, <2>1, <2>2 DEF FatInv, ProgressInv, Progress, ReadSteps
<1>9. SoundInv'
  <2> SUFFICES ASSUME item \in Files, Sound
               PROVE  SoundInv'
    BY <1>5, <1>6 DEF SoundInv, Sound, AskedBytes
  <2>1. /\ rd.left = rd.want.size /\ rd.start = ChainOf[item][1]
        /\ rd.offset = rd.want.offset + rd.member * rd.want.size
        /\ rd.offset < ClusterSize /\ rd.offset % SectorSize = 0
    BY <1>1, SoundFacts
  <2>2. rd.cluster = rd.start
    BY <1>1 DEF FatInv, SoundInv
  <2>3. Rem(IntOf(rd.offset), ClusterSize) = rd.offset
    <3>1. IntOf(rd.offset) = rd.offset /\ rd.offset % ClusterSize = rd.offset
      <4>1. rd.offset % ClusterSize = rd.offset
        BY <1>2, <2>1, DiskSizes, DivisionSmall
      <4> QED BY <1>2, <2>1, <4>1, IntOfFacts
    <3>2. Rem(rd.offset, ClusterSize) = rd.offset % ClusterSize
      <4>1. rd.offset \in Int /\ rd.offset \in Nat
        BY <1>2
      <4> QED BY <4>1, DiskSizes, RemFacts
    <3> QED BY <3>1, <3>2
  <2>4. at = FirstByte + rd.offset
    BY <1>2, <2>1, <2>2, <2>3 DEF at, fat16_cluster_to_sector, FirstByte
  <2>5. Len(rd.out) = rd.member * rd.want.size
    BY <1>1, <1>7, <2>1, ReadFacts
  <2>6. FirstByte \in Nat /\ FirstByte % SectorSize = 0
    BY FirstByteAligned
  <2> HIDE DEF FirstByte
  <2>7. at % SectorSize = 0
    BY <1>2, <2>1, <2>4, <2>6, DiskSizes, MultiplesAdd
  <2>8. at = FirstByte + rd.want.offset + Len(rd.out)
    <3>1. rd.want.offset \in Nat /\ rd.member * rd.want.size \in Nat
      BY <1>1, ReadFacts
    <3> QED BY <2>1, <2>4, <2>5, <2>6, <3>1
  <2> QED BY <1>1, <1>5, <1>6, <2>1, <2>7, <2>8 DEF FatInv, SoundInv, ReadSteps
<1> QED BY <1>6, <1>8, <1>9 DEF FatInv

\* What a concatenation has.
LEMMA Concatenation ==
  ASSUME NEW S, NEW s \in Seq(S), NEW t \in Seq(S)
  PROVE  /\ s \o t \in Seq(S) /\ Len(s \o t) = Len(s) + Len(t)
         /\ \A k \in 1 .. Len(s) : (s \o t)[k] = s[k]
         /\ \A k \in Len(s) + 1 .. Len(s) + Len(t) : (s \o t)[k] = t[k - Len(s)]
  OBVIOUS

LEMMA StreamInv ==
  ASSUME FatInv, disk_stream_read
  PROVE  FatInv'
<1> DEFINE n == IF rd.total > SectorSize THEN SectorSize ELSE rd.total
           new == tmp_buf(rd.pos, n)
           l == Len(rd.out)
           T == total_to_read(rd.left)
<1>1. /\ pc = "stream" /\ pc' = pc /\ pc \in ReadSteps /\ UNCHANGED openVars /\ rd.total > 0
      /\ rd' = [rd EXCEPT !.out = rd.out \o new, !.pos = rd.pos + n, !.total = rd.total - n]
  BY DEF disk_stream_read, ReadSteps
<1>2. /\ item # None /\ rd \in ReadState /\ rd.out \in Seq(Int \cup {Junk})
      /\ T \in 1 .. rd.left /\ rd.left \in Nat
  BY <1>1, ReadFacts
<1>3. /\ rd.total \in Nat /\ rd.total \in 0 .. T /\ rd.pos \in Int /\ l \in Nat
      /\ n \in 1 .. rd.total /\ n <= SectorSize /\ rd.total - n \in Nat
      /\ rd.total - n > 0 => n = SectorSize
  <2>1. rd.total \in Nat /\ rd.pos \in Int /\ l \in Nat
    BY <1>2 DEF ReadState
  <2>2. rd.total \in 0 .. T
    BY <1>1 DEF FatInv, ProgressInv
  <2> QED BY <1>1, <2>1, <2>2, DiskSizes
<1> HIDE DEF n
<1>4. /\ new \in Seq(Int \cup {Junk}) /\ Len(new) = n
      /\ \A k \in 1 .. n : rd.pos \in Nat /\ rd.pos % SectorSize = 0 => new[k] = rd.pos + (k - 1)
  <2>1. n \in Nat
    BY <1>3
  <2>2. new = [k \in 1 .. n |-> IF Rem(rd.pos, SectorSize) + k \in 1 .. SectorSize
                                 THEN rd.pos + k - 1 ELSE Junk]
    BY DEF tmp_buf
  <2>3. \A k \in 1 .. n : new[k] \in Int \cup {Junk}
    BY <1>3, <2>1, <2>2
  <2>4. ASSUME NEW k \in 1 .. n, rd.pos \in Nat, rd.pos % SectorSize = 0
        PROVE  new[k] = rd.pos + (k - 1)
    <3>1. Rem(rd.pos, SectorSize) + k \in 1 .. SectorSize
      <4>1. Rem(rd.pos, SectorSize) = 0
        BY <1>3, <2>4, DiskSizes, RemFacts
      <4> QED BY <1>3, <4>1, DiskSizes
    <3>2. new[k] = rd.pos + k - 1
      BY <2>2, <2>4, <3>1
    <3> QED BY <1>3, <3>2
  <2> HIDE DEF new
  <2>5. new \in Seq(Int \cup {Junk}) /\ Len(new) = n
    BY <2>1, <2>2, <2>3
  <2> QED BY <2>4, <2>5
<1> HIDE DEF new
<1>5. /\ rd.out \o new \in Seq(Int \cup {Junk}) /\ Len(rd.out \o new) = l + n
      /\ \A k \in 1 .. l : (rd.out \o new)[k] = rd.out[k]
      /\ \A k \in l + 1 .. l + n : (rd.out \o new)[k] = new[k - l]
  BY <1>2, <1>4, Concatenation
<1>6. rd' \in ReadState
  <2>1. rd.pos + n \in Int
    BY <1>3
  <2> QED BY <1>1, <1>2, <1>3, <1>5, <2>1 DEF ReadState
<1>7. /\ rd'.out = rd.out \o new /\ rd'.pos = rd.pos + n /\ rd'.total = rd.total - n
      /\ rd'.start = rd.start /\ rd'.want = rd.want /\ rd'.left = rd.left
      /\ rd'.member = rd.member /\ rd'.offset = rd.offset
  BY <1>1, <1>2 DEF ReadState
<1>8. FatTypes' /\ DiskInv' /\ ItemInv' /\ FirstByte' = FirstByte /\ item' = item
  BY <1>1, <1>2, <1>6, ReadStepOpen DEF ReadSteps
<1>9. ProgressInv'
  <2> DEFINE b == rd.member * rd.want.size + (rd.want.size - rd.left)
  <2>1. l = b + (T - rd.total) /\ b \in Int
    <3>1. l = b + (T - rd.total)
      BY <1>1 DEF FatInv, ProgressInv, Progress, RoundBytes
    <3>2. /\ rd.member * rd.want.size \in Nat /\ rd.want.size \in Nat
      BY <1>1, ReadFacts
    <3> QED BY <1>2, <3>1, <3>2
  <2>2. Progress' = b + (T - rd'.total)
    BY <1>1, <1>7 DEF Progress, RoundBytes, total_to_read
  <2> HIDE DEF b, T, l
  <2>3. T \in Int /\ T - rd'.total = (T - rd.total) + n /\ rd'.total \in 0 .. T
    BY <1>2, <1>3, <1>7
  <2>4. Len(rd'.out) = Progress'
    BY <1>3, <1>5, <1>7, <2>1, <2>2, <2>3
  <2>5. total_to_read(rd'.left) = T
    BY <1>7 DEF T
  <2> QED BY <1>1, <1>7, <1>8, <2>3, <2>4, <2>5 DEF FatInv, ProgressInv, ReadSteps
<1>10. SoundInv'
  <2> SUFFICES ASSUME item \in Files, Sound
               PROVE  SoundInv'
    BY <1>7, <1>8 DEF SoundInv, Sound, AskedBytes
  <2> DEFINE o == FirstByte + rd.want.offset
  <2>1. /\ rd.pos = o + l /\ rd.pos % SectorSize = 0 /\ rd.left = rd.want.size
        /\ \A k \in 1 .. l : rd.out[k] = o + (k - 1)
    BY <1>1 DEF FatInv, SoundInv
  <2>2. o \in Nat
    <3>1. rd.want.offset \in Nat
      BY <1>1, ReadFacts
    <3> QED BY <3>1, FirstByteAligned
  <2>3. /\ FirstByte' + rd'.want.offset = o /\ rd'.left = rd'.want.size
    BY <1>7, <1>8, <2>1
  <2> HIDE DEF o, l
  <2>4. rd'.pos = o + Len(rd'.out)
    <3>1. Len(rd'.out) = l + n /\ rd'.pos = (o + l) + n
      BY <1>5, <1>7, <2>1
    <3>2. n \in Int /\ l \in Int
      BY <1>3
    <3> QED BY <2>2, <3>1, <3>2
  <2>5. rd'.total > 0 => rd'.pos % SectorSize = 0
    <3> SUFFICES ASSUME rd'.total > 0 PROVE (rd.pos + n) % SectorSize = 0
      BY <1>7
    <3>1. n = SectorSize /\ rd.pos \in Nat
      BY <1>3, <1>7, <2>1, <2>2
    <3>2. SectorSize % SectorSize = 0
      BY DiskSizes
    <3> QED BY <2>1, <3>1, <3>2, DiskSizes, MultiplesAdd
  <2>6. ASSUME NEW k \in 1 .. Len(rd'.out)
        PROVE  rd'.out[k] = o + (k - 1)
    <3>1. CASE k \in 1 .. l
      BY <1>5, <1>7, <2>1, <3>1
    <3>2. CASE k \in l + 1 .. l + n
      <4>1. k - l \in 1 .. n
        BY <1>3, <3>2
      <4>2. rd'.out[k] = rd.pos + ((k - l) - 1)
        <5>1. rd.pos \in Nat
          BY <1>3, <2>1, <2>2
        <5> QED BY <1>4, <1>5, <1>7, <2>1, <3>2, <4>1, <5>1
      <4> QED BY <1>3, <2>1, <2>2, <3>2, <4>2
    <3> QED BY <1>3, <1>5, <1>7, <3>1, <3>2
  <2> QED BY <1>1, <2>3, <2>4, <2>5, <2>6 DEF SoundInv, o
<1> QED BY <1>8, <1>9, <1>10 DEF FatInv

\* At the end of a round the stream has given all that was asked of it.
LEMMA RoundOver ==
  ASSUME FatInv, Streamed
  PROVE  /\ pc = "stream" /\ pc \in ReadSteps
         /\ Len(rd.out) = rd.member * rd.want.size + (rd.want.size - rd.left)
                            + total_to_read(rd.left)
         /\ item \in Files /\ Sound => MemberRead
<1>1. pc = "stream" /\ pc \in ReadSteps /\ rd.total = 0
  BY DEF Streamed, ReadSteps
<1>2. Len(rd.out) = rd.member * rd.want.size + (rd.want.size - rd.left)
                      + (total_to_read(rd.left) - 0)
  BY <1>1 DEF FatInv, ProgressInv, Progress, RoundBytes
<1>3. total_to_read(rd.left) - 0 = total_to_read(rd.left)
  BY <1>1, ReadFacts
<1>4. item \in Files /\ Sound => MemberRead
  BY <1>1, SoundFacts DEF MemberRead
<1> QED BY <1>1, <1>2, <1>3, <1>4

LEMMA MoreInv ==
  ASSUME FatInv, more
  PROVE  FatInv'
<1> DEFINE T == total_to_read(rd.left)
           p == rd.member * rd.want.size
           z == rd.want.size
<1>1. /\ Streamed /\ ~MemberRead /\ pc' = "locate" /\ UNCHANGED openVars
      /\ rd' = [rd EXCEPT !.offset = rd.offset + T, !.left = rd.left - T]
  BY DEF more
<1>2. /\ pc = "stream" /\ pc \in ReadSteps /\ Len(rd.out) = p + (z - rd.left) + T
      /\ ~(item \in Files /\ Sound)
  BY <1>1, RoundOver
<1>3. /\ item # None /\ rd \in ReadState /\ rd.left \in 1 .. z /\ rd.offset \in Nat
      /\ p \in Nat /\ z \in Nat /\ T \in 1 .. rd.left
      /\ rd.offset = rd.want.offset + p + (z - rd.left) /\ rd.want.offset \in Nat
  BY <1>2, ReadFacts
<1>4. rd.left # T
  BY <1>1 DEF MemberRead
<1> HIDE DEF T, p, z
<1>5. rd.left - T \in 1 .. z /\ rd.left - T \in Nat /\ rd.offset + T \in Nat
  BY <1>3, <1>4
<1>6. rd' \in ReadState
  BY <1>1, <1>3, <1>5 DEF ReadState
<1>7. /\ rd'.offset = rd.offset + T /\ rd'.left = rd.left - T
      /\ rd'.start = rd.start /\ rd'.want = rd.want /\ rd'.member = rd.member
      /\ rd'.out = rd.out
  BY <1>1, <1>3 DEF ReadState
<1>8. FatTypes' /\ DiskInv' /\ ItemInv' /\ FirstByte' = FirstByte /\ item' = item
  BY <1>1, <1>2, <1>3, <1>6, ReadStepOpen DEF ReadSteps
<1>9. ProgressInv'
  <2>1. Progress' = p + (z - rd'.left) + 0
    BY <1>1, <1>7 DEF Progress, RoundBytes, p, z
  <2>2. Len(rd'.out) = Progress'
    BY <1>2, <1>3, <1>5, <1>7, <2>1
  <2>3. rd'.offset = rd'.want.offset + rd'.member * rd'.want.size + (rd'.want.size - rd'.left)
    <3>1. rd.offset + T = rd.want.offset + p + (z - (rd.left - T))
      BY <1>3
    <3> QED BY <1>7, <3>1 DEF p, z
  <2>4. rd'.left \in 1 .. rd'.want.size
    BY <1>5, <1>7 DEF z
  <2> QED BY <1>1, <1>2, <1>7, <1>8, <2>2, <2>3, <2>4 DEF FatInv, ProgressInv, ReadSteps
<1>10. SoundInv'
  BY <1>2, <1>7, <1>8 DEF SoundInv, Sound, AskedBytes
<1> QED BY <1>8, <1>9, <1>10 DEF FatInv

LEMMA NextMemberInv ==
  ASSUME FatInv, next_member
  PROVE  FatInv'
<1> DEFINE z == rd.want.size
           q == (rd.member + 1) * z
<1>1. /\ MemberRead /\ Streamed /\ rd.member + 1 < rd.want.count /\ pc' = "locate"
      /\ UNCHANGED openVars
      /\ rd' = [rd EXCEPT !.member = rd.member + 1, !.left = z, !.offset = rd.want.offset + q]
  BY DEF next_member, MemberRead
<1>2. /\ pc = "stream" /\ pc \in ReadSteps
      /\ Len(rd.out) = rd.member * z + (z - rd.left) + total_to_read(rd.left)
      /\ rd.left = total_to_read(rd.left)
  BY <1>1, RoundOver DEF MemberRead
<1>3. /\ item # None /\ rd \in ReadState /\ rd.left \in 1 .. z /\ rd.want.offset \in Nat
      /\ z \in Nat \ {0} /\ q = rd.member * z + z /\ rd.member * z \in Nat
      /\ rd.member \in 0 .. rd.want.count - 1 /\ rd.want.count \in Nat
  BY <1>2, ReadFacts
<1>4. Len(rd.out) = q /\ q \in Nat
  BY <1>2, <1>3
<1> HIDE DEF z, q
<1>5. rd.member + 1 \in Nat /\ rd.want.offset + q \in Nat /\ z \in Nat
  <2>1. rd.member + 1 \in Nat
    BY <1>3
  <2>2. \A m \in Nat : m + q \in Nat
    BY <1>4
  <2>3. rd.want.offset \in Nat /\ z \in Nat
    BY <1>3
  <2> QED BY <2>1, <2>2, <2>3
<1>6. rd' \in ReadState
  BY <1>1, <1>3, <1>5 DEF ReadState
<1>7. /\ rd'.member = rd.member + 1 /\ rd'.left = z /\ rd'.offset = rd.want.offset + q
      /\ rd'.start = rd.start /\ rd'.want = rd.want /\ rd'.out = rd.out
  BY <1>1, <1>3 DEF ReadState
<1>8. FatTypes' /\ DiskInv' /\ ItemInv' /\ FirstByte' = FirstByte /\ item' = item
  BY <1>1, <1>2, <1>3, <1>6, ReadStepOpen DEF ReadSteps
<1>9. ProgressInv'
  <2>1. Progress' = q + (z - z) + 0
    BY <1>1, <1>7 DEF Progress, RoundBytes, q, z
  <2>2. Len(rd'.out) = Progress'
    BY <1>3, <1>4, <1>7, <2>1
  <2>3. rd'.offset = rd'.want.offset + rd'.member * rd'.want.size + (rd'.want.size - rd'.left)
    <3>1. rd.want.offset + q = rd.want.offset + q + (z - z)
      BY <1>3, <1>4
    <3> QED BY <1>7, <3>1 DEF q, z
  <2>4. /\ rd'.left \in 1 .. rd'.want.size
        /\ rd'.want.count > 0 /\ rd'.member \in 0 .. rd'.want.count - 1
    BY <1>1, <1>3, <1>7 DEF z
  <2> QED BY <1>1, <1>2, <1>7, <1>8, <2>2, <2>3, <2>4 DEF FatInv, ProgressInv, ReadSteps
<1>10. SoundInv'
  <2> SUFFICES ASSUME item \in Files, Sound
               PROVE  SoundInv'
    BY <1>7, <1>8 DEF SoundInv, Sound, AskedBytes
  <2>1. \A k \in 1 .. Len(rd.out) : rd.out[k] = FirstByte + rd.want.offset + (k - 1)
    BY DEF FatInv, SoundInv
  <2> QED BY <1>1, <1>7, <1>8, <2>1 DEF SoundInv, z
<1> QED BY <1>8, <1>9, <1>10 DEF FatInv

LEMMA DoneInv ==
  ASSUME FatInv, done
  PROVE  FatInv'
<1>1. /\ MemberRead /\ Streamed /\ rd.member + 1 = rd.want.count /\ pc' = "ready"
      /\ UNCHANGED openVars /\ rd' = [rd EXCEPT !.res = rd.want.count]
  BY DEF done, MemberRead
<1>2. /\ pc = "stream" /\ pc \in ReadSteps
      /\ Len(rd.out) = rd.member * rd.want.size + (rd.want.size - rd.left)
                         + total_to_read(rd.left)
      /\ rd.left = total_to_read(rd.left)
  BY <1>1, RoundOver DEF MemberRead
<1>3. /\ item # None /\ rd \in ReadState /\ rd.left \in 1 .. rd.want.size
      /\ rd.want.size \in Nat /\ rd.want.count \in Nat /\ rd.member * rd.want.size \in Nat
      /\ rd.member * rd.want.size + rd.want.size = AskedBytes
  BY <1>1, <1>2, ReadFacts
<1>4. Len(rd.out) = AskedBytes /\ AskedBytes \in Nat
  BY <1>2, <1>3
<1>5. rd' \in ReadState
  <2>1. rd.want.count \in Int
    BY <1>3
  <2>2. rd' = [rd EXCEPT !.res = rd.want.count]
    BY <1>1
  <2> QED BY <1>3, <2>1, <2>2 DEF ReadState
<1>6. rd'.res = rd.want.count /\ rd'.want = rd.want /\ rd'.out = rd.out /\ AskedBytes' = AskedBytes
  BY <1>1, <1>3 DEF ReadState, AskedBytes
<1>7. FatTypes' /\ DiskInv' /\ ItemInv' /\ FirstByte' = FirstByte /\ item' = item
  BY <1>1, <1>2, <1>3, <1>5, ReadStepOpen DEF ReadSteps
<1>8. ProgressInv'
  BY <1>1, <1>4, <1>6 DEF ProgressInv, ReadSteps
<1>9. SoundInv'
  BY <1>1, <1>6, <1>7 DEF FatInv, SoundInv, Sound, ReadSteps
<1> QED BY <1>7, <1>8, <1>9 DEF FatInv

----------------------------------------------------------------------------
\* What fopen parses, finds and allocates.

\* Steps that are not of fopen, and steps that only the drive takes.
LEMMA KeepPath ==
  ASSUME PathInv, UNCHANGED <<dir, call, made, item, dangling, twice>>,
         \/ pc \notin OpeningSteps /\ pc' \notin OpeningSteps
         \/ pc' = pc /\ disk' = disk
  PROVE  PathInv'
<1>1. Asked' = Asked /\ Named' = Named /\ Used(dir)' = Used(dir)
  BY DEF Asked, Named, Used
<1>2. CallInv'
  BY <1>1 DEF PathInv, CallInv, OpeningSteps
<1>3. FoundInv'
  BY <1>1 DEF PathInv, FoundInv, OpensWhatIsThere, OpeningSteps
<1>4. \A n : TooLong(n)' <=> TooLong(n)
  BY <1>1 DEF TooLong
<1>5. MadeInv'
  BY <1>4 DEF PathInv, MadeInv, OpeningSteps
<1> QED BY <1>2, <1>3, <1>5 DEF PathInv

LEMMA FopenPath ==
  ASSUME FatInv, PathInv, NEW path \in Paths, NEW mode \in Modes, fopen(path, mode)
  PROVE  PathInv'
<1>1. /\ pc = "ready" /\ item = None /\ pc' = "parse" /\ made' = 0
      /\ UNCHANGED <<dir, item, dangling, twice>>
      /\ call' = [text |-> path, mode |-> mode, parts |-> <<>>,
                  rest |-> IF path_format_is_valid(path) THEN path ELSE <<>>]
  BY DEF fopen
<1>2. path \in Seq(STRING) /\ mode \in Seq(STRING) /\ <<>> \in Seq(STRING)
      /\ <<>> \in Seq(Seq(STRING))
  BY FatAssumption
<1>3. call' \in Calls
  BY <1>1, <1>2 DEF Calls
<1>4. call'.parts = <<>> /\ call'.text = path
      /\ call'.rest = IF path_format_is_valid(path) THEN path ELSE <<>>
  BY <1>1
<1>5. Components(call'.rest) = Asked'
  BY <1>4, ComponentsOfEmpty DEF Asked, path_format_is_valid
<1>6. call'.parts \o Components(call'.rest) = Asked'
  <2>1. call'.rest \in Seq(STRING)
    BY <1>2, <1>4
  <2>2. Components(call'.rest) \in Seq(Seq(STRING))
    BY <2>1, ComponentsType
  <2> QED BY <1>4, <1>5, <2>2, ConcatEmptySeq
<1>7. CallInv'
  BY <1>1, <1>3, <1>6 DEF PathInv, CallInv, OpeningSteps
<1>8. MadeInv'
  <2>1. \A n : TooLong(n)' <=> TooLong(n)
    BY <1>1 DEF TooLong, Used
  <2>2. made' = 2 * Len(call'.parts)
    BY <1>1, <1>4
  <2> QED BY <1>1, <2>1, <2>2 DEF PathInv, MadeInv, OpeningSteps
<1>9. FoundInv'
  BY <1>1 DEF FoundInv
<1> QED BY <1>7, <1>8, <1>9 DEF PathInv

LEMMA SkipPath ==
  ASSUME PathInv, skip_slash
  PROVE  PathInv'
<1>1. /\ pc = "parse" /\ pc' = "parse" /\ call.rest # <<>> /\ Head(call.rest) = "/"
      /\ call' = [call EXCEPT !.rest = Tail(call.rest)]
      /\ UNCHANGED <<dir, made, item, dangling, twice>>
  BY DEF skip_slash
<1>2. call \in Calls /\ call.parts \o Components(call.rest) = Asked
  BY <1>1 DEF PathInv, CallInv, OpeningSteps
<1>3. Tail(call.rest) \in Seq(STRING) /\ Components(Tail(call.rest)) = Components(call.rest)
  <2>1. call.rest \in Seq(STRING)
    BY <1>2 DEF Calls
  <2> QED BY <1>1, <2>1, SkipKeepsComponents
<1>4. /\ call' \in Calls /\ call'.parts = call.parts /\ call'.rest = Tail(call.rest)
      /\ call'.text = call.text
  BY <1>1, <1>2, <1>3 DEF Calls
<1>5. Asked' = Asked
  BY <1>4 DEF Asked
<1>6. call'.parts \o Components(call'.rest) = Asked'
  BY <1>2, <1>3, <1>4, <1>5
<1>7. CallInv'
  BY <1>1, <1>4, <1>6 DEF PathInv, CallInv, OpeningSteps
<1>8. \A n : TooLong(n)' <=> TooLong(n)
  BY <1>1 DEF TooLong, Used
<1>9. MadeInv'
  BY <1>1, <1>4, <1>8 DEF PathInv, MadeInv, OpeningSteps
<1>10. FoundInv'
  BY <1>1 DEF FoundInv
<1> QED BY <1>7, <1>9, <1>10 DEF PathInv

LEMMA PartPath ==
  ASSUME PathInv, parse_one_path_part
  PROVE  PathInv'
<1> DEFINE part == UpTo(call.rest, "/")
           r == SubSeq(call.rest, Len(part) + 1, Len(call.rest))
<1>1. /\ pc = "parse" /\ pc' = "parse" /\ call.rest # <<>> /\ Head(call.rest) # "/"
      /\ call' = [call EXCEPT !.parts = Append(call.parts, part), !.rest = r]
      /\ made' = made + 2 /\ UNCHANGED <<dir, item, dangling, twice>>
  BY DEF parse_one_path_part
<1>2. /\ call \in Calls /\ call.parts \o Components(call.rest) = Asked
      /\ call.rest \in Seq(STRING) /\ call.parts \in Seq(Seq(STRING))
  BY <1>1 DEF PathInv, CallInv, OpeningSteps, Calls
<1>3. /\ r \in Seq(STRING) /\ part \in Seq(STRING)
      /\ Components(call.rest) = <<part>> \o Components(r)
  BY <1>1, <1>2, PartIsFirstComponent
<1> HIDE DEF part, r
<1>4. Append(call.parts, part) \in Seq(Seq(STRING)) /\ Len(call.parts) \in Nat
      /\ Len(Append(call.parts, part)) = Len(call.parts) + 1
  BY <1>2, <1>3
<1>5. /\ call' \in Calls /\ call'.parts = Append(call.parts, part) /\ call'.rest = r
      /\ call'.text = call.text
  BY <1>1, <1>2, <1>3, <1>4 DEF Calls
<1>6. Asked' = Asked
  BY <1>5 DEF Asked
<1>7. call'.parts \o Components(call'.rest) = Asked'
  <2> DEFINE c == Components(r)
             u == call.parts
  <2>1. c \in Seq(Seq(STRING)) /\ u \in Seq(Seq(STRING)) /\ <<part>> \in Seq(Seq(STRING))
    BY <1>2, <1>3, ComponentsType
  <2>2. Append(u, part) = u \o <<part>>
    BY <1>2, <1>3
  <2> HIDE DEF c, u
  <2>3. (u \o <<part>>) \o c = u \o (<<part>> \o c)
    BY <2>1, ConcatAssociative
  <2> QED BY <1>2, <1>3, <1>5, <1>6, <2>2, <2>3 DEF c, u
<1>8. CallInv'
  BY <1>1, <1>5, <1>7 DEF PathInv, CallInv, OpeningSteps
<1>9. \A n : TooLong(n)' <=> TooLong(n)
  BY <1>1 DEF TooLong, Used
<1>10. made' = 2 * Len(call'.parts)
  <2>1. made = 2 * Len(call.parts)
    BY <1>1 DEF PathInv, MadeInv
  <2> QED BY <1>1, <1>4, <1>5, <2>1
<1>11. MadeInv'
  BY <1>1, <1>9, <1>10 DEF PathInv, MadeInv, OpeningSteps
<1>12. FoundInv'
  BY <1>1 DEF FoundInv
<1> QED BY <1>8, <1>11, <1>12 DEF PathInv

\* When the path is parsed its parts are what was asked for.
LEMMA AskedIsParts ==
  ASSUME CallInv, pc \in OpeningSteps, call.rest = <<>>
  PROVE  Asked = call.parts
<1>1. call.parts \in Seq(Seq(STRING)) /\ call.parts \o <<>> = Asked
  BY ComponentsOfEmpty DEF CallInv, Calls
<1> QED BY <1>1, ConcatEmptySeq

\* The path names what is in use in the root directory under its name.
LEMMA NamedItems ==
  ASSUME CallInv
  PROVE  /\ \A i \in Used(dir) : dir[i] # "deleted" => dir[i] \in Names
         /\ \A i \in Used(dir) : dir[i] \in Names /\ Len(Asked) = 1
               /\ Asked[1] \in Seq(STRING) /\ strcasecmp(NameOf(dir[i]), Asked[1])
               => dir[i] \in Named
         /\ \A n \in Named : Len(Asked) = 1 /\ \E i \in Used(dir) :
               dir[i] = n /\ n \in Names /\ (Asked[1] \in Seq(STRING) => strcasecmp(NameOf(n), Asked[1]))
<1>1. ASSUME NEW i \in Used(dir), dir[i] # "deleted"
      PROVE  dir[i] \in Names
  <2>1. i \in 1 .. Header.root_entries /\ \A j \in 1 .. i : dir[j] # "free"
    BY DEF Used, CallInv
  <2>2. dir[i] # "free"
    <3>1. i \in 1 .. i
      BY <2>1, FatAssumption
    <3> QED BY <2>1, <3>1
  <2> QED BY <1>1, <2>1, <2>2 DEF CallInv
<1>2. \A n \in Names : n # "deleted"
  BY FatAssumption
<1>3. ASSUME NEW n \in Names, Len(Asked) = 1, Asked[1] \in Seq(STRING)
      PROVE  strcasecmp(NameOf(n), Asked[1]) <=>
               /\ Len(NameOf(n)) = Len(Asked[1])
               /\ \A k \in DOMAIN Asked[1] : tolower(NameOf(n)[k]) = tolower(Asked[1][k])
  <2>1. NameOf(n) \in Seq(NameChars)
    BY NameIsFullName
  <2>2. DOMAIN NameOf(n) = 1 .. Len(NameOf(n)) /\ DOMAIN Asked[1] = 1 .. Len(Asked[1])
    BY <1>3, <2>1, LenProperties
  <2> QED BY <2>2 DEF strcasecmp
<1>4. ASSUME NEW i \in Used(dir), dir[i] \in Names, Len(Asked) = 1, Asked[1] \in Seq(STRING),
             strcasecmp(NameOf(dir[i]), Asked[1])
      PROVE  dir[i] \in Named
  <2> DEFINE n == dir[i]
  <2>1. n \in Names /\ n \in {dir[j] : j \in Used(dir)} \ {"deleted"}
    BY <1>2, <1>4
  <2>2. /\ Len(NameOf(n)) = Len(Asked[1])
        /\ \A k \in DOMAIN Asked[1] : tolower(NameOf(n)[k]) = tolower(Asked[1][k])
    BY <1>3, <1>4
  <2> QED BY <1>4, <2>1, <2>2 DEF Named
<1>5. ASSUME NEW n \in Named
      PROVE  Len(Asked) = 1 /\ \E i \in Used(dir) :
               dir[i] = n /\ n \in Names /\ (Asked[1] \in Seq(STRING) => strcasecmp(NameOf(n), Asked[1]))
  <2>1. /\ n \in {dir[j] : j \in Used(dir)} /\ n # "deleted"
        /\ Len(Asked) = 1 /\ Len(NameOf(n)) = Len(Asked[1])
        /\ \A k \in DOMAIN Asked[1] : tolower(NameOf(n)[k]) = tolower(Asked[1][k])
    BY DEF Named
  <2>2. PICK i \in Used(dir) : dir[i] = n
    BY <2>1
  <2>3. n \in Names
    BY <1>1, <2>1, <2>2
  <2>4. Asked[1] \in Seq(STRING) => strcasecmp(NameOf(n), Asked[1])
    BY <1>3, <2>1, <2>3
  <2> QED BY <2>1, <2>2, <2>3, <2>4
<1> QED BY <1>1, <1>4, <1>5

\* What the search finds is in use and has the name of the first part; it finds
\* nothing only if nothing that it looks at has.
LEMMA FoundFacts ==
  ASSUME CallInv, disk = Resolved
  PROVE  /\ Found # None => /\ Found \in Names
                            /\ \E i \in Used(dir) : dir[i] = Found
                            /\ strcasecmp(NameOf(Found), call.parts[1])
         /\ Found = None /\ (\A i \in Used(dir) : dir[i] # "deleted")
              => \A i \in Used(dir) : ~ strcasecmp(NameOf(dir[i]), call.parts[1])
<1> DEFINE name == call.parts[1]
           total == fat16_get_total_items_for_directory(dir)
           hits == {i \in 1 .. total :
                      dir[i] \in Names
                        /\ strcasecmp(fat16_get_full_relative_filename(dir[i]), name)}
<1>1. disk.total = total
  BY DEF Resolved
<1>2. /\ 1 .. total \subseteq Used(dir)
      /\ (\A i \in Used(dir) : dir[i] # "deleted") => Used(dir) = 1 .. total
  <2>1. Header.root_entries \in Nat /\ DOMAIN dir = 1 .. Header.root_entries
    BY FatAssumption DEF CallInv
  <2> QED BY <2>1, TotalItems
<1>3. Found = IF hits = {} THEN None ELSE dir[CHOOSE i \in hits : TRUE]
  BY <1>1 DEF Found, fat16_find_item_in_directory
<1>4. \A i \in 1 .. total : dir[i] \in Names =>
        fat16_get_full_relative_filename(dir[i]) = NameOf(dir[i])
  BY NameIsFullName
<1> HIDE DEF total
<1>5. CASE hits = {}
  <2>1. Found = None
    BY <1>3, <1>5
  <2>2. ASSUME \A i \in Used(dir) : dir[i] # "deleted", NEW i \in Used(dir)
        PROVE  ~ strcasecmp(NameOf(dir[i]), name)
    <3>1. i \in 1 .. total
      BY <1>2, <2>2
    <3>2. dir[i] \in Names
      BY <2>2, NamedItems
    <3> QED BY <1>4, <1>5, <3>1, <3>2
  <2> QED BY <2>1, <2>2
<1>6. CASE hits # {}
  <2>1. PICK i \in hits : Found = dir[i]
    BY <1>3, <1>6
  <2>2. /\ i \in 1 .. total /\ dir[i] \in Names
        /\ strcasecmp(fat16_get_full_relative_filename(dir[i]), name)
    BY <2>1
  <2>3. Found \in Names /\ i \in Used(dir) /\ strcasecmp(NameOf(Found), name)
    BY <1>2, <1>4, <2>1, <2>2
  <2>4. Found # None
    BY <2>3, FatAssumption
  <2> QED BY <2>1, <2>3, <2>4
<1> QED BY <1>5, <1>6

LEMMA ParsedPath ==
  ASSUME FatInv, PathInv, path_parse
  PROVE  PathInv'
<1> DEFINE ok == /\ call.parts # <<>> /\ disk.fs # None
                 /\ get_file_mode_by_string(call.mode) = "FILE_MODE_READ"
<1>1. /\ pc = "parse" /\ call.rest = <<>> /\ UNCHANGED openVars
      /\ pc' = IF ok THEN "search" ELSE "returned"
  BY DEF path_parse
<1>2. UNCHANGED <<disk, dir, call, made, item, dangling, twice>> /\ item = None
  BY <1>1 DEF openVars, FatInv, ItemInv
<1>3. Asked' = Asked /\ Named' = Named /\ Used(dir)' = Used(dir) /\ Asked = call.parts
  BY <1>1, <1>2, AskedIsParts DEF Asked, Named, Used, PathInv, OpeningSteps
<1>4. get_file_mode_by_string(call.mode) = "FILE_MODE_READ"
        <=> call.mode # <<>> /\ call.mode[1] = "r"
  BY DEF get_file_mode_by_string
<1>5. CallInv'
  BY <1>1, <1>2, <1>3, <1>4 DEF PathInv, CallInv, OpeningSteps
<1>6. \A n : TooLong(n)' <=> TooLong(n)
  BY <1>2, <1>3 DEF TooLong
<1>7. MadeInv'
  BY <1>1, <1>2, <1>6 DEF PathInv, MadeInv, OpeningSteps
<1>8. FoundInv'
  <2> SUFFICES ASSUME pc' = "returned", disk.fs # None, call.mode # <<>>, call.mode[1] = "r",
                      NEW n \in Named
               PROVE  FALSE
    BY <1>2, <1>3 DEF FoundInv, OpensWhatIsThere
  <2>1. Len(Asked) = 1
    BY NamedItems DEF PathInv
  <2>2. call.parts # <<>>
    <3>1. Len(call.parts) = 1
      BY <1>3, <2>1
    <3>2. Len(<<>>) = 0
      OBVIOUS
    <3> QED BY <3>1, <3>2
  <2> QED BY <1>1, <1>4, <2>2
<1> QED BY <1>5, <1>7, <1>8 DEF PathInv

LEMMA OpenPath ==
  ASSUME FatInv, PathInv, fat16_open
  PROVE  PathInv'
<1>1. /\ pc = "search" /\ pc' = "returned" /\ UNCHANGED <<disk, dir, call, twice>>
      /\ item' = IF Len(call.parts) > 1 THEN None ELSE Found
  BY DEF fat16_open, fat16_get_directory_entry
<1>2. PICK freed \in load_freed(Found) :
        /\ dangling' = (item' # None /\ freed)
        /\ made' = made + (IF Found = None THEN 0 ELSE item_objects(Found, freed))
                       + (IF item' = None THEN 0 ELSE 2)
  BY DEF fat16_open
<1>3. /\ disk = Resolved /\ call \in Calls /\ call.rest = <<>> /\ call.parts # <<>>
      /\ call.mode # <<>> /\ call.mode[1] = "r" /\ made = 2 * Len(call.parts)
  BY <1>1 DEF FatInv, DiskInv, PathInv, CallInv, MadeInv, OpeningSteps
<1>4. Asked' = Asked /\ Named' = Named /\ Used(dir)' = Used(dir) /\ Asked = call.parts
  BY <1>1, <1>3, AskedIsParts DEF Asked, Named, Used, PathInv, OpeningSteps
<1>5. /\ call.parts \in Seq(Seq(STRING)) /\ Len(call.parts) \in Nat /\ Len(call.parts) > 0
      /\ call.parts[1] \in Seq(STRING)
  BY <1>3 DEF Calls
<1>6. Found # None => /\ Found \in Names
                     /\ \E i \in Used(dir) : dir[i] = Found
                     /\ strcasecmp(NameOf(Found), call.parts[1])
  BY <1>3, FoundFacts DEF PathInv
<1>7. item' # None => item' = Found /\ Len(call.parts) = 1
  <2>1. Len(call.parts) > 1 \/ Len(call.parts) = 1
    <3> DEFINE m == Len(call.parts)
    <3>1. m \in Nat /\ m > 0
      BY <1>5
    <3> HIDE DEF m
    <3>2. m > 1 \/ m = 1
      BY <3>1
    <3> QED BY <3>2 DEF m
  <2>2. Len(call.parts) > 1 => item' = None
    BY <1>1
  <2>3. ~(Len(call.parts) > 1) => item' = Found
    BY <1>1
  <2> QED BY <1>5, <2>1, <2>2, <2>3
<1>8. freed \in BOOLEAN /\ (freed => Found \in Subdirs /\ SubdirSize[Found] > ClusterSize)
  <2>1. CASE Found \in Subdirs /\ SubdirSize[Found] > ClusterSize
    BY <1>2, <2>1 DEF load_freed
  <2>2. CASE ~(Found \in Subdirs /\ SubdirSize[Found] > ClusterSize)
    BY <1>2, <2>2 DEF load_freed
  <2> QED BY <2>1, <2>2
<1>9. CallInv'
  BY <1>1, <1>3, <1>4 DEF PathInv, CallInv, OpeningSteps
<1>10. FoundInv'
  <2>1. item' # None => item' \in Named /\ disk.private
    <3> SUFFICES ASSUME item' # None PROVE item' \in Named /\ disk.private
      OBVIOUS
    <3>1. Found # None /\ item' = Found /\ Len(Asked) = 1 /\ Asked[1] \in Seq(STRING)
      BY <1>4, <1>5, <1>7
    <3>2. PICK i \in Used(dir) : dir[i] = Found
      BY <1>6, <3>1
    <3>3. dir[i] \in Names /\ strcasecmp(NameOf(dir[i]), Asked[1])
      BY <1>4, <1>6, <3>1, <3>2
    <3>4. dir[i] \in Named
      BY <3>1, <3>3, NamedItems DEF PathInv
    <3> QED BY <1>3, <3>1, <3>2, <3>4 DEF Resolved
  <2>2. Named # {} => item' \in Named \/ \E i \in Used(dir) : dir[i] = "deleted"
    <3> SUFFICES ASSUME NEW n \in Named, item' \notin Named,
                        \A i \in Used(dir) : dir[i] # "deleted"
                 PROVE  FALSE
      OBVIOUS
    <3>1. PICK i \in Used(dir) :
            Len(Asked) = 1 /\ dir[i] = n
              /\ (Asked[1] \in Seq(STRING) => strcasecmp(NameOf(n), Asked[1]))
      BY NamedItems DEF PathInv
    <3>2. item' = None /\ item' = Found
      BY <1>1, <1>4, <2>1, <3>1
    <3>3. ~ strcasecmp(NameOf(dir[i]), call.parts[1])
      BY <1>3, <3>2, FoundFacts DEF PathInv
    <3> QED BY <1>4, <1>5, <3>1, <3>3
  <2> QED BY <1>1, <1>3, <1>4, <2>1, <2>2 DEF FoundInv, OpensWhatIsThere
<1>11. MadeInv'
  <2>1. \A n : TooLong(n)' <=> TooLong(n)
    BY <1>1, <1>4 DEF TooLong
  <2>2. dangling' \in BOOLEAN /\ (dangling' => TooLong(item'))
    BY <1>2, <1>6, <1>7, <1>8 DEF TooLong
  <2>3. item' = None /\ Len(call.parts) < 2 => made' = 2 * Len(call.parts)
    <3> SUFFICES ASSUME item' = None, Len(call.parts) < 2 PROVE made' = 2 * Len(call.parts)
      OBVIOUS
    <3>1. Found = None
      BY <1>1, <1>5
    <3>2. made' = made + 0 + 0
      BY <1>2, <3>1
    <3> QED BY <1>3, <1>5, <3>2
  <2>4. item' # None => made' = 2 * Len(call.parts) + item_objects(item', dangling') + 2
    <3> SUFFICES ASSUME item' # None
                 PROVE  made' = 2 * Len(call.parts) + item_objects(item', dangling') + 2
      OBVIOUS
    <3>1. item' = Found /\ Found # None
      BY <1>7
    <3>2. dangling' = freed
      BY <1>2, <1>8
    <3> QED BY <1>2, <1>3, <3>1, <3>2
  <2> QED BY <1>1, <2>1, <2>2, <2>3, <2>4 DEF PathInv, MadeInv, OpeningSteps
<1> QED BY <1>9, <1>10, <1>11 DEF PathInv

LEMMA ReturnPath ==
  ASSUME PathInv, fopen_returns
  PROVE  PathInv'
<1>1. /\ pc = "returned" /\ pc' = "ready" /\ UNCHANGED <<dir, item, dangling, twice>>
      /\ made' = IF item = None THEN 0 ELSE made - 2 * Len(call.parts)
  BY DEF fopen_returns
<1>2. \A n : TooLong(n)' <=> TooLong(n)
  BY <1>1 DEF TooLong, Used
<1>3. item # None => made' = item_objects(item, dangling) + 2
  <2>1. Len(call.parts) \in Nat
    BY <1>1 DEF PathInv, CallInv, OpeningSteps, Calls
  <2>2. item # None => made = 2 * Len(call.parts) + item_objects(item, dangling) + 2
    BY <1>1 DEF PathInv, MadeInv
  <2>3. item_objects(item, dangling) \in Nat
    BY DEF item_objects
  <2> QED BY <1>1, <2>1, <2>2, <2>3
<1>4. CallInv' /\ FoundInv'
  BY <1>1 DEF PathInv, CallInv, FoundInv, OpeningSteps
<1>5. MadeInv'
  BY <1>1, <1>2, <1>3 DEF PathInv, MadeInv, OpeningSteps
<1> QED BY <1>4, <1>5 DEF PathInv

LEMMA ClosePath ==
  ASSUME PathInv, fclose
  PROVE  PathInv'
<1>1. /\ pc = "ready" /\ pc' = "ready" /\ item # None /\ item' = None /\ dir' = dir
      /\ made' = made - item_objects(item, dangling) - 2
      /\ twice' = (twice \/ dangling) /\ dangling' = FALSE
  BY DEF fclose
<1>2. \A n : TooLong(n)' <=> TooLong(n)
  BY <1>1 DEF TooLong, Used
<1>3. made' = 0
  <2>1. made = item_objects(item, dangling) + 2
    BY <1>1 DEF PathInv, MadeInv, OpeningSteps
  <2>2. item_objects(item, dangling) \in Nat
    BY DEF item_objects
  <2> QED BY <1>1, <2>1, <2>2
<1>4. twice' \in BOOLEAN /\ (twice' => \E n \in Subdirs : TooLong(n))
  <2>1. /\ twice \in BOOLEAN /\ dangling \in BOOLEAN /\ (dangling => TooLong(item))
        /\ (twice => \E n \in Subdirs : TooLong(n))
    BY DEF PathInv, MadeInv
  <2>2. TooLong(item) => item \in Subdirs
    BY DEF TooLong
  <2> QED BY <1>1, <2>1, <2>2
<1>5. CallInv' /\ FoundInv'
  BY <1>1 DEF PathInv, CallInv, FoundInv, OpeningSteps
<1>6. MadeInv'
  BY <1>1, <1>2, <1>3, <1>4 DEF MadeInv, OpeningSteps
<1> QED BY <1>5, <1>6 DEF PathInv

----------------------------------------------------------------------------
\* The theorems.

\* The invariant of mounting, opening and reading.
THEOREM FatCorrect == Spec => []FatInv
<1>1. Init => FatInv
  <2> SUFFICES ASSUME Init PROVE FatInv
    OBVIOUS
  <2>1. pc = "boot" /\ rd = NoRead /\ disk = NoDisk /\ streams = 0 /\ item = None
    BY DEF Init, OpenInit
  <2>2. AskedBytes = 0 /\ Len(rd.out) = 0 /\ rd.res = 0
    BY <2>1, NoReadFacts DEF AskedBytes
  <2>3. FatTypes /\ DiskInv /\ ItemInv
    BY <2>1, NoReadFacts DEF FatTypes, DiskInv, ItemInv, MountSteps, OpeningSteps, ReadSteps
  <2>4. ProgressInv /\ SoundInv
    BY <2>1, <2>2 DEF ProgressInv, SoundInv, ReadSteps
  <2> QED BY <2>3, <2>4 DEF FatInv
<1>2. FatInv /\ [Next]_vars => FatInv'
  <2> SUFFICES ASSUME FatInv, [Next]_vars PROVE FatInv'
    OBVIOUS
  <2>1. CASE OpenSteps /\ rd' = rd
    BY <2>1, MountInv, OpenInv DEF OpenSteps
  <2>2. CASE (disk_read_sectors(Reading) \/ poll \/ drive_answers) /\ rd' = rd
    BY <2>2, DriveInv DEF disk_read_sectors, poll, drive_answers
  <2>3. CASE locate \/ walk \/ seek \/ disk_stream_read \/ more \/ next_member \/ done
    BY <2>3, LocateInv, WalkInv, SeekInv, StreamInv, MoreInv, NextMemberInv, DoneInv
  <2>4. CASE \E path \in Paths, mode \in Modes : fopen(path, mode) /\ UNCHANGED rd
    BY <2>4, OpenInv
  <2>5. CASE close
    BY <2>5, CloseInv
  <2>6. CASE \E off \in Offsets, size \in Sizes, count \in Counts : fat16_read(off, size, count)
    BY <2>6, StartReadInv
  <2>7. CASE UNCHANGED vars
    BY <2>7, DriveInv DEF vars
  <2> QED BY <2>1, <2>2, <2>3, <2>4, <2>5, <2>6, <2>7 DEF Next, Kernel, Answer
<1> QED BY <1>1, <1>2, PTL DEF Spec

\* After boot the disk is mounted as a whole or not at all.
THEOREM FatMountedOrNothing == Spec => []MountedOrNothing
<1>1. FatInv => MountedOrNothing
  <2> SUFFICES ASSUME FatInv, pc \notin MountSteps
               PROVE  /\ streams = 3
                      /\ IF disk.fs # None
                         THEN disk.private /\ disk.ending > root_dir_sector_pos
                         ELSE disk = NoDisk
    BY DEF MountedOrNothing, MountSteps
  <2>1. streams = 3 /\ disk \in {NoDisk, Resolved}
    BY DEF FatInv, DiskInv, MountSteps
  <2>2. CASE disk = NoDisk
    BY <2>1, <2>2 DEF NoDisk
  <2>3. CASE disk = Resolved
    <3>1. disk.fs # None /\ disk.private /\ disk.ending = RootEnding
      BY <2>3, FatAssumption DEF Resolved
    <3> QED BY <2>1, <3>1, DiskSizes
  <2> QED BY <2>1, <2>2, <2>3
<1> QED BY <1>1, FatCorrect, PTL

\* A read copies no more than it was asked for, all of it when it returns nmemb,
\* and the bytes of the file when it is a sound one.
THEOREM FatReadIsExact == Spec => []ReadIsExact
<1>1. FatInv => ReadIsExact
  <2> SUFFICES ASSUME FatInv PROVE ReadIsExact
    OBVIOUS
  <2>1. rd \in ReadState /\ AskedBytes \in Nat /\ Len(rd.out) \in Nat
    BY AskedNat DEF FatInv, FatTypes
  <2>2. Len(rd.out) <= AskedBytes
    <3>1. CASE pc \in ReadSteps
      <4> DEFINE p == rd.member * rd.want.size
                 T == total_to_read(rd.left)
      <4>1. /\ p \in Nat /\ p + rd.want.size <= AskedBytes /\ rd.want.size \in Nat
            /\ rd.left \in Nat /\ T \in 1 .. rd.left
        BY <3>1, ReadFacts
      <4>2. Len(rd.out) = p + (rd.want.size - rd.left) + RoundBytes
        BY <3>1 DEF FatInv, ProgressInv, Progress
      <4>3. RoundBytes \in Int /\ RoundBytes <= T
        <5>1. CASE pc = "stream"
          <6>1. RoundBytes = T - rd.total /\ rd.total \in 0 .. T
            BY <5>1 DEF FatInv, ProgressInv, RoundBytes
          <6> QED BY <4>1, <6>1
        <5>2. CASE pc # "stream"
          BY <4>1, <5>2 DEF RoundBytes
        <5> QED BY <5>1, <5>2
      <4> HIDE DEF p, T, AskedBytes
      <4> QED BY <2>1, <4>1, <4>2, <4>3
    <3>2. CASE pc \notin ReadSteps
      BY <3>2 DEF FatInv, ProgressInv
    <3> QED BY <3>1, <3>2
  <2>3. Returned => Len(rd.out) = AskedBytes /\ rd.res = rd.want.count
    BY DEF Returned, FatInv, ProgressInv, ReadSteps
  <2>4. ASSUME Returned, Sound, NEW k \in 1 .. Len(rd.out)
        PROVE  rd.out[k] = FileByte(item, rd.want.offset + k - 1)
    <3>1. item \in Files /\ rd.out[k] = FirstByte + rd.want.offset + (k - 1)
      BY <2>4 DEF Returned, FatInv, SoundInv
    <3>2. rd.want.offset \in Nat /\ FirstByte \in Nat
      BY <2>1, <3>1, FirstByteAligned DEF ReadState
    <3>3. rd.want.offset + AskedBytes <= ClusterSize
      BY <2>4 DEF Sound
    <3> DEFINE j == rd.want.offset + k - 1
    <3>4. j \in Nat /\ j < ClusterSize
      <4> HIDE DEF AskedBytes, ClusterSize
      <4> QED BY <2>1, <2>2, <3>2, <3>3, DiskSizes
    <3>5. FirstByte + rd.want.offset + (k - 1) = FirstByte + j
      BY <2>1, <3>2
    <3> HIDE DEF j
    <3>6. FileByte(item, j) = FirstByte + j
      BY <3>1, <3>4, FirstCluster
    <3> QED BY <3>1, <3>5, <3>6 DEF j
  <2> QED BY <2>2, <2>3, <2>4 DEF ReadIsExact
<1> QED BY <1>1, FatCorrect, PTL

\* The invariant of the path parser, the search and what a call allocates.
THEOREM PathCorrect == Spec => []PathInv
<1>1. Init => PathInv
  <2> SUFFICES ASSUME Init PROVE PathInv
    OBVIOUS
  <2>1. /\ pc = "boot" /\ item = None /\ made = 0 /\ dangling = FALSE /\ twice = FALSE
        /\ dir \in [1 .. Header.root_entries -> Names \cup {"free", "deleted"}]
    BY DEF Init, OpenInit
  <2> QED BY <2>1 DEF PathInv, CallInv, FoundInv, MadeInv, OpeningSteps
<1>2. FatInv /\ PathInv /\ [Next]_vars => PathInv'
  <2> SUFFICES ASSUME FatInv, PathInv, [Next]_vars PROVE PathInv'
    OBVIOUS
  <2>1. CASE fat16_resolve \/ resolve_fails \/ resolve_header \/ fat16_get_root_directory \/ fs_resolve
    <3>1. /\ UNCHANGED <<dir, call, made, item, dangling, twice>>
          /\ pc \notin OpeningSteps /\ pc' \notin OpeningSteps
      BY <2>1 DEF fat16_resolve, resolve_fails, resolve_header, fat16_get_root_directory,
                  fs_resolve, openVars, OpeningSteps
    <3> QED BY <3>1, KeepPath
  <2>2. CASE skip_slash \/ parse_one_path_part \/ path_parse \/ fat16_open \/ fopen_returns
    BY <2>2, SkipPath, PartPath, ParsedPath, OpenPath, ReturnPath
  <2>3. CASE disk_read_sectors(Reading) \/ poll \/ drive_answers \/ UNCHANGED vars
    <3>1. UNCHANGED <<dir, call, made, item, dangling, twice>> /\ pc' = pc /\ disk' = disk
      BY <2>3 DEF disk_read_sectors, poll, drive_answers, vars, openVars
    <3> QED BY <3>1, KeepPath
  <2>4. CASE \/ locate \/ walk \/ seek \/ disk_stream_read \/ more \/ next_member \/ done
             \/ \E off \in Offsets, size \in Sizes, count \in Counts : fat16_read(off, size, count)
    <3>1. UNCHANGED openVars /\ pc \notin OpeningSteps /\ pc' \notin OpeningSteps
      BY <2>4 DEF locate, walk, seek, disk_stream_read, more, next_member, done, fat16_read,
                  Streamed, MemberRead, OpeningSteps
    <3>2. UNCHANGED <<dir, call, made, item, dangling, twice>>
      BY <3>1 DEF openVars
    <3> QED BY <3>1, <3>2, KeepPath
  <2>5. CASE \E path \in Paths, mode \in Modes : fopen(path, mode) /\ UNCHANGED rd
    BY <2>5, FopenPath
  <2>6. CASE close
    BY <2>6, ClosePath DEF close
  <2> QED BY <2>1, <2>2, <2>3, <2>4, <2>5, <2>6 DEF Next, Kernel, Answer, OpenSteps
<1> QED BY <1>1, <1>2, FatCorrect, PTL DEF Spec

\* At every point of path_parse the parts and what is left have the components
\* of the path.
THEOREM FatPartsAreComponents == Spec => []PartsAreComponents
<1>1. PathInv => PartsAreComponents
  BY DEF PathInv, CallInv, PartsAreComponents, OpeningSteps
<1> QED BY <1>1, PathCorrect, PTL

\* fopen opens the item of the root directory that the path names, nothing else,
\* and misses it only in a directory with deleted entries.
THEOREM FatOpensWhatIsThere == Spec => []OpensWhatIsThere
<1>1. PathInv => OpensWhatIsThere
  BY DEF PathInv, FoundInv, OpensWhatIsThere
<1> QED BY <1>1, PathCorrect, PTL

\* fclose frees what fopen allocated but the parts of the path, and nothing is
\* freed twice on a disk whose directories are no longer than a cluster.
THEOREM FatLeaksOnlyParts == Spec => []LeaksOnlyParts
<1>1. PathInv => LeaksOnlyParts
  <2> SUFFICES ASSUME PathInv PROVE LeaksOnlyParts
    OBVIOUS
  <2>1. pc = "ready" /\ item = None => made = 0
    BY DEF PathInv, MadeInv, OpeningSteps
  <2>2. pc = "returned" => Asked = call.parts
    BY AskedIsParts DEF PathInv, CallInv, OpeningSteps
  <2>3. pc = "returned" /\ item = None /\ Len(Asked) < 2 => made = 2 * Len(Asked)
    BY <2>2 DEF PathInv, MadeInv
  <2>4. twice => \E i \in Used(dir) : dir[i] \in Subdirs /\ SubdirSize[dir[i]] > ClusterSize
    BY DEF PathInv, MadeInv, TooLong
  <2> QED BY <2>1, <2>3, <2>4 DEF LeaksOnlyParts
<1> QED BY <1>1, PathCorrect, PTL

----------------------------------------------------------------------------
\* The variant.

\* What is left to do of a call, the weightiest first: the members of a read, the
\* bytes of the member, the phases, the rest of the path, of the clusters to
\* walk or of the bytes to stream, and what the drive still has to do.
MembersLeft == IF pc \in ReadSteps THEN rd.want.count - rd.member ELSE 0
BytesLeft == IF pc \in ReadSteps THEN rd.left ELSE 0
PhasesLeft ==
  CASE pc = "boot" -> 4
    [] pc \in {"header", "locate", "parse"} -> 3
    [] pc \in {"root", "walk", "search"} -> 2
    [] pc \in {"resolved", "stream", "returned"} -> 1
    [] OTHER -> 0
WorkLeft ==
  CASE pc = "parse" -> Len(call.rest)
    [] pc = "walk" -> rd.ahead
    [] pc = "stream" -> rd.total
    [] OTHER -> 0
WaitsLeft == CASE drive = "idle" -> 2 [] drive = "busy" -> 1 [] OTHER -> 0

Descends ==
  \/ MembersLeft' < MembersLeft
  \/ MembersLeft' = MembersLeft /\ BytesLeft' < BytesLeft
  \/ MembersLeft' = MembersLeft /\ BytesLeft' = BytesLeft /\ PhasesLeft' < PhasesLeft
  \/ /\ MembersLeft' = MembersLeft /\ BytesLeft' = BytesLeft /\ PhasesLeft' = PhasesLeft
     /\ WorkLeft' < WorkLeft
  \/ /\ MembersLeft' = MembersLeft /\ BytesLeft' = BytesLeft /\ PhasesLeft' = PhasesLeft
     /\ WorkLeft' = WorkLeft /\ WaitsLeft' < WaitsLeft

\* Mounting and opening: a phase, or a part of the path.
LEMMA OpenDescends ==
  ASSUME FatInv, PathInv, OpenSteps, rd' = rd
  PROVE  Descends
<1> USE DEF ReadSteps
<1>1. CASE fat16_resolve \/ resolve_fails \/ resolve_header \/ fat16_get_root_directory \/ fs_resolve
  BY <1>1 DEF fat16_resolve, resolve_fails, resolve_header, fat16_get_root_directory,
              fs_resolve, Descends, MembersLeft, BytesLeft, PhasesLeft
<1>2. CASE path_parse \/ fat16_open \/ fopen_returns
  BY <1>2 DEF path_parse, fat16_open, fopen_returns, Descends, MembersLeft, BytesLeft, PhasesLeft
<1>3. ASSUME pc = "parse", pc' = "parse", Len(call'.rest) < Len(call.rest) PROVE Descends
  BY <1>3 DEF Descends, MembersLeft, BytesLeft, PhasesLeft, WorkLeft
<1>4. ASSUME pc = "parse"
      PROVE  call \in Calls /\ call.rest \in Seq(STRING)
  BY <1>4 DEF PathInv, CallInv, OpeningSteps, Calls
<1>5. CASE skip_slash
  <2>1. /\ pc = "parse" /\ pc' = "parse" /\ call.rest # <<>>
        /\ call' = [call EXCEPT !.rest = Tail(call.rest)]
    BY <1>5 DEF skip_slash
  <2>2. call'.rest = Tail(call.rest)
    BY <1>4, <2>1 DEF Calls
  <2>3. Len(Tail(call.rest)) < Len(call.rest)
    BY <1>4, <2>1
  <2> QED BY <1>3, <2>1, <2>2, <2>3
<1>6. CASE parse_one_path_part
  <2> DEFINE n == Len(UpTo(call.rest, "/"))
             m == Len(call.rest)
             r == SubSeq(call.rest, n + 1, m)
  <2>1. /\ pc = "parse" /\ pc' = "parse" /\ call.rest # <<>> /\ Head(call.rest) # "/"
        /\ call'.rest = r
    BY <1>4, <1>6 DEF parse_one_path_part, Calls
  <2>2. n \in 0 .. m /\ (n = m \/ call.rest[n + 1] = "/") /\ m \in Nat /\ m > 0
    BY <1>4, <2>1, UpToFacts
  <2>3. call.rest[1] # "/"
    BY <1>4, <2>1
  <2>4. n > 0
    <3> HIDE DEF n, m
    <3> QED BY <2>2, <2>3
  <2>5. Len(r) = m - n
    <3> HIDE DEF n
    <3> QED BY <1>4, <2>1, <2>2
  <2> HIDE DEF n, m, r
  <2>6. Len(r) < m
    BY <2>2, <2>4, <2>5
  <2> QED BY <1>3, <2>1, <2>6 DEF m
<1> QED BY <1>1, <1>2, <1>5, <1>6 DEF OpenSteps

\* Reading: a member, a round of it, a phase of the round, a FAT entry or a
\* sector.
LEMMA ReadDescends ==
  ASSUME FatInv, locate \/ walk \/ seek \/ disk_stream_read \/ more \/ next_member \/ done
  PROVE  Descends
<1>1. pc \in ReadSteps
  BY DEF locate, walk, seek, disk_stream_read, more, next_member, done, Streamed, MemberRead,
         ReadSteps
<1>2. /\ rd \in ReadState /\ rd.member \in 0 .. rd.want.count - 1 /\ rd.want.count \in Nat
      /\ rd.left \in Nat \ {0} /\ total_to_read(rd.left) \in 1 .. rd.left
      /\ rd.ahead \in Nat /\ rd.total \in Nat
  <2>1. rd \in ReadState
    BY DEF FatInv, FatTypes
  <2>2. rd.ahead \in Nat /\ rd.total \in Nat
    BY <2>1 DEF ReadState
  <2> QED BY <1>1, <2>1, <2>2, ReadFacts
<1>3. MembersLeft = rd.want.count - rd.member /\ MembersLeft > 0 /\ BytesLeft = rd.left
  BY <1>1, <1>2 DEF MembersLeft, BytesLeft
<1>4. ASSUME pc' = "ready" PROVE Descends
  BY <1>3, <1>4 DEF Descends, MembersLeft, ReadSteps
<1>5. ASSUME pc' \in ReadSteps, rd'.want = rd.want, rd'.member = rd.member, rd'.left = rd.left,
             \/ PhasesLeft' < PhasesLeft
             \/ PhasesLeft' = PhasesLeft /\ WorkLeft' < WorkLeft
      PROVE  Descends
  <2>1. MembersLeft' = MembersLeft /\ BytesLeft' = BytesLeft
    BY <1>1, <1>5 DEF MembersLeft, BytesLeft
  <2> QED BY <1>5, <2>1 DEF Descends
<1>6. CASE locate
  <2>1. /\ pc = "locate" /\ pc' = "walk" /\ rd'.want = rd.want /\ rd'.member = rd.member
        /\ rd'.left = rd.left
    BY <1>2, <1>6 DEF locate, ReadState
  <2> QED BY <1>5, <2>1 DEF PhasesLeft, ReadSteps
<1>7. CASE walk
  <2>1. PICK entry \in Words :
          IF entry \in EndWords
          THEN pc' = "ready" /\ rd' = [rd EXCEPT !.res = EIO]
          ELSE pc' = pc /\ rd' = [rd EXCEPT !.cluster = entry, !.ahead = rd.ahead - 1]
    BY <1>7 DEF walk
  <2>2. CASE entry \notin EndWords
    <3>1. /\ pc = "walk" /\ pc' = "walk" /\ rd'.want = rd.want /\ rd'.member = rd.member
          /\ rd'.left = rd.left /\ rd'.ahead = rd.ahead - 1
      BY <1>2, <1>7, <2>1, <2>2 DEF walk, ReadState
    <3>2. PhasesLeft' = PhasesLeft /\ WorkLeft' < WorkLeft
      BY <1>2, <3>1 DEF PhasesLeft, WorkLeft
    <3> QED BY <1>5, <3>1, <3>2 DEF ReadSteps
  <2> QED BY <1>4, <2>1, <2>2
<1>8. CASE seek
  <2>1. /\ pc = "walk" /\ pc' = "stream" /\ rd'.want = rd.want /\ rd'.member = rd.member
        /\ rd'.left = rd.left
    BY <1>2, <1>8 DEF seek, ReadState
  <2> QED BY <1>5, <2>1 DEF PhasesLeft, ReadSteps
<1>9. CASE disk_stream_read
  <2> DEFINE n == IF rd.total > SectorSize THEN SectorSize ELSE rd.total
  <2>1. n \in Nat /\ n > 0 /\ pc = "stream" /\ pc' = "stream"
    BY <1>2, <1>9, DiskSizes DEF disk_stream_read
  <2>2. rd' = [rd EXCEPT !.out = rd.out \o tmp_buf(rd.pos, n), !.pos = rd.pos + n,
                         !.total = rd.total - n]
    BY <1>9 DEF disk_stream_read
  <2> HIDE DEF n
  <2>3. /\ rd'.want = rd.want /\ rd'.member = rd.member /\ rd'.left = rd.left
        /\ rd'.total = rd.total - n
    BY <1>2, <2>2 DEF ReadState
  <2>4. PhasesLeft' = PhasesLeft /\ WorkLeft' < WorkLeft
    BY <1>2, <2>1, <2>3 DEF PhasesLeft, WorkLeft
  <2> QED BY <1>5, <2>1, <2>3, <2>4 DEF ReadSteps
<1>10. CASE more
  <2>1. /\ pc' = "locate" /\ rd'.want = rd.want /\ rd'.member = rd.member
        /\ rd'.left = rd.left - total_to_read(rd.left)
    BY <1>2, <1>10 DEF more, ReadState
  <2>2. MembersLeft' = MembersLeft /\ BytesLeft' < BytesLeft
    BY <1>2, <1>3, <2>1 DEF MembersLeft, BytesLeft, ReadSteps
  <2> QED BY <2>2 DEF Descends
<1>11. CASE next_member
  <2>1. pc' = "locate" /\ rd'.want = rd.want /\ rd'.member = rd.member + 1
    BY <1>2, <1>11 DEF next_member, ReadState
  <2>2. MembersLeft' < MembersLeft
    BY <1>2, <1>3, <2>1 DEF MembersLeft, ReadSteps
  <2> QED BY <2>2 DEF Descends
<1>12. CASE done
  BY <1>4, <1>12 DEF done
<1> QED BY <1>6, <1>7, <1>8, <1>9, <1>10, <1>11, <1>12

\* Nothing in mounting, opening and reading loops for ever by itself: every step
\* between the call and its return, whatever the disk and the FAT entries hold,
\* lowers the variant in the order of its parts, each of which is a natural
\* number. Only polling the drive changes nothing.
THEOREM FatStepsDescend ==
  Spec => /\ [](/\ MembersLeft \in Nat /\ BytesLeft \in Nat /\ PhasesLeft \in Nat
                /\ WorkLeft \in Nat /\ WaitsLeft \in Nat)
          /\ [][pc # "ready" => Descends]_vars
<1>1. FatInv /\ PathInv =>
        /\ MembersLeft \in Nat /\ BytesLeft \in Nat /\ PhasesLeft \in Nat
        /\ WorkLeft \in Nat /\ WaitsLeft \in Nat
  <2> SUFFICES ASSUME FatInv, PathInv
               PROVE  /\ MembersLeft \in Nat /\ BytesLeft \in Nat /\ PhasesLeft \in Nat
                      /\ WorkLeft \in Nat /\ WaitsLeft \in Nat
    OBVIOUS
  <2>1. MembersLeft \in Nat /\ BytesLeft \in Nat
    <3>1. pc \in ReadSteps => rd.want.count - rd.member \in Nat /\ rd.left \in Nat
      <4>1. pc \in ReadSteps =>
              /\ rd.member \in 0 .. rd.want.count - 1 /\ rd.want.count \in Nat
              /\ rd.left \in Nat \ {0}
        BY ReadFacts
      <4> QED BY <4>1
    <3> QED BY <3>1 DEF MembersLeft, BytesLeft
  <2>2. PhasesLeft \in Nat /\ WaitsLeft \in Nat
    BY DEF PhasesLeft, WaitsLeft
  <2>3. WorkLeft \in Nat
    <3>1. rd.ahead \in Nat /\ rd.total \in Nat
      BY DEF FatInv, FatTypes, ReadState
    <3>2. pc = "parse" => call.rest \in Seq(STRING)
      BY DEF PathInv, CallInv, OpeningSteps, Calls
    <3>3. pc = "parse" => Len(call.rest) \in Nat
      BY <3>2
    <3> QED BY <3>1, <3>3 DEF WorkLeft
  <2> QED BY <2>1, <2>2, <2>3
<1>2. FatInv /\ PathInv /\ [Next]_vars => [pc # "ready" => Descends]_vars
  <2> SUFFICES ASSUME FatInv, PathInv, Next, ~UNCHANGED vars, pc # "ready" PROVE Descends
    OBVIOUS
  <2>1. CASE OpenSteps /\ rd' = rd
    BY <2>1, OpenDescends
  <2>2. CASE locate \/ walk \/ seek \/ disk_stream_read \/ more \/ next_member \/ done
    BY <2>2, ReadDescends
  <2>3. CASE (disk_read_sectors(Reading) \/ drive_answers) /\ rd' = rd
    <3>1. pc' = pc /\ call' = call /\ WaitsLeft' < WaitsLeft
      BY <2>3 DEF disk_read_sectors, drive_answers, openVars, WaitsLeft
    <3>2. /\ MembersLeft' = MembersLeft /\ BytesLeft' = BytesLeft /\ PhasesLeft' = PhasesLeft
          /\ WorkLeft' = WorkLeft
      BY <2>3, <3>1 DEF MembersLeft, BytesLeft, PhasesLeft, WorkLeft
    <3> QED BY <3>1, <3>2 DEF Descends
  <2>4. ~(poll /\ rd' = rd)
    BY DEF poll, vars
  <2>5. ~close /\ \A path, mode : ~fopen(path, mode)
    BY DEF close, fclose, fopen
  <2>6. \A off, size, count : ~fat16_read(off, size, count)
    BY DEF fat16_read
  <2> QED BY <2>1, <2>2, <2>3, <2>4, <2>5, <2>6 DEF Next, Kernel, Answer
<1> QED BY <1>1, <1>2, FatCorrect, PathCorrect, PTL DEF Spec
=============================================================================
