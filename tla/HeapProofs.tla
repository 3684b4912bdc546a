----------------------------- MODULE HeapProofs -----------------------------
(***************************************************************************)
(* For every heap size, block size, word and set of request sizes: the     *)
(* invariants of Heap, and that Heap implements Allocator.                 *)
(***************************************************************************)
EXTENDS Heap, WellFoundedInduction, TLAPS

----------------------------------------------------------------------------
\* Sizes.

\* Division by a positive number, with its remainder.
LEMMA DivMod ==
  ASSUME NEW v \in Nat, NEW d \in Nat \ {0}
  PROVE  /\ v % d \in 0 .. d - 1
         /\ v \div d \in Nat
         /\ v = d * (v \div d) + (v % d)
  OBVIOUS

\* What is less than the modulus is its own remainder.
LEMMA ModSmall ==
  ASSUME NEW v \in Nat, NEW d \in Nat \ {0}
  PROVE  /\ v < d => v % d = v
         /\ v = d => v % d = 0
  OBVIOUS

\* Monotonicity of the product, and the quotient of an exact multiple.
LEMMA Multiples ==
  ASSUME NEW q \in Nat, NEW p \in Nat, NEW d \in Nat \ {0}
  PROVE  /\ d * q < d * p <=> q < p
         /\ (d * q) \div d = q
  <1>1. q < p => d * q + d <= d * p
    <2> SUFFICES ASSUME q < p PROVE d * q + d <= d * p
      OBVIOUS
    <2>1. PICK e \in Nat : p = q + 1 + e
      <3> WITNESS p - q - 1 \in Nat
      <3> QED OBVIOUS
    <2>2. d * p = d * q + d + d * e
      BY <2>1
    <2>3. d * e \in Nat
      OBVIOUS
    <2> QED BY <2>2, <2>3
  <1>2. p <= q => d * p <= d * q
    <2> SUFFICES ASSUME p <= q PROVE d * p <= d * q
      OBVIOUS
    <2>1. PICK e \in Nat : q = p + e
      <3> WITNESS q - p \in Nat
      <3> QED OBVIOUS
    <2>2. d * q = d * p + d * e
      BY <2>1
    <2>3. d * e \in Nat
      OBVIOUS
    <2> QED BY <2>2, <2>3
  <1>3. (d * q) \div d = q
    OBVIOUS
  <1> QED BY <1>1, <1>2, <1>3

\* A size in bytes needs a natural number of blocks, and when that is not 0
\* they hold at least that many bytes: align_value_to_upper either rounds up
\* or wraps to 0.
LEMMA BlocksForSize ==
  ASSUME NEW size \in 0 .. Word - 1
  PROVE  /\ BlocksFor(size) \in Nat
         /\ BlocksFor(size) > 0 => BlocksFor(size) * BlockSize >= size
         /\ size = 0 => BlocksFor(size) = 0
<1> USE TableAssumption
<1> DEFINE q == size \div BlockSize
           r == size % BlockSize
<1>1. q \in Nat /\ r \in 0 .. BlockSize - 1 /\ size = BlockSize * q + r
  <2>1. size \in Nat /\ BlockSize \in Nat \ {0}
    OBVIOUS
  <2> HIDE TableAssumption
  <2> QED BY <2>1, DivMod
<1>2. PICK k \in 1 .. Word : Word = k * BlockSize
  OBVIOUS
<1> HIDE DEF q, r
<1>3. CASE r = 0
  <2>1. align_value_to_upper(size) = BlockSize * q
    BY <1>1, <1>3 DEF align_value_to_upper, r
  <2>2. BlocksFor(size) = q
    BY <2>1, <1>1, Multiples DEF BlocksFor
  <2>3. size = 0 => q = 0
    BY <1>1, <1>3
  <2> QED BY <2>2, <2>3, <1>1, <1>3
<1>4. CASE r # 0
  <2>1. align_value_to_upper(size) = (BlockSize * (q + 1)) % Word
    <3>1. size - r + BlockSize = BlockSize * (q + 1)
      BY <1>1
    <3> QED BY <1>4, <3>1 DEF align_value_to_upper, r
  <2>2. q < k
    <3>1. BlockSize * q < BlockSize * k
      BY <1>1, <1>2
    <3> QED BY <3>1, <1>1, Multiples
  <2>3. CASE q + 1 = k
    <3>1. align_value_to_upper(size) = 0
      BY <2>1, <2>3, <1>1, <1>2, ModSmall
    <3>2. BlocksFor(size) = 0
      BY <3>1 DEF BlocksFor
    <3> QED BY <3>2, <1>1, <1>4
  <2>4. CASE q + 1 < k
    <3>1. BlockSize * (q + 1) < BlockSize * k
      BY <2>4, <1>1, Multiples
    <3>2. align_value_to_upper(size) = BlockSize * (q + 1)
      BY <2>1, <3>1, <1>1, <1>2, ModSmall
    <3>3. BlocksFor(size) = q + 1
      BY <3>2, <1>1, Multiples DEF BlocksFor
    <3>4. (q + 1) * BlockSize >= size
      BY <1>1
    <3>5. size # 0
      BY <1>1, <1>4
    <3> QED BY <3>3, <3>4, <3>5, <1>1
  <2> QED BY <2>2, <2>3, <2>4, <1>1
<1> QED BY <1>3, <1>4

----------------------------------------------------------------------------
\* The search of get_free_blocks.

\* A set of naturals that is not empty has a least element.
LEMMA LeastNatural ==
  ASSUME NEW S, S \subseteq Nat, S # {}
  PROVE  \E s \in S : \A r \in S : s <= r
<1>1. PICK s \in S : \A r \in S : ~(<<r, s>> \in OpToRel(<, Nat))
  BY WFMin, NatLessThanWellFounded, Zenon
<1>2. \A r \in S : ~(r < s)
  BY <1>1 DEF OpToRel
<1> QED BY <1>2

\* get_free_blocks returns the first fit when there is one, and -ENOMEM when
\* there is none.
LEMMA GetFreeBlocks ==
  ASSUME NEW t, NEW n \in Nat
  PROVE  LET s == get_free_blocks(t, n)
         IN  \/ s \in Blocks /\ s >= 0 /\ FirstFit(t, n, s)
             \/ s = ENOMEM /\ s < 0 /\ \A r \in Blocks : ~Fits(t, n, r)
<1>1. CASE \E s \in Blocks : Fits(t, n, s)
  <2> DEFINE S == {s \in Blocks : Fits(t, n, s)}
  <2>1. S \subseteq Nat /\ S # {}
    BY <1>1, TableAssumption DEF Blocks
  <2>2. PICK s \in S : \A r \in S : s <= r
    BY <2>1, LeastNatural
  <2>3. s \in Blocks /\ FirstFit(t, n, s)
    BY <2>2, TableAssumption DEF FirstFit, Blocks
  <2>4. get_free_blocks(t, n) \in Blocks /\ FirstFit(t, n, get_free_blocks(t, n))
    BY <1>1, <2>3 DEF get_free_blocks
  <2> QED BY <2>4, TableAssumption DEF Blocks
<1>2. CASE ~ \E s \in Blocks : Fits(t, n, s)
  BY <1>2 DEF get_free_blocks, ENOMEM
<1> QED BY <1>1, <1>2

----------------------------------------------------------------------------
\* What mark_blocks_taken writes when the run lies in the table.
LEMMA TakenMarks ==
  ASSUME NEW t, NEW s \in Blocks, NEW n \in Nat, n > 0, s + n <= Total, NEW k \in Blocks
  PROVE  LET m == mark_blocks_taken(t, s, n)
         IN  /\ k = s => m[k] = {"TAKEN", "IS_FIRST"} \cup (IF n > 1 THEN {"HAS_NEXT"} ELSE {})
             /\ k \in s + 1 .. s + n - 1 =>
                  m[k] = {"TAKEN"} \cup (IF k # s + n - 1 THEN {"HAS_NEXT"} ELSE {})
             /\ k \notin s .. s + n - 1 => m[k] = t[k]
             /\ m = [j \in Blocks |-> m[j]]
<1> DEFINE m == mark_blocks_taken(t, s, n)
<1>1. s \in Int /\ n \in Int /\ k \in Int /\ ~(s + n - 1 > Total - 1)
  BY TableAssumption DEF Blocks
<1>2. ASSUME k = s
      PROVE  m[k] = {"TAKEN", "IS_FIRST"} \cup (IF n > 1 THEN {"HAS_NEXT"} ELSE {})
  BY <1>1, <1>2 DEF mark_blocks_taken
<1>3. ASSUME k \in s + 1 .. s + n - 1
      PROVE  m[k] = {"TAKEN"} \cup (IF k # s + n - 1 THEN {"HAS_NEXT"} ELSE {})
  BY <1>1, <1>3 DEF mark_blocks_taken
<1>4. ASSUME k \notin s .. s + n - 1
      PROVE  m[k] = t[k]
  BY <1>1, <1>4 DEF mark_blocks_taken
<1>5. m = [j \in Blocks |-> m[j]]
  BY DEF mark_blocks_taken
<1> HIDE DEF m
<1>6. /\ k = s => m[k] = {"TAKEN", "IS_FIRST"} \cup (IF n > 1 THEN {"HAS_NEXT"} ELSE {})
      /\ k \in s + 1 .. s + n - 1 =>
           m[k] = {"TAKEN"} \cup (IF k # s + n - 1 THEN {"HAS_NEXT"} ELSE {})
      /\ k \notin s .. s + n - 1 => m[k] = t[k]
  BY <1>2, <1>3, <1>4
<1> QED BY <1>5, <1>6 DEF m

----------------------------------------------------------------------------
\* The invariant.

\* What a call that succeeds does to the run it returns: the run was free, so
\* nobody held any of it, and afterwards it carries the marks of a run.
LEMMA TakenRun ==
  ASSUME HeapInv, NEW size \in Sizes, kmalloc_ok(size)
  PROVE  LET n == BlocksFor(size)
             s == get_free_blocks(entries, n)
         IN  /\ n \in Nat /\ n > 0 /\ s \in Blocks /\ s + n <= Total
             /\ size \in 1 .. Word - 1
             /\ s \notin Held
             /\ \A b \in Held : (s .. s + n - 1) \cap Extent(b) = {}
             /\ \A i \in Blocks :
                  entries'[i] = IF i \in s .. s + n - 1 THEN RunMark(i, s, s + n - 1)
                                                       ELSE entries[i]
<1> DEFINE n == BlocksFor(size)
           s == get_free_blocks(entries, n)
<1>1. size \in 0 .. Word - 1 /\ n \in Nat /\ (size = 0 => n = 0)
  BY SizesAssumption, BlocksForSize
<1>2. s \in Blocks /\ s >= 0 /\ FirstFit(entries, n, s)
  <2> HIDE DEF n
  <2> QED BY <1>1, GetFreeBlocks DEF kmalloc_ok, ENOMEM, n
<1> HIDE DEF n, s
<1>3. n > 0 /\ s + n <= Total /\ \A i \in s .. s + n - 1 : "TAKEN" \notin entries[i]
  BY <1>2 DEF FirstFit, Fits, block_entry_is_free
<1>4. \A b \in Held : \A i \in Extent(b) : "TAKEN" \in entries[i]
  BY DEF HeapInv, ChainsAreRuns, RunMark
<1>5. \A b \in Held : (s .. s + n - 1) \cap Extent(b) = {}
  BY <1>3, <1>4
<1>6. s \notin Held
  <2> SUFFICES ASSUME s \in Held PROVE FALSE
    OBVIOUS
  <2>1. BlocksFor(asked[s]) > 0 /\ BlocksFor(asked[s]) \in Nat
    BY BlocksForSize DEF HeapInv, NoEmptyRun, TypeOK, Held
  <2>2. s \in Extent(s)
    BY <2>1, <1>2, TableAssumption DEF Extent, Blocks
  <2>3. s \in s .. s + n - 1
    BY <1>1, <1>2, <1>3, TableAssumption DEF Blocks
  <2> QED BY <2>2, <2>3, <1>3, <1>4
<1>7. \A i \in Blocks :
        entries'[i] = IF i \in s .. s + n - 1 THEN RunMark(i, s, s + n - 1) ELSE entries[i]
  <2>1. entries' = mark_blocks_taken(entries, s, n)
    BY DEF kmalloc_ok, s, n
  <2> SUFFICES ASSUME NEW i \in Blocks
               PROVE  entries'[i] = IF i \in s .. s + n - 1
                                      THEN RunMark(i, s, s + n - 1) ELSE entries[i]
    OBVIOUS
  <2>3. s \in Int /\ n \in Int /\ i \in Int
    BY <1>1, <1>2, TableAssumption DEF Blocks
  <2>4. CASE i = s
    <3>1. entries'[i] = {"TAKEN", "IS_FIRST"} \cup (IF n > 1 THEN {"HAS_NEXT"} ELSE {})
      BY <1>1, <1>2, <1>3, <2>1, <2>4, TakenMarks
    <3> QED BY <2>3, <2>4, <3>1, <1>3 DEF RunMark
  <2>5. CASE i \in s + 1 .. s + n - 1
    <3>1. entries'[i] = {"TAKEN"} \cup (IF i # s + n - 1 THEN {"HAS_NEXT"} ELSE {})
      BY <1>1, <1>2, <1>3, <2>1, <2>5, TakenMarks
    <3> QED BY <2>3, <2>5, <3>1, <1>3 DEF RunMark
  <2>6. CASE i \notin s .. s + n - 1
    BY <1>1, <1>2, <1>3, <2>1, <2>6, TakenMarks
  <2> QED BY <2>3, <2>4, <2>5, <2>6
<1>8. size \in 1 .. Word - 1
  BY <1>1, <1>3, TableAssumption
<1> QED BY <1>1, <1>2, <1>3, <1>5, <1>6, <1>7, <1>8 DEF n, s

\* What kfree does to the run it is given: the chain it clears is that run.
LEMMA FreedRun ==
  ASSUME HeapInv, NEW b \in Held
  PROVE  \A i \in Blocks :
           mark_blocks_free(entries, b)[i] = IF i \in Extent(b) THEN FREE ELSE entries[i]
<1> DEFINE m == BlocksFor(asked[b])
<1>1. b \in Blocks /\ m \in Nat /\ m > 0 /\ b + m <= Total
  <2>1. b \in Blocks /\ m \in Nat /\ m > 0
    BY BlocksForSize DEF HeapInv, NoEmptyRun, TypeOK, Held
  <2>2. Extent(b) \subseteq Blocks
    BY DEF HeapInv, NoOverlap
  <2>3. b + m - 1 \in Extent(b)
    BY <2>1, TableAssumption DEF Extent, Blocks
  <2> QED BY <2>1, <2>2, <2>3, TableAssumption DEF Blocks
<1>2. \A i \in b .. b + m - 1 : entries[i] = RunMark(i, b, b + m - 1)
  BY DEF HeapInv, ChainsAreRuns, Extent
<1> HIDE DEF m
<1>3. FirstBlockNumber(entries, b) = b
  <2>1. entries[b] = RunMark(b, b, b + m - 1)
    BY <1>1, <1>2, TableAssumption DEF Blocks
  <2> QED BY <2>1 DEF FirstBlockNumber, RunMark
<1>4. \A i \in b .. b + m - 1 : block_has_next_block(entries[i]) <=> i < b + m - 1
  BY <1>1, <1>2, TableAssumption DEF block_has_next_block, RunMark, Blocks
<1>5. \A i \in Blocks : i \in Chain(entries, b) <=> i \in b .. b + m - 1
  <2> SUFFICES ASSUME NEW i \in Blocks
               PROVE  i \in Chain(entries, b) <=> i \in b .. b + m - 1
    OBVIOUS
  <2>1. i \in Int /\ b \in Int /\ m \in Int
    BY <1>1, TableAssumption DEF Blocks
  <2>2. CASE i > b + m - 1
    <3>1. b + m - 1 \in b .. i - 1 /\ ~block_has_next_block(entries[b + m - 1])
      BY <1>1, <1>4, <2>1, <2>2
    <3> QED BY <2>1, <2>2, <3>1 DEF Chain
  <2>3. CASE i <= b + m - 1
    <3>1. \A k \in b .. i - 1 : block_has_next_block(entries[k])
      BY <1>4, <2>1, <2>3
    <3> QED BY <2>1, <2>3, <3>1 DEF Chain
  <2> QED BY <2>1, <2>2, <2>3
<1> QED BY <1>3, <1>5 DEF mark_blocks_free, Extent, m

\* A successful kmalloc keeps the invariant.
LEMMA KmallocInv ==
  ASSUME HeapInv, NEW size \in Sizes, kmalloc_ok(size)
  PROVE  HeapInv'
<1>1. PICK n \in Nat : n = BlocksFor(size) /\ n > 0
  BY TakenRun
<1>2. PICK s \in Blocks : s = get_free_blocks(entries, n)
  BY <1>1, TakenRun
<1> DEFINE e == s + n - 1
<1>3. /\ n \in Nat /\ n > 0 /\ s \in Blocks /\ s + n <= Total
      /\ size \in 1 .. Word - 1
      /\ s \notin Held
      /\ \A b \in Held : (s .. e) \cap Extent(b) = {}
  BY <1>1, <1>2, TakenRun
<1>4. \A i \in Blocks : entries'[i] = IF i \in s .. e THEN RunMark(i, s, e) ELSE entries[i]
  BY <1>1, <1>2, TakenRun
<1>5. asked' = [asked EXCEPT ![s] = size] /\ req' = size /\ ret' = s /\ entries' = mark_blocks_taken(entries, s, n)
  BY <1>1, <1>2 DEF kmalloc_ok
<1>6. asked \in [Blocks -> 0 .. Word - 1] /\ entries \in Table
  BY DEF HeapInv, TypeOK
<1>7. s \in Int /\ n \in Int /\ \A i \in Blocks : i \in Int
  BY <1>3, TableAssumption DEF Blocks
<1>8. Held' = Held \cup {s}
  BY <1>3, <1>5, <1>6 DEF Held
<1>9. Extent(s)' = s .. e
  BY <1>3, <1>5, <1>1, <1>6 DEF Extent
<1>10. \A b \in Held : asked'[b] = asked[b]
  BY <1>3, <1>5, <1>6 DEF Held
<1>11. \A b \in Held : Extent(b)' = Extent(b)
  BY <1>10 DEF Extent
<1>12. s .. e \subseteq Blocks
  BY <1>3, <1>7, TableAssumption DEF Blocks
<1>13. TypeOK'
  <2>1. entries' \in Table
    <3>1. entries' = [i \in Blocks |-> entries'[i]]
      BY <1>5 DEF mark_blocks_taken
    <3>2. \A i : RunMark(i, s, e) \in Entries
      BY DEF RunMark, Entries, FREE
    <3>3. \A i \in Blocks : entries'[i] \in Entries
      BY <1>4, <1>6, <3>2 DEF Table
    <3> QED BY <3>1, <3>3 DEF Table
  <2>2. asked' \in [Blocks -> 0 .. Word - 1]
    BY <1>3, <1>5, <1>6
  <2> QED BY <2>1, <2>2, <1>3, <1>5 DEF TypeOK
<1>14. NoOverlap'
  <2>1. \A b \in Held : Extent(b) \subseteq Blocks /\ \A c \in Held \ {b} : Extent(b) \cap Extent(c) = {}
    BY DEF HeapInv, NoOverlap
  <2>2. ASSUME NEW b \in Held'
        PROVE  Extent(b)' \subseteq Blocks /\ \A c \in Held' \ {b} : Extent(b)' \cap Extent(c)' = {}
    <3>1. CASE b = s
      BY <3>1, <1>3, <1>8, <1>9, <1>11, <1>12
    <3>2. CASE b \in Held
      <4>1. Extent(b)' = Extent(b) /\ Extent(b) \subseteq Blocks
        BY <3>2, <2>1, <1>11
      <4>2. Extent(b) \cap Extent(s)' = {}
        BY <3>2, <1>3, <1>9
      <4>3. \A c \in Held \ {b} : Extent(b) \cap Extent(c)' = {}
        BY <3>2, <2>1, <1>11
      <4> QED BY <4>1, <4>2, <4>3, <1>8
    <3> QED BY <3>1, <3>2, <1>8
  <2> QED BY <2>2 DEF NoOverlap
<1>15. NoEmptyRun'
  <2>1. asked'[s] = size
    BY <1>3, <1>5, <1>6
  <2>2. BlocksFor(asked'[s]) > 0
    BY <2>1, <1>3, <1>1
  <2>3. \A b \in Held : BlocksFor(asked'[b]) > 0
    BY <1>10 DEF HeapInv, NoEmptyRun
  <2> QED BY <2>2, <2>3, <1>8 DEF NoEmptyRun
<1>16. ChainsAreRuns'
  <2>1. ASSUME NEW b \in Held', NEW i \in Extent(b)'
        PROVE  entries'[i] = RunMark(i, b, b + BlocksFor(asked'[b]) - 1)
    <3>1. CASE b = s
      <4>1. asked'[b] = size
        BY <3>1, <1>3, <1>5, <1>6
      <4> QED BY <3>1, <4>1, <2>1, <1>4, <1>1, <1>9, <1>12
    <3>2. CASE b \in Held
      <4>1. i \in Extent(b) /\ i \in Blocks /\ i \notin s .. e
        BY <3>2, <2>1, <1>3, <1>11 DEF HeapInv, NoOverlap
      <4>2. entries[i] = RunMark(i, b, b + BlocksFor(asked[b]) - 1)
        BY <3>2, <4>1 DEF HeapInv, ChainsAreRuns
      <4> QED BY <3>2, <4>1, <4>2, <1>4, <1>10
    <3> QED BY <3>1, <3>2, <1>8
  <2> QED BY <2>1 DEF ChainsAreRuns
<1>17. NoLostBlock'
  <2>1. ASSUME NEW i \in Blocks, \A b \in Held' : i \notin Extent(b)'
        PROVE  entries'[i] = FREE
    <3>1. i \notin s .. e /\ \A b \in Held : i \notin Extent(b)
      BY <2>1, <1>8, <1>9, <1>11
    <3> QED BY <3>1, <1>4 DEF HeapInv, NoLostBlock
  <2> QED BY <2>1 DEF NoLostBlock
<1> QED BY <1>13, <1>14, <1>15, <1>16, <1>17 DEF HeapInv

\* kfree of a held block keeps the invariant.
LEMMA KfreeInv ==
  ASSUME HeapInv, NEW b \in Blocks, kfree(b)
  PROVE  HeapInv'
<1>1. b \in Held /\ asked' = [asked EXCEPT ![b] = 0] /\ req' = 0 /\ ret' = VOID
  BY DEF kfree
<1>2. entries' = mark_blocks_free(entries, b)
  BY DEF kfree
<1>3. \A i \in Blocks : entries'[i] = IF i \in Extent(b) THEN FREE ELSE entries[i]
  BY <1>1, <1>2, FreedRun
<1>4. asked \in [Blocks -> 0 .. Word - 1] /\ entries \in Table
  BY DEF HeapInv, TypeOK
<1>5. Held' = Held \ {b}
  BY <1>1, <1>4 DEF Held
<1>6. \A c \in Held \ {b} : asked'[c] = asked[c]
  BY <1>1, <1>4 DEF Held
<1>7. \A c \in Held \ {b} : Extent(c)' = Extent(c)
  BY <1>6 DEF Extent
<1>8. TypeOK'
  <2>1. entries' \in Table
    <3>1. entries' = [i \in Blocks |-> entries'[i]]
      BY <1>2 DEF mark_blocks_free
    <3>2. \A i \in Blocks : entries'[i] \in Entries
      BY <1>3, <1>4 DEF Table, Entries
    <3> QED BY <3>1, <3>2 DEF Table
  <2>2. asked' \in [Blocks -> 0 .. Word - 1]
    BY <1>1, <1>4, TableAssumption
  <2> QED BY <2>1, <2>2, <1>1, TableAssumption DEF TypeOK
<1>9. NoOverlap'
  BY <1>5, <1>7 DEF HeapInv, NoOverlap
<1>10. NoEmptyRun'
  BY <1>5, <1>6 DEF HeapInv, NoEmptyRun
<1>11. ChainsAreRuns'
  <2>1. ASSUME NEW c \in Held', NEW i \in Extent(c)'
        PROVE  entries'[i] = RunMark(i, c, c + BlocksFor(asked'[c]) - 1)
    <3>1. c \in Held /\ c # b /\ i \in Extent(c) /\ asked'[c] = asked[c]
      BY <2>1, <1>5, <1>6, <1>7
    <3>2. i \in Blocks /\ i \notin Extent(b)
      BY <3>1, <1>1 DEF HeapInv, NoOverlap
    <3>3. entries[i] = RunMark(i, c, c + BlocksFor(asked[c]) - 1)
      BY <3>1 DEF HeapInv, ChainsAreRuns
    <3> QED BY <3>1, <3>2, <3>3, <1>3
  <2> QED BY <2>1 DEF ChainsAreRuns
<1>12. NoLostBlock'
  <2>1. ASSUME NEW i \in Blocks, \A c \in Held' : i \notin Extent(c)'
        PROVE  entries'[i] = FREE
    <3>1. CASE i \in Extent(b)
      BY <3>1, <1>3
    <3>2. CASE i \notin Extent(b)
      <4>1. \A c \in Held : i \notin Extent(c)
        BY <2>1, <3>2, <1>5, <1>7
      <4> QED BY <4>1, <3>2, <1>3 DEF HeapInv, NoLostBlock
    <3> QED BY <3>1, <3>2
  <2> QED BY <2>1 DEF NoLostBlock
<1> QED BY <1>8, <1>9, <1>10, <1>11, <1>12 DEF HeapInv

\* The table and the holders agree initially, and every call keeps it so.
LEMMA HeapInductive ==
  /\ Init => HeapInv
  /\ HeapInv /\ [Next]_vars => HeapInv'
<1>1. Init => HeapInv
  <2> SUFFICES ASSUME Init PROVE HeapInv
    OBVIOUS
  <2>1. TypeOK
    BY TableAssumption DEF Init, TypeOK, FreshTable, Table, Entries
  <2>2. Held = {}
    BY DEF Init, Held
  <2> QED BY <2>1, <2>2 DEF HeapInv, NoOverlap, NoEmptyRun, ChainsAreRuns, NoLostBlock, Init, FreshTable
<1>2. HeapInv /\ [Next]_vars => HeapInv'
  <2> SUFFICES ASSUME HeapInv, [Next]_vars PROVE HeapInv'
    OBVIOUS
  <2>1. ASSUME NEW size \in Sizes, kmalloc_ok(size) PROVE HeapInv'
    BY <2>1, KmallocInv
  <2>2. ASSUME NEW size \in Sizes, kmalloc_fail(size) PROVE HeapInv'
    <3>1. UNCHANGED <<entries, asked>> /\ req' \in 0 .. Word - 1 /\ ret' = NULL
      BY <2>2, SizesAssumption DEF kmalloc_fail
    <3> QED BY <3>1 DEF HeapInv, TypeOK, NoOverlap, NoEmptyRun, ChainsAreRuns, NoLostBlock, Held, Extent
  <2>3. ASSUME NEW b \in Blocks, kfree(b) PROVE HeapInv'
    BY <2>3, KfreeInv
  <2>4. CASE UNCHANGED vars
    BY <2>4 DEF vars, HeapInv, TypeOK, NoOverlap, NoEmptyRun, ChainsAreRuns, NoLostBlock, Held, Extent
  <2> QED BY <2>1, <2>2, <2>3, <2>4 DEF Next, kmalloc
<1> QED BY <1>1, <1>2

\* The heap is type correct, its chains are exactly the runs its callers hold,
\* no two callers share a block and no block is lost.
THEOREM HeapCorrect == Spec => []HeapInv
  BY HeapInductive, PTL DEF Spec

\* The marks in the table are always a legal value and the callers' sizes are
\* the ones they asked for.
THEOREM HeapTypeCorrect == Spec => []TypeOK
<1>1. HeapInv => TypeOK
  BY DEF HeapInv
<1> QED BY <1>1, HeapCorrect, PTL

\* No two callers of kmalloc ever hold the same block.
THEOREM HeapNoOverlap == Spec => []NoOverlap
<1>1. HeapInv => NoOverlap
  BY DEF HeapInv
<1> QED BY <1>1, HeapCorrect, PTL

\* kmalloc never returns a run shorter than the size asked for, whatever the
\* size: the wrap-around of align_value_to_upper ends in a refusal.
THEOREM HeapServedInFull == Spec => []ServedInFull
<1>1. HeapInv => ServedInFull
  <2> SUFFICES ASSUME HeapInv, NEW b \in Held
               PROVE  BlocksFor(asked[b]) * BlockSize >= asked[b]
    BY DEF ServedInFull
  <2>1. asked[b] \in 0 .. Word - 1 /\ BlocksFor(asked[b]) > 0
    BY DEF HeapInv, TypeOK, NoEmptyRun, Held
  <2> QED BY <2>1, BlocksForSize
<1> QED BY <1>1, HeapCorrect, PTL

\* Every block that no caller holds is free: kfree gives back the whole run.
THEOREM HeapNoLostBlock == Spec => []NoLostBlock
<1>1. HeapInv => NoLostBlock
  BY DEF HeapInv
<1> QED BY <1>1, HeapCorrect, PTL

----------------------------------------------------------------------------
\* Action property and refinement.

\* No call writes an entry of a run that stays held.
THEOREM HeapRunsUntouched == Spec => HeldRunsUntouched
<1> DEFINE Kept == \A b \in Blocks :
                     asked[b] # 0 /\ asked'[b] = asked[b]
                       => \A i \in Extent(b) : entries'[i] = entries[i]
<1>1. HeapInv /\ [Next]_vars => [Kept]_vars
  <2> SUFFICES ASSUME HeapInv, Next,
                      NEW b \in Blocks, asked[b] # 0, asked'[b] = asked[b],
                      NEW i \in Extent(b)
               PROVE  entries'[i] = entries[i]
    OBVIOUS
  <2>1. b \in Held /\ i \in Blocks
    BY DEF Held, HeapInv, NoOverlap
  <2>2. ASSUME NEW size \in Sizes, kmalloc_ok(size) PROVE entries'[i] = entries[i]
    BY <2>1, <2>2, TakenRun
  <2>3. ASSUME NEW c \in Blocks, kfree(c) PROVE entries'[i] = entries[i]
    <3>1. c \in Held /\ c # b
      BY <2>3 DEF kfree, HeapInv, TypeOK
    <3>2. i \notin Extent(c)
      BY <2>1, <3>1 DEF HeapInv, NoOverlap
    <3> QED BY <2>1, <2>3, <3>1, <3>2, FreedRun DEF kfree
  <2> QED BY <2>2, <2>3 DEF Next, kmalloc, kmalloc_fail
<1> QED BY <1>1, HeapCorrect, PTL DEF Spec, HeldRunsUntouched

\* The allocator counts blocks as the heap does.
LEMMA SameBlocks ==
  /\ Promise!Blocks = Blocks
  /\ \A size : Promise!BlocksFor(size) = BlocksFor(size)
  /\ Promise!Held = Held
  /\ \A b : Promise!Extent(b) = Extent(b)
<1>1. Promise!Blocks = Blocks
  BY DEF Promise!Blocks, Blocks
<1>2. \A size : Promise!BlocksFor(size) = BlocksFor(size)
  BY DEF Promise!BlocksFor, BlocksFor, Promise!align_value_to_upper, align_value_to_upper
<1> QED BY <1>1, <1>2 DEF Promise!Held, Held, Promise!Extent, Extent

\* A run of blocks is free in the table exactly when no caller holds any of it.
LEMMA FreeIsAvailable ==
  ASSUME HeapInv, NEW n \in Nat, n > 0, NEW s \in Blocks
  PROVE  Fits(entries, n, s) <=> Promise!Available(s, n)
<1>1. s + n <= Total => s .. s + n - 1 \subseteq Blocks
  BY TableAssumption DEF Blocks
<1>2. \A i \in Blocks : block_entry_is_free(entries[i]) <=> \A b \in Held : i \notin Extent(b)
  BY DEF HeapInv, NoLostBlock, ChainsAreRuns, RunMark, block_entry_is_free, FREE
<1> QED BY <1>1, <1>2, SameBlocks DEF Fits, Promise!Available

\* heap.c implements the allocator: what kmalloc returns, when it refuses, and
\* what kfree gives back are what Allocator allows.
THEOREM HeapImplementsAllocator == Spec => AllocatorSpec
<1>1. Init => Promise!Init
  BY SameBlocks DEF Init, Promise!Init, VOID, Promise!VOID
<1>2. HeapInv /\ [Next]_vars => [Promise!Next]_(Promise!vars)
  <2> SUFFICES ASSUME HeapInv, [Next]_vars PROVE [Promise!Next]_(Promise!vars)
    OBVIOUS
  <2>1. ASSUME NEW size \in Sizes, kmalloc_ok(size) PROVE Promise!Next
    <3>1. PICK n \in Nat : n = BlocksFor(size) /\ n > 0
      BY <2>1, TakenRun
    <3>2. PICK s \in Blocks : s = get_free_blocks(entries, n) /\ s >= 0
      BY <2>1, <3>1, TakenRun DEF kmalloc_ok
    <3>3. Fits(entries, n, s)
      BY <3>1, <3>2, GetFreeBlocks DEF FirstFit, ENOMEM
    <3>4. Promise!Available(s, n)
      BY <3>1, <3>3, FreeIsAvailable
    <3>5. asked' = [asked EXCEPT ![s] = size] /\ req' = size /\ ret' = s
      BY <2>1, <3>1, <3>2 DEF kmalloc_ok
    <3>6. Promise!Give(size)
      BY <3>1, <3>4, <3>5, SameBlocks DEF Promise!Give
    <3> QED BY <3>6 DEF Promise!Next
  <2>2. ASSUME NEW size \in Sizes, kmalloc_fail(size) PROVE Promise!Next
    <3>1. PICK n \in Nat : n = BlocksFor(size)
      BY SizesAssumption, BlocksForSize
    <3>2. \A s \in Blocks : ~Fits(entries, n, s)
      BY <2>2, <3>1, GetFreeBlocks, TableAssumption DEF kmalloc_fail, Blocks
    <3>3. n > 0 => ~ \E s \in Blocks : Promise!Available(s, n)
      BY <3>1, <3>2, FreeIsAvailable
    <3>4. Promise!Refuse(size)
      BY <2>2, <3>1, <3>3, SameBlocks DEF Promise!Refuse, kmalloc_fail, NULL, Promise!NULL
    <3> QED BY <3>4 DEF Promise!Next
  <2>3. ASSUME NEW b \in Blocks, kfree(b) PROVE Promise!Next
    <3>1. Promise!TakeBack(b)
      BY <2>3, SameBlocks DEF kfree, Promise!TakeBack, VOID, Promise!VOID
    <3> QED BY <3>1, SameBlocks DEF Promise!Next
  <2>4. CASE UNCHANGED vars
    BY <2>4 DEF vars, Promise!vars
  <2> QED BY <2>1, <2>2, <2>3, <2>4 DEF Next, kmalloc
<1> QED BY <1>1, <1>2, HeapCorrect, PTL DEF Spec, AllocatorSpec, Promise!Spec
=============================================================================
