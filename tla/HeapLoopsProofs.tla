-------------------------- MODULE HeapLoopsProofs --------------------------
(***************************************************************************)
(* For every heap size and every table: the loops of heap.c compute what   *)
(* HeapTable says they do.                                                 *)
(***************************************************************************)
EXTENDS HeapLoops, TLAPS

\* There is only one first fit, and it is what get_free_blocks returns.
LEMMA FirstFitUnique ==
  ASSUME NEW tab, NEW size \in Nat, NEW s \in Blocks, FirstFit(tab, size, s)
  PROVE  get_free_blocks(tab, size) = s
<1> DEFINE g == get_free_blocks(tab, size)
<1>1. g \in Blocks /\ FirstFit(tab, size, g)
  BY DEF get_free_blocks, FirstFit
<1> HIDE DEF g
<1>2. ~(g < s) /\ ~(s < g)
  BY <1>1, TableAssumption DEF FirstFit, Blocks
<1> QED BY <1>1, <1>2, TableAssumption DEF g, Blocks

\* What mark_blocks_taken writes when the run lies in the table.
LEMMA TakenMarks ==
  ASSUME NEW tab, NEW s \in Blocks, NEW size \in Nat, size > 0, s + size <= Total, NEW k \in Blocks
  PROVE  LET m == mark_blocks_taken(tab, s, size)
         IN  /\ k = s => m[k] = {"TAKEN", "IS_FIRST"} \cup (IF size > 1 THEN {"HAS_NEXT"} ELSE {})
             /\ k \in s + 1 .. s + size - 1 =>
                  m[k] = {"TAKEN"} \cup (IF k # s + size - 1 THEN {"HAS_NEXT"} ELSE {})
             /\ k \notin s .. s + size - 1 => m[k] = tab[k]
             /\ m = [j \in Blocks |-> m[j]]
<1> DEFINE m == mark_blocks_taken(tab, s, size)
<1>1. s \in Int /\ size \in Int /\ k \in Int /\ ~(s + size - 1 > Total - 1)
  BY TableAssumption DEF Blocks
<1>2. ASSUME k = s
      PROVE  m[k] = {"TAKEN", "IS_FIRST"} \cup (IF size > 1 THEN {"HAS_NEXT"} ELSE {})
  BY <1>1, <1>2 DEF mark_blocks_taken
<1>3. ASSUME k \in s + 1 .. s + size - 1
      PROVE  m[k] = {"TAKEN"} \cup (IF k # s + size - 1 THEN {"HAS_NEXT"} ELSE {})
  BY <1>1, <1>3 DEF mark_blocks_taken
<1>4. ASSUME k \notin s .. s + size - 1
      PROVE  m[k] = tab[k]
  BY <1>1, <1>4 DEF mark_blocks_taken
<1>5. m = [j \in Blocks |-> m[j]]
  BY DEF mark_blocks_taken
<1> HIDE DEF m
<1>6. /\ k = s => m[k] = {"TAKEN", "IS_FIRST"} \cup (IF size > 1 THEN {"HAS_NEXT"} ELSE {})
      /\ k \in s + 1 .. s + size - 1 =>
           m[k] = {"TAKEN"} \cup (IF k # s + size - 1 THEN {"HAS_NEXT"} ELSE {})
      /\ k \notin s .. s + size - 1 => m[k] = tab[k]
  BY <1>2, <1>3, <1>4
<1> QED BY <1>5, <1>6 DEF m

\* Every call starts in the invariant.
LEMMA LoopInit == Init => LoopInv
<1> SUFFICES ASSUME Init PROVE LoopInv
  OBVIOUS
<1> USE TableAssumption, MaxBlocksAssumption
<1>1. CASE pc = "scan"
  <2>1. /\ fn = "get_free_blocks" /\ t = before /\ before \in Table /\ num = 0
        /\ n \in 0 .. MaxBlocks /\ i = 0 /\ count = 0 /\ b = ENOMEM
    BY <1>1 DEF Init, Call
  <2>2. \A s \in Blocks : s + n <= 0 => ~Fits(t, n, s)
    BY <2>1 DEF Fits, Blocks
  <2> QED BY <1>1, <2>1, <2>2 DEF LoopInv, LoopTypeOK, ScanInv, CheckInv, TakeInv, WalkInv,
            ReleaseInv, ScanFindsFirstFit, TakeMarksRun, FreeClearsChain, Blocks, ENOMEM
<1>2. CASE pc = "take"
  <2>1. PICK block \in Blocks, size \in 1 .. Total :
          /\ Fits(before, size, block)
          /\ Call("mark_blocks_taken", block, size)
          /\ pc = "take" /\ i = block /\ count = 0
          /\ b = IF block + size - 1 > Total - 1 THEN Total - 1 ELSE block + size - 1
    BY <1>2 DEF Init
  <2>2. /\ fn = "mark_blocks_taken" /\ t = before /\ before \in Table
        /\ num \in Blocks /\ n \in 1 .. Total /\ i = num /\ count = 0
        /\ b = num + n - 1 /\ num + n <= Total
    BY <2>1 DEF Init, Call, Fits, Blocks
  <2>3. t = [k \in Blocks |->
               IF k < i THEN mark_blocks_taken(before, num, n)[k] ELSE before[k]]
    <3>1. \A k \in Blocks : k < i => mark_blocks_taken(before, num, n)[k] = before[k]
      BY <2>2 DEF mark_blocks_taken, Blocks
    <3> QED BY <2>2, <3>1 DEF Table
  <2> QED BY <1>2, <2>2, <2>3 DEF LoopInv, LoopTypeOK, ScanInv, CheckInv, TakeInv, WalkInv,
            ReleaseInv, ScanFindsFirstFit, TakeMarksRun, FreeClearsChain, Blocks
<1>3. CASE pc = "walk"
  <2>1. /\ fn = "mark_blocks_free" /\ t = before /\ before \in Table /\ num \in Blocks
        /\ n = 0 /\ i = 0 /\ count = 0 /\ b = num
    BY <1>3 DEF Init, Call
  <2> QED BY <1>3, <2>1 DEF LoopInv, LoopTypeOK, ScanInv, CheckInv, TakeInv, WalkInv,
            ReleaseInv, ScanFindsFirstFit, TakeMarksRun, FreeClearsChain, Blocks
<1> QED BY <1>1, <1>2, <1>3 DEF Init

\* The scan keeps the invariant.
LEMMA ScanStep == LoopInv /\ Scan => LoopInv'
<1> SUFFICES ASSUME LoopInv, Scan PROVE LoopInv'
  OBVIOUS
<1> USE TableAssumption
<1>1. /\ t \in Table /\ before \in Table /\ n \in Nat /\ num \in Blocks
      /\ i \in 0 .. Total /\ count \in 0 .. Total /\ b \in Blocks \cup {ENOMEM}
      /\ Blocks \subseteq Int /\ ENOMEM \in Int /\ ENOMEM \notin Blocks
      /\ fn \in {"get_free_blocks", "mark_blocks_taken", "mark_blocks_free"}
  BY DEF LoopInv, LoopTypeOK, Blocks, ENOMEM
<1>2. pc = "scan" =>
        /\ fn = "get_free_blocks" /\ t = before
        /\ count <= i
        /\ b = IF count = 0 THEN ENOMEM ELSE i - count
        /\ \A k \in i - count .. i - 1 : block_entry_is_free(t[k])
        /\ count < i => ~block_entry_is_free(t[i - count - 1])
        /\ n > 0 => count < n
        /\ \A s \in Blocks : s + n <= i => ~Fits(t, n, s)
  BY DEF LoopInv, ScanInv
<1>3. CASE ScanFree
  <2>1. pc = "scan" /\ i < Total
    BY <1>3 DEF ScanFree
  <2>2. /\ block_entry_is_free(t[i]) /\ count' = count + 1 /\ b' = i - count
        /\ UNCHANGED <<fn, num, n, before, t>>
    <3>1. b' = (IF b = ENOMEM THEN i ELSE b) /\ count' = count + 1
      BY <1>3 DEF ScanFree
    <3>2. b' = i - count
      BY <1>1, <1>2, <2>1, <3>1 DEF ENOMEM
    <3> QED BY <1>3, <3>1, <3>2 DEF ScanFree, args
  <2>3. \A k \in i - count .. i : block_entry_is_free(t[k])
    BY <1>1, <1>2, <2>1, <2>2
  <2>4. CASE count + 1 = n
    <3>1. pc' = "check" /\ i' = i
      BY <1>3, <2>4 DEF ScanFree
    <3>2. Fits(t, n, i - count)
      BY <1>1, <1>2, <2>1, <2>3, <2>4 DEF Fits
    <3>3. \A r \in 0 .. i - count - 1 : ~Fits(t, n, r)
      BY <1>1, <1>2, <2>1, <2>4 DEF Blocks
    <3>4. i - count \in Blocks /\ FirstFit(t, n, i - count)
      BY <1>1, <1>2, <2>1, <3>2, <3>3 DEF FirstFit, Blocks
    <3>5. LoopTypeOK'
      BY <1>1, <1>2, <2>1, <2>2, <3>1, <3>4 DEF LoopTypeOK
    <3>6. CheckInv'
      BY <1>1, <1>2, <2>1, <2>2, <2>4, <3>1, <3>4 DEF CheckInv, FirstFit, Fits
    <3> QED BY <3>1, <3>5, <3>6 DEF LoopInv, ScanInv, TakeInv, WalkInv,
              ReleaseInv, ScanFindsFirstFit, TakeMarksRun, FreeClearsChain
  <2>5. CASE count + 1 # n
    <3>1. pc' = "scan" /\ i' = i + 1
      BY <1>3, <2>1, <2>5 DEF ScanFree
    <3>2. n > 0 => count + 1 < n
      BY <1>1, <1>2, <2>1, <2>5
    <3>3. \A s \in Blocks : s + n <= i + 1 => ~Fits(t, n, s)
      <4> SUFFICES ASSUME NEW s \in Blocks, s + n = i + 1, Fits(t, n, s) PROVE FALSE
        BY <1>1, <1>2, <2>1
      <4>1. n > count + 1
        BY <3>2, <1>1 DEF Fits
      <4>2. count < i /\ i - count - 1 \in s .. s + n - 1
        BY <4>1, <1>1 DEF Blocks
      <4> QED BY <4>2, <1>2, <2>1 DEF Fits
    <3>4. LoopTypeOK'
      BY <1>1, <1>2, <2>1, <2>2, <3>1 DEF LoopTypeOK, Blocks
    <3>5. ScanInv'
      <4>1. i' - count' = i - count /\ count' # 0 /\ count' <= i'
        BY <1>1, <1>2, <2>1, <2>2, <3>1
      <4>2. count' < i' => ~block_entry_is_free(t[i' - count' - 1])
        BY <1>1, <1>2, <2>1, <2>2, <3>1
      <4>3. \A k \in i' - count' .. i' - 1 : block_entry_is_free(t[k])
        BY <1>1, <2>2, <2>3, <3>1
      <4> QED BY <1>1, <1>2, <2>1, <2>2, <3>1, <3>2, <3>3, <4>1, <4>2, <4>3 DEF ScanInv, Fits
    <3> QED BY <3>1, <3>4, <3>5 DEF LoopInv, CheckInv, TakeInv, WalkInv,
              ReleaseInv, ScanFindsFirstFit, TakeMarksRun, FreeClearsChain
  <2> QED BY <2>4, <2>5
<1>4. CASE ScanTaken
  <2>1. /\ pc = "scan" /\ i < Total /\ ~block_entry_is_free(t[i])
        /\ b' = ENOMEM /\ count' = 0 /\ i' = i + 1 /\ pc' = pc
        /\ UNCHANGED <<fn, num, n, before, t>>
    BY <1>4 DEF ScanTaken, args
  <2>2. \A s \in Blocks : s + n <= i + 1 => ~Fits(t, n, s)
    <3> SUFFICES ASSUME NEW s \in Blocks, s + n = i + 1, Fits(t, n, s) PROVE FALSE
      BY <1>1, <1>2, <2>1
    <3>1. i \in s .. s + n - 1
      BY <1>1 DEF Fits
    <3> QED BY <3>1, <2>1 DEF Fits
  <2>3. LoopTypeOK'
    BY <1>1, <2>1 DEF LoopTypeOK
  <2>4. ScanInv'
    BY <1>1, <1>2, <2>1, <2>2 DEF ScanInv, Fits
  <2> QED BY <2>1, <2>3, <2>4 DEF LoopInv, CheckInv, TakeInv, WalkInv,
            ReleaseInv, ScanFindsFirstFit, TakeMarksRun, FreeClearsChain
<1>5. CASE ScanEnd
  <2>1. pc = "scan" /\ i = Total /\ pc' = "check" /\ UNCHANGED <<fn, num, n, before, t, i, count, b>>
    BY <1>1, <1>5 DEF ScanEnd, args
  <2>2. \A s \in Blocks : ~Fits(t, n, s)
    BY <1>1, <1>2, <2>1 DEF Fits
  <2>3. LoopTypeOK'
    BY <1>1, <2>1 DEF LoopTypeOK
  <2>4. n > 0 => count # n
    BY <1>1, <1>2, <2>1
  <2>5. CheckInv'
    BY <1>1, <1>2, <2>1, <2>2, <2>4 DEF CheckInv, Fits
  <2> QED BY <2>1, <2>3, <2>5 DEF LoopInv, ScanInv, TakeInv, WalkInv,
            ReleaseInv, ScanFindsFirstFit, TakeMarksRun, FreeClearsChain
<1>6. CASE Check
  <2>1. /\ pc = "check" /\ pc' = "done" /\ b' = (IF count # n THEN ENOMEM ELSE b)
        /\ UNCHANGED <<fn, num, n, before, t, i, count>>
    BY <1>6 DEF Check, args
  <2>2. /\ fn = "get_free_blocks" /\ t = before
        /\ count = n /\ n > 0 => b \in Blocks /\ FirstFit(t, n, b)
        /\ count # n \/ n = 0 => \A s \in Blocks : ~Fits(t, n, s)
        /\ count = 0 => b = ENOMEM
    BY <2>1 DEF LoopInv, CheckInv
  <2>3. b' = get_free_blocks(before, n)
    <3>1. CASE count = n /\ n > 0
      BY <3>1, <1>1, <2>1, <2>2, FirstFitUnique
    <3>2. CASE ~(count = n /\ n > 0)
      BY <3>2, <1>1, <2>1, <2>2 DEF get_free_blocks
    <3> QED BY <3>1, <3>2
  <2>4. LoopTypeOK'
    BY <1>1, <2>1 DEF LoopTypeOK
  <2> QED BY <2>1, <2>2, <2>3, <2>4 DEF LoopInv, ScanInv, CheckInv, TakeInv, WalkInv,
            ReleaseInv, ScanFindsFirstFit, TakeMarksRun, FreeClearsChain
<1> QED BY <1>3, <1>4, <1>5, <1>6 DEF Scan

\* mark_blocks_taken keeps the invariant.
LEMMA TakeStep == LoopInv /\ Take => LoopInv'
<1> SUFFICES ASSUME LoopInv, Take PROVE LoopInv'
  OBVIOUS
<1> USE TableAssumption
<1>1. /\ t \in Table /\ before \in Table /\ n \in Nat /\ num \in Blocks
      /\ i \in 0 .. Total /\ count \in 0 .. Total /\ b \in Blocks \cup {ENOMEM}
      /\ Blocks \subseteq Int /\ ENOMEM \in Int /\ ENOMEM \notin Blocks
      /\ fn \in {"get_free_blocks", "mark_blocks_taken", "mark_blocks_free"}
  BY DEF LoopInv, LoopTypeOK, Blocks, ENOMEM
<1>2. PICK m : m = mark_blocks_taken(before, num, n)
  OBVIOUS
<1>3. /\ pc = "take" /\ fn = "mark_blocks_taken" /\ n > 0
      /\ num <= i /\ i <= b + 1 /\ b = num + n - 1
      /\ t = [k \in Blocks |-> IF k < i THEN m[k] ELSE before[k]]
      /\ b \in Blocks /\ b <= Total - 1 /\ num <= b
  <2>1. /\ pc = "take" /\ fn = "mark_blocks_taken" /\ n > 0
        /\ num <= i /\ i <= b + 1 /\ b = num + n - 1
        /\ t = [k \in Blocks |-> IF k < i THEN m[k] ELSE before[k]]
    BY <1>2 DEF LoopInv, TakeInv, Take, TakeFirst, TakeNext, TakeEnd
  <2> QED BY <1>1, <2>1 DEF Blocks, ENOMEM
<1>4. /\ m[num] = {"TAKEN", "IS_FIRST"} \cup (IF n > 1 THEN {"HAS_NEXT"} ELSE {})
      /\ \A k \in Blocks : k \in num + 1 .. b =>
            m[k] = {"TAKEN"} \cup (IF k # b THEN {"HAS_NEXT"} ELSE {})
      /\ \A k \in Blocks : k \notin num .. b => m[k] = before[k]
      /\ m = [k \in Blocks |-> m[k]]
  <2>1. num + n <= Total
    BY <1>1, <1>3 DEF Blocks
  <2> HIDE TableAssumption
  <2>2. n \in Nat /\ n > 0 /\ num \in Blocks /\ num + n - 1 = b
    BY <1>1, <1>3
  <2>3. ASSUME NEW k \in Blocks
        PROVE  /\ k = num => m[k] = {"TAKEN", "IS_FIRST"} \cup (IF n > 1 THEN {"HAS_NEXT"} ELSE {})
               /\ k \in num + 1 .. num + n - 1 =>
                    m[k] = {"TAKEN"} \cup (IF k # num + n - 1 THEN {"HAS_NEXT"} ELSE {})
               /\ k \notin num .. num + n - 1 => m[k] = before[k]
               /\ m = [j \in Blocks |-> m[j]]
    <3> DEFINE w == mark_blocks_taken(before, num, n)
    <3>1. k = num => w[k] = {"TAKEN", "IS_FIRST"} \cup (IF n > 1 THEN {"HAS_NEXT"} ELSE {})
      BY <2>1, <2>2, TakenMarks
    <3>2. k \in num + 1 .. num + n - 1 =>
            w[k] = {"TAKEN"} \cup (IF k # num + n - 1 THEN {"HAS_NEXT"} ELSE {})
      BY <2>1, <2>2, TakenMarks
    <3>3. k \notin num .. num + n - 1 => w[k] = before[k]
      BY <2>1, <2>2, TakenMarks
    <3>4. w = [j \in Blocks |-> w[j]]
      BY DEF mark_blocks_taken
    <3>5. w = m
      BY <1>2
    <3> HIDE DEF w
    <3> QED BY <3>1, <3>2, <3>3, <3>4, <3>5
  <2> QED BY <2>2, <2>3
<1>5. ASSUME i <= b, t' = [t EXCEPT ![i] = m[i]], i' = i + 1, UNCHANGED <<fn, num, n, before, pc, count, b>>
      PROVE  LoopInv'
  <2>1. i \in Blocks
    BY <1>1, <1>3, <1>5 DEF Blocks
  <2>2. m[i] \in Entries
    <3>1. CASE i = num
      BY <3>1, <1>4 DEF Entries
    <3>2. CASE i # num
      <4>1. i \in num + 1 .. b
        BY <3>2, <1>1, <1>3, <1>5
      <4> QED BY <4>1, <1>4, <2>1 DEF Entries
    <3> QED BY <3>1, <3>2
  <2>3. t' = [k \in Blocks |-> IF k < i' THEN m[k] ELSE before[k]]
    <3>1. \A k \in Blocks : t'[k] = IF k < i + 1 THEN m[k] ELSE before[k]
      <4> SUFFICES ASSUME NEW k \in Blocks
                   PROVE  t'[k] = IF k < i + 1 THEN m[k] ELSE before[k]
        OBVIOUS
      <4>1. k \in Int /\ i \in Int
        BY <1>1
      <4>2. t[k] = IF k < i THEN m[k] ELSE before[k]
        BY <1>3
      <4>3. CASE k = i
        BY <1>3, <1>5, <2>1, <4>1, <4>3
      <4>4. CASE k # i
        BY <1>3, <1>5, <4>1, <4>2, <4>4
      <4> QED BY <4>3, <4>4
    <3>2. t' = [k \in Blocks |-> t'[k]]
      BY <1>3, <1>5
    <3> QED BY <1>5, <3>1, <3>2
  <2>4. mark_blocks_taken(before, num, n)' = m
    BY <1>2, <1>5 DEF mark_blocks_taken
  <2>5. LoopTypeOK'
    <3>1. t' \in Table
      BY <1>1, <1>5, <2>1, <2>2 DEF Table
    <3> QED BY <1>1, <1>3, <1>5, <2>1, <3>1 DEF LoopTypeOK, Blocks
  <2>6. TakeInv'
    <3>1. t' = [k \in Blocks |->
                  IF k < i' THEN mark_blocks_taken(before, num, n)'[k] ELSE before'[k]]
      BY <1>5, <2>3, <2>4
    <3>2. num' <= i' /\ i' <= b' + 1 /\ b' = num' + n' - 1
      BY <1>1, <1>3, <1>5
    <3> QED BY <1>3, <1>5, <3>1, <3>2 DEF TakeInv
  <2> QED BY <1>3, <1>5, <2>5, <2>6 DEF LoopInv, ScanInv, CheckInv, WalkInv,
            ReleaseInv, ScanFindsFirstFit, TakeMarksRun, FreeClearsChain
<1>6. CASE TakeFirst
  <2>1. /\ i = num /\ i' = i + 1 /\ UNCHANGED <<fn, num, n, before, pc, count, b>>
        /\ t' = [t EXCEPT ![i] = {"TAKEN", "IS_FIRST"} \cup (IF n > 1 THEN {"HAS_NEXT"} ELSE {})]
    BY <1>6 DEF TakeFirst, args
  <2>2. m[i] = {"TAKEN", "IS_FIRST"} \cup (IF n > 1 THEN {"HAS_NEXT"} ELSE {})
    BY <1>4, <2>1
  <2> QED BY <1>3, <1>5, <2>1, <2>2
<1>7. CASE TakeNext
  <2>1. /\ i > num /\ i <= b /\ i' = i + 1 /\ UNCHANGED <<fn, num, n, before, pc, count, b>>
        /\ t' = [t EXCEPT ![i] = {"TAKEN"} \cup (IF i # b THEN {"HAS_NEXT"} ELSE {})]
    BY <1>7 DEF TakeNext, args
  <2>2. i \in Blocks
    BY <1>1, <1>3, <2>1 DEF Blocks
  <2>3. m[i] = {"TAKEN"} \cup (IF i # b THEN {"HAS_NEXT"} ELSE {})
    <3>1. i \in num + 1 .. b
      BY <1>1, <1>3, <2>1
    <3> QED BY <1>4, <2>2, <3>1
  <2> QED BY <1>5, <2>1, <2>3
<1>8. CASE TakeEnd
  <2>1. i > b /\ pc' = "done" /\ UNCHANGED <<fn, num, n, before, t, i, count, b>>
    BY <1>8 DEF TakeEnd, args
  <2>2. t = m
    <3>1. \A k \in Blocks : k >= i => m[k] = before[k]
      BY <1>1, <1>3, <1>4, <2>1
    <3>2. \A k \in Blocks : t[k] = m[k]
      <4> SUFFICES ASSUME NEW k \in Blocks PROVE t[k] = m[k]
        OBVIOUS
      <4>1. t[k] = IF k < i THEN m[k] ELSE before[k]
        BY <1>3
      <4>2. k < i \/ k >= i
        BY <1>1
      <4> QED BY <4>1, <4>2, <3>1
    <3>3. t = [k \in Blocks |-> t[k]]
      BY <1>1 DEF Table
    <3> QED BY <1>4, <3>2, <3>3
  <2>3. LoopTypeOK'
    BY <1>1, <2>1 DEF LoopTypeOK
  <2>4. TakeMarksRun'
    BY <1>2, <2>1, <2>2 DEF TakeMarksRun, mark_blocks_taken
  <2> QED BY <1>3, <2>1, <2>3, <2>4 DEF LoopInv, ScanInv, CheckInv, TakeInv, WalkInv,
            ReleaseInv, ScanFindsFirstFit, FreeClearsChain
<1> QED BY <1>6, <1>7, <1>8 DEF Take

\* mark_blocks_free keeps the invariant.
LEMMA FreeStep == LoopInv /\ Free => LoopInv'
<1> SUFFICES ASSUME LoopInv, Free PROVE LoopInv'
  OBVIOUS
<1> USE TableAssumption
<1>1. /\ t \in Table /\ before \in Table /\ n \in Nat /\ num \in Blocks
      /\ i \in 0 .. Total /\ count \in 0 .. Total /\ b \in Blocks \cup {ENOMEM}
      /\ Blocks \subseteq Int /\ ENOMEM \in Int /\ ENOMEM \notin Blocks
      /\ fn \in {"get_free_blocks", "mark_blocks_taken", "mark_blocks_free"}
  BY DEF LoopInv, LoopTypeOK, Blocks, ENOMEM
<1>2. pc = "walk" => /\ fn = "mark_blocks_free" /\ t = before /\ b \in Blocks
                     /\ "IS_FIRST" \in before[num] => b = num
  BY DEF LoopInv, WalkInv
<1>3. pc = "release" =>
        /\ fn = "mark_blocks_free"
        /\ b = FirstBlockNumber(before, num)
        /\ b <= i
        /\ \A k \in b .. i - 1 : block_has_next_block(before[k])
        /\ t = [k \in Blocks |-> IF b <= k /\ k < i THEN FREE ELSE before[k]]
  BY DEF LoopInv, ReleaseInv
<1>4. FirstBlockNumber(before, num) \in Blocks
  BY <1>1 DEF FirstBlockNumber, Blocks
<1>5. CASE WalkBack
  <2>1. /\ pc = "walk" /\ b # 0 /\ "IS_FIRST" \notin before[num] /\ b' = b - 1
        /\ UNCHANGED <<fn, num, n, before, pc, t, i, count>>
    BY <1>2, <1>5 DEF WalkBack, args
  <2>2. b' \in Blocks
    BY <1>2, <2>1 DEF Blocks
  <2>3. LoopTypeOK'
    BY <1>1, <2>1, <2>2 DEF LoopTypeOK
  <2> QED BY <1>2, <2>1, <2>2, <2>3 DEF LoopInv, ScanInv, CheckInv, TakeInv, WalkInv,
            ReleaseInv, ScanFindsFirstFit, TakeMarksRun, FreeClearsChain
<1>6. CASE WalkEnd
  <2>1. /\ pc = "walk" /\ (b = 0 \/ "IS_FIRST" \in before[num]) /\ pc' = "release" /\ i' = b
        /\ UNCHANGED <<fn, num, n, before, t, count, b>>
    BY <1>2, <1>6 DEF WalkEnd, args
  <2>2. b = FirstBlockNumber(before, num)
    BY <1>2, <2>1 DEF FirstBlockNumber
  <2>3. b \in 0 .. Total /\ b \in Int
    BY <1>2, <2>1 DEF Blocks
  <2>4. LoopTypeOK'
    BY <1>1, <2>1, <2>3 DEF LoopTypeOK
  <2>5. t = [k \in Blocks |-> IF b <= k /\ k < b THEN FREE ELSE before[k]]
    BY <1>1, <1>2, <2>1, <2>3 DEF Table
  <2>6. ReleaseInv'
    <3>1. b .. b - 1 = {}
      BY <2>3
    <3>2. FirstBlockNumber(before, num)' = FirstBlockNumber(before, num)
      BY <2>1 DEF FirstBlockNumber
    <3> QED BY <1>2, <2>1, <2>2, <2>3, <2>5, <3>1, <3>2 DEF ReleaseInv
  <2> QED BY <2>1, <2>4, <2>6 DEF LoopInv, ScanInv, CheckInv, TakeInv, WalkInv,
            ScanFindsFirstFit, TakeMarksRun, FreeClearsChain
<1>7. CASE Release
  <2>1. /\ pc = "release" /\ i < Total /\ t' = [t EXCEPT ![i] = FREE]
        /\ UNCHANGED <<fn, num, n, before, count, b>>
    BY <1>7 DEF Release, args
  <2>2. i \in Blocks /\ b \in Int /\ b <= i /\ t[i] = before[i]
    BY <1>1, <1>3, <2>1 DEF Blocks
  <2>3. t' = [k \in Blocks |-> IF b <= k /\ k < i + 1 THEN FREE ELSE before[k]]
    <3>1. \A k \in Blocks : t'[k] = IF b <= k /\ k < i + 1 THEN FREE ELSE before[k]
      BY <1>1, <1>3, <2>1, <2>2
    <3>2. t' = [k \in Blocks |-> t'[k]]
      BY <1>3, <2>1
    <3> QED BY <3>1, <3>2
  <2>4. t' \in Table
    BY <1>1, <2>1, <2>2 DEF Table, Entries
  <2>5. CASE block_has_next_block(t[i])
    <3>1. pc' = "release" /\ i' = i + 1
      BY <1>7, <2>1, <2>5 DEF Release
    <3>2. LoopTypeOK'
      BY <1>1, <2>1, <2>4, <3>1 DEF LoopTypeOK
    <3>3. \A k \in b .. i : block_has_next_block(before[k])
      BY <1>1, <1>3, <2>1, <2>2, <2>5
    <3>4. ReleaseInv'
      <4>1. FirstBlockNumber(before, num)' = FirstBlockNumber(before, num)
        BY <2>1 DEF FirstBlockNumber
      <4>2. \A k \in b .. i + 1 - 1 : block_has_next_block(before[k])
        BY <1>1, <3>3
      <4>3. t' = [k \in Blocks |-> IF b' <= k /\ k < i' THEN FREE ELSE before'[k]]
        BY <2>1, <2>3, <3>1
      <4>4. b' <= i' /\ \A k \in b' .. i' - 1 : block_has_next_block(before'[k])
        BY <1>1, <2>1, <2>2, <3>1, <4>2
      <4> QED BY <1>3, <2>1, <4>1, <4>3, <4>4 DEF ReleaseInv
    <3> QED BY <3>1, <3>2, <3>4 DEF LoopInv, ScanInv, CheckInv, TakeInv, WalkInv,
              ScanFindsFirstFit, TakeMarksRun, FreeClearsChain
  <2>6. CASE ~block_has_next_block(t[i])
    <3>1. pc' = "done" /\ i' = i
      BY <1>7, <2>6 DEF Release
    <3>2. LoopTypeOK'
      BY <1>1, <2>1, <2>4, <3>1 DEF LoopTypeOK
    <3>3. \A k \in Blocks : k \in Chain(before, b) <=> b <= k /\ k < i + 1
      <4> SUFFICES ASSUME NEW k \in Blocks
                   PROVE  k \in Chain(before, b) <=> b <= k /\ k < i + 1
        OBVIOUS
      <4>1. k \in Int /\ i \in Int
        BY <1>1
      <4>2. CASE k > i
        <5>1. i \in b .. k - 1
          BY <2>2, <4>1, <4>2
        <5> QED BY <5>1, <2>2, <2>6, <4>1, <4>2 DEF Chain
      <4>3. CASE k <= i
        <5>1. \A j \in b .. k - 1 : block_has_next_block(before[j])
          BY <1>3, <2>1, <2>2, <4>1, <4>3
        <5> QED BY <5>1, <2>2, <4>1, <4>3 DEF Chain
      <4> QED BY <4>1, <4>2, <4>3
    <3>4. t' = mark_blocks_free(before, num)
      BY <1>3, <2>1, <2>3, <3>3 DEF mark_blocks_free
    <3> QED BY <1>3, <2>1, <3>1, <3>2, <3>4 DEF LoopInv, ScanInv, CheckInv, TakeInv, WalkInv,
              ReleaseInv, ScanFindsFirstFit, TakeMarksRun, FreeClearsChain
  <2> QED BY <2>5, <2>6
<1>8. CASE ReleaseEnd
  <2>1. /\ pc = "release" /\ i = Total /\ pc' = "done"
        /\ UNCHANGED <<fn, num, n, before, t, i, count, b>>
    BY <1>1, <1>8 DEF ReleaseEnd, args
  <2>2. LoopTypeOK'
    BY <1>1, <2>1 DEF LoopTypeOK
  <2>3. \A k \in Blocks : k \in Chain(before, b) <=> b <= k /\ k < i
    <3> SUFFICES ASSUME NEW k \in Blocks
                 PROVE  k \in Chain(before, b) <=> b <= k
      BY <1>1, <2>1 DEF Blocks
    <3>1. \A j \in b .. k - 1 : block_has_next_block(before[j])
      BY <1>1, <1>3, <1>4, <2>1 DEF Blocks
    <3> QED BY <1>1, <1>3, <1>4, <2>1, <3>1 DEF Chain
  <2>4. t = mark_blocks_free(before, num)
    BY <1>3, <2>1, <2>3 DEF mark_blocks_free
  <2> QED BY <1>3, <2>1, <2>2, <2>4 DEF LoopInv, ScanInv, CheckInv, TakeInv, WalkInv,
            ReleaseInv, ScanFindsFirstFit, TakeMarksRun, FreeClearsChain
<1> QED BY <1>5, <1>6, <1>7, <1>8 DEF Free

\* The loops keep what they have established, iteration by iteration.
THEOREM LoopsCorrect == Spec => []LoopInv
<1>1. LoopInv /\ UNCHANGED vars => LoopInv'
  BY DEF vars, LoopInv, LoopTypeOK, ScanInv, CheckInv, TakeInv, WalkInv,
     ReleaseInv, ScanFindsFirstFit, TakeMarksRun, FreeClearsChain
<1>2. LoopInv /\ [Next]_vars => LoopInv'
  BY <1>1, ScanStep, TakeStep, FreeStep DEF Next, Returned
<1> QED BY <1>2, LoopInit, PTL DEF Spec

\* get_free_blocks, run to its end on any table, returns the first run of n
\* free blocks or -ENOMEM when there is none.
THEOREM ScanCorrect == Spec => []ScanFindsFirstFit
<1>1. LoopInv => ScanFindsFirstFit
  BY DEF LoopInv
<1> QED BY <1>1, LoopsCorrect, PTL

\* mark_blocks_taken, run to its end, has chained the whole run.
THEOREM TakeCorrect == Spec => []TakeMarksRun
<1>1. LoopInv => TakeMarksRun
  BY DEF LoopInv
<1> QED BY <1>1, LoopsCorrect, PTL

\* mark_blocks_free, run to its end, has cleared the chain from the block its
\* walk ended at.
THEOREM FreeCorrect == Spec => []FreeClearsChain
<1>1. LoopInv => FreeClearsChain
  BY DEF LoopInv
<1> QED BY <1>1, LoopsCorrect, PTL

\* All three functions of heap.c compute what the rest of the development takes
\* them to compute.
THEOREM LoopsComputeTables == Spec => []LoopsCompute
<1>1. LoopInv => LoopsCompute
  BY DEF LoopInv, LoopsCompute
<1> QED BY <1>1, LoopsCorrect, PTL

----------------------------------------------------------------------------
\* The variant.

\* How many steps a call has left at most.
StepsLeft ==
  CASE pc = "scan"    -> Total - i + 2
    [] pc = "check"   -> 1
    [] pc = "take"    -> b - i + 2
    [] pc = "walk"    -> Total + b + 2
    [] pc = "release" -> Total - i + 1
    [] OTHER          -> 0

\* The loops of heap.c are bounded: on every table, also one whose chains run to
\* its end or whose walk back finds no first block, each step of a call leaves
\* fewer to be taken, and a call takes no more than twice the table and two.
THEOREM LoopsBounded ==
  Spec => /\ [](StepsLeft \in 0 .. 2 * Total + 2)
          /\ [][StepsLeft' < StepsLeft]_vars
<1> USE TableAssumption
<1>1. LoopInv => StepsLeft \in 0 .. 2 * Total + 2
  <2> SUFFICES ASSUME LoopInv PROVE StepsLeft \in 0 .. 2 * Total + 2
    OBVIOUS
  <2>1. /\ i \in 0 .. Total /\ b \in Int /\ b < Total /\ num \in Nat
        /\ pc \in {"scan", "check", "take", "walk", "release", "done"}
        /\ pc = "walk" => b >= 0
        /\ pc = "take" => num <= i /\ i <= b + 1
    BY DEF LoopInv, LoopTypeOK, WalkInv, TakeInv, Blocks, ENOMEM
  <2> QED BY <2>1 DEF StepsLeft
<1>2. LoopInv /\ [Next]_vars => [StepsLeft' < StepsLeft]_vars
  <2> SUFFICES ASSUME LoopInv, Next, ~UNCHANGED vars PROVE StepsLeft' < StepsLeft
    OBVIOUS
  <2>1. /\ i \in 0 .. Total /\ b \in Int /\ b < Total /\ num \in Nat
        /\ pc = "walk" => b \in Nat
        /\ pc = "take" => num <= i /\ i <= b + 1
    BY DEF LoopInv, LoopTypeOK, WalkInv, TakeInv, Blocks, ENOMEM
  <2>2. CASE Scan
    BY <2>1, <2>2 DEF Scan, ScanFree, ScanTaken, ScanEnd, Check, StepsLeft
  <2>3. CASE Take
    BY <2>1, <2>3 DEF Take, TakeFirst, TakeNext, TakeEnd, StepsLeft
  <2>4. CASE Free
    BY <2>1, <2>4 DEF Free, WalkBack, WalkEnd, Release, ReleaseEnd, StepsLeft
  <2> QED BY <2>2, <2>3, <2>4 DEF Next, Returned
<1> QED BY <1>1, <1>2, LoopsCorrect, PTL DEF Spec
=============================================================================
