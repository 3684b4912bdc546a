----------------------------- MODULE HeapLoops -----------------------------
(***************************************************************************)
(* The three loops of arch/x86/memory/heap.c, iteration by iteration, on   *)
(* any table and any argument: the scan of get_free_blocks, the writes of  *)
(* mark_blocks_taken, and the walk and release of mark_blocks_free. The    *)
(* question is whether they compute what HeapTable says they do.           *)
(***************************************************************************)
EXTENDS HeapTable

CONSTANT MaxBlocks   \* bound on the block count asked of get_free_blocks
ASSUME MaxBlocksAssumption == MaxBlocks \in Nat

VARIABLES
  pc,       \* the loop that is running
  fn,       \* the function it belongs to
  num, n,   \* the arguments: block number, number of blocks
  before,   \* the table when the function was called
  t,        \* the table now
  i,        \* the index of the for loops
  count,    \* free_block_count
  b         \* block_number, first_block_number or end_block_number
vars == <<pc, fn, num, n, before, t, i, count, b>>
args == <<fn, num, n, before>>

Call(f, block, size) ==
  /\ fn = f /\ num = block /\ n = size
  /\ t = before

\* malloc_blocks calls mark_blocks_taken on a run that get_free_blocks found.
Init ==
  /\ before \in Table
  /\ \/ \E size \in 0 .. MaxBlocks :
          /\ Call("get_free_blocks", 0, size)
          /\ pc = "scan" /\ i = 0 /\ count = 0 /\ b = ENOMEM
     \/ \E block \in Blocks, size \in 1 .. Total :
          /\ Fits(before, size, block)
          /\ Call("mark_blocks_taken", block, size)
          /\ pc = "take" /\ i = block /\ count = 0
          /\ b = IF block + size - 1 > Total - 1 THEN Total - 1 ELSE block + size - 1
     \/ \E block \in Blocks :
          /\ Call("mark_blocks_free", block, 0)
          /\ pc = "walk" /\ i = 0 /\ count = 0 /\ b = block

----------------------------------------------------------------------------
\* get_free_blocks: an iteration on a free block, which ends the loop when the
\* run is long enough.
ScanFree ==
  /\ pc = "scan" /\ i < Total
  /\ block_entry_is_free(t[i])
  /\ b' = IF b = ENOMEM THEN i ELSE b
  /\ count' = count + 1
  /\ IF count + 1 = n THEN pc' = "check" /\ i' = i ELSE pc' = pc /\ i' = i + 1
  /\ UNCHANGED <<args, t>>

\* Mutant: the count survives a taken block.
ScanTaken_no_reset ==
  /\ pc = "scan" /\ i < Total
  /\ ~block_entry_is_free(t[i])
  /\ b' = ENOMEM
  /\ i' = i + 1
  /\ UNCHANGED <<args, pc, t, count>>

\* ... on a taken block, which resets the run.
ScanTaken ==
  /\ pc = "scan" /\ i < Total
  /\ ~block_entry_is_free(t[i])
  /\ b' = ENOMEM
  /\ count' = 0
  /\ i' = i + 1
  /\ UNCHANGED <<args, pc, t>>

\* ... the loop ran off the table.
ScanEnd ==
  /\ pc = "scan" /\ i >= Total
  /\ pc' = "check"
  /\ UNCHANGED <<args, t, i, count, b>>

\* ... the test after the loop.
Check ==
  /\ pc = "check"
  /\ b' = IF count # n THEN ENOMEM ELSE b
  /\ pc' = "done"
  /\ UNCHANGED <<args, t, i, count>>

\* mark_blocks_taken: the first block, before the loop.
TakeFirst ==
  /\ pc = "take" /\ i = num
  /\ t' = [t EXCEPT ![i] = {"TAKEN", "IS_FIRST"} \cup (IF n > 1 THEN {"HAS_NEXT"} ELSE {})]
  /\ i' = i + 1
  /\ UNCHANGED <<args, pc, count, b>>

\* ... an iteration.
TakeNext ==
  /\ pc = "take" /\ i > num /\ i <= b
  /\ t' = [t EXCEPT ![i] = {"TAKEN"} \cup (IF i # b THEN {"HAS_NEXT"} ELSE {})]
  /\ i' = i + 1
  /\ UNCHANGED <<args, pc, count, b>>

TakeEnd ==
  /\ pc = "take" /\ i > b
  /\ pc' = "done"
  /\ UNCHANGED <<args, t, i, count, b>>

\* Mutant: the walk never moves.
WalkBack_stuck ==
  /\ pc = "walk" /\ b # 0
  /\ "IS_FIRST" \notin t[num]
  /\ UNCHANGED <<args, pc, t, i, count, b>>

\* mark_blocks_free: an iteration of the walk to the first block.
WalkBack ==
  /\ pc = "walk" /\ b # 0
  /\ "IS_FIRST" \notin t[num]
  /\ b' = b - 1
  /\ UNCHANGED <<args, pc, t, i, count>>

WalkEnd ==
  /\ pc = "walk"
  /\ b = 0 \/ "IS_FIRST" \in t[num]
  /\ pc' = "release" /\ i' = b
  /\ UNCHANGED <<args, t, count, b>>

\* ... an iteration of the release, which ends the loop at the last block of
\* the chain.
Release ==
  /\ pc = "release" /\ i < Total
  /\ t' = [t EXCEPT ![i] = FREE]
  /\ IF block_has_next_block(t[i]) THEN pc' = pc /\ i' = i + 1 ELSE pc' = "done" /\ i' = i
  /\ UNCHANGED <<args, count, b>>

ReleaseEnd ==
  /\ pc = "release" /\ i >= Total
  /\ pc' = "done"
  /\ UNCHANGED <<args, t, i, count, b>>

Scan == ScanFree \/ ScanTaken \/ ScanEnd \/ Check
Take == TakeFirst \/ TakeNext \/ TakeEnd
Free == WalkBack \/ WalkEnd \/ Release \/ ReleaseEnd

Returned == pc = "done" /\ UNCHANGED vars

Next == Scan \/ Take \/ Free \/ Returned

\* The kernel is sequential: the running function takes its next step.
Spec == Init /\ [][Next]_vars /\ WF_vars(Scan \/ Take \/ Free)

----------------------------------------------------------------------------
\* The locals stay in their ranges: no loop indexes the table outside it.
LoopTypeOK ==
  /\ pc \in {"scan", "check", "take", "walk", "release", "done"}
  /\ fn \in {"get_free_blocks", "mark_blocks_taken", "mark_blocks_free"}
  /\ num \in Blocks /\ n \in Nat
  /\ before \in Table /\ t \in Table
  /\ i \in 0 .. Total /\ count \in 0 .. Total
  /\ b \in Blocks \cup {ENOMEM}

\* get_free_blocks returns the start of the first run of n free blocks, or
\* -ENOMEM exactly when there is none, and leaves the table alone.
ScanFindsFirstFit ==
  pc = "done" /\ fn = "get_free_blocks" => b = get_free_blocks(before, n) /\ t = before

\* mark_blocks_taken writes the run, chained from its first to its last block.
TakeMarksRun ==
  pc = "done" /\ fn = "mark_blocks_taken" => t = mark_blocks_taken(before, num, n)

\* mark_blocks_free clears the chain that starts at the block it walked to.
FreeClearsChain ==
  pc = "done" /\ fn = "mark_blocks_free" => t = mark_blocks_free(before, num)

\* The loops compute what HeapTable says of them, so that Heap may use its
\* operators: the three results above.
LoopsCompute == ScanFindsFirstFit /\ TakeMarksRun /\ FreeClearsChain

\* Every call returns, whatever the table: the walk back stops at block 0 and
\* the release at the end of the table.
Terminates == <>(pc = "done")

----------------------------------------------------------------------------
\* What holds between two iterations of the scan: the last `count` blocks
\* scanned are free and the one before them is not, b is where they start, and
\* no run of n free blocks ends within what was scanned.
ScanInv ==
  pc = "scan" =>
    /\ fn = "get_free_blocks" /\ t = before
    /\ count <= i
    /\ b = IF count = 0 THEN ENOMEM ELSE i - count
    /\ \A k \in i - count .. i - 1 : block_entry_is_free(t[k])
    /\ count < i => ~block_entry_is_free(t[i - count - 1])
    /\ n > 0 => count < n
    /\ \A s \in Blocks : s + n <= i => ~Fits(t, n, s)

\* ... and when the loop is left, by the break or at the end of the table.
CheckInv ==
  pc = "check" =>
    /\ fn = "get_free_blocks" /\ t = before
    /\ count = n /\ n > 0 => b \in Blocks /\ FirstFit(t, n, b)
    /\ count # n \/ n = 0 => \A s \in Blocks : ~Fits(t, n, s)
    /\ count = 0 => b = ENOMEM

\* What holds between two iterations of mark_blocks_taken.
TakeInv ==
  pc = "take" =>
    /\ fn = "mark_blocks_taken" /\ n > 0
    /\ num <= i /\ i <= b + 1
    /\ b = num + n - 1
    /\ t = [k \in Blocks |->
              IF k < i THEN mark_blocks_taken(before, num, n)[k] ELSE before[k]]

\* ... and of mark_blocks_free.
WalkInv ==
  pc = "walk" =>
    /\ fn = "mark_blocks_free" /\ t = before
    /\ b \in Blocks
    /\ "IS_FIRST" \in before[num] => b = num

ReleaseInv ==
  pc = "release" =>
    /\ fn = "mark_blocks_free"
    /\ b = FirstBlockNumber(before, num)
    /\ b <= i
    /\ \A k \in b .. i - 1 : block_has_next_block(before[k])
    /\ t = [k \in Blocks |-> IF b <= k /\ k < i THEN FREE ELSE before[k]]

\* The inductive invariant behind the three results above: what each loop has
\* established so far.
LoopInv ==
  /\ LoopTypeOK
  /\ ScanInv /\ CheckInv /\ TakeInv /\ WalkInv /\ ReleaseInv
  /\ ScanFindsFirstFit /\ TakeMarksRun /\ FreeClearsChain
=============================================================================
