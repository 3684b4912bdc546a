----------------------------- MODULE Allocator -----------------------------
(***************************************************************************)
(* What the kernel heap promises its callers, with no block table: memory  *)
(* is handed out in runs of blocks, a run is given to one holder at a      *)
(* time, a request fails only when no run of free blocks is long enough    *)
(* (or the request is for no block at all), and a free gives back the      *)
(* whole run and nothing else.                                             *)
(***************************************************************************)
EXTENDS HeapTable

CONSTANT Sizes   \* the sizes in bytes the callers ask for

VARIABLES
  asked,  \* asked[b]: bytes its holder asked for when given b, 0 if b is no start
  req,    \* the size of the last request, 0 after kfree
  ret     \* what the last call returned: a block, NULL, or VOID after kfree

NULL == -1
VOID == -2

Held      == {b \in Blocks : asked[b] # 0}
Extent(b) == b .. b + BlocksFor(asked[b]) - 1

\* The run s .. s+n-1 lies in the heap and no holder has any of it.
Available(s, n) ==
  /\ s + n <= Total
  /\ \A b \in Held : (s .. s + n - 1) \cap Extent(b) = {}

Init == asked = [b \in Blocks |-> 0] /\ req = 0 /\ ret = VOID

Give(size) ==
  /\ BlocksFor(size) > 0
  /\ \E s \in Blocks :
       /\ Available(s, BlocksFor(size))
       /\ asked' = [asked EXCEPT ![s] = size]
       /\ req' = size /\ ret' = s

Refuse(size) ==
  /\ BlocksFor(size) > 0 => ~ \E s \in Blocks : Available(s, BlocksFor(size))
  /\ req' = size /\ ret' = NULL
  /\ UNCHANGED asked

TakeBack(b) ==
  /\ b \in Held
  /\ asked' = [asked EXCEPT ![b] = 0]
  /\ req' = 0 /\ ret' = VOID

Next ==
  \/ \E size \in Sizes : Give(size) \/ Refuse(size)
  \/ \E b \in Blocks : TakeBack(b)

vars == <<asked, req, ret>>
Spec == Init /\ [][Next]_vars
=============================================================================
