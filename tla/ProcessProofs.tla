--------------------------- MODULE ProcessProofs ---------------------------
(***************************************************************************)
(* For every number of slots, of descriptors and of addresses: no load     *)
(* replaces a process, and one load loses the parts of its path and, when  *)
(* it fails, at most two objects more; and, when kfree(NULL) frees         *)
(* nothing, every object in the heap has one owner and the task list has   *)
(* the tasks of the loaded processes.                                      *)
(***************************************************************************)
EXTENDS Process, FiniteSetTheorems, TLAPS

Addr0 == Addrs \cup {None}
Processes == [at : Addr0, id : Slots, data : Addr0, stack : Addr0, task : Addr0, dir : Addr0]

\* How far the process being loaded has got.
Shape ==
  /\ pc = "idle" => p = NoProcess
  /\ pc # "idle" => p.at # None /\ p.at \notin {p.data, p.stack}
  /\ p.data # None <=> pc \in {"stack", "task", "map"}
  /\ p.stack # None <=> pc \in {"task", "map"}
  /\ p.task # None <=> pc = "map"
  /\ p.dir # None <=> pc = "map"
  /\ pc \in {"task", "map"} => p.id = slot

\* What the load in progress, or the last one, has lost so far: nothing before
\* the path is parsed, then its parts, and two objects more when it fails.
Losses ==
  /\ pc = "open" => lost \subseteq before
  /\ pc \notin {"idle", "open"} \/ (pc = "idle" /\ res = 0) =>
       \E a \in Addrs : lost \subseteq before \cup {a}
  /\ pc = "idle" => \E a, b, c \in Addrs : lost \subseteq before \cup {a, b, c}

\* The descriptors are those of files, no more of them than there are entries.
FdsFit == fds \subseteq Addrs /\ Cardinality(fds) <= MAX_FILE_DESCRIPTORS

\* What holds whatever kfree(NULL) does: the slot of a load is free, and what it
\* loses is bounded.
LoadInv ==
  /\ processes \in [Slots -> Processes] /\ p \in Processes
  /\ heap \subseteq Addrs /\ lost \subseteq Addrs /\ FdsFit
  /\ pc \in {"idle", "open", "file", "data", "stack", "task", "map"}
  /\ slot \in Slots
  /\ Shape
  /\ Objects(p) \subseteq heap
  /\ pc # "idle" => slot \notin Loaded
  /\ Losses

\* The loaded processes are whole, fill the first slots, and their tasks are the
\* list, followed by the task of the process being loaded.
Listed == IF pc = "map" THEN Len(order) - 1 ELSE Len(order)
ListMatches ==
  /\ Loaded = 0 .. Listed - 1
  /\ pc # "idle" => slot = Listed
  /\ \A i \in Loaded :
       /\ processes[i].id = i /\ order[i + 1] = processes[i].task
       /\ None \notin {processes[i].task, processes[i].dir}
  /\ pc = "map" => order[Len(order)] = p.task

\* The objects that process i has.
Has(i) == Objects(processes[i])

\* Whose the objects in the heap are.
Owned ==
  /\ \A a \in Addrs :
       a \in heap <=> \/ a = Block0 \/ a \in lost \/ a \in fds \/ a \in Objects(p)
                      \/ \E i \in Loaded : a \in Has(i)
  /\ \A i, j \in Loaded : i # j => Has(i) \cap Has(j) = {}
  /\ \A i \in Loaded : Has(i) \cap ({Block0} \cup lost \cup fds \cup Objects(p)) = {}
  /\ Objects(p) \cap ({Block0} \cup lost \cup fds) = {}
  /\ Block0 \notin lost \cup fds /\ lost \cap fds = {}

\* The inductive invariant.
ProcessInv == LoadInv /\ TaskTypeOK /\ ListMatches /\ Owned

\* A load fails: the process is freed. What it points to, and what was just
\* allocated for it, is lost, but for the files that have a descriptor.
Fails ==
  /\ pc' = "idle" /\ p' = NoProcess /\ res' # 0 /\ UNCHANGED <<processes, taskVars>>
  /\ slot' \in Slots /\ heap' \subseteq Addrs /\ FdsFit'
  /\ before' = IF pc = "idle" THEN lost ELSE before
  /\ \E a, b \in Addrs : lost' \subseteq lost \cup {a, b}
  /\ \E new \in SUBSET (Addrs \ heap) : \E open \in SUBSET new :
       /\ lost' = lost \cup (Objects(p) \ {p.at}) \cup (new \ open)
       /\ fds' = fds \cup open
       /\ ~NullFrees => heap' = (heap \cup new) \ {p.at}

\* A load goes on, with new objects: its own, that of a descriptor, or the parts
\* of the path, lost at once; and with a task at most.
GoesOn ==
  /\ pc # "map" /\ UNCHANGED processes
  /\ p' \in Processes /\ Shape' /\ FdsFit'
  /\ pc' \in {"open", "file", "data", "stack", "task", "map"}
  /\ pc = "idle" <=> pc' = "open"
  /\ IF pc = "idle" THEN IsFreeSlot(slot') /\ before' = lost ELSE UNCHANGED <<slot, before>>
  /\ IF pc = "open" THEN \E a \in Addrs : lost' \subseteq lost \cup {a} ELSE lost' = lost
  /\ \E own, open, gone \in SUBSET (Addrs \ heap) :
       /\ own \cap open = {} /\ own \cap gone = {} /\ open \cap gone = {}
       /\ heap' = heap \cup own \cup open \cup gone
       /\ Objects(p') = Objects(p) \cup own /\ fds' = fds \cup open /\ lost' = lost \cup gone
  /\ IF pc' = "map" THEN pc = "task" /\ p'.task \notin heap /\ link(p'.task) /\ UNCHANGED directory
     ELSE UNCHANGED taskVars

\* No load begins, because no slot is left, or nothing happens.
Stays ==
  /\ UNCHANGED <<taskVars, processes, heap, fds, pc, slot, p, lost>>
  /\ UNCHANGED <<res, before>> \/ (pc = "idle" /\ res' # 0 /\ before' = lost)

----------------------------------------------------------------------------
\* None is not an address, and what is in a process without objects is nothing.
LEMMA NoProcessFacts ==
  /\ None \notin Addrs /\ Tasks = Addrs /\ Block0 \in Addrs /\ 0 \in Slots
  /\ NoProcess \in Processes
  /\ NoProcess.at = None /\ NoProcess.data = None /\ NoProcess.stack = None
  /\ NoProcess.task = None /\ NoProcess.dir = None
  /\ Objects(NoProcess) = {}
<1>1. None \notin Addrs /\ Tasks = Addrs /\ Block0 \in Addrs /\ 0 \in Slots
  BY TaskAssumption, ProcessAssumption DEF Addrs, Slots, Block0
<1>2. NoProcess \in Processes
  BY <1>1 DEF NoProcess, Processes, Addr0
<1>3. /\ NoProcess.at = None /\ NoProcess.data = None /\ NoProcess.stack = None
      /\ NoProcess.task = None /\ NoProcess.dir = None
  BY DEF NoProcess
<1>4. Objects(NoProcess) = {}
  BY <1>3 DEF Objects
<1> QED BY <1>1, <1>2, <1>3, <1>4

\* What kzalloc returns is NULL or was free.
LEMMA GivenIsFree ==
  /\ \A a \in Given : a # None => a \in Addrs \ heap
  /\ \A a \in First(heap) : a \in Addrs \ heap
  BY DEF Given, First

\* A finite set gets at most one element larger.
LEMMA AddOne ==
  ASSUME NEW S, IsFiniteSet(S), NEW x
  PROVE  /\ IsFiniteSet(S \cup {x}) /\ Cardinality(S) \in Nat
         /\ Cardinality(S \cup {x}) \in Nat
         /\ Cardinality(S \cup {x}) <= Cardinality(S) + 1
<1>1. Cardinality(S) \in Nat
  BY FS_CardinalityType
<1>2. /\ IsFiniteSet(S \cup {x})
      /\ Cardinality(S \cup {x}) = IF x \in S THEN Cardinality(S) ELSE Cardinality(S) + 1
  BY FS_AddElement
<1> QED BY <1>1, <1>2

\* Sets of addresses are finite.
LEMMA AddrsFinite == \A S \in SUBSET Addrs : IsFiniteSet(S) /\ Cardinality(S) \in Nat
<1>1. IsFiniteSet(Addrs)
  BY FS_Interval, ProcessAssumption DEF Addrs
<1> QED BY <1>1, FS_Subset, FS_CardinalityType

\* One, two and three addresses are that many at most.
LEMMA ThreeAtMost ==
  ASSUME NEW a, NEW b, NEW c
  PROVE  /\ IsFiniteSet({a, b, c})
         /\ Cardinality({a}) = 1
         /\ Cardinality({a, b, c}) \in Nat /\ Cardinality({a, b, c}) <= 3
<1>1. IsFiniteSet({a}) /\ Cardinality({a}) = 1
  BY FS_Singleton
<1> DEFINE one == {a}
<1> DEFINE two == one \cup {b}
<1> HIDE DEF one
<1>2. IsFiniteSet(one) /\ Cardinality(one) = 1
  BY <1>1 DEF one
<1>3. IsFiniteSet(two) /\ Cardinality(two) \in Nat /\ Cardinality(two) <= Cardinality(one) + 1
  BY <1>2, AddOne
<1> HIDE DEF two
<1>4. /\ IsFiniteSet(two \cup {c}) /\ Cardinality(two \cup {c}) \in Nat
      /\ Cardinality(two \cup {c}) <= Cardinality(two) + 1
  BY <1>3, AddOne
<1>5. two \cup {c} = {a, b, c}
  BY DEF two, one
<1> QED BY <1>1, <1>2, <1>3, <1>4, <1>5

\* At boot nothing is loaded and nothing is lost.
LEMMA LoadInit == Init => LoadInv
<1> SUFFICES ASSUME Init PROVE LoadInv
  OBVIOUS
<1> USE NoProcessFacts DEF Init
<1>1. Loaded = {}
  BY DEF Loaded
<1>2. FdsFit
  BY FS_EmptySet, ProcessAssumption DEF FdsFit
<1>3. Shape /\ Losses
  BY DEF Shape, Losses
<1> QED BY <1>1, <1>2, <1>3, ProcessAssumption DEF LoadInv

\* A load that fails: the process is freed and forgotten.
LEMMA FailLoad == ASSUME LoadInv, Fails PROVE LoadInv'
<1>1. Loaded' = Loaded
  BY DEF Fails, Loaded
<1>2. Shape'
  BY NoProcessFacts DEF Fails, Shape
<1>3. lost' \subseteq Addrs
  BY DEF Fails, LoadInv
<1>4. PICK a \in Addrs, b \in Addrs : lost' \subseteq lost \cup {a, b}
  BY DEF Fails
<1>5. Losses'
  <2>1. CASE pc \in {"idle", "open"}
    BY <1>4, <2>1 DEF Fails, LoadInv, Losses
  <2>2. CASE pc \notin {"idle", "open"}
    <3>1. PICK c \in Addrs : lost \subseteq before \cup {c}
      BY <2>2 DEF LoadInv, Losses
    <3>2. lost' \subseteq before' \cup {a, b, c}
      BY <1>4, <2>2, <3>1 DEF Fails
    <3> QED BY <3>2 DEF Fails, Losses
  <2> QED BY <2>1, <2>2
<1> QED BY <1>1, <1>2, <1>3, <1>5, NoProcessFacts DEF LoadInv, Fails

\* A load that goes on.
LEMMA LoadGoesOn == ASSUME LoadInv, GoesOn PROVE LoadInv'
<1>1. Loaded' = Loaded
  BY DEF GoesOn, Loaded
<1>2. slot' \in Slots \ Loaded
  BY DEF GoesOn, IsFreeSlot, LoadInv, Loaded
<1>3. heap' \subseteq Addrs /\ Objects(p') \subseteq heap' /\ lost' \subseteq Addrs
  BY DEF GoesOn, LoadInv
<1>4. Losses'
  <2>1. CASE pc' = "open"
    BY <2>1 DEF GoesOn, Losses
  <2>2. CASE pc = "open"
    BY <2>2 DEF GoesOn, Losses, LoadInv
  <2>3. CASE pc' # "open" /\ pc # "open"
    BY <2>3 DEF GoesOn, Losses, LoadInv
  <2> QED BY <2>1, <2>2, <2>3
<1> QED BY <1>1, <1>2, <1>3, <1>4 DEF LoadInv, GoesOn

\* fail() frees the process, and what else it has is lost.
LEMMA FailStep ==
  ASSUME LoadInv, NEW error \in {EIO, ENOMEM, EINVAL},
         NEW new \in SUBSET (Addrs \ heap), NEW open \in SUBSET new, NEW left,
         fail(error, new, left), left = (Objects(p) \ {p.at}) \cup (new \ open),
         NEW a \in Addrs, NEW b \in Addrs, left \subseteq {a, b},
         fds' = fds \cup open, FdsFit', UNCHANGED <<processes, taskVars>>, slot' \in Slots,
         before' = IF pc = "idle" THEN lost ELSE before
  PROVE  Fails
<1>1. /\ heap' = (heap \cup new) \ Freed(p.at) /\ lost' = lost \cup left
      /\ p' = NoProcess /\ pc' = "idle" /\ res' = error
  BY DEF fail
<1>2. ~NullFrees => heap' = (heap \cup new) \ {p.at}
  BY <1>1, NoProcessFacts DEF Freed, LoadInv
<1>3. heap' \subseteq Addrs
  BY <1>1 DEF LoadInv
<1>4. res' # 0
  BY <1>1 DEF EIO, ENOMEM, EINVAL
<1>5. lost' = lost \cup (Objects(p) \ {p.at}) \cup (new \ open) /\ lost' \subseteq lost \cup {a, b}
  BY <1>1
<1> QED BY <1>1, <1>2, <1>3, <1>4, <1>5 DEF Fails

\* The same when nothing was allocated, and the process has at most two objects.
LEMMA FailNothingNew ==
  ASSUME LoadInv, NEW error \in {EIO, ENOMEM, EINVAL}, NEW left, fail(error, {}, left),
         left = Objects(p) \ {p.at}, NEW a \in Addrs, NEW b \in Addrs, left \subseteq {a, b},
         UNCHANGED <<fds, processes, taskVars>>, slot' \in Slots,
         before' = IF pc = "idle" THEN lost ELSE before
  PROVE  Fails
<1>1. {} \in SUBSET (Addrs \ heap) /\ {} \in SUBSET {}
  OBVIOUS
<1>2. left = (Objects(p) \ {p.at}) \cup ({} \ {}) /\ fds' = fds \cup {}
  OBVIOUS
<1>3. FdsFit'
  BY DEF LoadInv, FdsFit
<1> QED BY <1>1, <1>2, <1>3, FailStep

\* The objects of the process being loaded, as far as it has got.
LEMMA ShapeObjects ==
  ASSUME LoadInv
  PROVE  /\ pc = "idle" => Objects(p) = {} /\ p.at = None
         /\ pc \in {"open", "file", "data"} => Objects(p) = {p.at}
         /\ pc = "stack" => Objects(p) = {p.at, p.data}
         /\ pc = "task" => Objects(p) = {p.at, p.data, p.stack}
         /\ pc # "idle" => p.at \in Addrs
         /\ pc \in {"stack", "task"} => p.data \in Addrs
         /\ pc = "task" => p.stack \in Addrs
<1>1. p \in Processes /\ Shape
  BY DEF LoadInv
<1>2. pc = "idle" => Objects(p) = {} /\ p.at = None
  BY <1>1, NoProcessFacts DEF Shape
<1>3. /\ p.at \in Addrs \cup {None} /\ p.data \in Addrs \cup {None}
      /\ p.stack \in Addrs \cup {None}
  BY <1>1 DEF Processes, Addr0
<1> QED BY <1>1, <1>2, <1>3, NoProcessFacts DEF Shape, Objects

\* The kzalloc of the process.
LEMMA LoadProcessStep ==
  ASSUME LoadInv, NEW f \in Files, load_process(f)
  PROVE  Fails \/ GoesOn
<1>1. pc = "idle" /\ UNCHANGED <<taskVars, processes, fds>> /\ before' = lost
  BY DEF load_process
<1>2. IsFreeSlot(slot') /\ slot' \in Slots
  BY DEF load_process, IsFreeSlot
<1>3. PICK a \in Given :
        IF a = None THEN fail(ENOMEM, {}, {})
        ELSE /\ heap' = heap \cup {a}
             /\ p' = [NoProcess EXCEPT !.at = a]
             /\ pc' = "open"
             /\ UNCHANGED <<res, lost>>
  BY DEF load_process
<1>4. Objects(p) = {} /\ FdsFit
  BY <1>1, ShapeObjects DEF LoadInv
<1>5. CASE a = None
  <2>1. fail(ENOMEM, {}, {}) /\ {} = Objects(p) \ {p.at} /\ {} \subseteq {Block0, Block0}
    BY <1>3, <1>4, <1>5
  <2> QED BY <1>1, <1>2, <2>1, NoProcessFacts, FailNothingNew
<1>6. CASE a # None
  <2>1. a \in Addrs \ heap
    BY <1>3, <1>6, GivenIsFree
  <2>2. heap' = heap \cup {a} /\ pc' = "open" /\ lost' = lost /\ p' = [NoProcess EXCEPT !.at = a]
    BY <1>3, <1>6
  <2>3. /\ p' \in Processes /\ p'.at = a /\ p'.data = None /\ p'.stack = None
        /\ p'.task = None /\ p'.dir = None
    BY <2>1, <2>2, NoProcessFacts DEF NoProcess, Processes, Addr0
  <2>4. a # None
    BY <1>6
  <2>5. Shape' /\ FdsFit'
    BY <1>1, <1>4, <2>2, <2>3, <2>4 DEF Shape, FdsFit
  <2>6. Objects(p') = Objects(p) \cup {a}
    BY <1>4, <2>3, <2>4 DEF Objects
  <2>7. \E own, open, gone \in SUBSET (Addrs \ heap) :
          /\ own \cap open = {} /\ own \cap gone = {} /\ open \cap gone = {}
          /\ heap' = heap \cup own \cup open \cup gone
          /\ Objects(p') = Objects(p) \cup own /\ fds' = fds \cup open /\ lost' = lost \cup gone
    <3> {a} \in SUBSET (Addrs \ heap)
      BY <2>1
    <3> WITNESS {a} \in SUBSET (Addrs \ heap), {} \in SUBSET (Addrs \ heap), {} \in SUBSET (Addrs \ heap)
    <3> QED BY <1>1, <2>2, <2>6
  <2> QED BY <1>1, <1>2, <2>2, <2>3, <2>5, <2>7 DEF GoesOn
<1> QED BY <1>5, <1>6

\* fopen parses the path.
LEMMA PathParseStep == ASSUME LoadInv, path_parse PROVE Fails \/ GoesOn
<1>1. pc = "open" /\ UNCHANGED <<taskVars, processes, fds, slot, file, before>>
  BY DEF path_parse
<1>2. Objects(p) = {p.at} /\ FdsFit /\ slot \in Slots /\ Shape /\ p \in Processes
  BY <1>1, ShapeObjects DEF LoadInv
<1>3. PICK a \in Given :
        IF a = None THEN fail(EIO, {}, {})
        ELSE /\ heap' = heap \cup {a} /\ lost' = lost \cup {a}
             /\ pc' = "file"
             /\ UNCHANGED <<p, res>>
  BY DEF path_parse
<1>4. CASE a = None
  <2>1. fail(EIO, {}, {}) /\ {} = Objects(p) \ {p.at} /\ {} \subseteq {Block0, Block0}
    BY <1>2, <1>3, <1>4
  <2> QED BY <1>1, <1>2, <2>1, NoProcessFacts, FailNothingNew
<1>5. CASE a # None
  <2>1. a \in Addrs \ heap
    BY <1>3, <1>5, GivenIsFree
  <2>2. heap' = heap \cup {a} /\ lost' = lost \cup {a} /\ pc' = "file" /\ p' = p
    BY <1>3, <1>5
  <2>3. Shape' /\ FdsFit' /\ p' \in Processes
    BY <1>1, <1>2, <2>2 DEF Shape, FdsFit
  <2>4. \E own, open, gone \in SUBSET (Addrs \ heap) :
          /\ own \cap open = {} /\ own \cap gone = {} /\ open \cap gone = {}
          /\ heap' = heap \cup own \cup open \cup gone
          /\ Objects(p') = Objects(p) \cup own /\ fds' = fds \cup open /\ lost' = lost \cup gone
    <3> {a} \in SUBSET (Addrs \ heap)
      BY <2>1
    <3> WITNESS {} \in SUBSET (Addrs \ heap), {} \in SUBSET (Addrs \ heap), {a} \in SUBSET (Addrs \ heap)
    <3> QED BY <1>1, <2>2
  <2>5. \E b \in Addrs : lost' \subseteq lost \cup {b}
    BY <2>1, <2>2
  <2> QED BY <1>1, <2>2, <2>3, <2>4, <2>5 DEF GoesOn
<1> QED BY <1>4, <1>5

\* A descriptor more fits while there is one left.
LEMMA OneMoreFits ==
  ASSUME FdsFit, Cardinality(fds) < MAX_FILE_DESCRIPTORS, NEW a \in Addrs
  PROVE  /\ fds \cup {a} \subseteq Addrs
         /\ Cardinality(fds \cup {a}) <= MAX_FILE_DESCRIPTORS
<1>1. IsFiniteSet(fds)
  BY AddrsFinite DEF FdsFit
<1>2. /\ Cardinality(fds) \in Nat /\ Cardinality(fds \cup {a}) \in Nat
      /\ Cardinality(fds \cup {a}) <= Cardinality(fds) + 1
  BY <1>1, AddOne
<1> QED BY <1>2, ProcessAssumption DEF FdsFit

\* fopen fails, or loses the file it has opened.
LEMMA FopenFailsStep == ASSUME LoadInv, fopen_fails \/ fopen_loses PROVE Fails
<1>1. pc = "file" /\ UNCHANGED <<taskVars, processes, fds, slot, file, before>>
  BY DEF fopen_fails, fopen_loses
<1>2. Objects(p) = {p.at} /\ FdsFit /\ slot \in Slots
  BY <1>1, ShapeObjects DEF LoadInv
<1>3. CASE fail(EIO, {}, {})
  <2>1. {} = Objects(p) \ {p.at} /\ {} \subseteq {Block0, Block0}
    BY <1>2
  <2> QED BY <1>1, <1>2, <1>3, <2>1, NoProcessFacts, FailNothingNew
<1>4. ASSUME NEW a \in First(heap), NEW error \in {EIO, ENOMEM, EINVAL}, fail(error, {a}, {a})
      PROVE  Fails
  <2>1. a \in Addrs \ heap /\ {a} \in SUBSET (Addrs \ heap) /\ {} \in SUBSET {a}
    BY GivenIsFree
  <2>2. {a} = (Objects(p) \ {p.at}) \cup ({a} \ {}) /\ {a} \subseteq {a, a} /\ fds' = fds \cup {}
    BY <1>1, <1>2
  <2>3. FdsFit'
    BY <1>1, <1>2 DEF FdsFit
  <2> HIDE DEF EIO, ENOMEM, EINVAL
  <2> QED BY <1>1, <1>2, <1>4, <2>1, <2>2, <2>3, FailStep
<1>5. CASE fopen_fails
  BY <1>3, <1>4, <1>5 DEF fopen_fails
<1>6. CASE fopen_loses
  <2>1. PICK a \in First(heap) :
          fail(IF Cardinality(fds) = MAX_FILE_DESCRIPTORS THEN EIO ELSE EINVAL, {a}, {a})
    BY <1>6 DEF fopen_loses
  <2>2. (IF Cardinality(fds) = MAX_FILE_DESCRIPTORS THEN EIO ELSE EINVAL) \in {EIO, ENOMEM, EINVAL}
    OBVIOUS
  <2> QED BY <1>4, <2>1, <2>2
<1> QED BY <1>5, <1>6

\* fopen returns a descriptor, and fstat follows.
LEMMA OpenBinaryStep == ASSUME LoadInv, open_binary PROVE Fails \/ GoesOn
<1>1. /\ pc = "file" /\ UNCHANGED <<taskVars, processes, slot, file, before>>
      /\ Cardinality(fds) < MAX_FILE_DESCRIPTORS
  BY DEF open_binary
<1>2. Objects(p) = {p.at} /\ FdsFit /\ slot \in Slots /\ Shape /\ p \in Processes
  BY <1>1, ShapeObjects DEF LoadInv
<1>3. PICK a \in First(heap) :
        /\ fds' = fds \cup {a}
        /\ IF file = "directory" \/ Cardinality(fds') = MAX_FILE_DESCRIPTORS
           THEN fail(EINVAL, {a}, {})
           ELSE heap' = heap \cup {a} /\ pc' = "data" /\ UNCHANGED <<p, res, lost>>
  BY DEF open_binary
<1>4. a \in Addrs \ heap /\ {a} \in SUBSET (Addrs \ heap) /\ {a} \in SUBSET {a}
  BY GivenIsFree
<1>5. FdsFit'
  BY <1>1, <1>2, <1>3, <1>4, OneMoreFits DEF FdsFit
<1>6. CASE fail(EINVAL, {a}, {})
  <2>1. {} = (Objects(p) \ {p.at}) \cup ({a} \ {a}) /\ {} \subseteq {a, a}
    BY <1>2
  <2> QED BY <1>1, <1>2, <1>3, <1>4, <1>5, <1>6, <2>1, FailStep
<1>7. CASE heap' = heap \cup {a} /\ pc' = "data" /\ UNCHANGED <<p, res, lost>>
  <2>1. Shape' /\ p' \in Processes
    BY <1>1, <1>2, <1>7 DEF Shape
  <2>2. \E own, open, gone \in SUBSET (Addrs \ heap) :
          /\ own \cap open = {} /\ own \cap gone = {} /\ open \cap gone = {}
          /\ heap' = heap \cup own \cup open \cup gone
          /\ Objects(p') = Objects(p) \cup own /\ fds' = fds \cup open /\ lost' = lost \cup gone
    <3> {a} \in SUBSET (Addrs \ heap)
      BY <1>4
    <3> WITNESS {} \in SUBSET (Addrs \ heap), {a} \in SUBSET (Addrs \ heap), {} \in SUBSET (Addrs \ heap)
    <3> QED BY <1>3, <1>7
  <2> QED BY <1>1, <1>5, <1>7, <2>1, <2>2 DEF GoesOn
<1> QED BY <1>3, <1>6, <1>7

\* An object for the process.
LEMMA OwnObjects ==
  ASSUME LoadInv, NEW own \in SUBSET (Addrs \ heap), heap' = heap \cup own,
         Objects(p') = Objects(p) \cup own, UNCHANGED <<fds, lost>>
  PROVE  \E mine, open, gone \in SUBSET (Addrs \ heap) :
           /\ mine \cap open = {} /\ mine \cap gone = {} /\ open \cap gone = {}
           /\ heap' = heap \cup mine \cup open \cup gone
           /\ Objects(p') = Objects(p) \cup mine /\ fds' = fds \cup open /\ lost' = lost \cup gone
<1> WITNESS own \in SUBSET (Addrs \ heap), {} \in SUBSET (Addrs \ heap), {} \in SUBSET (Addrs \ heap)
<1> QED OBVIOUS

\* kzalloc and fread.
LEMMA LoadBinaryStep == ASSUME LoadInv, load_binary PROVE Fails \/ GoesOn
<1>1. pc = "data" /\ UNCHANGED <<taskVars, processes, fds, slot, file, before>>
  BY DEF load_binary
<1>2. /\ Objects(p) = {p.at} /\ FdsFit /\ FdsFit' /\ slot \in Slots /\ Shape
      /\ p \in Processes /\ p.at \in Addrs /\ p.at \in heap
  BY <1>1, ShapeObjects DEF LoadInv, FdsFit
<1>3. PICK a \in Given :
        IF a = None \/ file = "empty" THEN fail(ENOMEM, {}, {})
        ELSE \/ /\ heap' = heap \cup {a}
                /\ p' = [p EXCEPT !.data = a]
                /\ pc' = "stack"
                /\ UNCHANGED <<res, lost>>
             \/ fail(EIO, {a}, {a})
  BY DEF load_binary
<1>4. CASE fail(ENOMEM, {}, {})
  <2>1. {} = Objects(p) \ {p.at} /\ {} \subseteq {Block0, Block0}
    BY <1>2
  <2> QED BY <1>1, <1>2, <1>4, <2>1, NoProcessFacts, FailNothingNew
<1>5. ASSUME a # None, heap' = heap \cup {a}, p' = [p EXCEPT !.data = a], pc' = "stack", lost' = lost
      PROVE  GoesOn
  <2>1. a \in Addrs \ heap
    BY <1>3, <1>5, GivenIsFree
  <2>2. /\ p' \in Processes /\ p'.at = p.at /\ p'.data = a /\ p'.stack = p.stack
        /\ p'.task = p.task /\ p'.dir = p.dir
    BY <1>2, <1>5, <2>1 DEF Processes, Addr0
  <2>3. /\ p.at # None /\ p.data = None /\ p.stack = None /\ p.task = None /\ p.dir = None
    BY <1>1, <1>2 DEF Shape
  <2>4. Shape'
    BY <1>2, <1>5, <2>1, <2>2, <2>3 DEF Shape
  <2>5. Objects(p') = Objects(p) \cup {a} /\ {a} \in SUBSET (Addrs \ heap)
    BY <1>2, <1>5, <2>1, <2>2, <2>3 DEF Objects
  <2> QED BY <1>1, <1>2, <1>5, <2>2, <2>4, <2>5, OwnObjects DEF GoesOn
<1>6. ASSUME a # None, fail(EIO, {a}, {a}) PROVE Fails
  <2>1. a \in Addrs \ heap /\ {a} \in SUBSET (Addrs \ heap) /\ {} \in SUBSET {a}
    BY <1>3, <1>6, GivenIsFree
  <2>2. {a} = (Objects(p) \ {p.at}) \cup ({a} \ {}) /\ {a} \subseteq {a, a} /\ fds' = fds \cup {}
    BY <1>1, <1>2
  <2> QED BY <1>1, <1>2, <1>6, <2>1, <2>2, FailStep
<1> QED BY <1>3, <1>4, <1>5, <1>6

\* The user stack.
LEMMA AllocStackStep == ASSUME LoadInv, alloc_stack PROVE Fails \/ GoesOn
<1>1. pc = "stack" /\ UNCHANGED <<taskVars, processes, fds, slot, file, before>>
  BY DEF alloc_stack
<1>2. /\ Objects(p) = {p.at, p.data} /\ FdsFit /\ FdsFit' /\ slot \in Slots /\ Shape
      /\ p \in Processes /\ p.at \in Addrs /\ p.at \in heap /\ p.data \in Addrs
  BY <1>1, ShapeObjects DEF LoadInv, FdsFit
<1>3. PICK a \in Given :
        IF a = None THEN fail(ENOMEM, {}, {p.data})
        ELSE /\ heap' = heap \cup {a}
             /\ p' = [p EXCEPT !.stack = a, !.id = slot]
             /\ pc' = "task"
             /\ UNCHANGED <<res, lost>>
  BY DEF alloc_stack
<1>4. CASE fail(ENOMEM, {}, {p.data})
  <2>1. {p.data} = Objects(p) \ {p.at} /\ {p.data} \subseteq {p.data, p.data}
    BY <1>1, <1>2 DEF Shape
  <2> QED BY <1>1, <1>2, <1>4, <2>1, FailNothingNew
<1>5. CASE a # None
  <2>1. a \in Addrs \ heap
    BY <1>3, <1>5, GivenIsFree
  <2>2. /\ heap' = heap \cup {a} /\ p' = [p EXCEPT !.stack = a, !.id = slot] /\ pc' = "task"
        /\ lost' = lost
    BY <1>3, <1>5
  <2>3. /\ p' \in Processes /\ p'.at = p.at /\ p'.data = p.data /\ p'.stack = a
        /\ p'.task = p.task /\ p'.dir = p.dir /\ p'.id = slot
    BY <1>2, <2>1, <2>2 DEF Processes, Addr0
  <2>4. p.at # None /\ p.data # None /\ p.stack = None /\ p.task = None /\ p.dir = None
    BY <1>1, <1>2 DEF Shape
  <2>5. Shape'
    BY <1>1, <1>2, <1>5, <2>1, <2>2, <2>3, <2>4 DEF Shape
  <2>6. Objects(p') = Objects(p) \cup {a} /\ {a} \in SUBSET (Addrs \ heap)
    BY <1>2, <1>5, <2>1, <2>3, <2>4 DEF Objects
  <2> QED BY <1>1, <1>2, <2>2, <2>3, <2>5, <2>6, OwnObjects DEF GoesOn
<1> QED BY <1>3, <1>4, <1>5

\* make_new_task fails, for the task or for its directory.
LEMMA TaskRefusedStep ==
  ASSUME LoadInv, task_refused \/ directory_refused
  PROVE  Fails
<1>1. pc = "task" /\ UNCHANGED <<taskVars, processes, fds, slot, file, before>>
  BY DEF task_refused, directory_refused
<1>2. /\ Objects(p) = {p.at, p.data, p.stack} /\ FdsFit /\ FdsFit'
      /\ slot \in Slots /\ Shape /\ heap \subseteq Addrs
      /\ p.at \in Addrs /\ p.data \in Addrs /\ p.stack \in Addrs
  BY <1>1, ShapeObjects DEF LoadInv, FdsFit
<1>3. {p.data, p.stack} = Objects(p) \ {p.at}
  BY <1>1, <1>2 DEF Shape
<1>4. CASE task_refused
  BY <1>1, <1>2, <1>3, <1>4, FailNothingNew DEF task_refused
<1>5. CASE directory_refused
  <2>1. /\ heap' = heap \ (Freed(p.at) \cup Freed(None)) /\ lost' = lost \cup {p.data, p.stack}
        /\ p' = NoProcess /\ pc' = "idle" /\ res' # 0
    BY <1>5 DEF directory_refused, EIO
  <2>2. ~NullFrees => heap' = (heap \cup {}) \ {p.at}
    BY <1>2, <2>1, NoProcessFacts DEF Freed
  <2>3. /\ lost' = lost \cup (Objects(p) \ {p.at}) \cup ({} \ {}) /\ fds' = fds \cup {}
        /\ {} \in SUBSET (Addrs \ heap) /\ {} \in SUBSET {}
    BY <1>1, <1>3, <2>1
  <2>4. heap' \subseteq Addrs /\ \E a, b \in Addrs : lost' \subseteq lost \cup {a, b}
    BY <1>2, <2>1
  <2> QED BY <1>1, <1>2, <2>1, <2>2, <2>3, <2>4 DEF Fails
<1> QED BY <1>4, <1>5

\* make_new_task succeeds.
LEMMA MakeTaskStep == ASSUME LoadInv, make_task PROVE GoesOn
<1>1. pc = "task" /\ pc' = "map" /\ UNCHANGED <<directory, processes, fds, slot, file, lost, before>>
  BY DEF make_task
<1>2. /\ Objects(p) = {p.at, p.data, p.stack} /\ FdsFit /\ FdsFit'
      /\ slot \in Slots /\ Shape /\ p \in Processes
  BY <1>1, ShapeObjects DEF LoadInv, FdsFit
<1>3. PICK t \in First(heap), d \in Addrs :
        /\ d \in First(heap \cup {t})
        /\ heap' = heap \cup {t, d}
        /\ p' = [p EXCEPT !.task = t, !.dir = d]
        /\ link(t)
  BY DEF make_task
<1>4. t \in Addrs \ heap /\ d \in Addrs \ heap
  BY <1>3 DEF First
<1>5. /\ p' \in Processes /\ p'.at = p.at /\ p'.data = p.data /\ p'.stack = p.stack
      /\ p'.task = t /\ p'.dir = d /\ p'.id = p.id
  BY <1>2, <1>3, <1>4 DEF Processes, Addr0
<1>6. t # None /\ d # None
  BY <1>4, NoProcessFacts
<1>7. Shape'
  BY <1>1, <1>2, <1>5, <1>6 DEF Shape
<1>8. Objects(p') = Objects(p) \cup {t, d} /\ {t, d} \in SUBSET (Addrs \ heap)
  BY <1>1, <1>2, <1>4, <1>5, <1>6, NoProcessFacts DEF Objects, Shape
<1>9. \E own, open, gone \in SUBSET (Addrs \ heap) :
        /\ own \cap open = {} /\ own \cap gone = {} /\ open \cap gone = {}
        /\ heap' = heap \cup own \cup open \cup gone
        /\ Objects(p') = Objects(p) \cup own /\ fds' = fds \cup open /\ lost' = lost \cup gone
  BY <1>1, <1>3, <1>8, OwnObjects
<1>10. p'.task \notin heap /\ link(p'.task)
  BY <1>3, <1>4, <1>5
<1> QED BY <1>1, <1>2, <1>5, <1>7, <1>9, <1>10 DEF GoesOn

\* The process goes to its slot.
LEMMA InstallLoad ==
  ASSUME LoadInv, install
  PROVE  LoadInv' /\ Loaded' = Loaded \cup {slot} /\ slot \notin Loaded
<1>1. /\ pc = "map" /\ pc' = "idle" /\ p' = NoProcess
      /\ processes' = [processes EXCEPT ![slot] = p]
      /\ UNCHANGED <<heap, fds, slot, file, lost, before>>
  BY DEF install
<1>2. slot \in Slots /\ slot \notin Loaded /\ p # NoProcess
  BY <1>1, NoProcessFacts DEF LoadInv, Shape
<1>3. Loaded' = Loaded \cup {slot}
  BY <1>1, <1>2 DEF LoadInv, Loaded
<1>4. Losses' /\ FdsFit'
  <2>1. PICK a \in Addrs : lost \subseteq before \cup {a}
    BY <1>1 DEF LoadInv, Losses
  <2>2. lost' \subseteq before' \cup {a} /\ lost' \subseteq before' \cup {a, a, a}
    BY <1>1, <2>1
  <2> QED BY <1>1, <2>2 DEF Losses, LoadInv, FdsFit
<1>5. Shape' /\ Objects(p') \subseteq heap'
  BY <1>1, NoProcessFacts DEF Shape
<1>6. processes' \in [Slots -> Processes] /\ p' \in Processes
  BY <1>1, <1>2, NoProcessFacts DEF LoadInv
<1> QED BY <1>1, <1>2, <1>3, <1>4, <1>5, <1>6 DEF LoadInv

\* Every step of a load fails, goes on or installs the process, or does nothing.
LEMMA LoadSteps ==
  ASSUME LoadInv, [Next]_vars
  PROVE  Fails \/ GoesOn \/ install \/ Stays
<1>1. CASE load_refused \/ UNCHANGED vars
  BY <1>1 DEF load_refused, vars, loadVars, Stays, ENOMEM
<1>2. CASE Next
  BY <1>1, <1>2, LoadProcessStep, PathParseStep, FopenFailsStep, OpenBinaryStep, LoadBinaryStep,
     AllocStackStep, TaskRefusedStep, MakeTaskStep DEF Next
<1> QED BY <1>1, <1>2

\* ... and keeps the invariant of loads.
LEMMA LoadStep == ASSUME LoadInv, [Next]_vars PROVE LoadInv'
<1>1. CASE Fails
  BY <1>1, FailLoad
<1>2. CASE GoesOn
  BY <1>2, LoadGoesOn
<1>3. CASE install
  BY <1>3, InstallLoad
<1>4. CASE Stays
  <2>1. Losses'
    <3>1. CASE UNCHANGED <<res, before>>
      BY <1>4, <3>1 DEF LoadInv, Losses, Stays
    <3>2. CASE pc = "idle" /\ res' # 0 /\ before' = lost
      BY <1>4, <3>2, NoProcessFacts DEF Losses, Stays
    <3> QED BY <1>4, <3>1, <3>2 DEF Stays
  <2> QED BY <1>4, <2>1 DEF LoadInv, Shape, Loaded, FdsFit, Stays
<1> QED BY <1>1, <1>2, <1>3, <1>4, LoadSteps

\* What holds of loads whatever kfree(NULL) frees.
THEOREM LoadsCorrect == Spec => []LoadInv
<1>1. LoadInv /\ [Next]_vars => LoadInv'
  BY LoadStep
<1> QED BY <1>1, LoadInit, PTL DEF Spec

\* A load, wherever it fails, loses at most the parts of its path and two objects
\* more, and one that succeeds loses the parts of its path only.
THEOREM LoadsLossPerLoad == Spec => []LossPerLoad
<1>1. LoadInv => LossPerLoad
  <2> SUFFICES ASSUME LoadInv, pc = "idle"
               PROVE  Cardinality(lost \ before) <= IF res = 0 THEN 1 ELSE 3
    BY DEF LossPerLoad
  <2>1. IsFiniteSet(lost \ before) /\ Cardinality(lost \ before) \in Nat
    BY AddrsFinite DEF LoadInv
  <2>2. CASE res = 0
    <3>1. PICK a \in Addrs : lost \subseteq before \cup {a}
      BY <2>2 DEF LoadInv, Losses
    <3>2. lost \ before \subseteq {a} /\ IsFiniteSet({a}) /\ Cardinality({a}) = 1
      BY <3>1, FS_Singleton
    <3>3. Cardinality(lost \ before) <= Cardinality({a})
      BY <3>2, FS_Subset
    <3> QED BY <2>1, <2>2, <3>2, <3>3
  <2>3. CASE res # 0
    <3>1. PICK a \in Addrs, b \in Addrs, c \in Addrs : lost \subseteq before \cup {a, b, c}
      BY DEF LoadInv, Losses
    <3>2. /\ lost \ before \subseteq {a, b, c} /\ IsFiniteSet({a, b, c})
          /\ Cardinality({a, b, c}) \in Nat /\ Cardinality({a, b, c}) <= 3
      BY <3>1, ThreeAtMost
    <3>3. Cardinality(lost \ before) <= Cardinality({a, b, c})
      BY <3>2, FS_Subset
    <3> QED BY <2>1, <2>3, <3>2, <3>3
  <2> QED BY <2>2, <2>3
<1> QED BY <1>1, LoadsCorrect, PTL

\* No load replaces another process.
THEOREM LoadsKeepSlots == Spec => SlotsAreKept
<1>1. LoadInv /\ [Next]_vars => [\A i \in Loaded : processes'[i] = processes[i]]_vars
  <2> SUFFICES ASSUME LoadInv, [Next]_vars PROVE \A i \in Loaded : processes'[i] = processes[i]
    OBVIOUS
  <2>1. CASE install
    BY <2>1, InstallLoad DEF install, LoadInv, Loaded
  <2>2. CASE processes' = processes
    BY <2>2
  <2> QED BY <2>1, <2>2, LoadSteps DEF Fails, GoesOn, Stays
<1> QED BY <1>1, LoadsCorrect, PTL DEF Spec, SlotsAreKept

----------------------------------------------------------------------------
\* Whatever has an owner is allocated.
AllInHeap ==
  /\ Block0 \in heap /\ lost \subseteq heap /\ fds \subseteq heap /\ Objects(p) \subseteq heap
  /\ \A i \in Loaded : Has(i) \subseteq heap
LEMMA OwnedInHeap == ASSUME ProcessInv PROVE AllInHeap
<1>1. \A i \in Loaded : Has(i) \subseteq Addrs
  BY DEF ProcessInv, LoadInv, Loaded, Has, Objects, Processes, Addr0
<1> QED BY <1>1, NoProcessFacts DEF ProcessInv, LoadInv, FdsFit, Owned, AllInHeap

\* A load that goes on keeps every object with one owner.
LEMMA GoesOnOwned == ASSUME ProcessInv, GoesOn PROVE Owned'
<1>1. PICK own \in SUBSET (Addrs \ heap), open \in SUBSET (Addrs \ heap), gone \in SUBSET (Addrs \ heap) :
        /\ own \cap open = {} /\ own \cap gone = {} /\ open \cap gone = {}
        /\ heap' = heap \cup own \cup open \cup gone
        /\ Objects(p') = Objects(p) \cup own /\ fds' = fds \cup open /\ lost' = lost \cup gone
  BY DEF GoesOn
<1>2. Loaded' = Loaded /\ \A i \in Loaded : Has(i)' = Has(i)
  BY DEF GoesOn, Loaded, Has, Objects
<1>3. Owned /\ AllInHeap
  BY OwnedInHeap DEF ProcessInv
<1>4. \A a \in Addrs :
        a \in heap' <=> \/ a = Block0 \/ a \in lost' \/ a \in fds' \/ a \in Objects(p')
                        \/ \E i \in Loaded : a \in Has(i)
  BY <1>1, <1>3 DEF Owned
<1>5. \A i \in Loaded : Has(i) \cap ({Block0} \cup lost' \cup fds' \cup Objects(p')) = {}
  BY <1>1, <1>3 DEF Owned, AllInHeap
<1>6. /\ Objects(p') \cap ({Block0} \cup lost' \cup fds') = {}
      /\ Block0 \notin lost' \cup fds' /\ lost' \cap fds' = {}
  BY <1>1, <1>3 DEF Owned, AllInHeap
<1>7. \A i, j \in Loaded : i # j => Has(i) \cap Has(j) = {}
  BY <1>3 DEF Owned
<1> QED BY <1>2, <1>4, <1>5, <1>6, <1>7 DEF Owned

\* So does one that fails, when kfree(NULL) frees nothing.
LEMMA FailsOwned == ASSUME ~NullFrees, ProcessInv, Fails PROVE Owned'
<1>1. PICK new \in SUBSET (Addrs \ heap) : \E open \in SUBSET new :
        /\ lost' = lost \cup (Objects(p) \ {p.at}) \cup (new \ open)
        /\ fds' = fds \cup open
        /\ heap' = (heap \cup new) \ {p.at}
  BY DEF Fails
<1>2. PICK open \in SUBSET new :
        /\ lost' = lost \cup (Objects(p) \ {p.at}) \cup (new \ open)
        /\ fds' = fds \cup open
        /\ heap' = (heap \cup new) \ {p.at}
  BY <1>1
<1>3. Loaded' = Loaded /\ Objects(p') = {} /\ \A i \in Loaded : Has(i)' = Has(i)
  BY NoProcessFacts DEF Fails, Loaded, Has, Objects
<1>4. Owned /\ AllInHeap
  BY OwnedInHeap DEF ProcessInv
<1>5. p.at = None \/ p.at \in Objects(p)
  BY DEF Objects
<1>6. \A a \in Addrs :
        a \in heap' <=> \/ a = Block0 \/ a \in lost' \/ a \in fds' \/ a \in Objects(p')
                        \/ \E i \in Loaded : a \in Has(i)
  BY <1>2, <1>3, <1>4, <1>5, NoProcessFacts DEF Owned, AllInHeap
<1>7. \A i \in Loaded : Has(i) \cap ({Block0} \cup lost' \cup fds' \cup Objects(p')) = {}
  BY <1>2, <1>3, <1>4 DEF Owned, AllInHeap
<1>8. Block0 \notin lost' \cup fds' /\ lost' \cap fds' = {}
  BY <1>2, <1>4 DEF Owned, AllInHeap
<1>9. \A i, j \in Loaded : i # j => Has(i) \cap Has(j) = {}
  BY <1>4 DEF Owned
<1> QED BY <1>3, <1>6, <1>7, <1>8, <1>9 DEF Owned

\* The process that goes to its slot takes its objects along.
LEMMA InstallOwned == ASSUME ProcessInv, install PROVE Owned'
<1>1. Loaded' = Loaded \cup {slot} /\ slot \notin Loaded /\ slot \in Slots
  BY InstallLoad DEF ProcessInv, LoadInv
<1>2. /\ processes' = [processes EXCEPT ![slot] = p] /\ p' = NoProcess
      /\ UNCHANGED <<heap, lost, fds>>
  BY DEF install
<1>3. processes'[slot] = p /\ \A i \in Loaded : processes'[i] = processes[i]
  BY <1>1, <1>2 DEF ProcessInv, LoadInv, Loaded
<1>4. /\ Objects(p') = {}
      /\ \A i \in Loaded' : Objects(processes'[i]) = IF i = slot THEN Objects(p) ELSE Has(i)
  BY <1>1, <1>2, <1>3, NoProcessFacts DEF Has
<1>5. Owned
  BY DEF ProcessInv
<1>6. \A a \in Addrs :
        a \in heap' <=> \/ a = Block0 \/ a \in lost' \/ a \in fds' \/ a \in Objects(p')
                        \/ \E i \in Loaded' : a \in Objects(processes'[i])
  BY <1>1, <1>2, <1>4, <1>5 DEF Owned
<1>7. \A i, j \in Loaded' : i # j => Objects(processes'[i]) \cap Objects(processes'[j]) = {}
  BY <1>1, <1>4, <1>5 DEF Owned
<1>8. \A i \in Loaded' : Objects(processes'[i]) \cap ({Block0} \cup lost' \cup fds' \cup Objects(p')) = {}
  BY <1>1, <1>2, <1>4, <1>5 DEF Owned
<1>9. /\ Objects(p') \cap ({Block0} \cup lost' \cup fds') = {}
      /\ Block0 \notin lost' \cup fds' /\ lost' \cap fds' = {}
  BY <1>2, <1>4, <1>5 DEF Owned
<1> QED BY <1>6, <1>7, <1>8, <1>9 DEF Owned, Has

\* The task list follows the slots.
LEMMA GoesOnList == ASSUME ProcessInv, GoesOn PROVE TaskTypeOK' /\ ListMatches'
<1>1. Loaded' = Loaded /\ processes' = processes
  BY DEF GoesOn, Loaded
<1>2. order \in Seq(Tasks) /\ Len(order) \in Nat /\ TaskTypeOK /\ ListMatches /\ LoadInv
  BY DEF ProcessInv, TaskTypeOK
<1>3. pc' # "idle" /\ pc # "map"
  BY DEF GoesOn
<1>4. Listed = Len(order) /\ Loaded = 0 .. Len(order) - 1
  BY <1>2, <1>3 DEF ListMatches, Listed
<1>5. slot' = Len(order)
  <2>1. CASE pc # "idle"
    BY <1>2, <1>4, <2>1 DEF GoesOn, ListMatches
  <2>2. CASE pc = "idle"
    <3> DEFINE n == Len(order)
    <3> DEFINE i == slot'
    <3>1. /\ i \in Slots /\ i \notin Loaded
          /\ \A j \in Slots : j < i => j \in Loaded
      BY <2>2 DEF GoesOn, IsFreeSlot, Loaded
    <3>2. n \in Nat /\ Slots = 0 .. MAX_PROCESSES - 1 /\ Loaded = 0 .. n - 1 /\ MAX_PROCESSES \in Nat
      BY <1>2, <1>4, ProcessAssumption DEF Slots
    <3> HIDE DEF n, i
    <3>3. i \in Nat /\ i >= n
      BY <3>1, <3>2
    <3>4. ~(n < i)
      BY <3>1, <3>2, <3>3
    <3>5. i = n
      BY <3>2, <3>3, <3>4
    <3> QED BY <3>5 DEF n, i
  <2> QED BY <2>1, <2>2
<1>6. CASE pc' # "map"
  BY <1>1, <1>2, <1>3, <1>4, <1>5, <1>6
     DEF GoesOn, taskVars, list, TaskTypeOK, ListMatches, Listed
<1>7. CASE pc' = "map"
  <2> DEFINE t == p'.task
  <2>1. link(t) /\ directory' = directory /\ t \notin heap /\ p' \in Processes /\ Shape'
    BY <1>7 DEF GoesOn
  <2>2. t \in Tasks /\ t # None
    BY <1>7, <2>1, NoProcessFacts DEF Shape, Processes, Addr0
  <2>3. \A i \in 1 .. Len(order) : order[i] # t
    <3> SUFFICES ASSUME NEW i \in 1 .. Len(order) PROVE order[i] \in heap
      BY <2>1
    <3>1. i - 1 \in Loaded
      BY <1>2, <1>4
    <3>2. order[i] = processes[i - 1].task /\ processes[i - 1].task # None
      <4>1. /\ order[(i - 1) + 1] = processes[i - 1].task
            /\ None \notin {processes[i - 1].task, processes[i - 1].dir}
        BY <1>2, <3>1 DEF ListMatches
      <4>2. (i - 1) + 1 = i
        BY <1>2
      <4> QED BY <4>1, <4>2
    <3>3. order[i] \in Has(i - 1) /\ order[i] \in Addrs
      BY <1>2, <3>2, NoProcessFacts DEF Has, Objects
    <3> QED BY <3>1, <3>3 DEF ProcessInv, Owned
  <2>4. /\ order' \in Seq(Tasks) /\ Len(order') = Len(order) + 1 /\ order'[Len(order')] = t
        /\ \A i \in 1 .. Len(order) : order'[i] = order[i]
    BY <1>2, <2>1, <2>2 DEF link
  <2>5. \A i, j \in 1 .. Len(order') : order'[i] = order'[j] => i = j
    BY <1>2, <2>3, <2>4 DEF TaskTypeOK
  <2>6. /\ next' \in [Tasks -> Tasks \cup {None}] /\ prev' \in [Tasks -> Tasks \cup {None}]
        /\ {head', tail', current'} \subseteq Tasks \cup {None}
    BY <1>2, <2>1, <2>2 DEF link, TaskTypeOK
  <2>7. TaskTypeOK'
    BY <1>2, <2>1, <2>4, <2>5, <2>6 DEF TaskTypeOK
  <2>8. Listed' = Len(order)
    BY <1>2, <1>7, <2>4 DEF Listed
  <2>9. ListMatches'
    BY <1>1, <1>2, <1>4, <1>5, <1>7, <2>4, <2>8 DEF ListMatches
  <2> QED BY <2>7, <2>9
<1> QED BY <1>6, <1>7

\* A load fails only before its task is in the list.
LEMMA FailsList == ASSUME ProcessInv, Fails, pc # "map" PROVE TaskTypeOK' /\ ListMatches'
  BY DEF ProcessInv, Fails, taskVars, list, TaskTypeOK, ListMatches, Listed, Loaded

\* The slot of the process is that of the last task of the list.
LEMMA InstallList == ASSUME ProcessInv, install PROVE TaskTypeOK' /\ ListMatches'
<1>1. Loaded' = Loaded \cup {slot} /\ slot \notin Loaded /\ slot \in Slots
  BY InstallLoad DEF ProcessInv, LoadInv
<1>2. /\ processes' = [processes EXCEPT ![slot] = p] /\ pc = "map" /\ pc' = "idle"
      /\ UNCHANGED <<list, directory>>
  BY DEF install, taskVars
<1>3. TaskTypeOK'
  BY <1>2 DEF ProcessInv, TaskTypeOK, list
<1>4. processes'[slot] = p /\ \A i \in Loaded : processes'[i] = processes[i]
  BY <1>1, <1>2 DEF ProcessInv, LoadInv, Loaded
<1>5. /\ Len(order) \in Nat /\ slot = Len(order) - 1 /\ Loaded = 0 .. Len(order) - 2
      /\ slot \in Nat /\ order[slot + 1] = p.task
  <2>1. Len(order) \in Nat /\ slot \in Nat
    BY <1>1 DEF ProcessInv, TaskTypeOK, Slots
  <2> QED BY <1>2, <2>1 DEF ProcessInv, ListMatches, Listed
<1>6. Loaded' = 0 .. Len(order) - 1 /\ Listed' = Len(order)
  BY <1>1, <1>2, <1>5 DEF Listed, list
<1>7. p.id = slot /\ p.task # None /\ p.dir # None
  BY <1>2 DEF ProcessInv, LoadInv, Shape
<1>8. \A i \in Loaded' :
        /\ processes'[i].id = i /\ order[i + 1] = processes'[i].task
        /\ None \notin {processes'[i].task, processes'[i].dir}
  BY <1>1, <1>4, <1>5, <1>7 DEF ProcessInv, ListMatches
<1> QED BY <1>2, <1>3, <1>6, <1>8 DEF ListMatches, list

\* At boot the heap has the filesystem's block.
LEMMA ProcessInit == Init => ProcessInv
<1> SUFFICES ASSUME Init PROVE ProcessInv
  OBVIOUS
<1>1. LoadInv
  BY LoadInit
<1>2. order = <<>> /\ Len(order) = 0 /\ order \in Seq(Tasks) /\ Loaded = {}
  BY DEF Init, TaskInit, Loaded
<1>3. TaskTypeOK
  BY <1>2 DEF Init, TaskInit, TaskTypeOK
<1>4. ListMatches
  BY <1>2 DEF Init, ListMatches, Listed
<1>5. Owned
  BY <1>2, NoProcessFacts DEF Init, Owned
<1> QED BY <1>1, <1>3, <1>4, <1>5 DEF ProcessInv

\* The task is the last object that a load allocates.
LEMMA FailsBeforeMap == ASSUME [Next]_vars, pc = "map" PROVE install \/ UNCHANGED vars
  BY DEF Next, load_refused, load_process, path_parse, fopen_fails, fopen_loses, open_binary,
     load_binary, alloc_stack,
     task_refused, directory_refused, make_task

\* Every step keeps the invariant when kfree(NULL) frees nothing.
LEMMA ProcessStep == ASSUME ~NullFrees, ProcessInv, [Next]_vars PROVE ProcessInv'
<1>1. LoadInv /\ LoadInv'
  BY LoadStep DEF ProcessInv
<1>2. CASE Fails /\ pc # "map"
  BY <1>1, <1>2, FailsOwned, FailsList DEF ProcessInv
<1>3. CASE GoesOn
  BY <1>1, <1>3, GoesOnOwned, GoesOnList DEF ProcessInv
<1>4. CASE install
  BY <1>1, <1>4, InstallOwned, InstallList DEF ProcessInv
<1>5. CASE Stays
  <2>1. Owned'
    BY <1>5 DEF ProcessInv, Owned, Loaded, Has, Stays
  <2>2. TaskTypeOK' /\ ListMatches'
    BY <1>5 DEF ProcessInv, TaskTypeOK, ListMatches, Listed, Loaded, taskVars, list, Stays
  <2> QED BY <1>1, <2>1, <2>2 DEF ProcessInv
<1>6. CASE pc = "map" /\ UNCHANGED vars
  BY <1>5, <1>6 DEF vars, loadVars, Stays
<1> QED BY <1>1, <1>2, <1>3, <1>4, <1>5, <1>6, LoadSteps, FailsBeforeMap

\* As long as kfree(NULL) frees nothing, the processes, the heap and the task
\* list agree.
THEOREM ProcessCorrect == ~NullFrees => (Spec => []ProcessInv)
<1> SUFFICES ASSUME ~NullFrees PROVE Spec => []ProcessInv
  OBVIOUS
<1>1. ProcessInv /\ [Next]_vars => ProcessInv'
  BY ProcessStep
<1> QED BY <1>1, ProcessInit, PTL DEF Spec

\* As long as kfree(NULL) frees nothing, no process has an object that was
\* freed or that is another's, and none is lost but those that are counted.
THEOREM ProcessOneOwner == ~NullFrees => (Spec => []OneOwner)
<1> SUFFICES ASSUME ~NullFrees PROVE Spec => []OneOwner
  OBVIOUS
<1>1. ProcessInv => OneOwner
  <2> SUFFICES ASSUME ProcessInv PROVE OneOwner
    OBVIOUS
  <2>1. /\ heap \subseteq Addrs /\ lost \subseteq Addrs /\ fds \subseteq Addrs /\ p \in Processes
        /\ \A i \in Loaded : processes[i] \in Processes
    BY DEF ProcessInv, LoadInv, FdsFit, Loaded
  <2>2. \A q \in Processes : q.id \in Slots /\ Objects(q) \subseteq Addrs
    BY DEF Processes, Addr0, Objects
  <2>3. All \subseteq Processes
    BY <2>1 DEF All
  <2>4. TypeOK
    BY <2>2, <2>3 DEF TypeOK, ProcessInv, LoadInv, FdsFit
  <2>5. heap = {Block0} \cup lost \cup fds \cup UNION {Objects(q) : q \in All}
    <3>1. \A a \in Addrs : a \in heap <=> a \in {Block0} \cup lost \cup fds \cup UNION {Objects(q) : q \in All}
      BY DEF ProcessInv, Owned, Has, All
    <3>2. UNION {Objects(q) : q \in All} \subseteq Addrs
      BY <2>2, <2>3
    <3> QED BY <2>1, <3>1, <3>2, NoProcessFacts
  <2>6. \A q, r \in All : q # r => Objects(q) \cap Objects(r) = {}
    BY DEF ProcessInv, Owned, Has, All
  <2>7. \A q \in All : Objects(q) \cap ({Block0} \cup lost \cup fds) = {}
    BY DEF ProcessInv, Owned, Has, All
  <2>8. Block0 \notin lost \cup fds /\ lost \cap fds = {}
    BY DEF ProcessInv, Owned
  <2> QED BY <2>4, <2>5, <2>6, <2>7, <2>8 DEF OneOwner
<1> QED BY <1>1, ProcessCorrect, PTL

\* As long as kfree(NULL) frees nothing, the task list has the tasks of the
\* loaded processes, and a load that fails leaves none behind.
THEOREM ProcessTasksMatch == ~NullFrees => (Spec => []TasksMatch)
<1> SUFFICES ASSUME ~NullFrees PROVE Spec => []TasksMatch
  OBVIOUS
<1>1. ProcessInv => TasksMatch
  <2> SUFFICES ASSUME ProcessInv PROVE TasksMatch
    OBVIOUS
  <2>1. Len(order) \in Nat /\ order \in Seq(Tasks) /\ ListMatches /\ Shape
    BY DEF ProcessInv, TaskTypeOK, LoadInv
  <2>2. \A i \in Loaded :
          /\ processes[i].id = i /\ processes[i].dir # None /\ processes[i].task # None
          /\ i < Len(order) /\ order[i + 1] = processes[i].task /\ i \in Nat
    BY <2>1 DEF ListMatches, Listed
  <2>3. Live \subseteq {q.task : q \in All} \ {None}
    <3> SUFFICES ASSUME NEW k \in 1 .. Len(order)
                 PROVE  \E q \in All : order[k] = q.task /\ q.task # None
      BY DEF Live
    <3>1. CASE k - 1 \in Loaded
      <4>1. order[k] = processes[k - 1].task /\ processes[k - 1].task # None
        <5>1. (k - 1) + 1 = k
          BY <2>1
        <5> QED BY <2>2, <3>1, <5>1
      <4> QED BY <3>1, <4>1 DEF All
    <3>2. CASE k - 1 \notin Loaded
      <4>1. pc = "map" /\ k = Len(order)
        BY <2>1, <3>2 DEF ListMatches, Listed
      <4>2. order[k] = p.task /\ p.task # None
        BY <2>1, <4>1 DEF ListMatches, Shape
      <4> QED BY <4>2 DEF All
    <3> QED BY <3>1, <3>2
  <2>4. {q.task : q \in All} \ {None} \subseteq Live
    <3>1. \A i \in Loaded : processes[i].task \in Live
      BY <2>1, <2>2 DEF Live
    <3>2. p.task # None => p.task \in Live
      <4>1. p.task # None => pc = "map" /\ Len(order) - 1 \in Nat
        BY <2>1 DEF Shape, ListMatches, Listed, ProcessInv, LoadInv, Slots
      <4> QED BY <2>1, <4>1 DEF ListMatches, Live
    <3> QED BY <3>1, <3>2 DEF All
  <2> QED BY <2>2, <2>3, <2>4 DEF TasksMatch
<1> QED BY <1>1, ProcessCorrect, PTL
=============================================================================
