-------------------------- MODULE InterruptsProofs --------------------------
(***************************************************************************)
(* For every number of tasks, table of calls, set of lines and set of      *)
(* exceptions: the task list is a list, a program and a handler each run   *)
(* in their own pages, a program gets back from the kernel what it entered *)
(* it with, and the master controller is told of every end.                *)
(***************************************************************************)
EXTENDS Interrupts, SequenceTheorems, TLAPS

\* Where a system call is, and where another way into the kernel is.
Calling == {"enter", "save", "args", "read", "back", "call", "leave", "return", "wild"}
Interrupted == {"no_interrupt", "resume", "idt_divide_by_zero"}

\* Where the pages of a task are loaded, and where the kernel's are.
InUserPages == {"program", "enter", "read", "back", "return"}
InKernelPages == {"init", "boot", "save", "args", "call", "leave", "wild"}

Pushed == [cpu : Registers, at : {"boot", "program"}, flag : BOOLEAN, code : BOOLEAN]

\* A program runs, or has entered the kernel.
Running ==
  \/ pc \in Calling \cup {"program"}
  \/ pc \in Interrupted /\ pushed.at = "program"

\* Once a program has started, the current task is the first of the list.
HeadRuns == Running => order # <<>> /\ current = head

\* Which pages and segments are loaded where: in an interrupt, those of what was
\* interrupted.
PagesLoaded ==
  /\ pc \in InUserPages => directory = current /\ seg = "user"
  /\ pc \in InKernelPages => directory = Kernel /\ seg = "kernel"
  /\ pc \in Interrupted => IF pushed.at = "boot" THEN directory = Kernel /\ seg = "kernel"
                           ELSE directory = current /\ seg = "user"

\* What is on the stack: nothing in the program, and in a call the registers of
\* the program.
StackHolds ==
  /\ pushed \in Pushed \cup {None}
  /\ pc \in Calling \cup Interrupted => pushed \in Pushed
  /\ pc \in {"init", "boot", "program"} => pushed = None
  /\ pc \in Calling =>
       /\ pushed.cpu = cpu /\ pushed.at = "program"
       /\ frame.eax = cpu.eax /\ frame.rest = cpu.rest
  /\ pc = "idt_divide_by_zero" => pushed.at = "program"

\* A program that has not divided by zero has the interrupt flag it was started
\* with, and so has what it has pushed.
FlagKept ==
  ~divided =>
    /\ pc = "program" => flag = armed
    /\ pc \in Calling \cup Interrupted /\ pushed.at = "program" => pushed.flag = armed

\* What a call has saved and read so far is the caller's, and no task but the
\* first has run.
CallersState ==
  /\ SavedStateIsCallers
  /\ pc \in {"back", "call", "leave", "return"} => args[1] = current

\* The master has at most one line in service, and only in the handler.
Controllers ==
  /\ pic \in [irr : SUBSET Lines, isr : SUBSET (Lines \cup {Cascade})]
  /\ pc # "no_interrupt" => pic.isr \subseteq Slaves
  /\ pc = "no_interrupt" => \E m \in Int : pic.isr \ Slaves \subseteq {m}

\* The inductive invariant.
InterruptInv ==
  /\ TypeOK /\ TaskInv /\ HeadRuns /\ PagesLoaded /\ StackHolds /\ FlagKept
  /\ CallersState /\ Controllers
  /\ pc = "init" => calls = {}
----------------------------------------------------------------------------
\* The task list. Nothing but the loaded directory changes, to the kernel's or
\* to that of the current task.
LEMMA ListKept ==
  ASSUME TaskInv, UNCHANGED list,
         \/ directory' = directory \/ directory' = Kernel
         \/ directory' = current /\ order # <<>>
  PROVE  TaskInv'
<1>1. order # <<>> => current \in Tasks
  BY DEF TaskInv, TaskTypeOK, CurrentIsLive, Live
<1>2. directory' \in {Kernel} \cup Tasks
  BY <1>1 DEF TaskInv, TaskTypeOK
<1>3. directory' # Kernel => directory' = current
  BY DEF TaskInv, CurrentIsLive
<1> QED BY <1>2, <1>3 DEF TaskInv, TaskTypeOK, NextLinks, PrevLinks, CurrentIsLive, Live, list

\* make_new_task, while the kernel's pages are loaded.
LEMMA LinkKeepsList ==
  ASSUME TaskInv, NEW t \in Tasks, make_new_task(t)
  PROVE  TaskInv' /\ Live' = Live \cup {t} /\ (head' = head \/ (Live = {} /\ head' = t))
<1>1. t \notin Live /\ link(t) /\ directory = Kernel /\ directory' = Kernel
  BY DEF make_new_task
<1>2. TaskTypeOK /\ NextLinks /\ PrevLinks /\ CurrentIsLive
  BY DEF TaskInv
<1>3. /\ order \in Seq(Tasks) /\ Len(order) \in Nat
      /\ order' \in Seq(Tasks) /\ Len(order') = Len(order) + 1
      /\ order' # <<>> /\ order'[Len(order')] = t
      /\ \A i \in 1 .. Len(order) : order'[i] = order[i] /\ order[i] \in Tasks /\ order[i] # t
  BY <1>1, <1>2 DEF link, TaskTypeOK, Live
<1>4. order = <<>> <=> Len(order) = 0
  BY <1>3
<1>5. Live' = Live \cup {t}
  BY <1>3 DEF Live
<1>6. head = None <=> order = <<>>
  BY <1>2, <1>3, <1>4, TaskAssumption DEF NextLinks
<1>7. \A i, j \in 1 .. Len(order') : order'[i] = order'[j] => i = j
  BY <1>2, <1>3 DEF TaskTypeOK
<1>8. CASE order = <<>>
  <2>1. /\ head' = t /\ current' = t /\ tail' = t /\ Len(order') = 1
        /\ next' = [next EXCEPT ![t] = None] /\ prev' = [prev EXCEPT ![t] = None]
    BY <1>1, <1>3, <1>4, <1>6, <1>8 DEF link
  <2>2. TaskTypeOK'
    BY <1>1, <1>2, <1>3, <1>7, <2>1 DEF TaskTypeOK
  <2>3. NextLinks' /\ PrevLinks'
    BY <1>2, <1>3, <2>1 DEF TaskTypeOK, NextLinks, PrevLinks
  <2>4. Live = {} /\ CurrentIsLive'
    BY <1>1, <1>3, <1>4, <1>5, <1>8, <2>1 DEF CurrentIsLive, Live
  <2> QED BY <1>5, <2>1, <2>2, <2>3, <2>4 DEF TaskInv
<1>9. CASE order # <<>>
  <2>1. /\ head' = head /\ current' = current /\ tail' = t
        /\ next' = [next EXCEPT ![tail] = t, ![t] = None]
        /\ prev' = [prev EXCEPT ![t] = tail]
    BY <1>1, <1>6, <1>9 DEF link
  <2>2. tail = order[Len(order)] /\ head = order[1] /\ Len(order) > 0 /\ tail \in Tasks /\ tail # t
    BY <1>2, <1>3, <1>4, <1>9 DEF NextLinks
  <2>3. TaskTypeOK'
    BY <1>1, <1>2, <1>3, <1>7, <2>1, <2>2 DEF TaskTypeOK
  <2>4. \A i \in 1 .. Len(order) : order[i] = tail => i = Len(order)
    BY <1>2, <1>3, <2>2 DEF TaskTypeOK
  <2>5. next'[tail] = t /\ next'[t] = None /\ \A u \in Tasks : u # tail /\ u # t => next'[u] = next[u]
    BY <1>2, <2>1, <2>2 DEF TaskTypeOK
  <2>6. prev'[t] = tail /\ \A u \in Tasks : u # t => prev'[u] = prev[u]
    BY <1>2, <2>1 DEF TaskTypeOK
  <2>7. NextLinks'
    <3>0. head' = order'[1] /\ tail' = order'[Len(order')]
      BY <1>3, <2>1, <2>2
    <3> SUFFICES ASSUME NEW i \in 1 .. Len(order')
                 PROVE  next'[order'[i]] = IF i = Len(order') THEN None ELSE order'[i + 1]
      BY <1>3, <3>0 DEF NextLinks
    <3>1. CASE i = Len(order')
      BY <1>3, <2>5, <3>1
    <3>2. CASE i = Len(order)
      BY <1>3, <2>2, <2>5, <3>2
    <3>3. CASE i < Len(order)
      <4>1. order[i] # tail /\ order[i] # t /\ next[order[i]] = order[i + 1]
        BY <1>2, <1>3, <2>4, <3>3 DEF NextLinks
      <4> QED BY <1>3, <2>5, <3>3, <4>1
    <3> QED BY <1>3, <3>1, <3>2, <3>3
  <2>8. PrevLinks'
    <3> SUFFICES ASSUME NEW i \in 1 .. Len(order')
                 PROVE  prev'[order'[i]] = IF i = 1 THEN None ELSE order'[i - 1]
      BY DEF PrevLinks
    <3>1. CASE i = Len(order')
      BY <1>3, <2>2, <2>6, <3>1
    <3>2. CASE i \in 1 .. Len(order)
      <4>1. prev[order[i]] = IF i = 1 THEN None ELSE order[i - 1]
        BY <1>2, <3>2 DEF PrevLinks
      <4> QED BY <1>3, <2>6, <3>2, <4>1
    <3> QED BY <1>3, <3>1, <3>2
  <2>9. CurrentIsLive'
    BY <1>1, <1>2, <1>3, <1>5, <1>9, <2>1 DEF CurrentIsLive
  <2> QED BY <1>5, <2>1, <2>3, <2>7, <2>8, <2>9 DEF TaskInv
<1> QED BY <1>8, <1>9

\* release_task of the last task.
LEMMA ReleaseKeepsList ==
  ASSUME TaskInv, NEW t \in Tasks, t = tail, release_task(t)
  PROVE  TaskInv' /\ Live' \subseteq Live /\ (head' = head \/ Live' = {})
<1>0. PICK at \in 1 .. Len(order) :
        /\ t = order[at]
        /\ order' = [j \in 1 .. Len(order) - 1 |-> IF j < at THEN order[j] ELSE order[j + 1]]
  BY DEF release_task
<1>2. TaskTypeOK /\ NextLinks /\ PrevLinks /\ CurrentIsLive
  BY DEF TaskInv
<1>3. order \in Seq(Tasks) /\ Len(order) \in Nat /\ Len(order) > 0
  BY <1>0, <1>2 DEF TaskTypeOK
<1>1. /\ order # <<>> /\ t = order[Len(order)] /\ at = Len(order)
      /\ directory = Kernel /\ directory' = Kernel
      /\ remove_task_from_linked_list(t)
  <2>1. order # <<>> /\ directory = Kernel /\ directory' = Kernel
        /\ remove_task_from_linked_list(t)
    BY <1>3 DEF release_task
  <2>2. t = order[Len(order)]
    BY <1>2, <2>1 DEF NextLinks
  <2>3. at = Len(order)
    <3>1. Len(order) \in 1 .. Len(order) /\ order[at] = order[Len(order)]
      BY <1>0, <1>3, <2>2
    <3> QED BY <1>2, <3>1 DEF TaskTypeOK
  <2> QED BY <2>1, <2>2, <2>3
<1>4. /\ order' \in Seq(Tasks) /\ Len(order') = Len(order) - 1
      /\ \A k \in 1 .. Len(order') : order'[k] = order[k] /\ order[k] \in Tasks /\ order[k] # t
  <2> DEFINE n == Len(order) - 1
  <2>1. n \in Nat /\ \A k \in 1 .. n : order[k] \in Tasks /\ k < at /\ k \in 1 .. Len(order)
    BY <1>1, <1>3
  <2>2. order' \in [1 .. n -> Tasks] /\ \A k \in 1 .. n : order'[k] = order[k]
    BY <1>0, <2>1
  <2>3. order' \in Seq(Tasks)
    BY <2>1, <2>2, SeqDef
  <2>4. 1 .. n = 1 .. Len(order') /\ Len(order') \in Nat
    BY <2>2, <2>3, LenProperties
  <2>5. Len(order') = n
    <3> HIDE DEF n
    <3> QED BY <2>1, <2>4
  <2>6. \A k \in 1 .. n : order[k] # t
    BY <1>1, <1>2, <1>3 DEF TaskTypeOK
  <2> QED BY <2>1, <2>2, <2>3, <2>5, <2>6
<1>5. Live' \subseteq Live
  BY <1>3, <1>4 DEF Live
<1>6. \A i, j \in 1 .. Len(order') : order'[i] = order'[j] => i = j
  BY <1>2, <1>3, <1>4 DEF TaskTypeOK
<1>7. t = tail /\ next[t] = None /\ prev' = prev /\ tail' = prev[t]
  BY <1>1, <1>2, <1>3 DEF NextLinks, remove_task_from_linked_list
<1>8. CASE Len(order) = 1
  <2>1. order' = <<>> /\ Live' = {}
    BY <1>4, <1>8 DEF Live
  <2>2. t = head /\ prev[t] = None /\ current = t
    BY <1>1, <1>2, <1>8 DEF NextLinks, PrevLinks, CurrentIsLive, Live
  <2>3. next' = next /\ head' = None /\ tail' = None /\ current' = None
    BY <1>1, <1>7, <2>2 DEF remove_task_from_linked_list
  <2>4. TaskTypeOK'
    BY <1>1, <1>2, <1>4, <1>6, <1>7, <2>3 DEF TaskTypeOK
  <2>5. Len(order') = 0
    BY <1>4, <1>8
  <2>6. NextLinks' /\ PrevLinks' /\ CurrentIsLive'
    BY <1>1, <2>1, <2>3, <2>5 DEF NextLinks, PrevLinks, CurrentIsLive
  <2> QED BY <1>5, <2>1, <2>4, <2>6 DEF TaskInv
<1>9. CASE Len(order) > 1
  <2> DEFINE p == order[Len(order) - 1]
  <2>1. prev[t] = p /\ p \in Tasks /\ p # t /\ p # None /\ head = order[1] /\ head # t
    BY <1>1, <1>2, <1>3, <1>4, <1>9, TaskAssumption DEF PrevLinks, NextLinks
  <2>2. next' = [next EXCEPT ![p] = None] /\ head' = head /\ tail' = p
    BY <1>1, <1>7, <2>1 DEF remove_task_from_linked_list
  <2>3. next'[p] = None /\ \A u \in Tasks : u # p => next'[u] = next[u]
    BY <1>2, <2>1, <2>2 DEF TaskTypeOK
  <2>4. current' = IF t # current THEN current ELSE head
    BY <1>1, <1>7, <2>1, <2>2, <2>3 DEF remove_task_from_linked_list
  <2>5. order' # <<>> /\ head = order'[1] /\ p = order'[Len(order')]
    BY <1>3, <1>4, <1>9, <2>1
  <2>6. current' \in Live'
    <3>1. CASE t # current
      <4>1. PICK i \in 1 .. Len(order) : current = order[i]
        BY <1>1, <1>2 DEF CurrentIsLive, Live
      <4> QED BY <1>1, <1>3, <1>4, <2>4, <3>1, <4>1 DEF Live
    <3>2. CASE t = current
      BY <1>3, <1>4, <1>9, <2>4, <2>5, <3>2 DEF Live
    <3> QED BY <3>1, <3>2
  <2>7. TaskTypeOK'
    <3>1. current' \in Tasks
      BY <1>4, <2>6 DEF Live
    <3> QED BY <1>1, <1>2, <1>4, <1>6, <1>7, <2>1, <2>2, <3>1 DEF TaskTypeOK
  <2>8. NextLinks'
    <3> SUFFICES ASSUME NEW i \in 1 .. Len(order')
                 PROVE  next'[order'[i]] = IF i = Len(order') THEN None ELSE order'[i + 1]
      BY <2>2, <2>5 DEF NextLinks
    <3>1. CASE i = Len(order')
      BY <2>3, <2>5, <3>1
    <3>2. CASE i < Len(order')
      <4>1. order'[i] # p
        BY <1>3, <1>4, <1>6, <2>5, <3>2
      <4>2. next[order[i]] = order[i + 1] /\ order[i + 1] = order'[i + 1]
        <5>1. i \in 1 .. Len(order) /\ i # Len(order) /\ i + 1 \in 1 .. Len(order')
          BY <1>3, <1>4, <3>2
        <5> QED BY <1>2, <1>4, <5>1 DEF NextLinks
      <4>3. order'[i] = order[i] /\ order'[i] \in Tasks
        BY <1>4
      <4>4. next'[order'[i]] = next[order[i]]
        BY <2>3, <4>1, <4>3
      <4> QED BY <3>2, <4>2, <4>4
    <3> QED BY <1>3, <1>4, <3>1, <3>2
  <2>9. PrevLinks'
    BY <1>2, <1>3, <1>4, <1>7 DEF PrevLinks
  <2> QED BY <1>1, <1>5, <2>2, <2>5, <2>6, <2>7, <2>8, <2>9 DEF TaskInv, CurrentIsLive
<1>10. Len(order) = 1 \/ Len(order) > 1
  <2>1. \A n \in Nat : n > 0 => n = 1 \/ n > 1
    OBVIOUS
  <2> QED BY <1>3, <2>1
<1> QED BY <1>8, <1>9, <1>10

----------------------------------------------------------------------------
\* Two sets of registers that agree are the same.
LEMMA RegistersEqual ==
  ASSUME NEW r \in Registers, NEW q \in Registers,
         r.eax = q.eax, r.esp = q.esp, r.rest = q.rest
  PROVE  r = q
  BY DEF Registers

\* task_init's registers are registers.
LEMMA StartIsRegisters ==
  /\ StartRegisters \in Registers
  /\ StartRegisters.eax = 0 /\ StartRegisters.esp = "start" /\ StartRegisters.rest = "start"
  BY SyscallAssumption DEF StartRegisters, Registers, Words

\* The first state.
LEMMA InterruptInit == Init => InterruptInv
<1> SUFFICES ASSUME Init PROVE InterruptInv
  OBVIOUS
<1> USE DEF Init, CallInit, TaskInit
<1>1. TypeOK
  <2>1. args \in (Tasks \cup {Kernel, None}) \X Words
    BY DEF NoArgs, Words
  <2>2. cpu \in Registers /\ frame \in Registers /\ saved \in [Tasks -> Registers]
    BY StartIsRegisters DEF NoFrame
  <2>3. flag \in BOOLEAN /\ divided \in BOOLEAN
    OBVIOUS
  <2>4. calls \subseteq 0 .. MAXIMUM_NUMBER_OF_SYSCALLS - 1 /\ armed \in BOOLEAN
        /\ pic.irr \subseteq Lines /\ pic.isr \subseteq Lines \cup {Cascade}
    OBVIOUS
  <2>5. pc = "init" /\ seg = "kernel" /\ pushed = None /\ res = 0
    OBVIOUS
  <2> HIDE DEF Init
  <2> QED BY <2>1, <2>2, <2>3, <2>4, <2>5 DEF TypeOK
<1>2. order = <<>> /\ Live = {} /\ order \in Seq(Tasks) /\ Len(order) = 0
  BY DEF Live
<1>3. TaskInv
  BY <1>2 DEF TaskInv, TaskTypeOK, NextLinks, PrevLinks, CurrentIsLive
<1>4. FlagKept /\ StackHolds /\ HeadRuns /\ PagesLoaded
  BY DEF FlagKept, StackHolds, HeadRuns, Running, PagesLoaded, Calling, Interrupted,
     InUserPages, InKernelPages
<1>5. CallersState
  BY <1>2 DEF CallersState, SavedStateIsCallers
<1>6. Controllers
  BY DEF Controllers
<1> QED BY <1>1, <1>3, <1>4, <1>5, <1>6 DEF InterruptInv

\* What a step that leaves the list and the controllers alone has to keep.
LEMMA CallStep ==
  ASSUME InterruptInv, UNCHANGED <<list, pic>>,
         \/ directory' = directory \/ directory' = Kernel
         \/ directory' = current /\ order # <<>>,
         TypeOK', Running' => Running, pc' # "init",
         pc # "no_interrupt", pc' # "no_interrupt",
         PagesLoaded', StackHolds', FlagKept', CallersState'
  PROVE  InterruptInv'
<1>1. TaskInv'
  BY ListKept DEF InterruptInv
<1>2. HeadRuns' /\ Controllers'
  BY DEF InterruptInv, HeadRuns, Controllers, list
<1> QED BY <1>1, <1>2 DEF InterruptInv

\* load_kernel_page in a call.
LEMMA EnterInv == InterruptInv /\ enter /\ UNCHANGED intVars => InterruptInv'
<1> SUFFICES ASSUME InterruptInv, enter, UNCHANGED intVars PROVE InterruptInv'
  OBVIOUS
<1> USE DEF enter, load_kernel_page, intVars, list
<1>1. TypeOK' /\ (Running' => Running)
  BY DEF InterruptInv, TypeOK, Running, Calling
<1>2. PagesLoaded' /\ StackHolds' /\ FlagKept'
  BY DEF InterruptInv, PagesLoaded, StackHolds, FlagKept, Calling, Interrupted,
     InUserPages, InKernelPages
<1>3. CallersState'
  BY DEF InterruptInv, CallersState, SavedStateIsCallers, Live
<1> QED BY <1>1, <1>2, <1>3, CallStep

\* save_current_task_state: the current task is there, and gets the frame.
LEMMA SaveInv == InterruptInv /\ save_current_task_state /\ UNCHANGED intVars => InterruptInv'
<1> SUFFICES ASSUME InterruptInv, save_current_task_state, UNCHANGED intVars PROVE InterruptInv'
  OBVIOUS
<1>1. order # <<>> /\ current = head /\ current \in Live /\ pc = "save"
  BY DEF InterruptInv, HeadRuns, Running, Calling, TaskInv, CurrentIsLive, save_current_task_state
<1>2. current \in Tasks /\ current # None
  BY <1>1, TaskAssumption DEF InterruptInv, TaskInv, TaskTypeOK, Live
<1>3. /\ saved' = [saved EXCEPT ![current] = frame] /\ pc' = "args"
      /\ UNCHANGED <<seg, cpu, frame, args, calls, res, list, directory, intVars>>
  BY <1>2 DEF save_current_task_state, taskVars
<1>4. TypeOK'
  BY <1>2, <1>3 DEF InterruptInv, TypeOK, intVars
<1>5. PagesLoaded' /\ StackHolds' /\ FlagKept'
  BY <1>1, <1>3 DEF InterruptInv, PagesLoaded, StackHolds, FlagKept, Calling, Interrupted,
     InUserPages, InKernelPages, intVars, list
<1>6. frame = [cpu EXCEPT !.esp = frame.esp]
  <2> DEFINE q == [cpu EXCEPT !.esp = frame.esp]
  <2>1. frame \in Registers /\ cpu \in Registers /\ frame.eax = cpu.eax /\ frame.rest = cpu.rest
    BY <1>1 DEF InterruptInv, TypeOK, StackHolds, Calling
  <2>2. q \in Registers /\ q.eax = cpu.eax /\ q.esp = frame.esp /\ q.rest = cpu.rest
    BY <2>1 DEF Registers
  <2> HIDE DEF q
  <2>3. frame = q
    BY <2>1, <2>2, RegistersEqual
  <2> QED BY <2>3 DEF q
<1>7. CallersState'
  BY <1>1, <1>2, <1>3, <1>6
     DEF InterruptInv, TypeOK, CallersState, SavedStateIsCallers, Live, list, intVars
<1>8. Running' => Running
  BY <1>1 DEF Running, Calling
<1> QED BY <1>1, <1>3, <1>4, <1>5, <1>7, <1>8, CallStep DEF intVars

\* The steps of load_args, and load_user_page at the end of the call.
LEMMA PageSwitchInv ==
  /\ InterruptInv /\ UNCHANGED intVars
  /\ load_args_user_page \/ load_args_kernel_page \/ leave
  => InterruptInv'
<1> SUFFICES ASSUME InterruptInv, UNCHANGED intVars,
                    load_args_user_page \/ load_args_kernel_page \/ leave
             PROVE  InterruptInv'
  OBVIOUS
<1>0. UNCHANGED <<list, cpu, frame, saved, args, calls, res, intVars>>
  BY DEF load_args_user_page, load_args_kernel_page, leave, load_user_task_page,
     load_kernel_page
<1>1. order # <<>>
  BY DEF InterruptInv, HeadRuns, Running, Calling, load_args_user_page, load_args_kernel_page,
     leave
<1>2. \/ pc = "args" /\ pc' = "read" /\ directory' = current /\ seg' = "user"
      \/ pc = "back" /\ pc' = "call" /\ directory' = Kernel /\ seg' = "kernel"
      \/ pc = "leave" /\ pc' = "return" /\ directory' = current /\ seg' = "user"
  BY DEF load_args_user_page, load_args_kernel_page, leave, load_user_task_page,
     load_kernel_page
<1>3. TypeOK'
  BY <1>0, <1>2 DEF InterruptInv, TypeOK, intVars
<1>4. PagesLoaded' /\ StackHolds' /\ FlagKept'
  BY <1>0, <1>2 DEF InterruptInv, PagesLoaded, StackHolds, FlagKept, Calling, Interrupted,
     InUserPages, InKernelPages, intVars, list
<1>5. CallersState'
  BY <1>0, <1>2 DEF InterruptInv, CallersState, SavedStateIsCallers, Live, list, intVars
<1>6. Running' => Running
  BY <1>2 DEF Running, Calling
<1> QED BY <1>0, <1>1, <1>2, <1>3, <1>4, <1>5, <1>6, CallStep DEF intVars

\* The arguments are read in the pages of the caller.
LEMMA SetParamInv == InterruptInv /\ set_param /\ UNCHANGED intVars => InterruptInv'
<1> SUFFICES ASSUME InterruptInv, set_param, UNCHANGED intVars PROVE InterruptInv'
  OBVIOUS
<1>1. /\ args' = <<directory, frame.esp>> /\ pc = "read" /\ pc' = "back"
      /\ UNCHANGED <<seg, cpu, frame, saved, calls, res, list, directory, intVars>>
  BY DEF set_param, taskVars
<1>2. directory = current
  BY <1>1 DEF InterruptInv, PagesLoaded, InUserPages
<1>3. TypeOK'
  <2>1. args' \in (Tasks \cup {Kernel, None}) \X Words
    BY <1>1 DEF InterruptInv, TypeOK, Registers, TaskInv, TaskTypeOK
  <2> QED BY <1>1, <2>1 DEF InterruptInv, TypeOK, intVars
<1>4. PagesLoaded' /\ StackHolds' /\ FlagKept'
  BY <1>1 DEF InterruptInv, PagesLoaded, StackHolds, FlagKept, Calling, Interrupted,
     InUserPages, InKernelPages, intVars, list
<1>5. Running' => Running
  BY <1>1 DEF Running, Calling
<1>6. CallersState'
  BY <1>1, <1>2 DEF InterruptInv, CallersState, SavedStateIsCallers, Live, list, intVars
<1> QED BY <1>1, <1>3, <1>4, <1>5, <1>6, CallStep DEF intVars

\* syscalls::call, whichever way it goes.
LEMMA CallInv ==
  /\ InterruptInv /\ UNCHANGED intVars
  /\ call_handled \/ call_refused \/ call_past_table
  => InterruptInv'
<1> SUFFICES ASSUME InterruptInv, UNCHANGED intVars,
                    call_handled \/ call_refused \/ call_past_table
             PROVE  InterruptInv'
  OBVIOUS
<1>1. /\ pc = "call" /\ UNCHANGED <<seg, cpu, frame, saved, args, calls, list, directory, intVars>>
      /\ \/ pc' = "leave" /\ res' = 0
         \/ pc' = "wild" /\ res' = res /\ frame.eax = MAXIMUM_NUMBER_OF_SYSCALLS
  BY DEF call_handled, call_refused, call_past_table, taskVars
<1>2. frame.eax = cpu.eax
  BY <1>1 DEF InterruptInv, StackHolds, Calling
<1>3. TypeOK'
  BY <1>1, <1>2 DEF InterruptInv, TypeOK, intVars
<1>4. PagesLoaded' /\ StackHolds' /\ FlagKept'
  BY <1>1 DEF InterruptInv, PagesLoaded, StackHolds, FlagKept, Calling, Interrupted,
     InUserPages, InKernelPages, intVars, list
<1>5. CallersState'
  BY <1>1 DEF InterruptInv, CallersState, SavedStateIsCallers, Live, list, intVars
<1>6. Running' => Running
  BY <1>1 DEF Running, Calling
<1> QED BY <1>1, <1>3, <1>4, <1>5, <1>6, CallStep DEF intVars

\* popad, the result to eax, and iretd.
LEMMA ReturnInv == InterruptInv /\ return => InterruptInv'
<1> SUFFICES ASSUME InterruptInv, return PROVE InterruptInv'
  OBVIOUS
<1>1. /\ pc = "return" /\ pc' = "program" /\ frame' = NoFrame /\ args' = NoArgs
      /\ cpu' = [frame EXCEPT !.eax = res, !.esp = cpu.esp]
      /\ flag' = pushed.flag /\ pushed' = None
      /\ UNCHANGED <<seg, saved, calls, res, list, directory, divided, pic, armed>>
  BY DEF return, iretd, taskVars
<1>2. TypeOK /\ StackHolds /\ pushed \in Pushed
  BY <1>1 DEF InterruptInv, StackHolds, Calling
<1>3. cpu' \in Registers /\ pushed.flag \in BOOLEAN
  BY <1>1, <1>2, SyscallAssumption DEF TypeOK, Registers, Pushed
<1>4. args' \in (Tasks \cup {Kernel, None}) \X Words
  BY <1>1 DEF NoArgs, Words
<1>5. TypeOK'
  BY <1>1, <1>2, <1>3, <1>4, StartIsRegisters DEF TypeOK, NoFrame
<1>6. PagesLoaded' /\ StackHolds' /\ FlagKept'
  BY <1>1 DEF InterruptInv, PagesLoaded, StackHolds, FlagKept, Calling, Interrupted,
     InUserPages, InKernelPages, list
<1>7. CallersState'
  BY <1>1 DEF InterruptInv, CallersState, SavedStateIsCallers, Live, list
<1>8. Running' => Running
  BY <1>1 DEF Running, Calling
<1> QED BY <1>1, <1>5, <1>6, <1>7, <1>8, CallStep

\* A program that computes.
LEMMA ComputeInv == InterruptInv /\ compute /\ UNCHANGED intVars => InterruptInv'
<1> SUFFICES ASSUME InterruptInv, compute, UNCHANGED intVars PROVE InterruptInv'
  OBVIOUS
<1>1. /\ pc = "program"
      /\ UNCHANGED <<pc, seg, frame, saved, args, calls, res, list, directory, intVars>>
  BY DEF compute, taskVars
<1>2. cpu' \in Registers
  BY DEF InterruptInv, TypeOK, compute, Registers, Words
<1>3. TypeOK'
  BY <1>1, <1>2 DEF InterruptInv, TypeOK, intVars
<1>4. PagesLoaded' /\ StackHolds' /\ FlagKept'
  BY <1>1 DEF InterruptInv, PagesLoaded, StackHolds, FlagKept, Calling, Interrupted,
     InUserPages, InKernelPages, intVars, list
<1>5. CallersState'
  BY <1>1 DEF InterruptInv, CallersState, SavedStateIsCallers, Live, list, intVars
<1>6. Running' => Running
  BY <1>1 DEF Running, Calling
<1> QED BY <1>1, <1>3, <1>4, <1>5, <1>6, CallStep DEF intVars

\* int 0x80.
LEMMA TrapInv == InterruptInv /\ trap => InterruptInv'
<1> SUFFICES ASSUME InterruptInv, trap PROVE InterruptInv'
  OBVIOUS
<1>1. /\ pc = "program" /\ pc' = "enter" /\ flag' = FALSE
      /\ pushed' = [cpu |-> cpu, at |-> pc, flag |-> flag, code |-> FALSE]
      /\ UNCHANGED <<seg, cpu, saved, args, calls, res, list, directory, divided, pic, armed>>
  BY DEF trap, syscall_wrapper, taskVars
<1>2. TypeOK
  BY DEF InterruptInv
<1>3. frame' \in Registers /\ frame'.eax = cpu.eax /\ frame'.rest = cpu.rest
  <2>1. PICK w \in Words : frame' = [cpu EXCEPT !.esp = w]
    BY DEF trap, syscall_wrapper
  <2> QED BY <1>2, <2>1 DEF TypeOK, Registers
<1>4. pushed' \in Pushed
  BY <1>1, <1>2 DEF TypeOK, Pushed
<1>5. pushed'.cpu = cpu /\ pushed'.at = "program" /\ pushed'.flag = flag
  BY <1>1
<1>6. TypeOK' /\ (Running' => Running)
  BY <1>1, <1>2, <1>3, <1>5 DEF TypeOK, Running
<1>7. PagesLoaded' /\ StackHolds'
  BY <1>1, <1>3, <1>4, <1>5 DEF InterruptInv, PagesLoaded, StackHolds, Calling, Interrupted,
     InUserPages, InKernelPages, list
<1>8. FlagKept'
  BY <1>1, <1>5 DEF InterruptInv, FlagKept
<1>9. CallersState'
  BY <1>1 DEF InterruptInv, CallersState, SavedStateIsCallers, Live, list
<1> QED BY <1>1, <1>6, <1>7, <1>8, <1>9, CallStep

\* A gate of the table other than the one of system calls leads to a handler of
\* interrupts.
LEMMA GateOfException ==
  \A v \in Int : v # 128 => idt(v) = IF v = 0 THEN "idt_divide_by_zero" ELSE "no_interrupt"
  BY DEF idt

\* The CPU goes through a gate, at boot not through the one of divisions.
LEMMA EnterGateInv ==
  ASSUME InterruptInv, NEW v \in Int, v # 128, NEW code \in BOOLEAN, Enter(v, code),
         pc = "program" \/ (pc = "boot" /\ v # 0)
  PROVE  /\ pic' \in [irr : SUBSET Lines, isr : SUBSET (Lines \cup {Cascade})] => TypeOK'
         /\ PagesLoaded' /\ StackHolds' /\ FlagKept' /\ CallersState'
         /\ TaskInv' /\ HeadRuns'
         /\ pc' = IF v = 0 THEN "idt_divide_by_zero" ELSE "no_interrupt"
<1>1. /\ pc' = (IF v = 0 THEN "idt_divide_by_zero" ELSE "no_interrupt") /\ flag' = FALSE
      /\ pushed' = [cpu |-> cpu, at |-> pc, flag |-> flag, code |-> code]
      /\ UNCHANGED <<seg, cpu, frame, saved, args, calls, res, list, directory, divided, armed>>
  BY GateOfException DEF Enter, taskVars
<1>2. TypeOK
  BY DEF InterruptInv
<1>3. pushed' \in Pushed
  BY <1>1, <1>2 DEF TypeOK, Pushed
<1>4. pushed'.cpu = cpu /\ pushed'.at = pc /\ pushed'.flag = flag
  BY <1>1
<1>5. pic' \in [irr : SUBSET Lines, isr : SUBSET (Lines \cup {Cascade})] => TypeOK'
  BY <1>1, <1>2, <1>4 DEF TypeOK
<1>6. PagesLoaded' /\ StackHolds'
  BY <1>1, <1>3, <1>4 DEF InterruptInv, PagesLoaded, StackHolds, Calling, Interrupted,
     InUserPages, InKernelPages, list
<1>7. FlagKept'
  BY <1>1, <1>4 DEF InterruptInv, FlagKept
<1>8. CallersState'
  BY <1>1 DEF InterruptInv, CallersState, SavedStateIsCallers, Live, list
<1>9. TaskInv'
  BY <1>1, ListKept DEF InterruptInv, list
<1>10. HeadRuns'
  BY <1>1, <1>4 DEF InterruptInv, HeadRuns, Running, Calling, list
<1> QED BY <1>1, <1>5, <1>6, <1>7, <1>8, <1>9, <1>10

\* An exception, or int n.
LEMMA ExceptionInv ==
  ASSUME InterruptInv, NEW v \in Exceptions, exception(v)
  PROVE  InterruptInv'
<1>1. v \in Int /\ v # 128 /\ pic' = pic /\ pc = "program"
  BY InterruptAssumption DEF exception
<1>2. PICK code \in {FALSE, (v \in Coded)} : Enter(v, code)
  BY DEF exception
<1>3. code \in BOOLEAN
  <2>1. (v \in Coded) \in BOOLEAN
    OBVIOUS
  <2>2. \A b : b \in {FALSE, (v \in Coded)} => b = FALSE \/ b = (v \in Coded)
    BY Zenon
  <2>3. code = FALSE \/ code = (v \in Coded)
    BY <2>2, Zenon
  <2> QED BY <2>1, <2>3, Zenon
<1>4. /\ pic' \in [irr : SUBSET Lines, isr : SUBSET (Lines \cup {Cascade})]
      /\ pic'.isr \subseteq Slaves
  BY <1>1 DEF InterruptInv, Controllers
<1>5. Controllers'
  BY <1>4 DEF Controllers
<1>6. pc' = IF v = 0 THEN "idt_divide_by_zero" ELSE "no_interrupt"
  BY <1>1, <1>2, <1>3, EnterGateInv
<1> QED BY <1>1, <1>2, <1>3, <1>4, <1>5, <1>6, EnterGateInv DEF InterruptInv

\* An interrupt of a device: the master has nothing in service when it is taken.
LEMMA IrqInv ==
  ASSUME InterruptInv, NEW line \in Lines, irq(line)
  PROVE  InterruptInv'
<1>1. Vector(line) \in Int /\ Vector(line) # 128 /\ Vector(line) # 0
  <2>1. line \in 0 .. 15
    BY InterruptAssumption DEF Lines
  <2> QED BY <2>1 DEF Vector
<1>2. Enter(Vector(line), FALSE) /\ pc \in {"boot", "program"}
  BY DEF irq
<1>3. pic.irr \subseteq Lines /\ pic.isr \subseteq Slaves
  BY <1>2 DEF InterruptInv, Controllers
<1>4. pic' = [irr |-> pic.irr \ {line}, isr |-> pic.isr \cup {line, OnMaster(line)}]
  BY DEF irq
<1>5. OnMaster(line) \in Int /\ OnMaster(line) \in Lines \cup {Cascade}
      /\ (line \notin Slaves => OnMaster(line) = line)
  BY InterruptAssumption DEF OnMaster, Cascade, Lines
<1>6. pic' \in [irr : SUBSET Lines, isr : SUBSET (Lines \cup {Cascade})]
  BY <1>3, <1>4, <1>5 DEF Lines
<1>7. pic'.isr \ Slaves \subseteq {OnMaster(line)}
  BY <1>3, <1>4, <1>5
<1>8. pc' = "no_interrupt"
  BY <1>1, <1>2, EnterGateInv
<1>9. Controllers'
  BY <1>5, <1>6, <1>7, <1>8 DEF Controllers
<1> QED BY <1>1, <1>2, <1>6, <1>8, <1>9, EnterGateInv DEF InterruptInv

\* A device that asks changes nothing but the requests.
LEMMA RaiseInv ==
  ASSUME InterruptInv, NEW line \in Lines, raise(line)
  PROVE  InterruptInv'
<1>1. /\ UNCHANGED <<callVars, taskVars, flag, pushed, divided, armed>>
      /\ pic' = [pic EXCEPT !.irr = @ \cup {line}]
  BY DEF raise
<1>2. /\ pic' \in [irr : SUBSET Lines, isr : SUBSET (Lines \cup {Cascade})]
      /\ pic'.isr = pic.isr
  BY <1>1 DEF InterruptInv, Controllers
<1>3. Controllers'
  BY <1>1, <1>2 DEF InterruptInv, Controllers, callVars
<1>4. TaskInv' /\ HeadRuns'
  BY <1>1, ListKept DEF InterruptInv, HeadRuns, Running, list, taskVars, callVars
<1>5. TypeOK' /\ PagesLoaded' /\ StackHolds' /\ FlagKept' /\ (pc' = "init" => calls' = {})
  BY <1>1, <1>2 DEF InterruptInv, TypeOK, PagesLoaded, StackHolds, FlagKept, callVars, taskVars, list
<1>6. CallersState'
  BY <1>1 DEF InterruptInv, CallersState, SavedStateIsCallers, Live, list, taskVars, callVars
<1> QED BY <1>3, <1>4, <1>5, <1>6 DEF InterruptInv

\* enable and disable.
LEMMA SwitchInv == InterruptInv /\ (enable \/ disable) => InterruptInv'
<1> SUFFICES ASSUME InterruptInv, enable \/ disable PROVE InterruptInv'
  OBVIOUS
<1>1. /\ pc = "boot" /\ flag' \in BOOLEAN
      /\ UNCHANGED <<callVars, list, directory, pushed, divided, pic, armed>>
  BY DEF enable, disable, taskVars
<1>2. TypeOK' /\ (Running' => Running)
  BY <1>1 DEF InterruptInv, TypeOK, Running, callVars
<1>3. PagesLoaded' /\ StackHolds' /\ FlagKept'
  BY <1>1 DEF InterruptInv, PagesLoaded, StackHolds, FlagKept, Calling, Interrupted, callVars, list
<1>4. CallersState'
  BY <1>1 DEF InterruptInv, CallersState, SavedStateIsCallers, Live, list, callVars
<1> QED BY <1>1, <1>2, <1>3, <1>4, CallStep DEF callVars

\* The handler of interrupts ends the one line that the master has in service.
LEMMA NoInterruptInv == InterruptInv /\ no_interrupt => InterruptInv'
<1> SUFFICES ASSUME InterruptInv, no_interrupt PROVE InterruptInv'
  OBVIOUS
<1>1. /\ pc = "no_interrupt" /\ pc' = "resume"
      /\ cpu' = [cpu EXCEPT !.eax = 0, !.rest = Junk]
      /\ pic' = [pic EXCEPT !.isr = end_of_interrupt]
      /\ UNCHANGED <<seg, frame, saved, args, calls, res, list, directory,
                     flag, pushed, divided, armed>>
  BY DEF no_interrupt, taskVars
<1>2. cpu' \in Registers
  BY <1>1, SyscallAssumption DEF InterruptInv, TypeOK, Registers, Words
<1>3. /\ pic' \in [irr : SUBSET Lines, isr : SUBSET (Lines \cup {Cascade})]
      /\ pic'.isr = end_of_interrupt
  BY <1>1 DEF InterruptInv, Controllers, end_of_interrupt
<1>4. Controllers'
  <2>1. PICK m \in Int : pic.isr \ Slaves \subseteq {m}
    BY <1>1 DEF InterruptInv, Controllers
  <2>2. end_of_interrupt \subseteq Slaves
    BY <2>1 DEF end_of_interrupt
  <2> QED BY <1>1, <1>3, <2>2 DEF Controllers
<1>5. TypeOK'
  BY <1>1, <1>2, <1>3 DEF InterruptInv, TypeOK
<1>6. PagesLoaded' /\ StackHolds' /\ FlagKept'
  BY <1>1 DEF InterruptInv, PagesLoaded, StackHolds, FlagKept, Calling, Interrupted,
     InUserPages, InKernelPages, list
<1>7. CallersState'
  BY <1>1 DEF InterruptInv, CallersState, SavedStateIsCallers, Live, list
<1>8. TaskInv' /\ HeadRuns'
  BY <1>1, ListKept DEF InterruptInv, HeadRuns, Running, Calling, Interrupted, list
<1> QED BY <1>1, <1>4, <1>5, <1>6, <1>7, <1>8 DEF InterruptInv

\* popad and iret.
LEMMA ResumeInv == InterruptInv /\ resume => InterruptInv'
<1> SUFFICES ASSUME InterruptInv, resume PROVE InterruptInv'
  OBVIOUS
<1>1. /\ pc = "resume" /\ pc' = (IF pushed.code THEN "lost" ELSE pushed.at) /\ pushed' = None
      /\ cpu' = pushed.cpu /\ flag' = pushed.flag
      /\ UNCHANGED <<seg, frame, saved, args, calls, res, list, directory, divided, pic, armed>>
  BY DEF resume, taskVars
<1>2. pushed \in Pushed
  BY <1>1 DEF InterruptInv, StackHolds, Interrupted
<1>3. /\ pc' \in {"boot", "program", "lost"} /\ (pc' # "lost" => pc' = pushed.at)
      /\ pushed.cpu \in Registers /\ pushed.flag \in BOOLEAN
  BY <1>1, <1>2 DEF Pushed
<1>4. TypeOK' /\ (Running' => Running)
  BY <1>1, <1>3 DEF InterruptInv, TypeOK, Running, Calling, Interrupted
<1>5. PagesLoaded' /\ StackHolds'
  BY <1>1, <1>3 DEF InterruptInv, PagesLoaded, StackHolds, Calling, Interrupted,
     InUserPages, InKernelPages, list
<1>6. FlagKept'
  BY <1>1, <1>3 DEF InterruptInv, FlagKept, Calling, Interrupted
<1>7. CallersState'
  BY <1>1, <1>3 DEF InterruptInv, CallersState, SavedStateIsCallers, Live, list
<1> QED BY <1>1, <1>3, <1>4, <1>5, <1>6, <1>7, CallStep

\* A division by zero.
LEMMA DivideInv == InterruptInv /\ idt_divide_by_zero => InterruptInv'
<1> SUFFICES ASSUME InterruptInv, idt_divide_by_zero PROVE InterruptInv'
  OBVIOUS
<1>1. /\ pc = "idt_divide_by_zero" /\ pc' = "program" /\ pushed' = None /\ divided' = TRUE
      /\ UNCHANGED <<seg, frame, saved, args, calls, res, list, directory, flag, pic, armed>>
  BY DEF idt_divide_by_zero, taskVars
<1>2. cpu' \in Registers
  <2>1. PICK n \in Numbers, s \in IF cpu.esp \in Values THEN Values ELSE {Junk} :
          cpu' = [eax |-> n, esp |-> s, rest |-> Junk]
    BY DEF idt_divide_by_zero
  <2>2. s \in Words
    BY DEF Words
  <2> QED BY <2>1, <2>2 DEF Registers, Words
<1>3. pushed.at = "program" /\ Running
  BY <1>1 DEF InterruptInv, StackHolds, Running, Interrupted
<1>4. TypeOK'
  BY <1>1, <1>2 DEF InterruptInv, TypeOK
<1>5. PagesLoaded' /\ StackHolds' /\ FlagKept'
  BY <1>1, <1>3 DEF InterruptInv, PagesLoaded, StackHolds, FlagKept, Calling, Interrupted,
     InUserPages, InKernelPages, list
<1>6. CallersState'
  BY <1>1 DEF InterruptInv, CallersState, SavedStateIsCallers, Live, list
<1> QED BY <1>1, <1>3, <1>4, <1>5, <1>6, CallStep

\* syscalls::initialize: the number 0 is in the table and has no handler yet.
LEMMA InitializeInv == InterruptInv /\ initialize /\ UNCHANGED intVars => InterruptInv'
<1> SUFFICES ASSUME InterruptInv, initialize, UNCHANGED intVars PROVE InterruptInv'
  OBVIOUS
<1>1. pc = "init" /\ calls = {}
  BY DEF initialize, InterruptInv
<1>2. /\ pc' = "boot" /\ calls' = {0}
      /\ UNCHANGED <<seg, cpu, frame, saved, args, res, list, directory, intVars>>
  BY <1>1, SyscallAssumption DEF initialize, add, SYS_zero, taskVars
<1>3. TypeOK'
  BY <1>1, <1>2, SyscallAssumption DEF InterruptInv, TypeOK, StackHolds, intVars
<1>4. PagesLoaded' /\ StackHolds' /\ FlagKept'
  BY <1>1, <1>2 DEF InterruptInv, PagesLoaded, StackHolds, FlagKept, Calling, Interrupted,
     InUserPages, InKernelPages, intVars, list
<1>5. CallersState'
  BY <1>1, <1>2 DEF InterruptInv, CallersState, SavedStateIsCallers, Live, list, intVars
<1>6. ~Running'
  BY <1>2 DEF Running, Calling, Interrupted
<1> QED BY <1>1, <1>2, <1>3, <1>4, <1>5, <1>6, CallStep DEF intVars

\* Tasks are made and released before the first program runs.
LEMMA BootTaskInv ==
  ASSUME InterruptInv, UNCHANGED intVars, NEW t \in Tasks, make_task(t) \/ drop_task(t)
  PROVE  InterruptInv'
<1>1. /\ pc = "boot" /\ directory = Kernel /\ directory' = Kernel
      /\ UNCHANGED <<pc, seg, cpu, frame, args, calls, res, intVars>>
  BY DEF make_task, drop_task, make_new_task, release_task, callVars
<1>2. TaskInv' /\ saved' \in [Tasks -> Registers]
      /\ \A u \in Live' : u # head' => saved'[u] = StartRegisters
  <2>1. CASE make_task(t)
    <3>1. saved' = [saved EXCEPT ![t] = StartRegisters] /\ make_new_task(t)
      BY <2>1 DEF make_task
    <3>2. TaskInv' /\ Live' = Live \cup {t} /\ (head' = head \/ (Live = {} /\ head' = t))
      BY <3>1, LinkKeepsList DEF InterruptInv
    <3>3. saved \in [Tasks -> Registers] /\ \A u \in Live : u \in Tasks /\ (u # head => saved[u] = StartRegisters)
      BY DEF InterruptInv, TypeOK, CallersState, SavedStateIsCallers, Live, TaskInv, TaskTypeOK
    <3>4. saved' \in [Tasks -> Registers]
      BY <3>1, <3>3, StartIsRegisters
    <3>5. \A u \in Live' : u # head' => saved'[u] = StartRegisters
      BY <3>1, <3>2, <3>3
    <3> QED BY <3>2, <3>4, <3>5
  <2>2. CASE drop_task(t)
    <3>1. saved' = saved /\ release_task(t) /\ t = tail
      BY <2>2 DEF drop_task, callVars
    <3>2. TaskInv' /\ Live' \subseteq Live /\ (head' = head \/ Live' = {})
      BY <3>1, ReleaseKeepsList DEF InterruptInv
    <3> QED BY <3>1, <3>2 DEF InterruptInv, TypeOK, CallersState, SavedStateIsCallers
  <2> QED BY <2>1, <2>2
<1>3. TypeOK'
  BY <1>1, <1>2 DEF InterruptInv, TypeOK, intVars
<1>4. PagesLoaded' /\ StackHolds' /\ FlagKept' /\ HeadRuns' /\ Controllers'
  BY <1>1 DEF InterruptInv, PagesLoaded, StackHolds, FlagKept, HeadRuns, Running,
     Controllers, Calling, Interrupted, InUserPages, InKernelPages, intVars
<1>5. CallersState'
  BY <1>1, <1>2 DEF CallersState, SavedStateIsCallers
<1> QED BY <1>1, <1>2, <1>3, <1>4, <1>5 DEF InterruptInv

\* run_first_task: the head of the list, its pages and its registers.
LEMMA StartInv == InterruptInv /\ start => InterruptInv'
<1> SUFFICES ASSUME InterruptInv, start PROVE InterruptInv'
  OBVIOUS
<1>1. /\ pc = "boot" /\ pc' = "program" /\ current # None /\ current' = head /\ directory' = head
      /\ seg' = "user" /\ armed' = flag
      /\ UNCHANGED <<next, prev, head, tail, order, frame, saved, args, calls, res,
                     flag, pushed, divided, pic>>
  BY DEF start, start_program, run_first_task, task_return
<1>2. order # <<>> /\ order \in Seq(Tasks)
  BY <1>1 DEF InterruptInv, TaskInv, TaskTypeOK, CurrentIsLive
<1>3. head \in Live /\ head \in Tasks
  <2>1. Len(order) \in Nat /\ Len(order) # 0
    BY <1>2
  <2>2. head = order[1] /\ 1 \in 1 .. Len(order)
    BY <1>2, <2>1 DEF InterruptInv, TaskInv, NextLinks
  <2> QED BY <1>2, <2>2 DEF Live
<1>4. TaskInv' /\ HeadRuns'
  BY <1>1, <1>2, <1>3 DEF InterruptInv, TaskInv, TaskTypeOK, NextLinks, PrevLinks, CurrentIsLive,
     Live, HeadRuns
<1>5. cpu' \in Registers
  BY DEF start, start_program, task_return, Registers, Words
<1>6. TypeOK'
  BY <1>1, <1>5 DEF InterruptInv, TypeOK, StackHolds, Calling, Interrupted
<1>7. PagesLoaded' /\ StackHolds' /\ Controllers'
  BY <1>1 DEF InterruptInv, PagesLoaded, StackHolds, Controllers, Calling, Interrupted,
     InUserPages, InKernelPages
<1>8. FlagKept'
  BY <1>1 DEF FlagKept, Calling, Interrupted
<1>9. CallersState'
  BY <1>1 DEF InterruptInv, CallersState, SavedStateIsCallers, Live
<1> QED BY <1>1, <1>4, <1>6, <1>7, <1>8, <1>9 DEF InterruptInv

----------------------------------------------------------------------------
\* Every step keeps the invariant.
LEMMA InterruptStep == InterruptInv /\ [Next]_vars => InterruptInv'
<1> SUFFICES ASSUME InterruptInv, [Next]_vars PROVE InterruptInv'
  OBVIOUS
<1>1. CASE UNCHANGED vars
  <2> USE <1>1 DEF vars, callVars, taskVars, intVars, list
  <2>1. TaskInv' /\ HeadRuns' /\ Controllers'
    BY ListKept DEF InterruptInv, HeadRuns, Running, Controllers
  <2>2. TypeOK' /\ PagesLoaded' /\ StackHolds' /\ FlagKept' /\ (pc' = "init" => calls' = {})
    BY DEF InterruptInv, TypeOK, PagesLoaded, StackHolds, FlagKept
  <2>3. CallersState'
    BY DEF InterruptInv, CallersState, SavedStateIsCallers, Live
  <2> QED BY <2>1, <2>2, <2>3 DEF InterruptInv
<1>2. CASE (Boot \/ compute) /\ UNCHANGED intVars
  BY <1>2, InitializeInv, BootTaskInv, ComputeInv DEF Boot
<1>3. CASE enable \/ disable \/ start \/ trap
  BY <1>3, SwitchInv, StartInv, TrapInv
<1>4. CASE InKernel
  BY <1>4, EnterInv, SaveInv, PageSwitchInv, SetParamInv, CallInv, ReturnInv,
     NoInterruptInv, ResumeInv, DivideInv DEF InKernel, Handler
<1>5. CASE Interrupt
  BY <1>5, IrqInv DEF Interrupt
<1>6. CASE \E line \in Lines : raise(line)
  BY <1>6, RaiseInv
<1>7. CASE \E v \in Exceptions : exception(v)
  BY <1>7, ExceptionInv
<1> QED BY <1>1, <1>2, <1>3, <1>4, <1>5, <1>6, <1>7 DEF Next

\* The task list, the pages, the stack, the interrupt flag and the controllers
\* agree with where the CPU is, and so does what a call has saved and read of its
\* caller.
THEOREM InterruptsCorrect == Spec => []InterruptInv
<1> QED BY InterruptInit, InterruptStep, PTL DEF Spec

\* No panic is reached, and nothing but the number after the last one leaves
\* the table of handlers.
THEOREM InterruptsTypeOK == Spec => []TypeOK
<1>1. InterruptInv => TypeOK
  BY DEF InterruptInv
<1> QED BY <1>1, InterruptsCorrect, PTL

\* The links of the tasks are one list of the live tasks, forwards and back, and
\* the current task and the loaded page directory are of one of them.
THEOREM TasksStayLinked == Spec => []TaskInv
<1>1. InterruptInv => TaskInv
  BY DEF InterruptInv
<1> QED BY <1>1, InterruptsCorrect, PTL

\* A program runs in its own pages, and a handler in the kernel's.
THEOREM InterruptsPagesMatch == Spec => []PagesMatch
<1>1. InterruptInv => PagesMatch
  BY DEF InterruptInv, PagesMatch, PagesLoaded, InUserPages, InKernelPages, HeadRuns, Running,
     TaskInv, CurrentIsLive, CallersState
<1> QED BY <1>1, InterruptsCorrect, PTL

\* The registers of a task in a call are those it trapped with, but for the stack
\* pointer, and those of the others are as task_init left them.
THEOREM InterruptsSavedState == Spec => []SavedStateIsCallers
<1>1. InterruptInv => SavedStateIsCallers
  BY DEF InterruptInv, CallersState
<1> QED BY <1>1, InterruptsCorrect, PTL

\* The master controller has nothing in service outside the handler.
THEOREM InterruptsMasterIsTold == Spec => []MasterIsTold
<1>1. InterruptInv => MasterIsTold
  BY DEF InterruptInv, Controllers, MasterIsTold
<1> QED BY <1>1, InterruptsCorrect, PTL

\* A system call gives the program its registers back, but for the result in
\* eax, although the frame has no stack pointer.
THEOREM InterruptsReturnKeepsRegisters == Spec => ReturnKeepsRegisters
<1> DEFINE Kept == pc = "return" /\ pc' = "program" => cpu' = [pushed.cpu EXCEPT !.eax = res']
<1>1. InterruptInv /\ [Next]_vars => [Kept]_vars
  <2> SUFFICES ASSUME InterruptInv, Next, pc = "return", pc' = "program"
               PROVE  cpu' = [pushed.cpu EXCEPT !.eax = res']
    OBVIOUS
  <2>1. iretd
    BY DEF Next, Boot, initialize, make_task, drop_task, callVars, compute, enable, disable, start,
       start_program, trap, syscall_wrapper, InKernel, Handler, enter, save_current_task_state,
       load_args_user_page, set_param, load_args_kernel_page, call_handled, call_refused,
       call_past_table, leave, return, no_interrupt, resume, idt_divide_by_zero,
       Interrupt, irq, exception, Enter, raise
  <2>2. /\ cpu' = [frame EXCEPT !.eax = res, !.esp = cpu.esp]
        /\ res' = res
    BY <2>1 DEF iretd
  <2>3. /\ pushed.cpu = cpu /\ frame.rest = cpu.rest
        /\ cpu \in Registers /\ frame \in Registers /\ res \in Numbers
    BY SyscallAssumption DEF InterruptInv, StackHolds, Calling, TypeOK
  <2>4. cpu.esp \in Words /\ frame.esp \in Words
    BY <2>3 DEF Registers
  <2>7. cpu' \in Registers /\ cpu'.eax = res /\ cpu'.esp = cpu.esp /\ cpu'.rest = cpu.rest
    BY <2>2, <2>3, <2>4 DEF Registers
  <2> DEFINE q == [cpu EXCEPT !.eax = res]
  <2>8. q \in Registers /\ q.eax = res /\ q.esp = cpu.esp /\ q.rest = cpu.rest
    BY <2>3 DEF Registers
  <2> HIDE DEF q
  <2>9. cpu' = q
    BY <2>7, <2>8, RegistersEqual
  <2> QED BY <2>2, <2>3, <2>9 DEF q
<1> QED BY <1>1, InterruptsCorrect, PTL DEF Spec, ReturnKeepsRegisters

\* A program has the interrupt flag it was started with until it divides by
\* zero; and what was interrupted goes on with its registers and its pages.
THEOREM InterruptsResume == Spec => ResumesWhereItWas
<1> DEFINE Same ==
      /\ pc' = "program" /\ pc # "boot" /\ ~divided' => flag' = armed
      /\ pc = "resume" /\ pc' \in {"boot", "program"} =>
           /\ pc' = pushed.at /\ cpu' = pushed.cpu
           /\ IF pc' = "boot" THEN directory' = Kernel /\ seg' = "kernel"
              ELSE directory' = current /\ seg' = "user"
<1>1. InterruptInv /\ InterruptInv' /\ [Next]_vars => [Same]_vars
  <2> SUFFICES ASSUME InterruptInv, InterruptInv', Next PROVE Same
    OBVIOUS
  <2>1. ASSUME pc # "boot" PROVE armed' = armed
    BY <2>1 DEF Next, Boot, intVars, start, start_program, enable, disable, trap, InKernel,
       return, no_interrupt, resume, idt_divide_by_zero, Interrupt, irq, exception, Enter, raise
  <2>2. pc' = "program" /\ ~divided' => flag' = armed'
    BY DEF InterruptInv, FlagKept
  <2>3. ASSUME pc = "resume", pc' \in {"boot", "program"}
        PROVE  /\ pc' = pushed.at /\ cpu' = pushed.cpu
               /\ IF pc' = "boot" THEN directory' = Kernel /\ seg' = "kernel"
                  ELSE directory' = current /\ seg' = "user"
    <3>1. resume
      BY <2>3 DEF Next, Boot, initialize, make_task, drop_task, callVars, compute, enable, disable,
         start, start_program,
         trap, syscall_wrapper, InKernel, Handler, enter, save_current_task_state,
         load_args_user_page, set_param, load_args_kernel_page, call_handled, call_refused,
         call_past_table, leave, return, iretd, no_interrupt, idt_divide_by_zero,
         Interrupt, irq, exception, Enter, raise
    <3>2. current' = current /\ cpu' = pushed.cpu /\ pc' = pushed.at
      BY <2>3, <3>1 DEF resume, taskVars, list
    <3> QED BY <2>3, <3>2 DEF InterruptInv, PagesLoaded, InUserPages, InKernelPages
  <2> QED BY <2>1, <2>2, <2>3
<1> QED BY <1>1, InterruptsCorrect, PTL DEF Spec, ResumesWhereItWas
=============================================================================
