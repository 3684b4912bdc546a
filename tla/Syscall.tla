------------------------------ MODULE Syscall ------------------------------
(***************************************************************************)
(* A program enters the kernel with int 0x80 and comes back: run_first_task *)
(* and task_return, syscall_wrapper, and syscall_handler with the tasks,    *)
(* page directories, segment registers and saved registers it goes through. *)
(* Tasks are made and released before the first one runs. Programs run in   *)
(* ring 0, as task_return leaves them. Interrupts has the other ways into   *)
(* the kernel.                                                              *)
(***************************************************************************)
EXTENDS TaskList

CONSTANTS
  MAXIMUM_NUMBER_OF_SYSCALLS,  \* 100
  Numbers,     \* what a program may have in eax, as an int
  Values,      \* what it may put into its other registers
  Junk,        \* a word of the kernel's that happens to be there
  KernelStack  \* an address on the kernel's stack

ASSUME SyscallAssumption ==
  /\ MAXIMUM_NUMBER_OF_SYSCALLS \in Nat \ {0}
  /\ Numbers \subseteq Int /\ 0 \in Numbers
  /\ {Junk, KernelStack} \cap Values = {} /\ Junk # KernelStack
  /\ "start" \in Values

\* The registers of a program: eax, the stack pointer, all others with ip.
Words == Values \cup {Junk, KernelStack}
Registers == [eax : Numbers, esp : Words, rest : Words]

\* What task_init puts into struct registers.
StartRegisters == [eax |-> 0, esp |-> "start", rest |-> "start"]

VARIABLES
  pc,      \* where the CPU is: "boot", "program", or the next step of a call
  seg,     \* whose data segment the segment registers name
  cpu,     \* the registers of what runs, as they are or as it trapped
  frame,   \* struct interrupt_frame on the kernel stack
  saved,   \* task->registers
  args,    \* sys_args: the directory and the address they were read from
  calls,   \* the numbers that _calls has a handler for
  res      \* what call returned
callVars == <<pc, seg, cpu, frame, saved, args, calls, res>>

\* What is on no stack: there is no frame and there are no arguments outside a
\* system call.
NoFrame == StartRegisters
NoArgs == <<None, Junk>>

CallInit ==
  /\ TaskInit
  /\ pc = "init" /\ seg = "kernel"
  /\ cpu = StartRegisters /\ frame = NoFrame
  /\ saved = [t \in Tasks |-> StartRegisters]
  /\ args = NoArgs /\ calls = {} /\ res = 0

----------------------------------------------------------------------------
SYS_zero == 0

\* syscalls::add: a number that has a handler already is a panic.
add(num) ==
  IF num < 0 \/ num > MAXIMUM_NUMBER_OF_SYSCALLS \/ num \in calls
  THEN pc' = "halted" /\ UNCHANGED calls
  ELSE pc' = "boot" /\ calls' = calls \cup {num}

initialize ==
  /\ pc = "init"
  /\ add(SYS_zero)
  /\ UNCHANGED <<seg, cpu, frame, saved, args, res, taskVars>>

make_task(t) ==
  /\ pc = "boot"
  /\ make_new_task(t)
  /\ saved' = [saved EXCEPT ![t] = StartRegisters]
  /\ UNCHANGED <<pc, seg, cpu, frame, args, calls, res>>

\* Only process_load_for_slot and make_new_task call release_task, on the task
\* just made.
drop_task(t) ==
  /\ pc = "boot"
  /\ t = tail
  /\ release_task(t)
  /\ UNCHANGED callVars

\* task_return: the data segment of the task, and what iretd would pop is
\* pushed. The source says ireqd, which the assembler takes for a label: the
\* CPU runs on into restore_general_purpose_registers, which takes the code
\* selector on top of the stack for the pointer to the registers and loads them
\* from low memory. Its ret jumps to the program, in ring 0, on the kernel stack.
task_return(t) ==
  /\ seg' = "user"
  /\ \E n \in Numbers : cpu' = [eax |-> n, esp |-> KernelStack, rest |-> Junk]
  /\ pc' = "program"

start_program ==
  /\ pc = "boot"
  /\ run_first_task
  /\ task_return(head)
  /\ UNCHANGED <<frame, saved, args, calls, res>>

\* The program computes, on the stack it is on or on one of its own.
compute ==
  /\ pc = "program"
  /\ \E n \in Numbers, v \in Values, s \in Values \cup {cpu.esp} :
       cpu' = [eax |-> n, esp |-> s, rest |-> v]
  /\ UNCHANGED <<pc, seg, frame, saved, args, calls, res, taskVars>>

----------------------------------------------------------------------------
\* int 0x80 and pushad. From ring 0 the CPU pushes no stack pointer, and what
\* the frame has in its place is the word on top of the program's stack.
syscall_wrapper ==
  /\ pc = "program"
  /\ \E w \in Words : frame' = [cpu EXCEPT !.esp = w]
  /\ pc' = "enter"
  /\ UNCHANGED <<seg, cpu, saved, args, calls, res, taskVars>>

\* syscall_handler: load_kernel_page. The CPU is still on the program's stack:
\* if that is in the program's own pages, the return address is not there.
enter ==
  /\ pc = "enter"
  /\ load_kernel_page /\ seg' = "kernel"
  /\ pc' = IF cpu.esp \in Values THEN "lost" ELSE "save"
  /\ UNCHANGED <<cpu, frame, saved, args, calls, res>>

\* Mutant: the state goes to the newest task.
save_current_task_state_tail ==
  /\ pc = "save"
  /\ saved' = [saved EXCEPT ![tail] = frame] /\ pc' = "args"
  /\ UNCHANGED <<seg, cpu, frame, args, calls, res, taskVars>>

\* save_current_task_state: a panic when there is no task.
save_current_task_state ==
  /\ pc = "save"
  /\ IF current = None THEN pc' = "halted" /\ UNCHANGED saved
     ELSE saved' = [saved EXCEPT ![current] = frame] /\ pc' = "args"
  /\ UNCHANGED <<seg, cpu, frame, args, calls, res, taskVars>>

\* Mutant: the arguments are read in the kernel's page.
load_args_user_page_missing ==
  /\ pc = "args"
  /\ pc' = "read"
  /\ UNCHANGED <<seg, cpu, frame, saved, args, calls, res, taskVars>>

\* load_args: to the page of the task ...
load_args_user_page ==
  /\ pc = "args"
  /\ load_user_task_page /\ seg' = "user"
  /\ pc' = "read"
  /\ UNCHANGED <<cpu, frame, saved, args, calls, res>>

\* ... the words at frame->esp ...
set_param ==
  /\ pc = "read"
  /\ args' = <<directory, frame.esp>>
  /\ pc' = "back"
  /\ UNCHANGED <<seg, cpu, frame, saved, calls, res, taskVars>>

\* ... and back to the kernel's.
load_args_kernel_page ==
  /\ pc = "back"
  /\ load_kernel_page /\ seg' = "kernel"
  /\ pc' = "call"
  /\ UNCHANGED <<cpu, frame, saved, args, calls, res>>

\* syscalls::call with the number in eax, which has a handler: the only one,
\* sys_zero, returns NULL.
call_handled ==
  /\ pc = "call" /\ frame.eax \in calls
  /\ res' = 0 /\ pc' = "leave"
  /\ UNCHANGED <<seg, cpu, frame, saved, args, calls, taskVars>>

\* Mutant: there is no test for a negative number, and the word before the
\* table is jumped to.
call_refused_unsigned ==
  /\ pc = "call" /\ frame.eax \notin calls
  /\ IF frame.eax < 0 THEN pc' = "wild" /\ UNCHANGED res
     ELSE res' = 0 /\ pc' = "leave"
  /\ UNCHANGED <<seg, cpu, frame, saved, args, calls, taskVars>>

\* Mutant: a number without a handler is waited for.
call_refused_waits ==
  /\ pc = "call" /\ frame.eax \notin calls
  /\ res' = 1 - res
  /\ UNCHANGED <<pc, seg, cpu, frame, saved, args, calls, taskVars>>

\* ... which is out of bounds or has none: NULL. So it is for the number
\* MAXIMUM_NUMBER_OF_SYSCALLS when the word after the table is 0.
call_refused ==
  /\ pc = "call" /\ frame.eax \notin calls
  /\ res' = 0 /\ pc' = "leave"
  /\ UNCHANGED <<seg, cpu, frame, saved, args, calls, taskVars>>

\* ... which passes the test although it is the size of the table: the word
\* after the table is not 0 and is jumped to.
call_past_table ==
  /\ pc = "call" /\ frame.eax = MAXIMUM_NUMBER_OF_SYSCALLS
  /\ pc' = "wild"
  /\ UNCHANGED <<seg, cpu, frame, saved, args, calls, res, taskVars>>

\* load_user_page.
leave ==
  /\ pc = "leave"
  /\ load_user_task_page /\ seg' = "user"
  /\ pc' = "return"
  /\ UNCHANGED <<cpu, frame, saved, args, calls, res>>

\* Mutant: the result is lost in popad.
iretd_without_result ==
  /\ pc = "return"
  /\ cpu' = [frame EXCEPT !.esp = cpu.esp]
  /\ pc' = "program"
  /\ frame' = NoFrame /\ args' = NoArgs
  /\ UNCHANGED <<seg, saved, calls, res, taskVars>>

\* popad, the result to eax, and iretd, which pops what the CPU had pushed.
iretd ==
  /\ pc = "return"
  /\ cpu' = [frame EXCEPT !.eax = res, !.esp = cpu.esp]
  /\ pc' = "program"
  /\ frame' = NoFrame /\ args' = NoArgs
  /\ UNCHANGED <<seg, saved, calls, res, taskVars>>

\* syscall_handler, between the trap and the return.
Handler ==
  \/ enter \/ save_current_task_state
  \/ load_args_user_page \/ set_param \/ load_args_kernel_page
  \/ call_handled \/ call_refused \/ call_past_table
  \/ leave

\* What happens before the first program runs.
Boot ==
  \/ initialize
  \/ \E t \in Tasks : make_task(t) \/ drop_task(t)

----------------------------------------------------------------------------
\* A program always runs in the page directory of the current task and with
\* the user's data segment, and a handler in the kernel's with the kernel's,
\* although both change twice on the way in; what the handler has of its
\* arguments was read in the page directory of the task that called.
PagesMatch ==
  /\ pc = "program" => current \in Live /\ directory = current /\ seg = "user"
  /\ pc = "call" => directory = Kernel /\ seg = "kernel"
  /\ pc \in {"init", "boot"} => directory = Kernel /\ seg = "kernel"
  /\ pc \in {"call", "leave", "return"} => args[1] = current
=============================================================================
