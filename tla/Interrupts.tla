----------------------------- MODULE Interrupts -----------------------------
(***************************************************************************)
(* Every way into the kernel and back: system calls (Syscall), interrupts  *)
(* of the devices, exceptions and int n, through the interrupt descriptor  *)
(* table of arch/x86/interrupt/interrupt.c and the wrapper of idt.asm.     *)
(* Gates are interrupt gates, so that nothing is taken in a handler: what  *)
(* can interleave is devices with one program, or with the boot, if the    *)
(* kernel enables interrupts.                                              *)
(***************************************************************************)
EXTENDS Syscall

CONSTANTS
  Masters,    \* the lines of the master controller in use, 0 the first served
  Slaves,     \* those of the slave, which the master sees as its line 2
  Exceptions  \* the vectors that a program can cause, itself or by int n

\* The vectors whose exceptions have an error code.
Coded == {8, 10, 11, 12, 13, 14, 17}

ASSUME InterruptAssumption ==
  /\ Masters \subseteq 0 .. 7 \ {2} /\ Slaves \subseteq 8 .. 15
  /\ Exceptions \subseteq 0 .. 255 \ {128}

Lines == Masters \cup Slaves

VARIABLES
  flag,     \* the interrupt flag
  pushed,   \* what the CPU and pushad put on the stack: registers, where the CPU
            \* was, flag, and whether there is an error code; None outside
  divided,  \* history: the program has divided by zero
  pic,      \* the controllers: the lines requested and in service
  armed     \* history: the interrupt flag when the program was started
intVars == <<flag, pushed, divided, pic, armed>>
vars == <<callVars, taskVars, intVars>>

\* arch::initialize disables interrupts before anything else. remap_master_PIC
\* moves the master's lines to 0x20 and on, the slave's stay at 0x70.
Init ==
  /\ CallInit
  /\ flag = FALSE /\ pushed = None /\ divided = FALSE /\ armed = FALSE
  /\ pic = [irr |-> {}, isr |-> {}]

Vector(line) == IF line \in Masters THEN 32 + line ELSE 112 + line - 8

\* init_interrupt_descriptor_table.
idt(v) ==
  CASE v = 0 -> "idt_divide_by_zero" [] v = 128 -> "enter" [] OTHER -> "no_interrupt"

----------------------------------------------------------------------------
\* interrupt::enable and interrupt::disable, sti and cli.
enable ==
  /\ pc = "boot" /\ flag' = TRUE
  /\ UNCHANGED <<callVars, taskVars, pushed, divided, pic, armed>>

disable ==
  /\ pc = "boot" /\ flag' = FALSE
  /\ UNCHANGED <<callVars, taskVars, pushed, divided, pic, armed>>

\* task_return: the flags with the interrupt flag set are pushed, but never
\* popped; the program has the flag of the kernel.
start ==
  /\ start_program
  /\ armed' = flag
  /\ UNCHANGED <<flag, pushed, divided, pic>>

\* int 0x80 through its gate, and iretd.
trap ==
  /\ syscall_wrapper
  /\ flag' = FALSE
  /\ pushed' = [cpu |-> cpu, at |-> pc, flag |-> flag, code |-> FALSE]
  /\ UNCHANGED <<divided, pic, armed>>

return ==
  /\ iretd
  /\ flag' = pushed.flag /\ pushed' = None
  /\ UNCHANGED <<divided, pic, armed>>

----------------------------------------------------------------------------
\* A device asks for an interrupt.
raise(line) ==
  /\ line \notin pic.irr
  /\ pic' = [pic EXCEPT !.irr = @ \cup {line}]
  /\ UNCHANGED <<callVars, taskVars, flag, pushed, divided, armed>>

\* The line of the master through which a line is served.
Cascade == 2
OnMaster(line) == IF line \in Slaves THEN Cascade ELSE line

\* A controller passes on a request of a higher priority than all it has in
\* service; the master does so for those of the slave too.
Passed(line) ==
  /\ line \in pic.irr
  /\ \A s \in pic.isr \ Slaves : OnMaster(line) < s
  /\ line \in Slaves => \A s \in pic.isr \cap Slaves : line < s

\* Of the requests passed on, the one of the highest priority is delivered.
Delivered(line) ==
  /\ Passed(line)
  /\ \A other \in Lines : Passed(other) =>
       \/ OnMaster(line) < OnMaster(other)
       \/ OnMaster(line) = OnMaster(other) /\ line <= other

\* The CPU enters the gate of a vector, with an error code or not. In ring 0 it
\* stays on the stack it is on.
Enter(v, code) ==
  /\ pushed' = [cpu |-> cpu, at |-> pc, flag |-> flag, code |-> code]
  /\ flag' = FALSE
  /\ pc' = idt(v)
  /\ UNCHANGED <<seg, cpu, frame, saved, args, calls, res, taskVars, divided, armed>>

\* An interrupt is taken between two instructions, of a program or at boot.
irq(line) ==
  /\ pc \in {"boot", "program"}
  /\ flag /\ Delivered(line)
  /\ Enter(Vector(line), FALSE)
  /\ pic' = [irr |-> pic.irr \ {line}, isr |-> pic.isr \cup {line, OnMaster(line)}]

\* An exception of a program, or int n, which pushes no error code.
exception(v) ==
  /\ pc = "program"
  /\ \E code \in {FALSE, (v \in Coded)} : Enter(v, code)
  /\ UNCHANGED pic

\* Mutant: the controller is not told that the interrupt is over.
end_of_interrupt_missing == pic.isr

\* Mutant: an interrupt of the slave is ended at the slave only.
end_of_interrupt_slave == IF pic.isr \cap Slaves = {} THEN {} ELSE pic.isr \ Slaves

\* no_interrupt_handler: the command goes to the master only, and ends what has
\* the highest priority of the lines the master has in service.
end_of_interrupt ==
  {line \in pic.isr : line \in Slaves \/ \E s \in pic.isr \ Slaves : s < line}

\* no_interrupt: pushad, and the handler, a C function, which does not keep eax
\* and other registers.
no_interrupt ==
  /\ pc = "no_interrupt"
  /\ cpu' = [cpu EXCEPT !.eax = 0, !.rest = Junk]
  /\ pic' = [pic EXCEPT !.isr = end_of_interrupt]
  /\ pc' = "resume"
  /\ UNCHANGED <<seg, frame, saved, args, calls, res, taskVars,
                 flag, pushed, divided, armed>>

\* Mutant: iret without popad.
resume_without_popad ==
  /\ pc = "resume"
  /\ flag' = pushed.flag
  /\ pushed' = None
  /\ pc' = IF pushed.code THEN "lost" ELSE pushed.at
  /\ UNCHANGED <<cpu, seg, frame, saved, args, calls, res, taskVars, divided, pic, armed>>

\* popad and iret, which takes an error code for the address to go on at.
resume ==
  /\ pc = "resume"
  /\ cpu' = pushed.cpu /\ flag' = pushed.flag
  /\ pushed' = None
  /\ pc' = IF pushed.code THEN "lost" ELSE pushed.at
  /\ UNCHANGED <<seg, frame, saved, args, calls, res, taskVars, divided, pic, armed>>

\* idt_divide_by_zero is the gate itself, and returns with ret: the program goes
\* on with interrupts off and the segment and the flags left on its stack,
\* without the registers that a C function may change.
idt_divide_by_zero ==
  /\ pc = "idt_divide_by_zero"
  /\ \E n \in Numbers, s \in IF cpu.esp \in Values THEN Values ELSE {Junk} :
       cpu' = [eax |-> n, esp |-> s, rest |-> Junk]
  /\ pushed' = None /\ divided' = TRUE
  /\ pc' = "program"
  /\ UNCHANGED <<seg, frame, saved, args, calls, res, taskVars, flag, pic, armed>>

\* What the kernel does once it is entered.
InKernel ==
  \/ Handler /\ UNCHANGED intVars
  \/ return \/ no_interrupt \/ resume \/ idt_divide_by_zero

Interrupt == \E line \in Lines : irq(line)

Next ==
  \/ (Boot \/ compute) /\ UNCHANGED intVars
  \/ enable \/ disable \/ start \/ trap \/ InKernel \/ Interrupt
  \/ \E line \in Lines : raise(line)
  \/ \E v \in Exceptions : exception(v)

\* The kernel goes on by itself. The CPU takes an interrupt that is delivered
\* after each instruction with the interrupt flag on, the iretd of a system
\* call included, so that a program cannot keep it out by entering the kernel
\* again and again.
Spec == Init /\ [][Next]_vars /\ WF_vars(InKernel) /\ SF_vars(Interrupt)

----------------------------------------------------------------------------
\* The variables stay in their types, and no panic is reached ("halted"): a
\* program that traps is a task, and no number is added twice. Nothing but the
\* number after the last one can leave the table of handlers.
TypeOK ==
  /\ pc \in {"init", "boot", "program", "enter", "save", "args", "read", "back",
            "call", "leave", "return", "wild", "no_interrupt", "resume",
            "idt_divide_by_zero", "lost"}
  /\ pc = "wild" => cpu.eax = MAXIMUM_NUMBER_OF_SYSCALLS
  /\ seg \in {"kernel", "user"}
  /\ cpu \in Registers /\ frame \in Registers
  /\ saved \in [Tasks -> Registers]
  /\ args \in (Tasks \cup {Kernel, None}) \X Words
  /\ calls \subseteq 0 .. MAXIMUM_NUMBER_OF_SYSCALLS - 1
  /\ res = 0
  /\ flag \in BOOLEAN /\ divided \in BOOLEAN /\ armed \in BOOLEAN
  /\ pic.irr \subseteq Lines /\ pic.isr \subseteq Lines \cup {Cascade}
  /\ pushed # None => pushed.cpu \in Registers /\ pc \notin {"boot", "program"}

\* The arguments a handler gets are the words at the stack pointer that the
\* program had when it trapped, in the address space of that program ("Kernel
\* interrupt routine is executed and extracts arguments pushed by the user
\* program.").
ArgsOfCaller ==
  pc \in {"back", "call", "leave", "return"} => args = <<current, cpu.esp>>

\* While a program is in a system call its task has the registers it trapped
\* with ("Save state of the task, we can resume from that state at any time that
\* we like."), all but the stack pointer, for which it has what was found in its
\* place; those of the other tasks are still as task_init left them.
SavedStateIsCallers ==
  /\ pc \in {"args", "read", "back", "call", "leave", "return"}
       => saved[current] = [cpu EXCEPT !.esp = frame.esp]
  /\ \A t \in Live : t # head => saved[t] = StartRegisters

\* A program comes back from a system call with the registers it trapped with,
\* eax excepted, which has what the call returned: its stack pointer too, which
\* is not in the frame.
ReturnKeepsRegisters ==
  [][pc = "return" /\ pc' = "program" => cpu' = [pushed.cpu EXCEPT !.eax = res']]_vars

\* Every system call returns, whatever its number, unless it leaves the table or
\* was made on a stack in the program's own pages.
Returns == pc = "enter" ~> pc \in {"program", "wild", "lost"}

\* An interrupt is not noticed: a program, or the boot, that was interrupted,
\* between any two instructions and by any device, goes on with its registers
\* and in its address space ("Whatever the CPU was previous doing is then
\* resumed"). A program has the interrupt flag it was started with all its life,
\* unless it divides by zero.
ResumesWhereItWas ==
  [][/\ pc' = "program" /\ pc # "boot" /\ ~divided' => flag' = armed
     /\ pc = "resume" /\ pc' \in {"boot", "program"} =>
          /\ pc' = pushed.at /\ cpu' = pushed.cpu
          /\ IF pc' = "boot" THEN directory' = Kernel /\ seg' = "kernel"
             ELSE directory' = current /\ seg' = "user"]_vars

\* Once a program runs with interrupts on, the timer's interrupt is taken in the
\* end, however often the program enters the kernel and whatever other lines ask
\* and stay in service, unless the program leaves the kernel's control: it
\* divides by zero, causes an exception with an error code, leaves the table, or
\* traps on a stack of its own.
TicksServed ==
  0 \in pic.irr /\ pc = "program" /\ flag
    ~> (0 \notin pic.irr \/ divided \/ pc \in {"wild", "lost"})

\* The master has a line in service only until the handler has told it that the
\* interrupt is over: the cascade too, when the line was the slave's. What is left
\* in service is at the slave, which is not told.
MasterIsTold == pc # "no_interrupt" => pic.isr \subseteq Slaves
=============================================================================
