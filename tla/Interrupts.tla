----------------------------- MODULE Interrupts -----------------------------
(***************************************************************************)
(* Interrupts on the boot core: the descriptor tables and the two PICs     *)
(* (src/dev/ZKAKit/HALKit/AMD64/HalDescriptorLoader.cc), the stubs of      *)
(* HalInterruptAPI.asm, the handlers of HalCoreInterruptHandlerAMD64.cc    *)
(* and ke_stop (src/Stop.cc).  The stack is kept word by word, because a   *)
(* stub returns with iret from whatever is on top of it; the contents of   *)
(* the general registers are left out.  What the handlers do to a process *)
(* is the subject of ProcessTeam; here only the size of the team is kept,  *)
(* which decides what the timer handler and the fault handlers find.       *)
(***************************************************************************)
EXTENDS Integers, Sequences, FiniteSets

CONSTANTS
    Lines,       \* the lines of the PICs that are wired; those from 8 are the slave's
    Exceptions,  \* the exceptions the running code may raise
    SyscallMax,  \* kKernelMaxSystemCalls
    TeamLimit,   \* kSchedProcessLimitPerTeam, the slots of the process table
    MaxRaised    \* bound: how often the devices raise their lines

ASSUME InterruptsAssumption ==
    /\ \A l \in Lines : l \in 0..15
    /\ 0 \in Lines
    /\ \A v \in Exceptions : v \in 0..31
    /\ SyscallMax \in Nat \ {0} /\ TeamLimit \in Nat \ {0} /\ MaxRaised \in Nat

\* The exceptions the processor pushes an error code for, and those that
\* return to the instruction that raised them.
ErrorCodes == {8, 10, 11, 12, 13, 14, 17, 21, 29, 30}
Faults     == (0..31) \ {1, 2, 3, 4, 8, 18}

\* The stubs that call a handler; all others are IntNormal or IntExp, which
\* have the same body.
Called == {3, 6, 8, 13, 14, 32, 50, 51}
Plain  == (0..255) \ Called

VARIABLES
    tables,        \* the descriptor tables that are loaded
    irr, isr, imr, \* the PICs: requested, in service, masked
    raised,        \* how often lines were raised
    pc,            \* where the core is
    vec,           \* the vector of the last interrupt
    iflag,         \* the interrupt flag
    stack,         \* the words the interrupts have pushed
    fault,         \* the exception the next instruction of the code raises again
    team,          \* the processes Spawn has put into the table
    is_scheduling, \* the static of idt_handle_scheduler
    hooks,         \* kSyscalls: "none", "null" (hooked, no procedure) or "proc"
    served,        \* the last system call: its index, and whether a procedure ran
    stopped        \* history: ke_stop was called to stop the kernel

intVars == <<tables, irr, isr, imr, raised, pc, vec, iflag, stack, fault, team,
             is_scheduling, hooks, served, stopped>>
picVars == <<irr, isr, imr, raised>>

NoVector == -1
NoServed == [index |-> NoVector, ran |-> FALSE]

InterruptsInit ==
    /\ tables = {}
    /\ irr = {} /\ isr = {} /\ imr \in SUBSET Lines /\ raised = 0
    /\ pc = "run" /\ vec = NoVector /\ iflag = FALSE
    /\ stack = <<>> /\ fault = NoVector
    /\ team = 0
    /\ is_scheduling = FALSE
    /\ hooks \in [0 .. SyscallMax - 1 -> {"none", "null", "proc"}]
    /\ served = NoServed
    /\ stopped = FALSE

\* hal_clear_irq_mask: a number from 8 on goes to the second PIC, less 8; the
\* timer passes its vector, 32, so the bit is past the eight of the register.
Unmasked(mask, irql) == IF irql < 8 THEN mask \ {irql}
                        ELSE IF irql - 8 < 8 THEN mask \ {irql} ELSE mask

\* hal_load_idt: the initialisation words clear the masks of both PICs.
PicsKept(mask) == mask
PicsReset(mask) == {}

\* Run asks Array::Empty, which is true when the table has a process. The
\* current process is another matter: Spawn never makes its process the current
\* one; only the one it assigns behind the table's last slot overwrites it.
TeamHasProcess    == team > 0
HasCurrentProcess == team > TeamLimit

\* GDTLoader::Load and hal_reload_segments, which jumps to hal_real_init; that
\* spawns the process of the kernel, if there is memory for it.
KernelProcess == {0, 1}

LoadGDT ==
    /\ tables = {}
    /\ tables' = {"GDT"}
    /\ team' \in KernelProcess
    /\ UNCHANGED <<picVars, pc, vec, iflag, stack, fault, is_scheduling, hooks, served, stopped>>

\* IDTLoader::Load, with hal_enable_pit, which then opens no line.
LoadIDT ==
    /\ tables = {"GDT"}
    /\ tables' = {"GDT", "IDT"}
    /\ imr' = Unmasked(PicsReset(imr), 32)
    /\ isr' = {}
    /\ iflag' = TRUE
    /\ UNCHANGED <<irr, raised, pc, vec, stack, fault, team, is_scheduling, hooks,
                   served, stopped>>

Up == "IDT" \in tables

\* UserProcessScheduler::Spawn takes the next slot; the one past the last one
\* it takes as well, and refuses the process after that.
Spawn ==
    /\ Up /\ pc = "run" /\ fault = NoVector
    /\ team <= TeamLimit
    /\ team' = team + 1
    /\ UNCHANGED <<tables, picVars, pc, vec, iflag, stack, fault, is_scheduling, hooks,
                   served, stopped>>

\* A device raises its line.
Raise(l) ==
    /\ raised < MaxRaised
    /\ irr' = irr \cup {l}
    /\ raised' = raised + 1
    /\ UNCHANGED <<tables, isr, imr, pc, vec, iflag, stack, fault, team, is_scheduling,
                   hooks, served, stopped>>

\* The words of an interrupt, and the gate (kInterruptGate), which turns the
\* interrupt flag off, as does the first instruction of every stub.
Pushed(v) == <<"ss", "rsp", iflag, "cs", pc>> \o (IF v \in ErrorCodes THEN <<"code">> ELSE <<>>)
GateIF == FALSE

Enter(v) ==
    /\ stack' = stack \o Pushed(v)
    /\ pc' = "entry" /\ vec' = v /\ iflag' = GateIF

\* The lines that come before line l: IRQ 2 leads to the slave.
Rank(l)      == IF l < 8 THEN 8 * l ELSE 16 + (l - 8)
Ahead(l, S)  == \E k \in S : Rank(k) <= Rank(l)

Deliver(l) ==
    /\ Up /\ iflag /\ pc \in {"run", "halt", "sched"}
    /\ l \in irr \ imr
    /\ ~Ahead(l, isr) /\ ~Ahead(l, (irr \ imr) \ {l})
    /\ irr' = irr \ {l} /\ isr' = isr \cup {l}
    /\ Enter(32 + l)
    /\ UNCHANGED <<tables, imr, raised, fault, team, is_scheduling, hooks, served, stopped>>

\* The running code raises an exception, or runs into the same one again.
Raises(v) ==
    /\ Up /\ pc = "run"
    /\ fault \in {NoVector, v}
    /\ Enter(v)
    /\ fault' = IF v \in Faults THEN v ELSE NoVector
    /\ UNCHANGED <<tables, picVars, team, is_scheduling, hooks, served, stopped>>

\* int 50 and int 51, with the index in r8.
Calls(v, index) ==
    /\ Up /\ pc = "run" /\ fault = NoVector
    /\ v \in {50, 51}
    /\ Enter(v)
    /\ served' = [index |-> index, ran |-> FALSE]
    /\ UNCHANGED <<tables, picVars, fault, team, is_scheduling, hooks, stopped>>

\* The syscall instruction of the system call library: the register with its
\* target is loaded with bytes of mp_system_call_handler, not its address (and
\* the handler would return to a register it pushed).
FastCall ==
    /\ Up /\ pc = "run" /\ fault = NoVector
    /\ pc' = "lost" /\ vec' = NoVector
    /\ UNCHANGED <<tables, picVars, iflag, stack, fault, team, is_scheduling, hooks,
                   served, stopped>>

\* Code that is lost faults at the latest when a selector is refused.
LostFaults ==
    /\ pc = "lost"
    /\ Enter(13)
    /\ UNCHANGED <<tables, picVars, fault, team, is_scheduling, hooks, served, stopped>>

\* Every stub first ends the interrupt at both PICs, whatever it is for.
First(S) == {l \in S : \A k \in S : Rank(l) <= Rank(k)}
EndOfInterrupt(S) ==
    (S \ First({l \in S : l < 8})) \ First({l \in S : l >= 8})

Stub ==
    /\ pc = "entry"
    /\ isr' = EndOfInterrupt(isr)
    /\ \/ vec \in Plain /\ pc' = "iret" /\ UNCHANGED stack
       \/ vec \in Called /\ pc' = "handler" /\ stack' = Append(stack, "rax")
    /\ UNCHANGED <<tables, irr, imr, raised, vec, iflag, fault, team, is_scheduling, hooks,
                   served, stopped>>

\* pop rax, then sti (which takes effect after the iret).
Returned(s) == SubSeq(s, 1, Len(s) - 1)

\* ke_stop draws, then halts for ever; nothing turns the interrupts off.
ke_stop ==
    /\ pc' = "halt" /\ stopped' = TRUE
    /\ UNCHANGED stack

\* idt_handle_gpf, pf, generic and ud: without a current process the kernel
\* stops at once; else the process is frozen, its Crash does nothing then, and
\* the kernel stops as well.
HandleFault ==
    /\ pc = "handler" /\ vec \in {6, 8, 13, 14}
    /\ ke_stop
    /\ UNCHANGED <<tables, picVars, vec, iflag, fault, team, is_scheduling, hooks, served>>

\* idt_handle_breakpoint: the current process is frozen, and the code goes on;
\* without one, as after every normal start, the kernel stops.
HandleBreakpoint ==
    /\ pc = "handler" /\ vec = 3
    /\ \/ /\ ~HasCurrentProcess /\ ke_stop
       \/ /\ HasCurrentProcess
          /\ pc' = "iret" /\ stack' = Returned(stack) /\ UNCHANGED stopped
    /\ UNCHANGED <<tables, picVars, vec, iflag, fault, team, is_scheduling, hooks, served>>

\* idt_handle_scheduler up to Run: a set flag is waited for, 100000 times.
HandleScheduler ==
    /\ pc = "handler" /\ vec = 32
    /\ is_scheduling' = TRUE
    /\ pc' = "sched"
    /\ UNCHANGED <<tables, picVars, vec, iflag, stack, fault, team, hooks, served, stopped>>

\* Run leaves at once when the team has a process; with none it counts down
\* the time of a null process in every slot, and leaves if page zero is mapped ...
RunReturns ==
    /\ pc = "sched"
    /\ is_scheduling' = FALSE
    /\ pc' = "iret" /\ stack' = Returned(stack)
    /\ UNCHANGED <<tables, picVars, vec, iflag, fault, team, hooks, served, stopped>>

\* ... and faults if it is not.
RunFaults ==
    /\ pc = "sched" /\ ~TeamHasProcess
    /\ Enter(14)
    /\ UNCHANGED <<tables, picVars, fault, team, is_scheduling, hooks, served, stopped>>

\* hal_system_call_enter and hal_kernel_call_enter.
Count == Cardinality({i \in DOMAIN hooks : hooks[i] # "none"})
InTable(index) == index < Count

HandleCall ==
    /\ pc = "handler" /\ vec \in {50, 51}
    /\ served' = [served EXCEPT !.ran = InTable(served.index) /\ hooks[served.index] = "proc"]
    /\ pc' = "iret" /\ stack' = Returned(stack)
    /\ UNCHANGED <<tables, picVars, vec, iflag, fault, team, is_scheduling, hooks, stopped>>

\* iret: instruction pointer, selector, flags, stack pointer and segment.
Top == stack[Len(stack)]

Iret ==
    /\ pc = "iret"
    /\ stack' = SubSeq(stack, 1, Len(stack) - 5)
    /\ IF Top \in {"run", "halt"} THEN pc' = Top /\ iflag' = stack[Len(stack) - 2]
                                  ELSE pc' = "lost" /\ UNCHANGED iflag
    /\ UNCHANGED <<tables, picVars, vec, fault, team, is_scheduling, hooks, served, stopped>>

\* The kernel stops outside of a handler (a failed check, a corrupt heap).
StopInKernel ==
    /\ Up /\ pc = "run" /\ fault = NoVector
    /\ ke_stop
    /\ UNCHANGED <<tables, picVars, vec, iflag, fault, team, is_scheduling, hooks, served>>

\* What the core does by itself once it is in a stub, a handler or lost.
Proceed == \/ Stub \/ HandleFault \/ HandleBreakpoint \/ HandleScheduler
           \/ RunReturns \/ RunFaults \/ HandleCall \/ Iret \/ LostFaults

Again == \E v \in Exceptions : fault = v /\ Raises(v)

InterruptsNext ==
    \/ LoadGDT \/ LoadIDT \/ Spawn \/ FastCall
    \/ \E l \in Lines : Raise(l) \/ Deliver(l)
    \/ \E v \in Exceptions : Raises(v)
    \/ \E v \in {50, 51}, index \in 0 .. SyscallMax : Calls(v, index)
    \/ StopInKernel
    \/ Proceed
-----------------------------------------------------------------------------
\* The type invariant: at most three interrupts are on the stack at once.
InterruptsTypeOK ==
    /\ irr \subseteq Lines /\ isr \subseteq Lines /\ imr \subseteq Lines
    /\ pc \in {"run", "halt", "lost", "entry", "handler", "sched", "iret"}
    /\ Len(stack) <= 3 * 7
    /\ vec \in {NoVector} \cup 0..255
    /\ iflag \in BOOLEAN /\ is_scheduling \in BOOLEAN /\ stopped \in BOOLEAN
    /\ team \in 0 .. TeamLimit + 1

\* An interrupt returns to the code it interrupted, with the stack as it was.
\* The stubs leave an error code in place, so it is lost only where the
\* processor pushes one for a vector that has no handler of its own, or by a
\* syscall instruction.
ReturnsHome ==
    /\ pc = "run" => stack = <<>>
    /\ pc = "lost" => vec \in (ErrorCodes \ Called) \cup {NoVector}

\* No line is in service when a handler or other code runs: the stub has
\* ended the interrupt, so that it and every later line can come again.
NothingInService == pc # "entry" => isr = {}

\* The timer handler never finds is_scheduling set: nothing interrupts it and
\* a fault in it stops the kernel, so its wait for the flag is never entered.
SchedulingAlone == pc = "handler" /\ vec = 32 => ~is_scheduling

\* If the hooked calls are the first ones of the table, each of them that has
\* a procedure runs it; the bound is the number of hooked calls, so a table
\* with holes loses its last ones.
CallsServed ==
    \A i \in DOMAIN hooks :
        /\ hooks[i] = "proc" /\ \A j \in 0..i : hooks[j] # "none"
        /\ served.index = i /\ pc = "iret" /\ vec \in {50, 51}
        => served.ran

\* A raised line is delivered, whatever mask the firmware left, unless the
\* kernel has stopped in a handler.
LinesDelivered ==
    \A l \in Lines : Up /\ l \in irr ~> l \notin irr \/ (stopped /\ ~iflag)

\* Once an exception with a handler, or one with an error code, is raised, the
\* kernel stops.
FaultStops == pc = "entry" /\ vec \in {6} \cup ErrorCodes ~> stopped

\* A kernel that has stopped never goes back to the code it ran.
StopHolds == [][stopped => pc' # "run"]_intVars
=============================================================================
