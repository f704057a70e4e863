------------------------------ MODULE MCMachine -----------------------------
(***************************************************************************)
(* The hardware threads and the interrupts of the boot core, one of the    *)
(* two at a time: the other one rests in an initial state.                 *)
(***************************************************************************)
EXTENDS HardwareThreads, Interrupts

VARIABLE subject   \* the component this behaviour is about

vars == <<subject, threadVars, intVars>>

Threads(A) == subject = "threads" /\ A /\ UNCHANGED <<subject, intVars>>
Core(A)    == subject = "interrupts" /\ A /\ UNCHANGED <<subject, threadVars>>

\* What rests has one value, given before the component's own Init is asked.
Init ==
    /\ subject \in {"threads", "interrupts"}
    /\ ThreadsInit
    /\ \/ subject = "interrupts"
       \/ subject # "interrupts" /\ imr = {} /\ hooks = [i \in 0 .. SyscallMax - 1 |-> "none"]
    /\ InterruptsInit

Next == Threads(ThreadsNext) \/ Core(InterruptsNext)

\* A call of Switch goes on, but nobody has to make one; the core executes its
\* stubs, its handlers and the faulting instruction, and takes the lines it can.
Fairness ==
    /\ WF_vars(Threads(GoOn))
    /\ WF_vars(Core(Proceed)) /\ WF_vars(Core(Again))
    /\ \A l \in Lines : SF_vars(Core(Deliver(l)))

Spec == Init /\ [][Next]_vars /\ Fairness
-----------------------------------------------------------------------------
\* Every variable of the two components has its type.
TypesOK == ThreadsTypeOK /\ InterruptsTypeOK

\* A core keeps the time of its own process and finds its context whatever
\* attempts of others fail (UserProcessHelper::Switch); a stub returns to the
\* code it interrupted with no line in service, the scheduler is never
\* entered twice, and a hooked system call runs (HalInterruptAPI.asm).
CoresSound ==
    /\ PTimeMatches /\ ContextFound
    /\ ReturnsHome /\ NothingInService /\ SchedulingAlone /\ CallsServed

\* A call of Switch ends (UserProcessScheduler.cc:528), raised lines are
\* delivered, and a fault stops the kernel for good (Stop.cc).
CoresProgress == SwitchEnds /\ LinesDelivered /\ FaultStops /\ StopHolds
=============================================================================
