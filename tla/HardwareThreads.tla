--------------------------- MODULE HardwareThreads --------------------------
(***************************************************************************)
(* The hardware threads (src/dev/ZKAKit/src/HardwareThreadScheduler.cc and *)
(* its header), the switch of a process onto them (UserProcessHelper::     *)
(* Switch) and the process control blocks of HALKit/AMD64/                 *)
(* HalCoreScheduler.cc.  Switch visits the cores one after the other and   *)
(* asks for the capacity of the list before each of them; one kernel       *)
(* thread calls it, because the timer handler runs with interrupts off on  *)
(* the boot core.  Switch and Wake are operations that the kernel offers   *)
(* to its callers: Run leaves before it reaches its switch.                *)
(*                                                                         *)
(* A core is named by a Ref<HardwareThread*>, and the id of the current    *)
(* process is written through a Ref<PID>; both keep the address of a copy  *)
(* on a stack that is gone when they are used.  The copy may still be as   *)
(* it was, or it is another word: a null one, or one that faults or leads  *)
(* Switch to memory that is no core.  A caller that uses such a word is    *)
(* "astray": what it overwrites from then on is not followed.              *)
(***************************************************************************)
EXTENDS Integers, FiniteSets, FiniteSetsExt

CONSTANTS
    kMaxAPInsideSched,          \* the cores in the list
    kSchedProcessLimitPerTeam,  \* the process control blocks
    PTimes                      \* the times a process may be given (Affinity)

ASSUME ThreadsAssumption ==
    /\ kMaxAPInsideSched \in Nat \ {0}
    /\ kSchedProcessLimitPerTeam \in Nat \ {0}
    /\ IsFiniteSet(PTimes) /\ PTimes # {}
    /\ \A t \in PTimes : t \in Nat

Longest == Max(PTimes)
Cores == 0 .. kMaxAPInsideSched - 1
\* Spawn hands out the ids up to the limit itself.
PIDs  == 0 .. kSchedProcessLimitPerTeam
NoPID == -1

VARIABLES
    fKind, fWakeup, fBusy, fPTime, fSourcePID,   \* the HardwareThread objects
    busy_timer,   \* the static of IsBusy, one for all cores
    blocks,       \* kProcessBlocks: the process whose frame each block holds
    switch,       \* the call of UserProcessHelper::Switch in progress
    caller,       \* "runs", or "hung": it spins in mp_hang_thread, or "astray"
    granted       \* history: the time each core was given with its process

threadVars == <<fKind, fWakeup, fBusy, fPTime, fSourcePID, busy_timer, blocks,
                switch, caller, granted>>
coreVars == <<fKind, fWakeup, fBusy, fPTime, fSourcePID>>

NoSwitch == [pid |-> NoPID, PTime |-> 0, sound |-> FALSE, index |-> 0]

ThreadsInit ==
    /\ fKind = [c \in Cores |-> "kAPStandard"]
    /\ fWakeup = [c \in Cores |-> FALSE]
    /\ fBusy = [c \in Cores |-> FALSE]
    /\ fPTime = [c \in Cores |-> 0]
    /\ fSourcePID = [c \in Cores |-> NoPID]
    /\ busy_timer = 0
    /\ blocks = [b \in 0 .. kSchedProcessLimitPerTeam - 1 |-> NoPID]
    /\ switch = NoSwitch
    /\ caller = "runs"
    /\ granted = [c \in Cores |-> 0]

\* HardwareThread::operator bool, of which Array::Count counts the trues.
Usable(c) == fSourcePID[c] # NoPID /\ ~fBusy[c]

\* Array::Empty answers whether the array counts an element.
Capacity == IF \E c \in Cores : Usable(c) THEN 0 ELSE kMaxAPInsideSched

\* operator[]: the first core becomes the boot core whenever it is asked for.
KindAt(c) == IF c = 0 /\ fKind[c] # "kAPSystemReserved" THEN "kAPBoot" ELSE fKind[c]

\* IsBusy compares the common counter with the time of the process that is
\* to be switched in: Switch has stored it in fPTime by then.
Expired == busy_timer > switch.PTime
TimerAskedOn == busy_timer + 1
TimerAsked == (IF Expired THEN 0 ELSE busy_timer) + 1
BusyAsked(c) == fBusy[c] /\ ~Expired

\* fPTime once a failed attempt is rolled back.
RollBackForgot(c) == switch.PTime
RollBack(c)       == fPTime[c]

\* UserProcessHelper::Switch begins; a null or foreign image, a null stack or
\* a negative id leave it at once.
BeginSwitch(pid, time, sound) ==
    /\ caller = "runs" /\ switch = NoSwitch
    /\ switch' = [pid |-> pid, PTime |-> time, sound |-> sound, index |-> 0]
    /\ UNCHANGED <<coreVars, busy_timer, blocks, caller, granted>>

\* mp_register_process: the block of the process, by its id.
Block(pid) == pid % kSchedProcessLimitPerTeam

NextCore(c) == c + 1

\* The loop test holds for core c and operator[] has run.
Visit(c) ==
    /\ caller = "runs" /\ switch # NoSwitch
    /\ c = switch.index /\ c < Capacity
    /\ fKind' = [fKind EXCEPT ![c] = KindAt(c)]
    /\ switch' = [switch EXCEPT !.index = NextCore(c)]
    /\ UNCHANGED fWakeup

Rejected(c) ==
    /\ fPTime' = [fPTime EXCEPT ![c] = RollBack(c)]
    /\ UNCHANGED <<fSourcePID, blocks, granted>>

SkipBootCore(c) ==
    /\ Visit(c)
    /\ KindAt(c) \in {"kAPBoot", "kAPSystemReserved", "kInvalidAP"}
    /\ UNCHANGED <<fBusy, fPTime, fSourcePID, busy_timer, blocks, caller, granted>>

Runnable(c) == KindAt(c) \in {"kAPStandard", "kAPFallback"}

\* The pointer to the core is null: the core is skipped.
CoreLost(c) ==
    /\ Visit(c)
    /\ UNCHANGED <<fBusy, fPTime, fSourcePID, busy_timer, blocks, caller, granted>>

\* The pointer is another word; or the core may run code, and there is no
\* current process: the store of the id as that of the current process, which
\* otherwise goes to a dead copy and changes nothing, goes through a null Ref to
\* address 0, and faults unless that page is mapped.
GoAstray(c) ==
    /\ Visit(c)
    /\ caller' = "astray"
    /\ UNCHANGED <<fBusy, fPTime, fSourcePID, busy_timer, blocks, granted>>

Stored(c) == Visit(c) /\ Runnable(c) /\ UNCHANGED caller

SwitchAsleep(c) ==
    /\ Stored(c) /\ ~fWakeup[c]
    /\ Rejected(c)
    /\ UNCHANGED <<fBusy, busy_timer>>

SwitchBusy(c) ==
    /\ Stored(c) /\ fWakeup[c]
    /\ busy_timer' = TimerAsked
    /\ BusyAsked(c)
    /\ Rejected(c)
    /\ UNCHANGED fBusy

\* hal_check_stack refuses the frame after IsBusy has freed the core.
SwitchBadStack(c) ==
    /\ Stored(c) /\ fWakeup[c]
    /\ busy_timer' = TimerAsked
    /\ ~BusyAsked(c) /\ ~switch.sound
    /\ fBusy' = [fBusy EXCEPT ![c] = FALSE]
    /\ Rejected(c)

SwitchTaken(c) ==
    /\ Stored(c) /\ fWakeup[c]
    /\ busy_timer' = TimerAsked
    /\ ~BusyAsked(c) /\ switch.sound
    /\ fBusy' = [fBusy EXCEPT ![c] = TRUE]
    /\ fPTime' = [fPTime EXCEPT ![c] = switch.PTime]
    /\ fSourcePID' = [fSourcePID EXCEPT ![c] = switch.pid]
    /\ blocks' = [blocks EXCEPT ![Block(switch.pid)] = switch.pid]
    /\ granted' = [granted EXCEPT ![c] = switch.PTime]

\* Past the capacity: Switch answers false, whatever it did.
EndSwitch ==
    /\ caller = "runs" /\ switch # NoSwitch /\ switch.index >= Capacity
    /\ switch' = NoSwitch
    /\ UNCHANGED <<coreVars, busy_timer, blocks, caller, granted>>

\* HardwareThread::Wake: waking starts Run, which leaves at once, or faults if
\* the team has no process; putting a core to sleep hangs the caller instead.
Wake(c, wakeup) ==
    /\ caller = "runs" /\ switch = NoSwitch
    /\ wakeup # fWakeup[c]
    /\ fWakeup' = [fWakeup EXCEPT ![c] = wakeup]
    /\ caller' \in IF wakeup THEN {"runs", "astray"} ELSE {"hung"}
    /\ UNCHANGED <<fKind, fBusy, fPTime, fSourcePID, busy_timer, blocks, switch,
                   granted>>

VisitCore ==
    \E c \in Cores : \/ SkipBootCore(c) \/ GoAstray(c) \/ CoreLost(c)
                     \/ SwitchAsleep(c) \/ SwitchBusy(c)
                     \/ SwitchBadStack(c) \/ SwitchTaken(c)

ThreadsNext ==
    \/ \E pid \in PIDs, time \in PTimes, sound \in BOOLEAN : BeginSwitch(pid, time, sound)
    \/ VisitCore
    \/ EndSwitch
    \/ \E c \in Cores, wakeup \in BOOLEAN : Wake(c, wakeup)

\* What a call of Switch does by itself.
GoOn == VisitCore \/ EndSwitch
-----------------------------------------------------------------------------
\* The type invariant; the common counter of IsBusy never passes the longest
\* time by more than one, so it cannot overflow.
ThreadsTypeOK ==
    /\ fKind \in [Cores -> {"kAPStandard", "kAPBoot"}]
    /\ fWakeup \in [Cores -> BOOLEAN] /\ fBusy \in [Cores -> BOOLEAN]
    /\ fPTime \in [Cores -> PTimes \cup {0}]
    /\ fSourcePID \in [Cores -> PIDs \cup {NoPID}]
    /\ busy_timer \in 0 .. Longest + 1
    /\ blocks \in [0 .. kSchedProcessLimitPerTeam - 1 -> PIDs \cup {NoPID}]
    /\ switch.index \in 0 .. kMaxAPInsideSched
    /\ caller \in {"runs", "hung", "astray"}

\* The time a core keeps (fPTime) is the one it was given with its process:
\* an attempt of another process that fails, whichever way, leaves it alone
\* (the roll-back of UserProcessHelper::Switch), until a caller goes astray.
PTimeMatches == \A c \in Cores : fSourcePID[c] # NoPID => fPTime[c] = granted[c]

\* The process on a busy core still has its context: the block that
\* mp_get_current_context reads holds its frame, or that of the one process
\* whose id has the same remainder.
ContextFound ==
    \A c \in Cores : fBusy[c] =>
        LET b == blocks[fSourcePID[c] % kSchedProcessLimitPerTeam]
        IN  b = fSourcePID[c] \/ {b, fSourcePID[c]} = {0, kSchedProcessLimitPerTeam}

\* A call of Switch ends, although the capacity it asks for before each core
\* changes while it runs and a pointer to a core may be lost, or its caller goes
\* astray.
SwitchEnds == switch # NoSwitch ~> switch = NoSwitch \/ caller = "astray"
=============================================================================
