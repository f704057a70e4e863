---------------------------- MODULE ProcessTeam -----------------------------
(***************************************************************************)
(* The process team of the kernel (src/dev/ZKAKit/src/                     *)
(* UserProcessScheduler.cc): the process table, the count that hands out   *)
(* process ids, the current process, and the interrupt handlers that use   *)
(* them (HALKit/AMD64/HalCoreInterruptHandlerAMD64.cc).                    *)
(*                                                                         *)
(* A process is the address of its UserProcess object.  operator new is    *)
(* taken at its word: it returns an address no live object has, and may    *)
(* return that of a deleted one.  mm_is_valid_heap is taken as it is: it   *)
(* refuses every object, so ~Ref, which the handlers run on their copy of  *)
(* the current process, deletes nothing.  The kernel runs on the boot core *)
(* with interrupts that do not return into a handler, so a handler is one  *)
(* step.                                                                   *)
(***************************************************************************)
EXTENDS Integers, FiniteSets

CONSTANTS
    Procs,       \* addresses of UserProcess objects
    NoProc,      \* nullptr
    Limit,       \* kSchedProcessLimitPerTeam
    RemoveIds,   \* the ids Remove is called with
    MaxUnder     \* bound: how far exits of deleted processes drive the count below 0

ASSUME TeamAssumption ==
    /\ Limit \in Nat \ {0}
    /\ NoProc \notin Procs
    /\ RemoveIds \subseteq Nat
    /\ MaxUnder \in Nat

VARIABLES
    mProcessList,      \* the table
    mCurrentProcess,   \* the word right behind the table
    mProcessCount,     \* the next process id
    proc,              \* the UserProcess objects
    halted,            \* ke_stop was called
    ret                \* what the last call returned

vars == <<mProcessList, mCurrentProcess, mProcessCount, proc, halted, ret>>

Slots    == 0..(Limit - 1)
Statuses == {"kStarting", "kRunning", "kFrozen", "kFinished"}

kSchedInvalidPID == -1

Live     == {p \in Procs : proc[p].mem = "live"}
Assigned == {i \in Slots : mProcessList[i] # NoProc}

\* Array::Count: the entries that are not null.
Count == Cardinality(Assigned)

\* Array::Empty says whether the array has an entry.
Empty == Count > 0

Init ==
    /\ mProcessList = [i \in Slots |-> NoProc]
    /\ mCurrentProcess = NoProc
    /\ mProcessCount = 0
    /\ proc = [p \in Procs |-> [mem |-> "unused", status |-> "kFinished",
                                pid |-> kSchedInvalidPID]]
    /\ halted = FALSE
    /\ ret = [op |-> "none", id |-> 0, ok |-> FALSE]

-----------------------------------------------------------------------------
(***************************************************************************)
(* Process creation                                                        *)
(***************************************************************************)

\* operator delete: the object keeps its last contents.
Deleted(r) == [r EXCEPT !.mem = "freed"]

Started(pid) == [mem |-> "live", status |-> "kStarting", pid |-> pid]

AssignModulo(pid, p) ==
    /\ mProcessList' = [i \in Slots |-> IF i = pid % Limit THEN p ELSE mProcessList[i]]
    /\ UNCHANGED mCurrentProcess

AssignShifted(pid, p) ==
    /\ mProcessList' = [i \in Slots |-> IF i = pid + 1 THEN p ELSE mProcessList[i]]
    /\ mCurrentProcess' = IF pid + 1 = Limit THEN p ELSE mCurrentProcess

\* mProcessList.Assign(pid, process) does not check pid: one past the end is
\* mCurrentProcess, below zero is memory in front of the table.
Assign(pid, p) ==
    /\ mProcessList' = [i \in Slots |-> IF i = pid THEN p ELSE mProcessList[i]]
    /\ mCurrentProcess' = IF pid = Limit THEN p ELSE mCurrentProcess

SpawnUnlimited(p) ==
    LET pid == mProcessCount IN
    /\ mProcessCount' = mProcessCount + 1
    /\ proc' = [proc EXCEPT ![p] = IF pid = kSchedInvalidPID
                                     THEN Deleted(Started(pid)) ELSE Started(pid)]
    /\ Assign(pid, p)
    /\ ret' = [op |-> "spawn", id |-> pid, ok |-> pid # kSchedInvalidPID]

\* Spawn, and the caller's delete when it returns kProcessInvalidID.
Spawn(p) ==
    LET pid == mProcessCount IN
    IF pid > Limit
      THEN /\ proc' = [proc EXCEPT ![p] = [mem |-> "freed", status |-> "kFinished",
                                           pid |-> kSchedInvalidPID]]
           /\ ret' = [op |-> "spawn", id |-> kSchedInvalidPID, ok |-> FALSE]
           /\ UNCHANGED <<mProcessList, mCurrentProcess, mProcessCount>>
      ELSE /\ mProcessCount' = mProcessCount + 1
           /\ proc' = [proc EXCEPT ![p] = IF pid = kSchedInvalidPID
                                            THEN Deleted(Started(pid)) ELSE Started(pid)]
           /\ Assign(pid, p)
           /\ ret' = [op |-> "spawn", id |-> pid, ok |-> pid # kSchedInvalidPID]

\* rtl_create_process: a new object, then Spawn.
CreateProcess(p) ==
    /\ ~halted
    /\ p \notin Live
    /\ Spawn(p)
    /\ UNCHANGED halted

-----------------------------------------------------------------------------
(***************************************************************************)
(* The end of a process                                                    *)
(***************************************************************************)

ExitKeepsCount(p) ==
    /\ proc' = [proc EXCEPT ![p] = [mem |-> "freed", status |-> "kFinished", pid |-> 0]]
    /\ UNCHANGED <<mProcessCount, mProcessList, mCurrentProcess>>

\* UserProcess::Exit ends with "delete this"; the table keeps the pointer.
Exit(p) ==
    /\ proc' = [proc EXCEPT ![p] = [mem |-> "freed", status |-> "kFinished", pid |-> 0]]
    /\ mProcessCount > -MaxUnder
    /\ mProcessCount' = mProcessCount - 1
    /\ UNCHANGED <<mProcessList, mCurrentProcess>>

\* The pointer Remove finds at an index that it has checked against Count.
At(i) == IF i \in Slots THEN mProcessList[i] ELSE mCurrentProcess

(***************************************************************************)
(* Remove: an id above Count is refused; any entry that is not null is     *)
(* exited, whether it is alive or not.  Exit through a null entry follows  *)
(* the pointers it reads from the first page and is taken to fault.        *)
(***************************************************************************)
Remove(i) ==
    /\ ~halted
    /\ halted' = (i <= Count /\ At(i) = NoProc)
    /\ ret' = [op |-> "remove", id |-> i, ok |-> i <= Count /\ At(i) # NoProc]
    /\ IF i <= Count /\ At(i) # NoProc
         THEN Exit(At(i))
         ELSE UNCHANGED <<mProcessList, mCurrentProcess, mProcessCount, proc>>

Wake(p, should_wakeup) ==
    /\ ~halted
    /\ p \in Live
    /\ proc' = [proc EXCEPT ![p].status = IF should_wakeup THEN "kRunning" ELSE "kFrozen"]
    /\ ret' = [op |-> "wake", id |-> proc[p].pid, ok |-> TRUE]
    /\ UNCHANGED <<mProcessList, mCurrentProcess, mProcessCount, halted>>

\* __zka_pure_call and the IPC checks: Crash exits a running process only.
\* Without a current process it reads the first page, or faults.
Crash ==
    /\ ~halted
    /\ ret' = [op |-> "crash", id |-> 0, ok |-> TRUE]
    /\ IF mCurrentProcess # NoProc /\ proc[mCurrentProcess].status = "kRunning"
         THEN Exit(mCurrentProcess)
         ELSE UNCHANGED <<mProcessList, mCurrentProcess, mProcessCount, proc>>
    /\ IF mCurrentProcess = NoProc THEN halted' \in BOOLEAN ELSE UNCHANGED halted

-----------------------------------------------------------------------------
(***************************************************************************)
(* Interrupts                                                              *)
(***************************************************************************)

Freeze ==
    proc' = IF mCurrentProcess = NoProc THEN proc
            ELSE [proc EXCEPT ![mCurrentProcess].status = "kFrozen"]

\* idt_handle_gpf, pf, math, generic and ud: freeze the current process,
\* Crash it (which a frozen process survives), stop.
Fault ==
    /\ ~halted
    /\ Freeze
    /\ halted' = TRUE
    /\ ret' = [op |-> "fault", id |-> 0, ok |-> FALSE]
    /\ UNCHANGED <<mProcessList, mCurrentProcess, mProcessCount>>

\* idt_handle_breakpoint
Breakpoint ==
    /\ ~halted
    /\ Freeze
    /\ halted' = (mCurrentProcess = NoProc)
    /\ ret' = [op |-> "breakpoint", id |-> 0, ok |-> TRUE]
    /\ UNCHANGED <<mProcessList, mCurrentProcess, mProcessCount>>

(***************************************************************************)
(* idt_handle_scheduler and mp_wakeup_thread: Run.  A team that has a      *)
(* process is left at once; in any other every entry of the loop is null   *)
(* and --process->PTime faults or hits the first page, Limit times.        *)
(***************************************************************************)
Run ==
    /\ ~halted
    /\ IF Empty
         THEN /\ ret' = [op |-> "run", id |-> 0, ok |-> FALSE]
              /\ UNCHANGED halted
         ELSE /\ ret' = [op |-> "run", id |-> Limit, ok |-> TRUE]
              /\ halted' \in BOOLEAN
    /\ UNCHANGED <<mProcessList, mCurrentProcess, mProcessCount, proc>>

\* The calls the kernel makes, and Wake, which is part of the process API.
KernelNext ==
    \/ \E p \in Procs : CreateProcess(p) \/ \E w \in BOOLEAN : Wake(p, w)
    \/ Crash \/ Fault \/ Breakpoint \/ Run

\* ... and Remove, which the scheduler offers and nothing calls yet.
Next == KernelNext \/ \E i \in RemoveIds : Remove(i)

KernelSpec == Init /\ [][KernelNext]_vars

Spec == Init /\ [][Next]_vars

-----------------------------------------------------------------------------
(***************************************************************************)
(* Properties                                                              *)
(***************************************************************************)

\* Every variable has its type; Spawn stops handing out ids one past the end of
\* the table, whatever exits in between.
TypeOK ==
    /\ mProcessList \in [Slots -> Procs \cup {NoProc}]
    /\ mCurrentProcess \in Procs \cup {NoProc}
    /\ mProcessCount \in (-MaxUnder)..(Limit + 1)
    /\ proc \in [Procs -> [mem : {"unused", "live", "freed"}, status : Statuses, pid : Int]]
    /\ halted \in BOOLEAN
    /\ ret \in [op : {"none", "spawn", "remove", "wake", "crash", "fault", "breakpoint", "run"},
                id : Int, ok : BOOLEAN]

\* As long as nothing removes a process, the count of Spawn is exact: the
\* entries below it are the live processes with these ids, the ones above it
\* are null, and only the process one past the end of the table, the current
\* one, ever comes and goes (Crash).
TeamExact ==
    /\ mProcessCount \in 0..(Limit + 1)
    /\ \A i \in Slots :
         IF i < mProcessCount
           THEN /\ mProcessList[i] \in Live
                /\ proc[mProcessList[i]].pid = i
           ELSE mProcessList[i] = NoProc
    /\ mProcessCount = Limit + 1 => /\ mCurrentProcess \in Live
                                    /\ proc[mCurrentProcess].pid = Limit
    /\ \A p \in Live : /\ proc[p].pid \in 0..(mProcessCount - 1)
                       /\ p = At(proc[p].pid)

\* No call of the kernel takes a process out of the table or puts another one
\* in its place.
SlotsStable ==
    [][\A i \in Assigned : mProcessList'[i] = mProcessList[i]]_vars

\* GetCurrentProcess names a process only once Spawn has run over the end of
\* the table: nothing else sets it, and the fault handlers rely on it.
CurrentByOverflow == mCurrentProcess # NoProc => Assigned = Slots

\* The table has no gaps and is filled at least up to the count, although ids
\* are handed out again after every exit: the only null entry that Remove can
\* reach is the one at Count itself.
NoGaps ==
    /\ \A i, j \in Slots : i < j /\ j \in Assigned => i \in Assigned
    /\ \A i \in Slots : i < mProcessCount => i \in Assigned
    /\ mProcessCount > Limit => mCurrentProcess # NoProc

-----------------------------------------------------------------------------
(***************************************************************************)
(* What the kernel's calls promise together.                               *)
(***************************************************************************)

\* The roster is read off the table and the member behind it, up to the count.
Roster ==
    INSTANCE ProcessRoster WITH
        roster  <- [i \in 1 .. mProcessCount |-> At(i - 1)],
        running <- {p \in Procs : proc[p].status = "kRunning"},
        stopped <- halted,
        answer  <- ret

\* Table, stale pointers, deleted objects and a count that is also the next id
\* come to one roster: the id that Spawn (UserProcessScheduler.cc:339) answers is
\* the place of the process for as long as it lives, nobody moves up, a process
\* that was deleted never runs, and a crash takes out the last of a full roster
\* or nobody.
ImplementsRoster == Roster!Spec

-----------------------------------------------------------------------------
(***************************************************************************)
(* The inductive invariants.                                               *)
(***************************************************************************)

\* Without Remove: a deleted process is never marked running, so Crash exits
\* the current process only while it is the one past the end of the table.
KernelInv ==
    /\ TypeOK
    /\ TeamExact
    /\ \A p \in Procs : proc[p].status = "kRunning" => p \in Live
    /\ mCurrentProcess \in Live => proc[mCurrentProcess].pid = Limit
    /\ mCurrentProcess # NoProc => mProcessCount >= Limit

TableInv == TypeOK /\ NoGaps /\ CurrentByOverflow
=============================================================================
