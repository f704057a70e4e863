------------------------- MODULE ProcessTeamProofs --------------------------
(***************************************************************************)
(* Proofs about ProcessTeam, for every size of the table.                  *)
(***************************************************************************)
EXTENDS ProcessTeam, TLAPS, SequenceTheorems, FiniteSetTheorems

\* The facts about the constants that every step needs.
LEMMA Constants ==
    /\ Limit \in Nat /\ Limit >= 1 /\ MaxUnder \in Nat /\ NoProc \notin Procs
    /\ RemoveIds \subseteq Nat
    /\ Slots = 0..(Limit - 1)
  BY TeamAssumption DEF Slots

\* The record types of the variables.
ProcType == [mem : {"unused", "live", "freed"}, status : Statuses, pid : Int]
RetType  == [op : {"none", "spawn", "remove", "wake", "crash", "fault", "breakpoint", "run"},
             id : Int, ok : BOOLEAN]

\* The parts of the type invariant.
LEMMA TypeParts ==
    TypeOK <=>
      /\ mProcessList \in [Slots -> Procs \cup {NoProc}]
      /\ mCurrentProcess \in Procs \cup {NoProc}
      /\ mProcessCount \in (-MaxUnder)..(Limit + 1)
      /\ proc \in [Procs -> ProcType]
      /\ halted \in BOOLEAN
      /\ ret \in RetType
  BY DEF TypeOK, ProcType, RetType

\* What Spawn does with an id that is not above the limit.
LEMMA SpawnEffect ==
    ASSUME TypeOK, NEW p \in Procs, Spawn(p), mProcessCount <= Limit
    PROVE  /\ mProcessCount' = mProcessCount + 1
           /\ mProcessList' = [i \in Slots |-> IF i = mProcessCount THEN p ELSE mProcessList[i]]
           /\ mCurrentProcess' = (IF mProcessCount = Limit THEN p ELSE mCurrentProcess)
           /\ \A q \in Procs : q # p => proc'[q] = proc[q]
           /\ proc' \in [Procs -> ProcType]
           /\ proc'[p].pid = mProcessCount /\ proc'[p].status = "kStarting"
           /\ mProcessCount >= 0 => proc'[p].mem = "live"
           /\ ret' \in RetType
  <1> USE Constants
  <1> DEFINE r == IF mProcessCount = kSchedInvalidPID
                    THEN Deleted(Started(mProcessCount)) ELSE Started(mProcessCount)
  <1>1. mProcessCount \in Int /\ ~(mProcessCount > Limit) /\ proc \in [Procs -> ProcType]
    BY TypeParts
  <1>2. /\ mProcessCount' = mProcessCount + 1
        /\ Assign(mProcessCount, p)
        /\ ret' = [op |-> "spawn", id |-> mProcessCount,
                   ok |-> mProcessCount # kSchedInvalidPID]
        /\ proc' = [proc EXCEPT ![p] = r]
    BY <1>1 DEF Spawn
  <1>3. /\ r \in ProcType
        /\ r.pid = mProcessCount /\ r.status = "kStarting"
        /\ mProcessCount >= 0 => r.mem = "live"
    BY <1>1 DEF Started, Deleted, ProcType, Statuses, kSchedInvalidPID
  <1>4. ret' \in RetType
    <2>1. (mProcessCount # kSchedInvalidPID) \in BOOLEAN
      OBVIOUS
    <2> QED
      BY <1>1, <1>2, <2>1 DEF RetType
  <1> HIDE DEF r
  <1>5. /\ \A q \in Procs : q # p => proc'[q] = proc[q]
        /\ proc'[p] = r
        /\ proc' \in [Procs -> ProcType]
    BY <1>1, <1>2, <1>3
  <1> QED
    BY <1>2, <1>3, <1>4, <1>5 DEF Assign

\* A refused Spawn.
LEMMA RefusedEffect ==
    ASSUME TypeOK, NEW p \in Procs, Spawn(p), ~(mProcessCount <= Limit)
    PROVE  /\ UNCHANGED <<mProcessList, mCurrentProcess, mProcessCount>>
           /\ \A q \in Procs : q # p => proc'[q] = proc[q]
           /\ proc' \in [Procs -> ProcType]
           /\ proc'[p].mem = "freed" /\ proc'[p].status = "kFinished"
           /\ ret' \in RetType
  <1> USE Constants
  <1>1. mProcessCount \in Int /\ mProcessCount > Limit /\ proc \in [Procs -> ProcType]
    BY TypeParts
  <1> DEFINE r == [mem |-> "freed", status |-> "kFinished", pid |-> kSchedInvalidPID]
  <1>2. /\ UNCHANGED <<mProcessList, mCurrentProcess, mProcessCount>>
        /\ proc' = [proc EXCEPT ![p] = r]
        /\ ret' = [op |-> "spawn", id |-> kSchedInvalidPID, ok |-> FALSE]
    BY <1>1 DEF Spawn
  <1>3. r \in ProcType /\ r.mem = "freed" /\ r.status = "kFinished"
    BY DEF ProcType, Statuses, kSchedInvalidPID
  <1>4. ret' \in RetType
    BY <1>2 DEF RetType, kSchedInvalidPID
  <1> HIDE DEF r
  <1> QED
    BY <1>1, <1>2, <1>3, <1>4

\* What Exit leaves of the process it deletes.
LEMMA ExitEffect ==
    ASSUME TypeOK, NEW p \in Procs, Exit(p)
    PROVE  /\ UNCHANGED <<mProcessList, mCurrentProcess>>
           /\ mProcessCount' = mProcessCount - 1
           /\ mProcessCount' \in (-MaxUnder)..(Limit + 1)
           /\ \A q \in Procs : q # p => proc'[q] = proc[q]
           /\ proc' \in [Procs -> ProcType]
           /\ proc'[p].mem = "freed" /\ proc'[p].status = "kFinished"
  <1> USE Constants
  <1> DEFINE r == [mem |-> "freed", status |-> "kFinished", pid |-> 0]
  <1>1. mProcessCount \in (-MaxUnder)..(Limit + 1) /\ proc \in [Procs -> ProcType]
    BY TypeParts
  <1>2. /\ UNCHANGED <<mProcessList, mCurrentProcess>>
        /\ mProcessCount' = mProcessCount - 1 /\ mProcessCount > -MaxUnder
        /\ proc' = [proc EXCEPT ![p] = r]
    BY DEF Exit
  <1>3. r \in ProcType /\ r.mem = "freed" /\ r.status = "kFinished"
    BY DEF ProcType, Statuses
  <1> HIDE DEF r
  <1> QED
    BY <1>1, <1>2, <1>3

\* Freeze and Wake change nothing but statuses.
LEMMA StatusEffect ==
    ASSUME TypeOK, NEW p \in Procs, NEW s \in Statuses, proc' = [proc EXCEPT ![p].status = s]
    PROVE  /\ proc' \in [Procs -> ProcType]
           /\ \A q \in Procs : proc'[q].mem = proc[q].mem /\ proc'[q].pid = proc[q].pid
           /\ \A q \in Procs : q # p => proc'[q] = proc[q]
           /\ proc'[p].status = s
  <1>1. proc \in [Procs -> ProcType]
    BY TypeParts
  <1>2. proc[p] \in ProcType
    BY <1>1
  <1> DEFINE r == [proc[p] EXCEPT !.status = s]
  <1>3. r = [mem |-> proc[p].mem, status |-> s, pid |-> proc[p].pid]
    BY <1>2 DEF ProcType
  <1>4. r \in ProcType /\ r.mem = proc[p].mem /\ r.pid = proc[p].pid /\ r.status = s
    BY <1>2, <1>3 DEF ProcType
  <1>5. proc' = [proc EXCEPT ![p] = r]
    BY <1>1
  <1> HIDE DEF r
  <1> QED
    BY <1>1, <1>4, <1>5

\* Freeze keeps the type of the objects and marks none of them running.
LEMMA FreezeEffect ==
    ASSUME TypeOK, Freeze
    PROVE  /\ proc' \in [Procs -> ProcType]
           /\ \A q \in Procs : proc'[q].mem = proc[q].mem /\ proc'[q].pid = proc[q].pid
           /\ \A q \in Procs : proc'[q].status = proc[q].status \/ proc'[q].status = "kFrozen"
  <1>1. CASE mCurrentProcess = NoProc
    BY <1>1, TypeParts DEF Freeze
  <1>2. CASE mCurrentProcess # NoProc
    <2>1. mCurrentProcess \in Procs /\ "kFrozen" \in Statuses
      BY <1>2, TypeParts DEF Statuses
    <2>2. proc' = [proc EXCEPT ![mCurrentProcess].status = "kFrozen"]
      BY <1>2 DEF Freeze
    <2> QED
      BY <2>1, <2>2, StatusEffect
  <1> QED
    BY <1>1, <1>2

-----------------------------------------------------------------------------
(***************************************************************************)
(* The calls that leave the table and the count alone.                     *)
(***************************************************************************)
Quiet ==
    /\ UNCHANGED <<mProcessList, mCurrentProcess, mProcessCount>>
    /\ proc' \in [Procs -> ProcType]
    /\ \A q \in Procs : proc'[q].mem = proc[q].mem /\ proc'[q].pid = proc[q].pid
    /\ \A q \in Procs : proc'[q].status = "kRunning" => proc[q].status = "kRunning" \/ q \in Live
    /\ halted' \in BOOLEAN
    /\ ret' \in RetType

\* Wake changes a status only.
LEMMA WakeQuiet ==
    ASSUME TypeOK, NEW p \in Procs, NEW w \in BOOLEAN, Wake(p, w)
    PROVE  Quiet
  <1> DEFINE s == IF w THEN "kRunning" ELSE "kFrozen"
  <1>1. s \in Statuses
    BY DEF Statuses
  <1>2. /\ proc' = [proc EXCEPT ![p].status = s] /\ p \in Live
        /\ UNCHANGED <<mProcessList, mCurrentProcess, mProcessCount, halted>>
        /\ ret' = [op |-> "wake", id |-> proc[p].pid, ok |-> TRUE]
    BY DEF Wake
  <1>3. proc[p] \in ProcType /\ halted \in BOOLEAN
    BY TypeParts
  <1>4. ret' \in RetType
    BY <1>2, <1>3 DEF RetType, ProcType
  <1> HIDE DEF s
  <1> QED
    BY <1>1, <1>2, <1>3, <1>4, StatusEffect DEF Quiet

\* Fault and Breakpoint change statuses only.
LEMMA FaultQuiet ==
    ASSUME TypeOK, Fault \/ Breakpoint
    PROVE  Quiet
  <1>1. Freeze /\ UNCHANGED <<mProcessList, mCurrentProcess, mProcessCount>>
    BY DEF Fault, Breakpoint
  <1>2. halted' \in BOOLEAN
    <2>1. (mCurrentProcess = NoProc) \in BOOLEAN
      OBVIOUS
    <2> QED
      BY <2>1, Zenon DEF Fault, Breakpoint
  <1>3. ret' \in RetType
    <2>1. CASE Fault
      <3>1. ret' = [op |-> "fault", id |-> 0, ok |-> FALSE]
        BY <2>1 DEF Fault
      <3> QED
        BY <3>1 DEF RetType
    <2>2. CASE Breakpoint
      <3>1. ret' = [op |-> "breakpoint", id |-> 0, ok |-> TRUE]
        BY <2>2 DEF Breakpoint
      <3> QED
        BY <3>1 DEF RetType
    <2> QED
      BY <2>1, <2>2
  <1> QED
    BY <1>1, <1>2, <1>3, FreezeEffect DEF Quiet

\* Run changes no process.
LEMMA RunQuiet ==
    ASSUME TypeOK, Run
    PROVE  Quiet
  <1>1. /\ UNCHANGED <<mProcessList, mCurrentProcess, mProcessCount, proc>>
        /\ halted' \in BOOLEAN /\ ret' \in RetType
    <2>1. CASE Empty
      <3>1. /\ ret' = [op |-> "run", id |-> 0, ok |-> FALSE] /\ halted' = halted
            /\ UNCHANGED <<mProcessList, mCurrentProcess, mProcessCount, proc>>
        BY <2>1 DEF Run
      <3>2. halted \in BOOLEAN
        BY TypeParts
      <3> QED
        BY <3>1, <3>2 DEF RetType
    <2>2. CASE ~Empty
      <3>1. /\ ret' = [op |-> "run", id |-> Limit, ok |-> TRUE] /\ halted' \in BOOLEAN
            /\ UNCHANGED <<mProcessList, mCurrentProcess, mProcessCount, proc>>
        BY <2>2 DEF Run
      <3>2. Limit \in Int
        BY Constants
      <3> QED
        BY <3>1, <3>2 DEF RetType
    <2> QED
      BY <2>1, <2>2
  <1> QED
    BY <1>1, TypeParts DEF Quiet

\* A Crash that finds nothing running.
LEMMA CrashQuiet ==
    ASSUME TypeOK, Crash,
           ~(mCurrentProcess # NoProc /\ proc[mCurrentProcess].status = "kRunning")
    PROVE  Quiet
  <1>1. /\ UNCHANGED <<mProcessList, mCurrentProcess, mProcessCount, proc>>
        /\ halted' \in BOOLEAN /\ ret' \in RetType
    BY TypeParts DEF Crash, RetType
  <1> QED
    BY <1>1, TypeParts DEF Quiet

\* Neither does a stuttering step.
LEMMA StutterQuiet ==
    ASSUME TypeOK, UNCHANGED vars
    PROVE  Quiet
  BY TypeParts DEF Quiet, vars

-----------------------------------------------------------------------------
(***************************************************************************)
(* Spec: the table has no gaps.                                            *)
(***************************************************************************)

\* The empty table has no gaps.
LEMMA TableInit == Init => TableInv
  <1> SUFFICES ASSUME Init PROVE TableInv
    OBVIOUS
  <1> USE Constants
  <1>1. /\ mProcessList = [i \in Slots |-> NoProc] /\ mCurrentProcess = NoProc
        /\ mProcessCount = 0 /\ halted = FALSE
        /\ proc = [p \in Procs |-> [mem |-> "unused", status |-> "kFinished",
                                    pid |-> kSchedInvalidPID]]
        /\ ret = [op |-> "none", id |-> 0, ok |-> FALSE]
    BY DEF Init
  <1>2. proc \in [Procs -> ProcType]
    BY <1>1 DEF ProcType, Statuses, kSchedInvalidPID
  <1>3. ret \in RetType
    BY <1>1 DEF RetType
  <1>4. TypeOK
    <2>1. mProcessList \in [Slots -> Procs \cup {NoProc}]
      BY <1>1
    <2>2. mCurrentProcess \in Procs \cup {NoProc} /\ mProcessCount \in (-MaxUnder)..(Limit + 1)
      BY <1>1
    <2>3. halted \in BOOLEAN
      BY <1>1
    <2> QED
      BY <1>2, <1>3, <2>1, <2>2, <2>3, TypeParts
  <1>5. NoGaps /\ CurrentByOverflow
    BY <1>1 DEF NoGaps, CurrentByOverflow, Assigned
  <1> QED
    BY <1>4, <1>5 DEF TableInv

\* The type invariant after a step, from the types of the parts.
LEMMA TypeNext ==
    ASSUME mProcessList' \in [Slots -> Procs \cup {NoProc}],
           mCurrentProcess' \in Procs \cup {NoProc},
           mProcessCount' \in (-MaxUnder)..(Limit + 1),
           proc' \in [Procs -> ProcType],
           halted' \in BOOLEAN,
           ret' \in RetType
    PROVE  TypeOK'
  BY DEF TypeOK, ProcType, RetType, Slots, Statuses

\* A step that only changes statuses keeps the table.
LEMMA QuietTable == TableInv /\ Quiet => TableInv'
  <1> SUFFICES ASSUME TableInv, Quiet PROVE TableInv'
    OBVIOUS
  <1>1. TypeOK'
    BY TypeParts, TypeNext DEF TableInv, Quiet
  <1>2. Assigned' = Assigned
    BY DEF Quiet, Assigned, Slots
  <1>3. NoGaps' /\ CurrentByOverflow'
    BY <1>2 DEF TableInv, NoGaps, CurrentByOverflow, Quiet, Slots
  <1> QED
    BY <1>1, <1>3 DEF TableInv

\* Creating a process keeps the types.
LEMMA CreateType ==
    ASSUME TypeOK, NEW p \in Procs, CreateProcess(p)
    PROVE  TypeOK'
  <1> USE Constants
  <1>1. Spawn(p) /\ halted' = halted
    BY DEF CreateProcess
  <1>2. CASE mProcessCount <= Limit
    <2>1. mProcessList' \in [Slots -> Procs \cup {NoProc}]
      BY <1>1, <1>2, SpawnEffect, TypeParts
    <2>2. mProcessCount' \in (-MaxUnder)..(Limit + 1)
      BY <1>1, <1>2, SpawnEffect, TypeParts
    <2> QED
      BY <1>1, <1>2, <2>1, <2>2, SpawnEffect, TypeParts, TypeNext
  <1>3. CASE ~(mProcessCount <= Limit)
    BY <1>1, <1>3, RefusedEffect, TypeParts, TypeNext
  <1> QED
    BY <1>2, <1>3

\* Creating a process fills the next entry, fills one again, or is refused.
LEMMA CreateTable ==
    ASSUME TableInv, NEW p \in Procs, CreateProcess(p)
    PROVE  TableInv'
  <1> USE Constants
  <1>1. TypeOK /\ NoGaps /\ CurrentByOverflow /\ TypeOK' /\ Spawn(p)
    BY CreateType DEF TableInv, CreateProcess
  <1>2. mProcessCount \in Int /\ mProcessList \in [Slots -> Procs \cup {NoProc}]
    BY <1>1, TypeParts
  <1>3. CASE mProcessCount <= Limit
    <2>1. /\ mProcessCount' = mProcessCount + 1
          /\ mProcessList' = [i \in Slots |-> IF i = mProcessCount THEN p ELSE mProcessList[i]]
          /\ mCurrentProcess' = (IF mProcessCount = Limit THEN p ELSE mCurrentProcess)
      BY <1>1, <1>3, SpawnEffect
    <2>2. \A i \in Slots : i \in Assigned' <=> i = mProcessCount \/ i \in Assigned
      BY <1>2, <2>1 DEF Assigned
    <2>3. \A i \in Slots : i < mProcessCount => i \in Assigned
      BY <1>1 DEF NoGaps
    <2>4. Assigned \subseteq Slots /\ Assigned' \subseteq Slots
      BY DEF Assigned
    <2>5. \A i, j \in Slots : i < j /\ j \in Assigned' => i \in Assigned'
      BY <1>1, <2>2, <2>3 DEF NoGaps
    <2>6. \A i \in Slots : i < mProcessCount' => i \in Assigned'
      BY <1>2, <2>1, <2>2, <2>3
    <2>7. mProcessCount' > Limit => mCurrentProcess' # NoProc
      BY <1>2, <1>3, <2>1
    <2>8. mCurrentProcess' # NoProc => Assigned' = Slots
      <3>1. CASE mProcessCount = Limit
        <4>1. \A i \in Slots : i \in Assigned'
          BY <2>2, <2>3, <3>1
        <4> QED
          BY <2>4, <4>1, Zenon
      <3>2. CASE mProcessCount # Limit
        BY <1>1, <2>1, <2>2, <2>4, <3>2 DEF CurrentByOverflow
      <3> QED
        BY <3>1, <3>2
    <2> QED
      BY <1>1, <2>5, <2>6, <2>7, <2>8 DEF TableInv, NoGaps, CurrentByOverflow, Slots
  <1>4. CASE ~(mProcessCount <= Limit)
    <2>1. UNCHANGED <<mProcessList, mCurrentProcess, mProcessCount>>
      BY <1>1, <1>4, RefusedEffect
    <2>2. Assigned' = Assigned
      BY <2>1 DEF Assigned, Slots
    <2> QED
      BY <1>1, <2>1, <2>2 DEF TableInv, NoGaps, CurrentByOverflow, Slots
  <1> QED
    BY <1>3, <1>4

\* An exit only lowers the count.
LEMMA ExitTable ==
    ASSUME TableInv, NEW p \in Procs, Exit(p), halted' \in BOOLEAN, ret' \in RetType
    PROVE  TableInv'
  <1> USE Constants
  <1>1. TypeOK /\ NoGaps /\ CurrentByOverflow /\ mProcessCount \in Int
    BY TypeParts DEF TableInv
  <1>2. /\ UNCHANGED <<mProcessList, mCurrentProcess>>
        /\ mProcessCount' = mProcessCount - 1
        /\ mProcessCount' \in (-MaxUnder)..(Limit + 1)
        /\ proc' \in [Procs -> ProcType]
    BY <1>1, ExitEffect
  <1>3. TypeOK'
    BY <1>1, <1>2, TypeParts, TypeNext
  <1>4. Assigned' = Assigned
    BY <1>2 DEF Assigned, Slots
  <1>5. NoGaps'
    BY <1>1, <1>2, <1>4 DEF NoGaps, Slots
  <1> QED
    BY <1>1, <1>2, <1>3, <1>4, <1>5 DEF TableInv, CurrentByOverflow, Slots

\* Crash keeps the table.
LEMMA CrashTable == TableInv /\ Crash => TableInv'
  <1> SUFFICES ASSUME TableInv, Crash PROVE TableInv'
    OBVIOUS
  <1>1. TypeOK
    BY DEF TableInv
  <1>2. CASE mCurrentProcess # NoProc /\ proc[mCurrentProcess].status = "kRunning"
    <2>1. mCurrentProcess \in Procs
      BY <1>1, <1>2, TypeParts
    <2>2. Exit(mCurrentProcess) /\ halted' \in BOOLEAN /\ ret' \in RetType
      BY <1>1, <1>2, TypeParts DEF Crash, RetType
    <2> QED
      BY <2>1, <2>2, ExitTable
  <1>3. CASE ~(mCurrentProcess # NoProc /\ proc[mCurrentProcess].status = "kRunning")
    BY <1>1, <1>3, CrashQuiet, QuietTable
  <1> QED
    BY <1>2, <1>3

\* Remove keeps the table.
LEMMA RemoveTable ==
    ASSUME TableInv, NEW i \in RemoveIds, Remove(i)
    PROVE  TableInv'
  <1> USE Constants
  <1> DEFINE yes == i <= Count /\ At(i) # NoProc
  <1>1. TypeOK
    BY DEF TableInv
  <1>2. halted' \in BOOLEAN /\ yes \in BOOLEAN
    BY Zenon DEF Remove
  <1>3. ret' \in RetType
    <2>1. ret' = [op |-> "remove", id |-> i, ok |-> yes] /\ i \in Int
      BY DEF Remove
    <2> HIDE DEF yes
    <2> QED
      BY <1>2, <2>1 DEF RetType
  <1>4. CASE yes
    <2>1. Exit(At(i))
      BY <1>4 DEF Remove
    <2>2. At(i) \in Procs
      BY <1>1, <1>4, TypeParts DEF At
    <2> QED
      BY <1>2, <1>3, <2>1, <2>2, ExitTable
  <1>5. CASE ~yes
    <2>1. UNCHANGED <<mProcessList, mCurrentProcess, mProcessCount, proc>>
      BY <1>5 DEF Remove
    <2> QED
      BY <1>1, <1>2, <1>3, <2>1, TypeParts, QuietTable DEF Quiet
  <1> QED
    BY <1>4, <1>5

\* Every step of the scheduler keeps the table.
LEMMA TableNext == TableInv /\ [Next]_vars => TableInv'
  <1> SUFFICES ASSUME TableInv, [Next]_vars PROVE TableInv'
    OBVIOUS
  <1>1. TypeOK
    BY DEF TableInv
  <1>2. ASSUME NEW p \in Procs, CreateProcess(p) PROVE TableInv'
    BY <1>2, CreateTable
  <1>3. ASSUME NEW p \in Procs, NEW w \in BOOLEAN, Wake(p, w) PROVE TableInv'
    BY <1>1, <1>3, WakeQuiet, QuietTable
  <1>4. CASE Crash
    BY <1>4, CrashTable
  <1>5. CASE Fault \/ Breakpoint
    BY <1>1, <1>5, FaultQuiet, QuietTable
  <1>6. CASE Run
    BY <1>1, <1>6, RunQuiet, QuietTable
  <1>7. ASSUME NEW i \in RemoveIds, Remove(i) PROVE TableInv'
    BY <1>7, RemoveTable
  <1>8. CASE UNCHANGED vars
    BY <1>1, <1>8, StutterQuiet, QuietTable
  <1> QED
    BY <1>2, <1>3, <1>4, <1>5, <1>6, <1>7, <1>8 DEF Next, KernelNext

\* Whatever is created, crashed and removed, the process table of the team has
\* no gaps up to the count of Spawn, and the current process is set by the
\* overflow of the table only.
THEOREM TableInvariant == Spec => []TableInv
  <1> QED
    BY TableInit, TableNext, PTL DEF Spec

\* Spawn never hands out an id beyond the one past the table.
THEOREM TeamTyped == Spec => []TypeOK
  <1>1. TableInv => TypeOK
    BY DEF TableInv
  <1> QED
    BY <1>1, TableInvariant, PTL

\* The only null entry Remove can reach is the one at Count.
THEOREM TableHasNoGaps == Spec => []NoGaps
  <1>1. TableInv => NoGaps
    BY DEF TableInv
  <1> QED
    BY <1>1, TableInvariant, PTL

\* GetCurrentProcess stays null until Spawn overruns the table.
THEOREM CurrentSetByOverflow == Spec => []CurrentByOverflow
  <1>1. TableInv => CurrentByOverflow
    BY DEF TableInv
  <1> QED
    BY <1>1, TableInvariant, PTL

-----------------------------------------------------------------------------
(***************************************************************************)
(* KernelSpec: without Remove the table is exact.                          *)
(***************************************************************************)

\* At after the step.
AtNext(i) == IF i \in Slots THEN mProcessList'[i] ELSE mCurrentProcess'

\* The empty team is exact.
LEMMA KernelInit == Init => KernelInv
  <1> SUFFICES ASSUME Init PROVE KernelInv
    OBVIOUS
  <1> USE Constants
  <1>1. /\ mProcessList = [i \in Slots |-> NoProc] /\ mCurrentProcess = NoProc
        /\ mProcessCount = 0
        /\ \A p \in Procs : proc[p].mem = "unused" /\ proc[p].status = "kFinished"
    BY DEF Init
  <1>2. TypeOK /\ Live = {}
    BY <1>1, TableInit DEF TableInv, Live
  <1>3. TeamExact
    BY <1>1, <1>2 DEF TeamExact
  <1> QED
    BY <1>1, <1>2, <1>3 DEF KernelInv

\* A step that only changes statuses keeps the team exact.
LEMMA QuietKernel == KernelInv /\ Quiet => KernelInv'
  <1> SUFFICES ASSUME KernelInv, Quiet PROVE KernelInv'
    OBVIOUS
  <1> USE Constants
  <1>1. TypeOK'
    BY TypeParts, TypeNext DEF KernelInv, Quiet
  <1>2. Live' = Live
    BY DEF Quiet, Live
  <1>3. /\ UNCHANGED <<mProcessList, mCurrentProcess, mProcessCount>>
        /\ \A q \in Live : q \in Procs /\ proc'[q].pid = proc[q].pid
        /\ \A i : At(i)' = At(i)
    BY DEF Quiet, Live, At, Slots
  <1>4. TeamExact'
    BY <1>2, <1>3 DEF KernelInv, TeamExact, Slots
  <1>5. \A p \in Procs : proc'[p].status = "kRunning" => p \in Live'
    BY <1>2 DEF Quiet, KernelInv
  <1> QED
    BY <1>1, <1>2, <1>3, <1>4, <1>5 DEF KernelInv

\* A created process takes the entry at the count, or is refused.
LEMMA CreateKernel ==
    ASSUME KernelInv, NEW p \in Procs, CreateProcess(p)
    PROVE  KernelInv'
  <1> USE Constants
  <1>1. TypeOK /\ TeamExact /\ TypeOK' /\ Spawn(p) /\ p \notin Live
    BY CreateType DEF KernelInv, CreateProcess
  <1>2. /\ mProcessCount \in 0..(Limit + 1)
        /\ mProcessList \in [Slots -> Procs \cup {NoProc}]
    BY <1>1, TypeParts DEF TeamExact
  <1>3. CASE mProcessCount <= Limit
    <2>1. /\ mProcessCount' = mProcessCount + 1
          /\ mProcessList' = [i \in Slots |-> IF i = mProcessCount THEN p ELSE mProcessList[i]]
          /\ mCurrentProcess' = (IF mProcessCount = Limit THEN p ELSE mCurrentProcess)
          /\ \A q \in Procs : q # p => proc'[q] = proc[q]
          /\ proc'[p].pid = mProcessCount /\ proc'[p].status = "kStarting"
          /\ proc'[p].mem = "live"
      BY <1>1, <1>2, <1>3, SpawnEffect
    <2>2. /\ Live' = Live \cup {p}
          /\ \A q \in Live : q # p /\ q \in Procs /\ proc'[q] = proc[q]
      BY <1>1, <2>1 DEF Live
    <2>3. \A i \in Slots : i < mProcessCount =>
             mProcessList[i] \in Live /\ proc[mProcessList[i]].pid = i
      BY <1>1 DEF TeamExact
    <2>4. \A i \in Slots : ~(i < mProcessCount) => mProcessList[i] = NoProc
      BY <1>1 DEF TeamExact
    <2>5. \A i \in Slots :
            IF i < mProcessCount'
              THEN mProcessList'[i] \in Live' /\ proc'[mProcessList'[i]].pid = i
              ELSE mProcessList'[i] = NoProc
      <3> SUFFICES ASSUME NEW i \in Slots
                   PROVE  IF i < mProcessCount'
                            THEN mProcessList'[i] \in Live' /\ proc'[mProcessList'[i]].pid = i
                            ELSE mProcessList'[i] = NoProc
        OBVIOUS
      <3>1. CASE i < mProcessCount
        <4>1. mProcessList'[i] = mProcessList[i] /\ i < mProcessCount'
          BY <1>2, <2>1, <3>1
        <4>2. mProcessList[i] \in Live /\ proc[mProcessList[i]].pid = i
          BY <2>3, <3>1
        <4> QED
          BY <2>2, <4>1, <4>2
      <3>2. CASE i = mProcessCount
        BY <1>2, <2>1, <2>2, <3>2
      <3>3. CASE i > mProcessCount
        BY <1>2, <2>1, <2>4, <3>3
      <3> QED
        BY <1>2, <3>1, <3>2, <3>3
    <2>6. mProcessCount' = Limit + 1 =>
             mCurrentProcess' \in Live' /\ proc'[mCurrentProcess'].pid = Limit
      BY <1>2, <2>1, <2>2
    <2>7. \A q \in Live' : /\ proc'[q].pid \in 0..(mProcessCount' - 1)
                           /\ q = AtNext(proc'[q].pid)
      <3> SUFFICES ASSUME NEW q \in Live'
                   PROVE  proc'[q].pid \in 0..(mProcessCount' - 1) /\ q = AtNext(proc'[q].pid)
        OBVIOUS
      <3>1. CASE q = p
        BY <1>2, <1>3, <2>1, <3>1 DEF AtNext
      <3>2. CASE q # p
        <4>1. q \in Live /\ proc'[q] = proc[q]
          BY <2>2, <3>2
        <4>2. proc[q].pid \in 0..(mProcessCount - 1) /\ q = At(proc[q].pid)
          BY <1>1, <4>1 DEF TeamExact
        <4>3. proc[q].pid \in Slots /\ q = mProcessList[proc[q].pid]
          BY <1>2, <1>3, <4>2 DEF At
        <4> QED
          BY <1>2, <2>1, <4>1, <4>2, <4>3 DEF AtNext
      <3> QED
        BY <3>1, <3>2
    <2>8. TeamExact'
      BY <1>2, <1>3, <2>1, <2>5, <2>6, <2>7 DEF TeamExact, At, AtNext, Slots
    <2>9. \A q \in Procs : proc'[q].status = "kRunning" => q \in Live'
      BY <2>1, <2>2 DEF KernelInv
    <2>10. mCurrentProcess' \in Live' => proc'[mCurrentProcess'].pid = Limit
      <3>1. CASE mProcessCount = Limit
        BY <2>1, <3>1
      <3>2. CASE mProcessCount # Limit
        <4>1. mCurrentProcess = NoProc /\ mCurrentProcess' = NoProc
          BY <1>2, <1>3, <2>1, <3>2 DEF KernelInv
        <4> QED
          BY <4>1 DEF Live
      <3> QED
        BY <3>1, <3>2
    <2>11. mCurrentProcess' # NoProc => mProcessCount' >= Limit
      BY <1>2, <2>1 DEF KernelInv
    <2> QED
      BY <1>1, <2>8, <2>9, <2>10, <2>11 DEF KernelInv
  <1>4. CASE ~(mProcessCount <= Limit)
    <2>1. /\ UNCHANGED <<mProcessList, mCurrentProcess, mProcessCount>>
          /\ \A q \in Procs : q # p => proc'[q] = proc[q]
          /\ proc'[p].mem = "freed" /\ proc'[p].status = "kFinished"
      BY <1>1, <1>4, RefusedEffect
    <2>2. Live' = Live /\ \A q \in Live : q \in Procs /\ proc'[q] = proc[q]
      BY <1>1, <2>1 DEF Live
    <2>3. \A i : At(i)' = At(i)
      BY <2>1 DEF At, Slots
    <2>4. TeamExact'
      BY <1>1, <2>1, <2>2, <2>3 DEF TeamExact, Slots
    <2>5. \A q \in Procs : proc'[q].status = "kRunning" => q \in Live'
      BY <2>1, <2>2 DEF KernelInv
    <2> QED
      BY <1>1, <2>1, <2>2, <2>4, <2>5 DEF KernelInv
  <1> QED
    BY <1>3, <1>4

\* Crash exits the process past the end of the table, and no other.
LEMMA CrashKernel == KernelInv /\ Crash => KernelInv'
  <1> SUFFICES ASSUME KernelInv, Crash PROVE KernelInv'
    OBVIOUS
  <1> USE Constants
  <1>1. TypeOK /\ TeamExact
    BY DEF KernelInv
  <1>2. CASE mCurrentProcess # NoProc /\ proc[mCurrentProcess].status = "kRunning"
    <2> DEFINE c == mCurrentProcess
    <2>1. c \in Procs /\ c \in Live /\ proc[c].pid = Limit
      BY <1>1, <1>2, TypeParts DEF KernelInv
    <2>2. Exit(c) /\ halted' \in BOOLEAN /\ ret' \in RetType
      BY <1>1, <1>2, TypeParts DEF Crash, RetType
    <2>3. /\ UNCHANGED <<mProcessList, mCurrentProcess>>
          /\ mProcessCount' = mProcessCount - 1
          /\ mProcessCount' \in (-MaxUnder)..(Limit + 1)
          /\ \A q \in Procs : q # c => proc'[q] = proc[q]
          /\ proc' \in [Procs -> ProcType]
          /\ proc'[c].mem = "freed" /\ proc'[c].status = "kFinished"
      BY <1>1, <2>1, <2>2, ExitEffect
    <2>4. TypeOK'
      BY <1>1, <2>2, <2>3, TypeParts, TypeNext
    <2>5. mProcessCount = Limit + 1
      BY <1>1, <2>1 DEF TeamExact
    <2>6. /\ Live' = Live \ {c}
          /\ \A q \in Live' : q \in Live /\ q \in Procs /\ proc'[q] = proc[q]
      BY <2>1, <2>3 DEF Live
    <2>7. \A i \in Slots : mProcessList'[i] \in Live' /\ proc'[mProcessList'[i]].pid = i
      <3> SUFFICES ASSUME NEW i \in Slots
                   PROVE  mProcessList'[i] \in Live' /\ proc'[mProcessList'[i]].pid = i
        OBVIOUS
      <3>1. mProcessList[i] \in Live /\ proc[mProcessList[i]].pid = i /\ i # Limit
        BY <1>1, <2>5 DEF TeamExact
      <3>2. mProcessList[i] # c
        BY <2>1, <3>1
      <3> QED
        BY <2>3, <2>6, <3>1, <3>2
    <2>8. \A q \in Live' : proc'[q].pid \in 0..(mProcessCount' - 1) /\ q = AtNext(proc'[q].pid)
      <3> SUFFICES ASSUME NEW q \in Live'
                   PROVE  proc'[q].pid \in 0..(mProcessCount' - 1) /\ q = AtNext(proc'[q].pid)
        OBVIOUS
      <3>1. q \in Live /\ q # c /\ proc'[q] = proc[q]
        BY <2>6
      <3>2. proc[q].pid \in 0..Limit /\ q = At(proc[q].pid)
        BY <1>1, <2>5, <3>1 DEF TeamExact
      <3>3. proc[q].pid \in Slots
        BY <3>1, <3>2 DEF At
      <3> QED
        BY <2>3, <2>5, <3>1, <3>2, <3>3 DEF At, AtNext, Slots
    <2>9. TeamExact'
      BY <2>3, <2>5, <2>7, <2>8 DEF TeamExact, At, AtNext, Slots
    <2>10. \A q \in Procs : proc'[q].status = "kRunning" => q \in Live'
      BY <2>1, <2>3, <2>6 DEF KernelInv
    <2>11. mCurrentProcess' \notin Live' /\ mProcessCount' >= Limit
      BY <2>3, <2>5, <2>6
    <2> QED
      BY <2>4, <2>9, <2>10, <2>11 DEF KernelInv
  <1>3. CASE ~(mCurrentProcess # NoProc /\ proc[mCurrentProcess].status = "kRunning")
    BY <1>1, <1>3, CrashQuiet, QuietKernel
  <1> QED
    BY <1>2, <1>3

\* Every call of the kernel keeps the team exact.
LEMMA KernelStep == KernelInv /\ [KernelNext]_vars => KernelInv'
  <1> SUFFICES ASSUME KernelInv, [KernelNext]_vars PROVE KernelInv'
    OBVIOUS
  <1>1. TypeOK
    BY DEF KernelInv
  <1>2. ASSUME NEW p \in Procs, CreateProcess(p) PROVE KernelInv'
    BY <1>2, CreateKernel
  <1>3. ASSUME NEW p \in Procs, NEW w \in BOOLEAN, Wake(p, w) PROVE KernelInv'
    BY <1>1, <1>3, WakeQuiet, QuietKernel
  <1>4. CASE Crash
    BY <1>4, CrashKernel
  <1>5. CASE Fault \/ Breakpoint
    BY <1>1, <1>5, FaultQuiet, QuietKernel
  <1>6. CASE Run
    BY <1>1, <1>6, RunQuiet, QuietKernel
  <1>7. CASE UNCHANGED vars
    BY <1>1, <1>7, StutterQuiet, QuietKernel
  <1> QED
    BY <1>2, <1>3, <1>4, <1>5, <1>6, <1>7 DEF KernelNext

\* Without Remove, Spawn's count is exact and Crash exits the process past the
\* end of the table at most: a deleted process is never marked running.
THEOREM KernelInvariant == KernelSpec => []KernelInv
  <1> QED
    BY KernelInit, KernelStep, PTL DEF KernelSpec

\* As long as nothing calls Remove, the entries below the count of Spawn are
\* exactly the live processes, each at its id, for every size of the table.
THEOREM TeamIsExact == KernelSpec => []TeamExact
  <1>1. KernelInv => TeamExact
    BY DEF KernelInv
  <1> QED
    BY <1>1, KernelInvariant, PTL

\* An entry of the table, once assigned, keeps its process.
THEOREM TableIsStable == KernelSpec => SlotsStable
  <1> DEFINE Same == \A i \in Assigned : mProcessList'[i] = mProcessList[i]
  <1>1. ASSUME KernelInv, [KernelNext]_vars PROVE Same
    <2> USE Constants
    <2>1. TypeOK /\ TeamExact
      BY <1>1 DEF KernelInv
    <2>2. ASSUME NEW p \in Procs, CreateProcess(p) PROVE Same
      <3>1. Spawn(p)
        BY <2>2 DEF CreateProcess
      <3>2. CASE mProcessCount <= Limit
        <4>1. mProcessList' = [i \in Slots |-> IF i = mProcessCount THEN p ELSE mProcessList[i]]
          BY <2>1, <3>1, <3>2, SpawnEffect
        <4>2. mProcessCount \in Int
          BY <2>1, TypeParts
        <4>3. \A i \in Assigned : i \in Slots /\ i # mProcessCount
          BY <2>1, <4>2 DEF TeamExact, Assigned
        <4> QED
          BY <4>1, <4>3
      <3>3. CASE ~(mProcessCount <= Limit)
        BY <2>1, <3>1, <3>3, RefusedEffect
      <3> QED
        BY <3>2, <3>3
    <2>3. CASE UNCHANGED mProcessList
      BY <2>3
    <2>4. ASSUME NEW p \in Procs, NEW w \in BOOLEAN, Wake(p, w) PROVE Same
      BY <2>4 DEF Wake
    <2>5. CASE Crash \/ Fault \/ Breakpoint \/ Run
      BY <2>5 DEF Crash, Exit, Fault, Breakpoint, Run
    <2>6. CASE UNCHANGED vars
      BY <2>6 DEF vars
    <2> HIDE DEF Same
    <2> QED
      BY <1>1, <2>2, <2>4, <2>5, <2>6 DEF KernelNext
  <1>2. KernelInv /\ [KernelNext]_vars => [Same]_vars
    BY <1>1
  <1> QED
    BY <1>2, KernelInvariant, PTL DEF KernelSpec, SlotsStable, Same

-----------------------------------------------------------------------------
(***************************************************************************)
(* KernelSpec: the team implements a roster.                               *)
(***************************************************************************)

\* The two values that the roster is read off.
Placed == [i \in 1 .. mProcessCount |-> At(i - 1)]
Woken  == {p \in Procs : proc[p].status = "kRunning"}

\* The places are the live processes in the order of their ids, and a full roster
\* ends with the current process.
LEMMA PlacedFacts ==
    ASSUME KernelInv
    PROVE  /\ mProcessCount \in 0 .. Limit + 1
           /\ Placed \in Seq(Procs) /\ Len(Placed) = mProcessCount
           /\ \A i \in 1 .. Len(Placed) : Placed[i] = At(i - 1) /\ Placed[i] \in Live
           /\ \A p \in Live : /\ proc[p].pid + 1 \in 1 .. Len(Placed) /\ proc[p].pid \in Int
                              /\ Placed[proc[p].pid + 1] = p
           /\ Len(Placed) = Limit + 1 => /\ Placed[Limit + 1] = mCurrentProcess
                                         /\ mCurrentProcess \in Live
           /\ mCurrentProcess \in Live => Len(Placed) = Limit + 1
           /\ Len(Placed) < Limit => mCurrentProcess = NoProc
           /\ Woken \subseteq Live
  <1> USE Constants
  <1>1. TypeOK /\ TeamExact
    BY DEF KernelInv
  <1>2. mProcessCount \in 0 .. Limit + 1 /\ mProcessCount \in Nat
    BY <1>1 DEF TeamExact
  <1>3. \A i \in 1 .. mProcessCount : At(i - 1) \in Live
    <2> SUFFICES ASSUME NEW i \in 1 .. mProcessCount PROVE At(i - 1) \in Live
      OBVIOUS
    <2>1. CASE i - 1 \in Slots
      BY <1>1, <1>2, <2>1 DEF TeamExact, At
    <2>2. CASE i - 1 \notin Slots
      <3>1. mProcessCount = Limit + 1
        BY <1>2, <2>2
      <3> QED
        BY <1>1, <2>2, <3>1 DEF TeamExact, At
    <2> QED
      BY <2>1, <2>2
  <1>4. Live \subseteq Procs
    BY DEF Live
  <1>5. Placed \in [1 .. mProcessCount -> Procs]
    BY <1>3, <1>4 DEF Placed
  <1>6. Placed \in Seq(Procs) /\ Len(Placed) = mProcessCount
    BY <1>2, <1>5
  <1>7. \A i \in 1 .. Len(Placed) : Placed[i] = At(i - 1) /\ Placed[i] \in Live
    BY <1>3, <1>6 DEF Placed
  <1>8. ASSUME NEW p \in Live
        PROVE  /\ proc[p].pid + 1 \in 1 .. Len(Placed) /\ proc[p].pid \in Int
               /\ Placed[proc[p].pid + 1] = p
    <2>1. proc[p].pid \in 0 .. mProcessCount - 1 /\ p = At(proc[p].pid)
      BY <1>1 DEF TeamExact
    <2>2. proc[p].pid + 1 \in 1 .. Len(Placed) /\ (proc[p].pid + 1) - 1 = proc[p].pid
      BY <1>2, <1>6, <2>1
    <2>3. Placed[proc[p].pid + 1] = At((proc[p].pid + 1) - 1)
      BY <1>7, <2>2
    <2> QED
      BY <2>1, <2>2, <2>3
  <1>9. Len(Placed) = Limit + 1 => Placed[Limit + 1] = mCurrentProcess /\ mCurrentProcess \in Live
    <2> SUFFICES ASSUME Len(Placed) = Limit + 1
                 PROVE  Placed[Limit + 1] = mCurrentProcess /\ mCurrentProcess \in Live
      OBVIOUS
    <2>1. Limit + 1 \in 1 .. Len(Placed) /\ (Limit + 1) - 1 = Limit /\ Limit \notin Slots
      OBVIOUS
    <2>2. Placed[Limit + 1] = At((Limit + 1) - 1) /\ At(Limit) = mCurrentProcess
      BY <1>7, <2>1 DEF At
    <2> QED
      BY <1>7, <2>1, <2>2
  <1>10. mCurrentProcess \in Live => Len(Placed) = Limit + 1
    <2> SUFFICES ASSUME mCurrentProcess \in Live PROVE Len(Placed) = Limit + 1
      OBVIOUS
    <2>1. proc[mCurrentProcess].pid = Limit
      BY DEF KernelInv
    <2>2. Limit + 1 \in 1 .. Len(Placed)
      BY <1>8, <2>1
    <2> QED
      BY <1>2, <1>6, <2>2
  <1>11. Len(Placed) < Limit => mCurrentProcess = NoProc
    BY <1>2, <1>6 DEF KernelInv
  <1>12. Woken \subseteq Live
    BY DEF Woken, KernelInv
  <1> QED
    BY <1>2, <1>6, <1>7, <1>8, <1>9, <1>10, <1>11, <1>12

\* A step that leaves table and count alone leaves the roster alone.
LEMMA PlacedStays ==
    ASSUME UNCHANGED <<mProcessList, mCurrentProcess, mProcessCount>>
    PROVE  Placed' = Placed
  <1>1. \A i : At(i)' = At(i)
    BY DEF At, Slots
  <1> QED
    BY <1>1 DEF Placed

\* The actions of the roster, in the values it is read off.
Answered(op, id, ok) == ~halted /\ ret' = [op |-> op, id |-> id, ok |-> ok]
LastFrozen == Woken' = (IF Len(Placed) = Limit + 1 THEN Woken \ {Placed[Limit + 1]} ELSE Woken)

LEMMA IsAdmit ==
    ASSUME NEW p \in Procs, \A i \in 1 .. Len(Placed) : Placed[i] # p, Len(Placed) # Limit + 1,
           Placed' = Append(Placed, p), Woken' = Woken, halted' = halted,
           Answered("spawn", Len(Placed), TRUE)
    PROVE  Roster!Admit(p)
  BY DEF Placed, Woken, Answered, Roster!Admit, Roster!Answers, Roster!Members, Roster!Full

LEMMA IsRefuse ==
    ASSUME Len(Placed) = Limit + 1, Placed' = Placed, Woken' = Woken, halted' = halted,
           Answered("spawn", -1, FALSE)
    PROVE  Roster!Refuse
  BY DEF Placed, Woken, Answered, Roster!Refuse, Roster!Answers, Roster!Full

LEMMA IsWake ==
    ASSUME NEW i, NEW w,
           Woken' = (IF w THEN Woken \cup {Placed[i]} ELSE Woken \ {Placed[i]}),
           Placed' = Placed, halted' = halted, Answered("wake", i - 1, TRUE)
    PROVE  Roster!Wake(i, w)
  BY DEF Placed, Woken, Answered, Roster!Wake, Roster!Answers

LEMMA IsCrash ==
    ASSUME IF Len(Placed) = Limit + 1 /\ Placed[Limit + 1] \in Woken
             THEN Placed' = SubSeq(Placed, 1, Limit) /\ Woken' = Woken \ {Placed[Limit + 1]}
             ELSE Placed' = Placed /\ Woken' = Woken,
           IF Len(Placed) = Limit + 1 THEN halted' = halted ELSE halted' \in BOOLEAN,
           Answered("crash", 0, TRUE)
    PROVE  Roster!Crash
  BY DEF Placed, Woken, Answered, Roster!Crash, Roster!Answers, Roster!Full

LEMMA IsFault ==
    ASSUME LastFrozen, Placed' = Placed, halted' = TRUE, Answered("fault", 0, FALSE)
    PROVE  Roster!Fault
  BY DEF Placed, Woken, Answered, LastFrozen, Roster!Fault, Roster!Freeze, Roster!Answers, Roster!Full

LEMMA IsBreakpoint ==
    ASSUME LastFrozen, Placed' = Placed, halted' \in BOOLEAN,
           Len(Placed) = Limit + 1 => ~halted', Len(Placed) < Limit => halted',
           Answered("breakpoint", 0, TRUE)
    PROVE  Roster!Breakpoint
  BY DEF Placed, Woken, Answered, LastFrozen, Roster!Breakpoint, Roster!Freeze, Roster!Answers,
         Roster!Full

LEMMA IsRun ==
    ASSUME IF Placed # <<>>
             THEN Answered("run", 0, FALSE) /\ halted' = halted
             ELSE Answered("run", Limit, TRUE) /\ halted' \in BOOLEAN,
           Placed' = Placed, Woken' = Woken
    PROVE  Roster!Run
  BY DEF Placed, Woken, Answered, Roster!Run, Roster!Answers

-----------------------------------------------------------------------------
LEMMA CreateMaps ==
    ASSUME KernelInv, NEW p \in Procs, CreateProcess(p)
    PROVE  Roster!Next
  <1> USE Constants
  <1>1. TypeOK /\ TeamExact /\ Spawn(p) /\ p \notin Live /\ ~halted /\ halted' = halted
    BY DEF KernelInv, CreateProcess
  <1>2. mProcessCount \in 0 .. Limit + 1 /\ Placed \in Seq(Procs) /\ Len(Placed) = mProcessCount
    BY PlacedFacts
  <1>3. p \notin Woken /\ \A i \in 1 .. Len(Placed) : Placed[i] # p
    BY <1>1, PlacedFacts
  <1>4. CASE mProcessCount <= Limit
    <2>1. /\ mProcessCount' = mProcessCount + 1
          /\ mProcessList' = [i \in Slots |-> IF i = mProcessCount THEN p ELSE mProcessList[i]]
          /\ mCurrentProcess' = (IF mProcessCount = Limit THEN p ELSE mCurrentProcess)
          /\ \A q \in Procs : q # p => proc'[q] = proc[q]
          /\ proc'[p].status = "kStarting"
      BY <1>1, <1>4, SpawnEffect
    <2>2. Answered("spawn", Len(Placed), TRUE)
      <3>1. ret' = [op |-> "spawn", id |-> mProcessCount, ok |-> mProcessCount # kSchedInvalidPID]
        BY <1>1, <1>2, <1>4 DEF Spawn
      <3>2. (mProcessCount # kSchedInvalidPID) = TRUE
        BY <1>2 DEF kSchedInvalidPID
      <3> QED
        BY <1>1, <1>2, <3>1, <3>2 DEF Answered
    <2>3. Woken' = Woken
      BY <1>3, <2>1 DEF Woken
    <2>4. Placed' = Append(Placed, p)
      <3>1. /\ Append(Placed, p) \in Seq(Procs) /\ Len(Append(Placed, p)) = mProcessCount + 1
            /\ Append(Placed, p)[mProcessCount + 1] = p
            /\ \A i \in 1 .. mProcessCount : Append(Placed, p)[i] = Placed[i]
        BY <1>2, AppendProperties
      <3>2. \A i \in 1 .. mProcessCount : Placed[i] = At(i - 1)
        BY <1>2, PlacedFacts
      <3>3. Placed' = [i \in 1 .. mProcessCount + 1 |-> AtNext(i - 1)]
        BY <2>1 DEF Placed, At, AtNext, Slots
      <3>4. \A i \in 1 .. mProcessCount + 1 : AtNext(i - 1) = Append(Placed, p)[i]
        <4> SUFFICES ASSUME NEW i \in 1 .. mProcessCount + 1
                     PROVE  AtNext(i - 1) = Append(Placed, p)[i]
          OBVIOUS
        <4>1. CASE i = mProcessCount + 1
          <5>1. i - 1 = mProcessCount /\ (mProcessCount \in Slots \/ mProcessCount = Limit)
            BY <1>2, <1>4, <4>1
          <5>2. Limit \notin Slots
            OBVIOUS
          <5> QED
            BY <2>1, <3>1, <4>1, <5>1, <5>2 DEF AtNext
        <4>2. CASE i \in 1 .. mProcessCount
          <5>1. i - 1 \in Slots /\ i - 1 # mProcessCount
            BY <1>2, <1>4, <4>2
          <5> QED
            BY <2>1, <3>1, <3>2, <4>2, <5>1 DEF AtNext, At
        <4> QED
          BY <1>2, <4>1, <4>2
      <3>5. Append(Placed, p) = [i \in 1 .. mProcessCount + 1 |-> Append(Placed, p)[i]]
        <4> DEFINE a == Append(Placed, p)
        <4>1. a \in Seq(Procs) /\ Len(a) = mProcessCount + 1
          BY <3>1
        <4> HIDE DEF a
        <4>2. a \in [1 .. mProcessCount + 1 -> Procs]
          BY <4>1, LenProperties
        <4>3. a = [i \in 1 .. mProcessCount + 1 |-> a[i]]
          BY <4>2
        <4> QED
          BY <4>3 DEF a
      <3> QED
        BY <3>3, <3>4, <3>5
    <2>5. Roster!Admit(p)
      <3>1. Len(Placed) # Limit + 1
        BY <1>2, <1>4
      <3> QED
        BY <1>1, <1>3, <2>2, <2>3, <2>4, <3>1, IsAdmit
    <2> QED
      BY <2>5 DEF Roster!Next
  <1>5. CASE ~(mProcessCount <= Limit)
    <2>1. /\ UNCHANGED <<mProcessList, mCurrentProcess, mProcessCount>>
          /\ \A q \in Procs : q # p => proc'[q] = proc[q]
          /\ proc'[p].status = "kFinished"
      BY <1>1, <1>5, RefusedEffect
    <2>2. Answered("spawn", -1, FALSE) /\ Len(Placed) = Limit + 1
      BY <1>1, <1>2, <1>5 DEF Spawn, Answered, kSchedInvalidPID
    <2>3. Woken' = Woken
      BY <1>3, <2>1 DEF Woken
    <2>4. Roster!Refuse
      BY <1>1, <2>1, <2>2, <2>3, PlacedStays, IsRefuse
    <2> QED
      BY <2>4 DEF Roster!Next
  <1> QED
    BY <1>4, <1>5

LEMMA WakeMaps ==
    ASSUME KernelInv, NEW p \in Procs, NEW w \in BOOLEAN, Wake(p, w)
    PROVE  Roster!Next
  <1> DEFINE s == IF w THEN "kRunning" ELSE "kFrozen"
             i == proc[p].pid + 1
  <1>1. /\ proc' = [proc EXCEPT ![p].status = s] /\ p \in Live /\ s \in Statuses
        /\ UNCHANGED <<mProcessList, mCurrentProcess, mProcessCount, halted>>
        /\ ret' = [op |-> "wake", id |-> proc[p].pid, ok |-> TRUE] /\ ~halted /\ TypeOK
    BY DEF Wake, KernelInv, Statuses
  <1>2. i \in 1 .. Len(Placed) /\ Placed[i] = p /\ i - 1 = proc[p].pid
    BY <1>1, PlacedFacts
  <1>3. Answered("wake", i - 1, TRUE)
    BY <1>1, <1>2 DEF Answered
  <1>4. Woken' = IF w THEN Woken \cup {p} ELSE Woken \ {p}
    <2>1. /\ \A q \in Procs : q # p => proc'[q] = proc[q]
          /\ proc'[p].status = s
      BY <1>1, StatusEffect
    <2> QED
      BY <2>1 DEF Woken
  <1> HIDE DEF i
  <1>5. Roster!Wake(i, w)
    BY <1>1, <1>2, <1>3, <1>4, PlacedStays, IsWake
  <1>6. \E j \in 1 .. Len(Placed), v \in BOOLEAN : Roster!Wake(j, v)
    BY <1>2, <1>5
  <1> QED
    BY <1>6 DEF Roster!Next, Placed

LEMMA CrashMaps ==
    ASSUME KernelInv, Crash
    PROVE  Roster!Next
  <1> USE Constants
  <1>1. TypeOK /\ TeamExact /\ Answered("crash", 0, TRUE)
    BY DEF KernelInv, Crash, Answered
  <1>2. mProcessCount \in 0 .. Limit + 1 /\ Placed \in Seq(Procs) /\ Len(Placed) = mProcessCount
    BY PlacedFacts
  <1>3. CASE mCurrentProcess # NoProc /\ proc[mCurrentProcess].status = "kRunning"
    <2> DEFINE c == mCurrentProcess
    <2>1. c \in Procs /\ c \in Live /\ c \in Woken
      BY <1>1, <1>3, TypeParts DEF KernelInv, Woken
    <2>2. Len(Placed) = Limit + 1 /\ Placed[Limit + 1] = c
      BY <2>1, PlacedFacts
    <2>3. Exit(c) /\ halted' = halted
      BY <1>3 DEF Crash
    <2>4. /\ UNCHANGED <<mProcessList, mCurrentProcess>>
          /\ mProcessCount' = mProcessCount - 1
          /\ \A q \in Procs : q # c => proc'[q] = proc[q]
          /\ proc'[c].status = "kFinished"
      BY <1>1, <2>1, <2>3, ExitEffect
    <2>5. Woken' = Woken \ {c}
      BY <2>1, <2>4 DEF Woken
    <2>6. Placed' = SubSeq(Placed, 1, Limit)
      <3>1. mProcessCount' = Limit
        <4>1. mProcessCount = Limit + 1
          BY <1>2, <2>2
        <4> QED
          BY <2>4, <4>1
      <3>2. Placed' = [i \in 1 .. Limit |-> At(i - 1)]
        BY <2>4, <3>1 DEF Placed, At, Slots
      <3>3. SubSeq(Placed, 1, Limit) = [i \in 1 .. Limit |-> Placed[i]]
        <4>1. \A i \in 1 .. Limit : i \in 1 .. Len(Placed)
          BY <2>2
        <4> QED
          BY <1>2, <2>2, <4>1
      <3>4. \A i \in 1 .. Limit : Placed[i] = At(i - 1)
        BY <2>2, PlacedFacts
      <3> QED
        BY <3>2, <3>3, <3>4
    <2>7. Roster!Crash
      BY <1>1, <2>1, <2>2, <2>3, <2>5, <2>6, IsCrash
    <2> QED
      BY <2>7 DEF Roster!Next
  <1>4. CASE ~(mCurrentProcess # NoProc /\ proc[mCurrentProcess].status = "kRunning")
    <2>1. UNCHANGED <<mProcessList, mCurrentProcess, mProcessCount, proc>>
      BY <1>4 DEF Crash
    <2>2. Woken' = Woken /\ Placed' = Placed
      BY <2>1, PlacedStays DEF Woken
    <2>3. Len(Placed) = Limit + 1 => Placed[Limit + 1] \notin Woken /\ mCurrentProcess # NoProc
      BY <1>4, PlacedFacts DEF Woken, Live
    <2>4. IF Len(Placed) = Limit + 1 THEN halted' = halted ELSE halted' \in BOOLEAN
      BY <1>1, <2>3, TypeParts DEF Crash
    <2>5. Roster!Crash
      BY <1>1, <2>2, <2>3, <2>4, IsCrash
    <2> QED
      BY <2>5 DEF Roster!Next
  <1> QED
    BY <1>3, <1>4

\* The handlers freeze the last process of a full roster; what the current
\* process was before that has been deleted or is none.
LEMMA FreezeMaps ==
    ASSUME KernelInv, Freeze
    PROVE  LastFrozen
  <1>1. TypeOK
    BY DEF KernelInv
  <1>2. CASE mCurrentProcess = NoProc
    <2>1. Len(Placed) # Limit + 1
      BY <1>2, Constants, PlacedFacts DEF Live
    <2> QED
      BY <1>2, <2>1 DEF Freeze, Woken, LastFrozen
  <1>3. CASE mCurrentProcess # NoProc
    <2>1. mCurrentProcess \in Procs /\ "kFrozen" \in Statuses
      BY <1>1, <1>3, TypeParts DEF Statuses
    <2>2. /\ \A q \in Procs : q # mCurrentProcess => proc'[q] = proc[q]
          /\ proc'[mCurrentProcess].status = "kFrozen"
      BY <1>1, <1>3, <2>1, StatusEffect DEF Freeze
    <2>3. Woken' = Woken \ {mCurrentProcess}
      BY <2>1, <2>2 DEF Woken
    <2>4. CASE Len(Placed) = Limit + 1
      BY <2>3, <2>4, PlacedFacts DEF LastFrozen
    <2>5. CASE Len(Placed) # Limit + 1
      <3>1. mCurrentProcess \notin Woken
        BY <2>5, PlacedFacts
      <3> QED
        BY <2>3, <2>5, <3>1 DEF LastFrozen
    <2> QED
      BY <2>4, <2>5
  <1> QED
    BY <1>2, <1>3

LEMMA FaultMaps ==
    ASSUME KernelInv, Fault \/ Breakpoint
    PROVE  Roster!Next
  <1> USE Constants
  <1>1. LastFrozen /\ Placed' = Placed
    BY FreezeMaps, PlacedStays DEF Fault, Breakpoint
  <1>2. CASE Fault
    <2>1. halted' = TRUE /\ Answered("fault", 0, FALSE)
      BY <1>2 DEF Fault, Answered
    <2>2. Roster!Fault
      BY <1>1, <2>1, IsFault
    <2> QED
      BY <2>2 DEF Roster!Next
  <1>3. CASE Breakpoint
    <2>1. halted' = (mCurrentProcess = NoProc) /\ Answered("breakpoint", 0, TRUE)
      BY <1>3 DEF Breakpoint, Answered
    <2>2. halted' \in BOOLEAN
      BY <2>1
    <2>3. Len(Placed) = Limit + 1 => mCurrentProcess # NoProc
      BY PlacedFacts DEF Live
    <2>4. Len(Placed) < Limit => mCurrentProcess = NoProc
      BY PlacedFacts
    <2>5. Roster!Breakpoint
      BY <1>1, <2>1, <2>2, <2>3, <2>4, IsBreakpoint
    <2> QED
      BY <2>5 DEF Roster!Next
  <1> QED
    BY <1>2, <1>3

LEMMA RunMaps ==
    ASSUME KernelInv, Run
    PROVE  Roster!Next
  <1> USE Constants
  <1>1. TeamExact /\ ~halted /\ UNCHANGED <<mProcessList, mCurrentProcess, mProcessCount, proc>>
    BY DEF KernelInv, Run
  <1>2. mProcessCount \in 0 .. Limit + 1 /\ Placed \in Seq(Procs) /\ Len(Placed) = mProcessCount
    BY PlacedFacts
  <1>3. Placed # <<>> <=> Empty
    <2>1. Placed # <<>> <=> mProcessCount > 0
      BY <1>2, EmptySeq
    <2>2. Assigned # {} <=> mProcessCount > 0
      <3>1. CASE mProcessCount = 0
        BY <1>1, <3>1 DEF TeamExact, Assigned
      <3>2. CASE mProcessCount > 0
        <4>1. 0 \in Slots /\ mProcessList[0] \in Live
          BY <1>1, <3>2 DEF TeamExact
        <4>2. mProcessList[0] # NoProc
          BY <4>1 DEF Live
        <4> QED
          BY <3>2, <4>1, <4>2 DEF Assigned
      <3> QED
        BY <1>2, <3>1, <3>2
    <2>3. IsFiniteSet(Assigned)
      <3>1. IsFiniteSet(Slots)
        BY FS_Interval
      <3> QED
        BY <3>1, FS_Subset DEF Assigned
    <2>4. Cardinality(Assigned) \in Nat /\ (Cardinality(Assigned) = 0 <=> Assigned = {})
      BY <2>3, FS_EmptySet, FS_CardinalityType
    <2> QED
      BY <2>1, <2>2, <2>4 DEF Empty, Count
  <1>4. Placed' = Placed /\ Woken' = Woken
    BY <1>1, PlacedStays DEF Woken
  <1>5. IF Placed # <<>>
          THEN Answered("run", 0, FALSE) /\ halted' = halted
          ELSE Answered("run", Limit, TRUE) /\ halted' \in BOOLEAN
    BY <1>1, <1>3 DEF Run, Answered
  <1>6. Roster!Run
    BY <1>4, <1>5, IsRun
  <1> QED
    BY <1>6 DEF Roster!Next

\* ImplementsRoster: for every size of the table and every number of processes,
\* table, stale pointers and the count of Spawn (UserProcessScheduler.cc:279-358)
\* come to one roster in which an id is a place, as long as nothing calls Remove.
THEOREM TeamIsARoster == KernelSpec => ImplementsRoster
  <1>1. Init => Roster!Init
    <2> SUFFICES ASSUME Init PROVE Roster!Init
      OBVIOUS
    <2>1. mProcessCount = 0 /\ halted = FALSE /\ ret = [op |-> "none", id |-> 0, ok |-> FALSE]
      BY DEF Init
    <2>2. Woken = {}
      BY DEF Init, Woken
    <2>3. Placed = <<>>
      BY <2>1 DEF Placed
    <2> QED
      BY <2>1, <2>2, <2>3 DEF Roster!Init, Placed, Woken
  <1>2. KernelInv /\ [KernelNext]_vars => [Roster!Next]_(Roster!vars)
    <2> SUFFICES ASSUME KernelInv, [KernelNext]_vars
                 PROVE  Roster!Next \/ UNCHANGED Roster!vars
      OBVIOUS
    <2>1. CASE UNCHANGED vars
      <3>1. Placed' = Placed /\ Woken' = Woken /\ halted' = halted /\ ret' = ret
        BY <2>1, PlacedStays DEF vars, Woken
      <3> QED
        BY <3>1 DEF Roster!vars, Placed, Woken
    <2>2. ASSUME NEW p \in Procs, CreateProcess(p) PROVE Roster!Next
      BY <2>2, CreateMaps
    <2>3. ASSUME NEW p \in Procs, NEW w \in BOOLEAN, Wake(p, w) PROVE Roster!Next
      BY <2>3, WakeMaps
    <2> QED
      BY <2>1, <2>2, <2>3, CrashMaps, FaultMaps, RunMaps DEF KernelNext
  <1> QED
    BY <1>1, <1>2, KernelInvariant, PTL DEF KernelSpec, ImplementsRoster, Roster!Spec
=============================================================================
