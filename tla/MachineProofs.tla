--------------------------- MODULE MachineProofs ----------------------------
(***************************************************************************)
(* Proofs about MCMachine, for every number of cores, processes, lines and *)
(* system calls.                                                           *)
(***************************************************************************)
EXTENDS MCMachine, FiniteSetTheorems, SequenceTheorems, WellFoundedInduction, TLAPS

-----------------------------------------------------------------------------
(***************************************************************************)
(* The hardware threads                                                    *)
(***************************************************************************)

\* A set of numbers that is not empty has a least element.
LEMMA LeastNat ==
    ASSUME NEW T \in SUBSET Nat, T # {}
    PROVE  \E x \in T : \A y \in T : x <= y
  <1>1. \E x \in T : \A y \in T : ~(<<y, x>> \in OpToRel(<, Nat))
    BY WFMin, NatLessThanWellFounded
  <1>2. \A x, y \in Nat : y < x => <<y, x>> \in OpToRel(<, Nat)
    BY DEF OpToRel
  <1>3. PICK x \in T : \A y \in T : ~(<<y, x>> \in OpToRel(<, Nat))
    BY <1>1
  <1>4. \A y \in T : y \in Nat /\ x \in Nat /\ ~(y < x)
    BY <1>2, <1>3
  <1>5. \A y \in T : x <= y
    BY <1>4
  <1> QED
    BY <1>5

\* Max yields the largest time: were there finite sets without a largest
\* element, a smallest one among them would still have none without one of
\* its elements.
LEMMA LargestTime ==
    Longest \in Nat /\ \A t \in PTimes : t \in Nat /\ t <= Longest
  <1> DEFINE HasMax(S) == \E x \in S : \A y \in S : x >= y
             T == {n \in Nat : \E S \in SUBSET PTimes : S # {} /\ Cardinality(S) = n /\ ~HasMax(S)}
  <1>1. T = {}
    <2> SUFFICES ASSUME T # {} PROVE FALSE
      OBVIOUS
    <2>1. PICK n \in T : \A m \in T : n <= m
      BY LeastNat
    <2>2. PICK S \in SUBSET PTimes : S # {} /\ Cardinality(S) = n /\ ~HasMax(S)
      BY <2>1
    <2>3. PICK x \in S : TRUE
      BY <2>2
    <2> DEFINE U == S \ {x}
    <2>4. IsFiniteSet(S) /\ Cardinality(S) \in Nat
      BY ThreadsAssumption, FS_Subset, FS_CardinalityType
    <2>5. IsFiniteSet(U) /\ Cardinality(U) = Cardinality(S) - 1 /\ Cardinality(U) \in Nat
      BY <2>3, <2>4, FS_RemoveElement, FS_CardinalityType
    <2>6. \A y \in S : y \in Nat
      BY ThreadsAssumption
    <2>7. CASE U = {}
      <3>1. \A y \in S : x >= y
        BY <2>3, <2>6, <2>7
      <3> QED
        BY <2>2, <2>3, <3>1
    <2>8. CASE U # {}
      <3>1. HasMax(U)
        <4>1. Cardinality(U) \notin T
          BY <2>1, <2>2, <2>4, <2>5
        <4> QED
          BY <2>5, <2>8, <4>1
      <3>2. PICK u \in U : \A y \in U : u >= y
        BY <3>1
      <3>3. CASE u >= x
        <4>1. \A y \in S : u >= y
          BY <3>2, <3>3
        <4> QED
          BY <2>2, <3>2, <4>1
      <3>4. CASE ~(u >= x)
        <4>1. \A y \in S : x >= y
          BY <2>3, <2>6, <3>2, <3>4
        <4> QED
          BY <2>2, <2>3, <4>1
      <3> QED
        BY <3>3, <3>4
    <2> QED
      BY <2>7, <2>8
  <1>2. HasMax(PTimes)
    <2>1. Cardinality(PTimes) \in Nat /\ PTimes # {}
      BY ThreadsAssumption, FS_CardinalityType
    <2> QED
      BY <1>1, <2>1
  <1>3. Longest \in PTimes /\ \A t \in PTimes : Longest >= t
    BY <1>2 DEF Longest, Max
  <1> QED
    BY <1>3, ThreadsAssumption

\* A process that is switched in has an id and a time, and a busy core has a
\* process.
SwitchTyped ==
    \/ switch = NoSwitch
    \/ switch \in [pid : PIDs, PTime : PTimes, sound : BOOLEAN, index : 0 .. kMaxAPInsideSched]

ThreadsInv ==
    /\ ThreadsTypeOK /\ SwitchTyped
    /\ granted \in [Cores -> PTimes \cup {0}]
    /\ \A c \in Cores : fBusy[c] => fSourcePID[c] # NoPID
    /\ PTimeMatches /\ ContextFound

\* Two processes share a block only if they are the first and the last id.
LEMMA BlockFacts ==
    /\ \A p \in PIDs : Block(p) \in 0 .. kSchedProcessLimitPerTeam - 1
    /\ \A p, q \in PIDs : Block(p) = Block(q) =>
         p = q \/ {p, q} = {0, kSchedProcessLimitPerTeam}
  <1> DEFINE L == kSchedProcessLimitPerTeam
  <1>1. L \in Nat /\ L > 0
    BY ThreadsAssumption
  <1>2. \A p \in PIDs : Block(p) = IF p = L THEN 0 ELSE p
    BY <1>1 DEF PIDs, Block
  <1>3. \A p \in PIDs : p \in Nat /\ p <= L
    BY <1>1 DEF PIDs
  <1> HIDE DEF L
  <1>4. \A p \in PIDs : Block(p) \in 0 .. L - 1
    BY <1>1, <1>2, <1>3
  <1>5. ASSUME NEW p \in PIDs, NEW q \in PIDs, Block(p) = Block(q), p # q
        PROVE  {p, q} = {0, L}
    <2>1. Block(p) = (IF p = L THEN 0 ELSE p) /\ Block(q) = (IF q = L THEN 0 ELSE q)
      BY <1>2
    <2>2. CASE p = L
      BY <1>5, <2>1, <2>2
    <2>3. CASE p # L
      BY <1>5, <2>1, <2>3
    <2> QED
      BY <2>2, <2>3
  <1> QED
    BY <1>4, <1>5 DEF L

LEMMA ThreadConstants ==
    /\ kMaxAPInsideSched \in Nat /\ kSchedProcessLimitPerTeam \in Nat
    /\ kMaxAPInsideSched > 0 /\ kSchedProcessLimitPerTeam > 0
    /\ \A c \in Cores : c \in Nat /\ c + 1 \in 0 .. kMaxAPInsideSched
    /\ NoPID \notin PIDs /\ NoPID \in Int
  BY ThreadsAssumption DEF Cores, PIDs, NoPID

LEMMA ThreadsStart == ThreadsInit => ThreadsInv
  <1> SUFFICES ASSUME ThreadsInit PROVE ThreadsInv
    OBVIOUS
  <1>1. busy_timer \in 0 .. Longest + 1 /\ switch.index \in 0 .. kMaxAPInsideSched
    BY ThreadConstants, LargestTime DEF ThreadsInit, NoSwitch
  <1>2. ThreadsTypeOK
    BY <1>1 DEF ThreadsInit, ThreadsTypeOK
  <1> QED
    BY <1>2 DEF ThreadsInit, ThreadsInv, SwitchTyped, PTimeMatches, ContextFound

\* What a visit of a core leaves of the types.
LEMMA VisitFacts ==
    ASSUME ThreadsInv, NEW c \in Cores, Visit(c)
    PROVE  /\ switch \in [pid : PIDs, PTime : PTimes, sound : BOOLEAN, index : 0 .. kMaxAPInsideSched]
           /\ SwitchTyped' /\ switch'.index \in 0 .. kMaxAPInsideSched
           /\ fKind' \in [Cores -> {"kAPStandard", "kAPBoot"}]
           /\ UNCHANGED fWakeup
           /\ TimerAsked \in 0 .. Longest + 1
  <1>1. switch \in [pid : PIDs, PTime : PTimes, sound : BOOLEAN, index : 0 .. kMaxAPInsideSched]
    BY DEF ThreadsInv, SwitchTyped, Visit
  <1>2. switch' = [switch EXCEPT !.index = c + 1] /\ c + 1 \in 0 .. kMaxAPInsideSched
    BY ThreadConstants DEF Visit, NextCore
  <1>3. switch' \in [pid : PIDs, PTime : PTimes, sound : BOOLEAN, index : 0 .. kMaxAPInsideSched]
    BY <1>1, <1>2
  <1>4. SwitchTyped' /\ switch'.index \in 0 .. kMaxAPInsideSched
    BY <1>3 DEF SwitchTyped
  <1>5. fKind' \in [Cores -> {"kAPStandard", "kAPBoot"}]
    BY DEF Visit, KindAt, ThreadsInv, ThreadsTypeOK
  <1>6. TimerAsked \in 0 .. Longest + 1
    <2>1. switch.PTime \in Nat /\ switch.PTime <= Longest /\ Longest \in Nat /\ busy_timer \in Nat
      BY <1>1, LargestTime DEF ThreadsInv, ThreadsTypeOK
    <2> QED
      BY <2>1 DEF TimerAsked, Expired
  <1> QED
    BY <1>1, <1>4, <1>5, <1>6 DEF Visit

LEMMA RejectedKeeps ==
    ASSUME ThreadsInv, NEW c \in Cores, Visit(c), Rejected(c),
           UNCHANGED caller,
           busy_timer' \in {busy_timer, TimerAsked},
           fBusy' = fBusy \/ fBusy' = [fBusy EXCEPT ![c] = FALSE]
    PROVE  ThreadsInv'
  <1>1. fPTime' = fPTime /\ UNCHANGED <<fSourcePID, blocks, granted>>
    BY DEF Rejected, RollBack, ThreadsInv, ThreadsTypeOK
  <1>2. /\ fBusy' \in [Cores -> BOOLEAN]
        /\ \A d \in Cores : fBusy'[d] => fBusy[d]
    BY DEF ThreadsInv, ThreadsTypeOK
  <1>3. ThreadsTypeOK' /\ SwitchTyped'
    BY <1>1, <1>2, VisitFacts DEF ThreadsInv, ThreadsTypeOK
  <1>4. PTimeMatches' /\ ContextFound'
    BY <1>1, <1>2 DEF ThreadsInv, PTimeMatches, ContextFound
  <1> QED
    BY <1>1, <1>2, <1>3, <1>4 DEF ThreadsInv

LEMMA TakenKeeps ==
    ASSUME ThreadsInv, NEW c \in Cores, SwitchTaken(c)
    PROVE  ThreadsInv'
  <1> DEFINE q == switch.pid
             L == kSchedProcessLimitPerTeam
  <1>1. /\ q \in PIDs /\ switch.PTime \in PTimes /\ q # NoPID
        /\ SwitchTyped' /\ switch'.index \in 0 .. kMaxAPInsideSched
        /\ fKind' \in [Cores -> {"kAPStandard", "kAPBoot"}]
        /\ UNCHANGED <<fWakeup, caller>>
        /\ busy_timer' \in 0 .. Longest + 1
    BY VisitFacts, ThreadConstants DEF SwitchTaken, Stored
  <1>2. /\ fBusy' = [fBusy EXCEPT ![c] = TRUE]
        /\ fPTime' = [fPTime EXCEPT ![c] = switch.PTime]
        /\ fSourcePID' = [fSourcePID EXCEPT ![c] = q]
        /\ blocks' = [blocks EXCEPT ![Block(q)] = q]
        /\ granted' = [granted EXCEPT ![c] = switch.PTime]
    BY DEF SwitchTaken
  <1>3. ThreadsTypeOK' /\ granted' \in [Cores -> PTimes \cup {0}]
    BY <1>1, <1>2 DEF ThreadsInv, ThreadsTypeOK
  <1>4. \A d \in Cores : /\ fSourcePID'[d] = IF d = c THEN q ELSE fSourcePID[d]
                         /\ fPTime'[d] = IF d = c THEN switch.PTime ELSE fPTime[d]
                         /\ granted'[d] = IF d = c THEN switch.PTime ELSE granted[d]
                         /\ fBusy'[d] <=> d = c \/ fBusy[d]
    BY <1>2 DEF ThreadsInv, ThreadsTypeOK
  <1>5. PTimeMatches' /\ \A d \in Cores : fBusy'[d] => fSourcePID'[d] # NoPID
    BY <1>1, <1>4 DEF ThreadsInv, PTimeMatches
  <1>6. ContextFound'
    <2> SUFFICES ASSUME NEW d \in Cores, fBusy'[d]
                 PROVE  LET b == blocks'[Block(fSourcePID'[d])]
                        IN  b = fSourcePID'[d] \/ {b, fSourcePID'[d]} = {0, L}
      BY DEF ContextFound, Block
    <2>1. /\ fSourcePID'[d] \in PIDs
          /\ d # c => fBusy[d] /\ fSourcePID'[d] = fSourcePID[d]
      BY <1>1, <1>4 DEF ThreadsInv, ThreadsTypeOK
    <2>2. CASE Block(fSourcePID'[d]) = Block(q)
      <3>1. blocks'[Block(q)] = q
        BY <1>1, <1>2, BlockFacts DEF ThreadsInv, ThreadsTypeOK
      <3> QED
        BY <1>1, <2>1, <2>2, <3>1, BlockFacts
    <2>3. CASE Block(fSourcePID'[d]) # Block(q)
      <3>1. d # c /\ fBusy[d] /\ fSourcePID'[d] = fSourcePID[d]
        BY <1>4, <2>1, <2>3
      <3>2. blocks'[Block(fSourcePID[d])] = blocks[Block(fSourcePID[d])]
        BY <1>2, <2>1, <2>3, <3>1, BlockFacts DEF ThreadsInv, ThreadsTypeOK
      <3> QED
        BY <3>1, <3>2 DEF ThreadsInv, ContextFound, Block
    <2> QED
      BY <2>2, <2>3
  <1> QED
    BY <1>1, <1>3, <1>5, <1>6 DEF ThreadsInv

LEMMA ThreadsStep == ThreadsInv /\ ThreadsNext => ThreadsInv'
  <1> SUFFICES ASSUME ThreadsInv, ThreadsNext PROVE ThreadsInv'
    OBVIOUS
  <1>1. ASSUME NEW pid \in PIDs, NEW time \in PTimes, NEW sound \in BOOLEAN,
               BeginSwitch(pid, time, sound)
        PROVE  ThreadsInv'
    <2>1. SwitchTyped' /\ switch'.index \in 0 .. kMaxAPInsideSched
      BY <1>1, ThreadConstants DEF BeginSwitch, SwitchTyped
    <2> QED
      BY <1>1, <2>1 DEF BeginSwitch, coreVars, ThreadsInv, ThreadsTypeOK, PTimeMatches, ContextFound
  <1>2. ASSUME NEW c \in Cores, SkipBootCore(c) \/ CoreLost(c) \/ GoAstray(c)
        PROVE  ThreadsInv'
    <2>1. /\ Visit(c) /\ UNCHANGED <<fBusy, fPTime, fSourcePID, busy_timer, blocks, granted>>
          /\ caller' \in {caller, "astray"}
      BY <1>2 DEF SkipBootCore, CoreLost, GoAstray
    <2> QED
      BY <2>1, VisitFacts DEF ThreadsInv, ThreadsTypeOK, PTimeMatches, ContextFound
  <1>3. ASSUME NEW c \in Cores, SwitchAsleep(c) \/ SwitchBusy(c) \/ SwitchBadStack(c)
        PROVE  ThreadsInv'
    BY <1>3, RejectedKeeps DEF SwitchAsleep, SwitchBusy, SwitchBadStack, Stored
  <1>4. ASSUME NEW c \in Cores, SwitchTaken(c)
        PROVE  ThreadsInv'
    BY <1>4, TakenKeeps
  <1>5. CASE EndSwitch
    <2>1. SwitchTyped' /\ switch'.index \in 0 .. kMaxAPInsideSched
      BY <1>5, ThreadConstants DEF EndSwitch, SwitchTyped, NoSwitch
    <2> QED
      BY <1>5, <2>1 DEF EndSwitch, coreVars, ThreadsInv, ThreadsTypeOK, PTimeMatches, ContextFound
  <1>6. ASSUME NEW c \in Cores, NEW wakeup \in BOOLEAN, Wake(c, wakeup)
        PROVE  ThreadsInv'
    BY <1>6 DEF Wake, SwitchTyped, ThreadsInv, ThreadsTypeOK, PTimeMatches, ContextFound
  <1> QED
    BY <1>1, <1>2, <1>3, <1>4, <1>5, <1>6 DEF ThreadsNext, VisitCore

-----------------------------------------------------------------------------
(***************************************************************************)
(* Interrupts                                                              *)
(***************************************************************************)
Words == {"ss", "rsp", "cs", "code", "rax"} \cup BOOLEAN
           \cup {"run", "halt", "lost", "entry", "handler", "sched", "iret"}

\* The lowest words of the stack are those of an interrupt of the code, or of
\* the kernel that has stopped and halts.
HomeFrame(s) ==
    /\ s[3] \in BOOLEAN
    /\ s[5] = IF stopped THEN "halt" ELSE "run"

\* A frame an iret leads home from, and one with an error code on top.
Bare == Len(stack) = 5 /\ HomeFrame(stack) /\ vec \notin ErrorCodes
Coded == /\ Len(stack) = 6 /\ HomeFrame(stack) /\ stack[6] = "code"
         /\ ~stopped /\ vec \in ErrorCodes

\* What is on the stack at every place of the core: at most an interrupt of
\* the code and the page fault of the scheduler on top of it.
StackInv ==
    /\ stack \in Seq(Words)
    /\ pc = "run" => stack = <<>> /\ ~stopped
    /\ pc = "halt" => stopped /\ (iflag => stack = <<>>) /\ Len(stack) <= 13
    /\ pc = "lost" => Len(stack) <= 1 /\ vec \in (ErrorCodes \ Called) \cup {NoVector}
    /\ pc = "entry" => /\ ~iflag /\ vec \in 0..255
                       /\ Bare \/ Coded \/ (vec \in {13, 14} /\ Len(stack) <= 12)
    /\ pc = "handler" => /\ ~iflag /\ vec \in Called /\ Len(stack) <= 13
                         /\ vec \in {3, 32, 50, 51} => Len(stack) = 6 /\ HomeFrame(stack)
    /\ pc = "sched" => ~iflag /\ vec = 32 /\ Len(stack) = 6 /\ HomeFrame(stack)
    /\ pc = "iret" => ~iflag /\ (Bare \/ (Coded /\ vec \notin Called))

\* Where the static of idt_handle_scheduler is set.
FlagInv ==
    is_scheduling => \/ pc = "sched"
                     \/ pc \in {"entry", "handler"} /\ vec = 14
                     \/ pc = "halt" /\ ~iflag

\* One line at most is in service, and only until the stub has ended it.
ServiceInv == isr = {} \/ (pc = "entry" /\ \E l \in Lines : isr = {l})

TablesInv ==
    /\ tables \in {{}, {"GDT"}, {"GDT", "IDT"}}
    /\ ~Up => pc = "run"

\* What the last system call that has been handled found in the table.
ServedInv ==
    /\ hooks \in [0 .. SyscallMax - 1 -> {"none", "null", "proc"}]
    /\ served \in [index : Int, ran : BOOLEAN]
    /\ pc = "iret" /\ vec \in {50, 51} =>
         (served.ran <=> InTable(served.index) /\ hooks[served.index] = "proc")

InterruptsInv ==
    InterruptsTypeOK /\ StackInv /\ FlagInv /\ ServiceInv /\ TablesInv /\ ServedInv

LEMMA PushedFacts ==
    ASSUME NEW v, iflag \in BOOLEAN,
           pc \in {"run", "halt", "lost", "entry", "handler", "sched", "iret"}
    PROVE  /\ Pushed(v) \in Seq(Words)
           /\ Len(Pushed(v)) = IF v \in ErrorCodes THEN 6 ELSE 5
           /\ Pushed(v)[3] = iflag /\ Pushed(v)[5] = pc
           /\ v \in ErrorCodes => Pushed(v)[6] = "code"
  <1> DEFINE f == <<"ss", "rsp", iflag, "cs", pc>>
             e == IF v \in ErrorCodes THEN <<"code">> ELSE <<>>
  <1>1. f \in Seq(Words) /\ Len(f) = 5 /\ f[3] = iflag /\ f[5] = pc
    BY DEF Words
  <1>2. e \in Seq(Words) /\ Len(e) = (IF v \in ErrorCodes THEN 1 ELSE 0)
        /\ (v \in ErrorCodes => e[1] = "code")
    <2>1. "code" \in Words
      BY DEF Words
    <2>2. CASE v \in ErrorCodes
      BY <2>1, <2>2
    <2>3. CASE v \notin ErrorCodes
      BY <2>3, EmptySeq
    <2> QED
      BY <2>2, <2>3
  <1>3. Pushed(v) = f \o e
    BY DEF Pushed
  <1> HIDE DEF f, e
  <1>4. /\ f \o e \in Seq(Words) /\ Len(f \o e) = Len(f) + Len(e)
        /\ \A i \in 1 .. Len(f) + Len(e) :
             (f \o e)[i] = IF i <= Len(f) THEN f[i] ELSE e[i - Len(f)]
    BY <1>1, <1>2, ConcatProperties, Zenon
  <1>5. (f \o e)[3] = f[3] /\ (f \o e)[5] = f[5]
    BY <1>1, <1>2, <1>4
  <1>6. v \in ErrorCodes => (f \o e)[6] = e[1]
    BY <1>1, <1>2, <1>4
  <1> QED
    BY <1>1, <1>2, <1>3, <1>4, <1>5, <1>6

LEMMA InterruptsStart == InterruptsInit => InterruptsInv
  <1> SUFFICES ASSUME InterruptsInit PROVE InterruptsInv
    OBVIOUS
  <1>1. InterruptsTypeOK
    <2>1. Len(stack) <= 3 * 7
      BY EmptySeq DEF InterruptsInit
    <2> QED
      BY <2>1, InterruptsAssumption DEF InterruptsInit, InterruptsTypeOK
  <1>2. StackInv
    BY EmptySeq DEF InterruptsInit, StackInv
  <1>3. FlagInv /\ ServiceInv /\ TablesInv /\ ServedInv
    BY DEF InterruptsInit, FlagInv, ServiceInv, TablesInv, ServedInv, NoServed, NoVector
  <1> QED
    BY <1>1, <1>2, <1>3 DEF InterruptsInv

\* What an interrupt leaves on the stack, on top of nothing or of more.
LEMMA EnterFacts ==
    ASSUME InterruptsInv, NEW v, Enter(v)
    PROVE  /\ pc' = "entry" /\ vec' = v /\ iflag' = FALSE
           /\ stack' \in Seq(Words) /\ Len(stack) \in Nat /\ Len(stack') \in Nat
           /\ Len(stack') = Len(stack) + (IF v \in ErrorCodes THEN 6 ELSE 5)
           /\ stack = <<>> => /\ stack'[3] = iflag /\ stack'[5] = pc
                              /\ v \in ErrorCodes => stack'[6] = "code"
  <1>1. /\ iflag \in BOOLEAN /\ stack \in Seq(Words)
        /\ pc \in {"run", "halt", "lost", "entry", "handler", "sched", "iret"}
    BY DEF InterruptsInv, InterruptsTypeOK, StackInv
  <1>2. /\ Pushed(v) \in Seq(Words)
        /\ Len(Pushed(v)) = IF v \in ErrorCodes THEN 6 ELSE 5
        /\ Pushed(v)[3] = iflag /\ Pushed(v)[5] = pc
        /\ v \in ErrorCodes => Pushed(v)[6] = "code"
    BY <1>1, PushedFacts
  <1>3. /\ stack \o Pushed(v) \in Seq(Words)
        /\ Len(stack \o Pushed(v)) = Len(stack) + Len(Pushed(v))
    BY <1>1, <1>2, ConcatProperties, Zenon
  <1>4. <<>> \o Pushed(v) = Pushed(v)
    BY <1>2, ConcatEmptySeq, Zenon
  <1>5. /\ stack' = stack \o Pushed(v) /\ pc' = "entry" /\ vec' = v /\ iflag' = FALSE
    BY DEF Enter, GateIF
  <1>6. Len(stack) \in Nat /\ Len(stack') \in Nat
    BY <1>1, <1>3, <1>5, LenProperties, Zenon
  <1>7. Len(stack') = Len(stack) + (IF v \in ErrorCodes THEN 6 ELSE 5)
    BY <1>2, <1>3, <1>5
  <1>8. stack = <<>> => stack' = Pushed(v)
    BY <1>4, <1>5
  <1> QED
    BY <1>2, <1>3, <1>5, <1>6, <1>7, <1>8

\* The core is interrupted at home: in the code, or halted with the flag set.
LEMMA HomeEntry ==
    ASSUME InterruptsInv, NEW v \in 0..255, Enter(v), UNCHANGED <<stopped, is_scheduling>>,
           pc = "run" \/ (pc = "halt" /\ iflag), pc = "halt" => v \notin ErrorCodes
    PROVE  StackInv' /\ FlagInv' /\ Len(stack') <= 21
  <1>1. stack = <<>> /\ (pc = "halt" <=> stopped) /\ ~is_scheduling
    BY DEF InterruptsInv, StackInv, FlagInv
  <1>2. Len(stack) = 0
    BY <1>1, EmptySeq
  <1>3. /\ pc' = "entry" /\ vec' = v /\ iflag' = FALSE
        /\ stack' \in Seq(Words)
        /\ Len(stack') = IF v \in ErrorCodes THEN 6 ELSE 5
        /\ stack'[3] = iflag /\ stack'[5] = pc
        /\ v \in ErrorCodes => stack'[6] = "code"
    <2>1. Len(stack') = Len(stack) + (IF v \in ErrorCodes THEN 6 ELSE 5)
      BY EnterFacts
    <2>2. Len(stack') = IF v \in ErrorCodes THEN 6 ELSE 5
      BY <1>2, <2>1
    <2> QED
      BY <1>1, <2>2, EnterFacts
  <1>4. iflag \in BOOLEAN
    BY DEF InterruptsInv, InterruptsTypeOK
  <1>5. HomeFrame(stack)'
    BY <1>1, <1>3, <1>4 DEF HomeFrame
  <1>6. v \in ErrorCodes => Coded'
    BY <1>1, <1>3, <1>5 DEF Coded
  <1>7. v \notin ErrorCodes => Bare'
    BY <1>3, <1>5 DEF Bare
  <1>8. StackInv'
    BY <1>3, <1>6, <1>7 DEF StackInv
  <1> QED
    BY <1>1, <1>3, <1>8 DEF FlagInv

\* One more interrupt on top, by code that is lost or by the scheduler: the
\* kernel stops in its handler.
LEMMA LastEntry ==
    ASSUME InterruptsInv, NEW v \in {13, 14}, Enter(v), UNCHANGED <<stopped, is_scheduling>>,
           Len(stack) <= 6, is_scheduling => v = 14
    PROVE  StackInv' /\ FlagInv' /\ Len(stack') <= 21
  <1>1. /\ pc' = "entry" /\ vec' = v /\ iflag' = FALSE
        /\ stack' \in Seq(Words) /\ Len(stack) \in Nat
        /\ Len(stack') = Len(stack) + 6
    BY EnterFacts DEF ErrorCodes
  <1>2. Len(stack') <= 12 /\ v \in 0..255
    BY <1>1
  <1>3. StackInv'
    BY <1>1, <1>2 DEF StackInv
  <1> QED
    BY <1>1, <1>2, <1>3 DEF FlagInv

\* The PICs: the end of interrupt takes the one line off.
LEMMA ServiceEnds ==
    ASSUME ServiceInv
    PROVE  EndOfInterrupt(isr) = {}
  <1>1. CASE isr = {}
    BY <1>1 DEF EndOfInterrupt
  <1>2. ASSUME NEW l \in Lines, isr = {l}
        PROVE  EndOfInterrupt(isr) = {}
    <2>1. l \in 0..15
      BY InterruptsAssumption
    <2>2. CASE l < 8
      <3>1. {k \in isr : k < 8} = {l}
        BY <1>2, <2>2
      <3>2. First({l}) = {l}
        BY <2>1, <2>2 DEF First, Rank
      <3> QED
        BY <1>2, <3>1, <3>2 DEF EndOfInterrupt
    <2>3. CASE l >= 8
      <3>1. {k \in isr : k >= 8} = {l}
        BY <1>2, <2>3
      <3>2. First({l}) = {l}
        BY <2>1, <2>3 DEF First, Rank
      <3> QED
        BY <1>2, <3>1, <3>2 DEF EndOfInterrupt
    <2> QED
      BY <2>1, <2>2, <2>3
  <1> QED
    BY <1>1, <1>2 DEF ServiceInv

\* The steps that enter a stub.
LEMMA EntriesKeep ==
    ASSUME InterruptsInv,
           \/ \E l \in Lines : Deliver(l)
           \/ \E v \in Exceptions : Raises(v)
           \/ \E v \in {50, 51}, index \in 0 .. SyscallMax : Calls(v, index)
           \/ LostFaults \/ RunFaults
    PROVE  InterruptsInv'
  <1> DEFINE Entered == /\ StackInv' /\ FlagInv' /\ Len(stack') <= 21
                        /\ pc' = "entry" /\ iflag' = FALSE /\ vec' \in 0..255
                        /\ UNCHANGED <<tables, imr, team, is_scheduling, hooks, stopped>>
             Serviced == irr' \subseteq Lines /\ isr' \subseteq Lines /\ ServiceInv'
  <1>1. Entered
    <2>1. ASSUME NEW l \in Lines, Deliver(l)
          PROVE  Entered
      <3>1. 32 + l \in 0..255 /\ 32 + l \notin ErrorCodes
        BY InterruptsAssumption DEF ErrorCodes
      <3>2. pc = "run" \/ (pc = "halt" /\ iflag)
        BY <2>1 DEF Deliver, InterruptsInv, StackInv
      <3> QED
        BY <2>1, <3>1, <3>2, HomeEntry, EnterFacts DEF Deliver
    <2>2. ASSUME NEW v \in Exceptions, Raises(v)
          PROVE  Entered
      <3>1. v \in 0..255
        BY InterruptsAssumption
      <3> QED
        BY <2>2, <3>1, HomeEntry, EnterFacts DEF Raises, picVars
    <2>3. ASSUME NEW v \in {50, 51}, NEW index \in 0 .. SyscallMax, Calls(v, index)
          PROVE  Entered
      <3>1. v \in 0..255
        OBVIOUS
      <3> QED
        BY <2>3, <3>1, HomeEntry, EnterFacts DEF Calls, picVars
    <2>4. CASE LostFaults
      <3>1. Len(stack) <= 6 /\ ~is_scheduling
        <4>1. Len(stack) \in Nat
          BY LenProperties DEF InterruptsInv, StackInv
        <4> QED
          BY <2>4, <4>1 DEF LostFaults, InterruptsInv, StackInv, FlagInv
      <3> QED
        <4>0. Enter(13) => pc' = "entry" /\ vec' = 13 /\ iflag' = FALSE
          BY DEF Enter, GateIF
        <4>1. Enter(13) /\ UNCHANGED <<tables, imr, team, is_scheduling, hooks, stopped>>
          BY <2>4 DEF LostFaults, picVars
        <4>2. StackInv' /\ FlagInv' /\ Len(stack') <= 21
          BY <3>1, <4>1, LastEntry
        <4> QED
          BY <4>0, <4>1, <4>2
    <2>5. CASE RunFaults
      <3>1. Len(stack) = 6
        BY <2>5 DEF RunFaults, InterruptsInv, StackInv
      <3>2. Len(stack) <= 6
        BY <3>1
      <3> QED
        <4>0. Enter(14) => pc' = "entry" /\ vec' = 14 /\ iflag' = FALSE
          BY DEF Enter, GateIF
        <4>1. Enter(14) /\ UNCHANGED <<tables, imr, team, is_scheduling, hooks, stopped>>
          BY <2>5 DEF RunFaults, picVars
        <4>2. StackInv' /\ FlagInv' /\ Len(stack') <= 21
          BY <3>2, <4>1, LastEntry
        <4> QED
          BY <4>0, <4>1, <4>2
    <2> QED
      BY <2>1, <2>2, <2>3, <2>4, <2>5
  <1>2. Serviced
    <2>1. ASSUME NEW l \in Lines, Deliver(l)
          PROVE  Serviced
      <3>1. isr = {}
        BY <2>1 DEF Deliver, InterruptsInv, ServiceInv
      <3> QED
        BY <1>1, <2>1, <3>1 DEF Deliver, InterruptsInv, InterruptsTypeOK, ServiceInv
    <2>2. CASE UNCHANGED picVars
      <3>1. isr = {} \/ \E l \in Lines : isr = {l}
        BY DEF InterruptsInv, ServiceInv
      <3> QED
        BY <1>1, <2>2, <3>1 DEF picVars, InterruptsInv, InterruptsTypeOK, ServiceInv
    <2> QED
      BY <2>1, <2>2 DEF Raises, Calls, LostFaults, RunFaults
  <1>3. InterruptsTypeOK'
    <2>1. /\ iflag' \in BOOLEAN /\ is_scheduling' \in BOOLEAN /\ stopped' \in BOOLEAN
          /\ imr' \subseteq Lines /\ team' \in 0 .. TeamLimit + 1
      BY <1>1 DEF InterruptsInv, InterruptsTypeOK
    <2> QED
      BY <1>1, <1>2, <2>1 DEF InterruptsTypeOK
  <1>4. TablesInv'
    <2>1. Up
      BY DEF Deliver, Raises, Calls, LostFaults, RunFaults, InterruptsInv, TablesInv
    <2> QED
      BY <1>1, <2>1 DEF InterruptsInv, TablesInv, Up
  <1>5. ServedInv'
    <2>1. served' \in [index : Int, ran : BOOLEAN]
      <3>1. served \in [index : Int, ran : BOOLEAN]
        BY DEF InterruptsInv, ServedInv
      <3>2. served' = served \/ \E index \in 0 .. SyscallMax : served' = [index |-> index, ran |-> FALSE]
        BY DEF Deliver, Raises, Calls, LostFaults, RunFaults
      <3>3. ASSUME NEW index \in 0 .. SyscallMax
            PROVE  [index |-> index, ran |-> FALSE] \in [index : Int, ran : BOOLEAN]
        BY InterruptsAssumption
      <3> QED
        BY <3>1, <3>2, <3>3
    <2> QED
      BY <1>1, <2>1 DEF InterruptsInv, ServedInv
  <1> QED
    BY <1>1, <1>2, <1>3, <1>4, <1>5 DEF InterruptsInv

\* The handler's pop of rax leaves the frame of the interrupt.
LEMMA ReturnedFacts ==
    ASSUME NEW s \in Seq(Words), Len(s) = 6
    PROVE  /\ Returned(s) \in Seq(Words) /\ Len(Returned(s)) = 5
           /\ Returned(s)[3] = s[3] /\ Returned(s)[5] = s[5]
  <1>0. s \in [1 .. Len(s) -> Words]
    BY LenProperties
  <1>1. \A i \in 1 .. 5 : s[i] \in Words
    BY <1>0
  <1>2. /\ SubSeq(s, 1, 5) \in Seq(Words)
        /\ Len(SubSeq(s, 1, 5)) = IF 1 <= 5 THEN 5 - 1 + 1 ELSE 0
        /\ \A i \in 1 .. 5 - 1 + 1 : SubSeq(s, 1, 5)[i] = s[1 + i - 1]
    BY <1>1, SubSeqProperties
  <1>3. Returned(s) = SubSeq(s, 1, 5)
    BY DEF Returned
  <1>4. SubSeq(s, 1, 5)[3] = s[3] /\ SubSeq(s, 1, 5)[5] = s[5]
    BY <1>2
  <1> QED
    BY <1>2, <1>3, <1>4

LEMMA SavedFacts ==
    ASSUME NEW s \in Seq(Words)
    PROVE  /\ Append(s, "rax") \in Seq(Words)
           /\ Len(s) \in Nat /\ Len(Append(s, "rax")) = Len(s) + 1
           /\ Len(s) = 5 => Append(s, "rax")[3] = s[3] /\ Append(s, "rax")[5] = s[5]
  <1>1. "rax" \in Words
    BY DEF Words
  <1>2. /\ Append(s, "rax") \in Seq(Words)
        /\ Len(Append(s, "rax")) = Len(s) + 1
        /\ \A i \in 1 .. Len(s) : Append(s, "rax")[i] = s[i]
    BY <1>1, AppendProperties
  <1>3. Len(s) \in Nat
    BY LenProperties
  <1> QED
    BY <1>2, <1>3

\* The steps outside of interrupts.
LEMMA OutsideKeeps ==
    ASSUME InterruptsInv,
           LoadGDT \/ LoadIDT \/ Spawn \/ FastCall \/ StopInKernel \/ \E l \in Lines : Raise(l)
    PROVE  InterruptsInv'
  <1>1. CASE LoadGDT
    <2>1. pc = "run"
      BY <1>1 DEF LoadGDT, InterruptsInv, TablesInv, Up
    <2>2. InterruptsTypeOK' /\ StackInv' /\ FlagInv'
      BY <1>1, <2>1, InterruptsAssumption DEF LoadGDT, picVars, KernelProcess, InterruptsInv, InterruptsTypeOK, StackInv, FlagInv
    <2>3. ServiceInv' /\ TablesInv' /\ ServedInv'
      BY <1>1, <2>1 DEF LoadGDT, picVars, InterruptsInv, ServiceInv, TablesInv, ServedInv, Up
    <2> QED
      BY <2>2, <2>3 DEF InterruptsInv
  <1>2. CASE LoadIDT
    <2>1. pc = "run" /\ isr = {}
      BY <1>2 DEF LoadIDT, InterruptsInv, TablesInv, ServiceInv, Up
    <2>2. imr' = {}
      BY <1>2 DEF LoadIDT, Unmasked, PicsReset
    <2>3. InterruptsTypeOK' /\ StackInv' /\ FlagInv'
      BY <1>2, <2>1, <2>2 DEF LoadIDT, InterruptsInv, InterruptsTypeOK, StackInv, FlagInv
    <2>4. ServiceInv' /\ TablesInv' /\ ServedInv'
      BY <1>2, <2>1 DEF LoadIDT, InterruptsInv, ServiceInv, TablesInv, ServedInv, Up
    <2> QED
      BY <2>3, <2>4 DEF InterruptsInv
  <1>3. CASE FastCall
    <2>1. pc = "run" /\ isr = {} /\ stack = <<>> /\ ~is_scheduling /\ Len(stack) = 0
      BY <1>3, EmptySeq DEF FastCall, InterruptsInv, StackInv, FlagInv, ServiceInv
    <2>2. InterruptsTypeOK' /\ StackInv' /\ FlagInv'
      BY <1>3, <2>1 DEF FastCall, picVars, InterruptsInv, InterruptsTypeOK, StackInv, FlagInv
    <2>3. ServiceInv' /\ TablesInv' /\ ServedInv'
      BY <1>3, <2>1 DEF FastCall, picVars, InterruptsInv, ServiceInv, TablesInv, ServedInv, Up
    <2> QED
      BY <2>2, <2>3 DEF InterruptsInv
  <1>4. CASE StopInKernel
    <2>1. pc = "run" /\ isr = {} /\ stack = <<>> /\ ~is_scheduling /\ Len(stack) = 0
      BY <1>4, EmptySeq DEF StopInKernel, InterruptsInv, StackInv, FlagInv, ServiceInv
    <2>2. InterruptsTypeOK' /\ StackInv' /\ FlagInv'
      BY <1>4, <2>1 DEF StopInKernel, ke_stop, picVars, InterruptsInv, InterruptsTypeOK, StackInv, FlagInv
    <2>3. ServiceInv' /\ TablesInv' /\ ServedInv'
      BY <1>4, <2>1 DEF StopInKernel, ke_stop, picVars, InterruptsInv, ServiceInv, TablesInv, ServedInv, Up
    <2> QED
      BY <2>2, <2>3 DEF InterruptsInv
  <1>5. ASSUME NEW l \in Lines, Raise(l)
        PROVE  InterruptsInv'
    <2>1. InterruptsTypeOK'
      BY <1>5 DEF Raise, InterruptsInv, InterruptsTypeOK
    <2>2. StackInv' /\ FlagInv'
      BY <1>5 DEF Raise, InterruptsInv, StackInv, FlagInv, Bare, Coded, HomeFrame
    <2>3. ServiceInv' /\ TablesInv' /\ ServedInv'
      BY <1>5 DEF Raise, InterruptsInv, ServiceInv, TablesInv, ServedInv, Up, InTable, Count
    <2> QED
      BY <2>1, <2>2, <2>3 DEF InterruptsInv
  <1>6. CASE Spawn
    <2>1. team' \in 0 .. TeamLimit + 1
      BY <1>6, InterruptsAssumption DEF Spawn, InterruptsInv, InterruptsTypeOK
    <2>2. InterruptsTypeOK'
      BY <1>6, <2>1 DEF Spawn, picVars, InterruptsInv, InterruptsTypeOK
    <2>3. StackInv' /\ FlagInv'
      BY <1>6 DEF Spawn, picVars, InterruptsInv, StackInv, FlagInv, Bare, Coded, HomeFrame
    <2>4. ServiceInv' /\ TablesInv' /\ ServedInv'
      BY <1>6 DEF Spawn, picVars, InterruptsInv, ServiceInv, TablesInv, ServedInv, Up, InTable, Count
    <2> QED
      BY <2>2, <2>3, <2>4 DEF InterruptsInv
  <1> QED
    BY <1>1, <1>2, <1>3, <1>4, <1>5, <1>6

LEMMA StubKeeps ==
    ASSUME InterruptsInv, Stub
    PROVE  InterruptsInv'
  <1>1. /\ pc = "entry" /\ isr' = {} /\ stack \in Seq(Words)
        /\ vec \in 0..255 /\ ~iflag
        /\ Bare \/ Coded \/ (vec \in {13, 14} /\ Len(stack) <= 12)
        /\ UNCHANGED <<tables, irr, imr, vec, iflag, team, is_scheduling, hooks, served, stopped>>
    BY ServiceEnds DEF Stub, InterruptsInv, StackInv
  <1>2. CASE vec \in Plain /\ pc' = "iret" /\ UNCHANGED stack
    <2>1. vec \notin Called /\ vec # 14 /\ vec # 13 /\ vec \notin {50, 51}
      BY <1>2 DEF Plain, Called
    <2>2. InterruptsTypeOK'
      BY <1>1, <1>2 DEF InterruptsInv, InterruptsTypeOK
    <2>3. StackInv'
      BY <1>1, <1>2, <2>1 DEF StackInv, Bare, Coded, HomeFrame
    <2>4. FlagInv'
      BY <1>1, <1>2, <2>1 DEF InterruptsInv, FlagInv
    <2>5. ServiceInv' /\ TablesInv' /\ ServedInv'
      BY <1>1, <1>2, <2>1 DEF InterruptsInv, ServiceInv, TablesInv, ServedInv, Up
    <2> QED
      BY <2>2, <2>3, <2>4, <2>5 DEF InterruptsInv
  <1>3. CASE vec \in Called /\ pc' = "handler" /\ stack' = Append(stack, "rax")
    <2>1. /\ stack' \in Seq(Words) /\ Len(stack) \in Nat /\ Len(stack') = Len(stack) + 1
          /\ Len(stack) = 5 => stack'[3] = stack[3] /\ stack'[5] = stack[5]
      BY <1>1, <1>3, SavedFacts
    <2>2. Len(stack) <= 12
      <3>1. CASE Bare
        <4>1. Len(stack) = 5
          BY <3>1 DEF Bare
        <4> QED
          BY <4>1
      <3>2. CASE Coded
        <4>1. Len(stack) = 6
          BY <3>2 DEF Coded
        <4> QED
          BY <4>1
      <3> QED
        BY <1>1, <3>1, <3>2
    <2>3. vec \in {3, 32, 50, 51} => Len(stack') = 6 /\ HomeFrame(stack)'
      <3>1. vec \in {3, 32, 50, 51} => Bare
        BY <1>1 DEF Coded, ErrorCodes
      <3>2. Bare => Len(stack) = 5 /\ HomeFrame(stack)
        BY DEF Bare
      <3>3. Len(stack) = 5 => Len(stack') = 6
        BY <2>1
      <3>4. Len(stack) = 5 /\ HomeFrame(stack) => HomeFrame(stack)'
        BY <1>1, <2>1 DEF HomeFrame
      <3> QED
        BY <3>1, <3>2, <3>3, <3>4
    <2>4. Len(stack') <= 13
      BY <2>1, <2>2
    <2>5. InterruptsTypeOK'
      BY <1>1, <1>3, <2>1, <2>4 DEF InterruptsInv, InterruptsTypeOK
    <2>6. StackInv'
      BY <1>1, <1>3, <2>1, <2>3, <2>4 DEF StackInv
    <2>7. FlagInv'
      BY <1>1, <1>3 DEF InterruptsInv, FlagInv
    <2>8. ServiceInv' /\ TablesInv' /\ ServedInv'
      BY <1>1, <1>3 DEF InterruptsInv, ServiceInv, TablesInv, ServedInv, Up
    <2> QED
      BY <2>5, <2>6, <2>7, <2>8 DEF InterruptsInv
  <1> QED
    BY <1>2, <1>3 DEF Stub

\* The kernel stops in a handler.
LEMMA StopKeeps ==
    ASSUME InterruptsInv, pc = "handler", ke_stop,
           UNCHANGED <<tables, irr, isr, imr, vec, iflag, team, is_scheduling, hooks, served>>
    PROVE  InterruptsInv'
  <1>1. /\ ~iflag /\ Len(stack) <= 13 /\ isr = {} /\ stack \in Seq(Words)
        /\ pc' = "halt" /\ stopped' = TRUE /\ stack' = stack
    BY DEF ke_stop, InterruptsInv, StackInv, ServiceInv
  <1>2. Len(stack) \in Nat
    BY <1>1, LenProperties
  <1>3. InterruptsTypeOK'
    BY <1>1, <1>2 DEF InterruptsInv, InterruptsTypeOK
  <1>4. StackInv' /\ FlagInv'
    BY <1>1 DEF StackInv, FlagInv
  <1>5. ServiceInv' /\ TablesInv' /\ ServedInv'
    BY <1>1 DEF InterruptsInv, ServiceInv, TablesInv, ServedInv, Up
  <1> QED
    BY <1>3, <1>4, <1>5 DEF InterruptsInv

\* A handler returns to its stub.
LEMMA HandledKeeps ==
    ASSUME InterruptsInv, pc \in {"handler", "sched"}, vec \in {3, 32, 50, 51},
           pc' = "iret", stack' = Returned(stack),
           UNCHANGED <<tables, irr, isr, imr, vec, iflag, hooks, stopped>>,
           UNCHANGED team,
           is_scheduling' = FALSE,
           served' \in [index : Int, ran : BOOLEAN],
           vec \in {50, 51} => (served'.ran <=> InTable(served'.index) /\ hooks[served'.index] = "proc")
    PROVE  InterruptsInv'
  <1>1. ~iflag /\ Len(stack) = 6 /\ HomeFrame(stack) /\ stack \in Seq(Words) /\ isr = {}
    BY DEF InterruptsInv, StackInv, ServiceInv
  <1>2. /\ stack' \in Seq(Words) /\ Len(stack') = 5
        /\ stack'[3] = stack[3] /\ stack'[5] = stack[5]
    BY <1>1, ReturnedFacts
  <1>3. Bare'
    BY <1>1, <1>2 DEF Bare, HomeFrame, ErrorCodes
  <1>4. InterruptsTypeOK'
    <2>1. Len(stack') <= 3 * 7
      BY <1>2
    <2> QED
      BY <2>1 DEF InterruptsInv, InterruptsTypeOK
  <1>5. StackInv' /\ FlagInv'
    BY <1>1, <1>2, <1>3 DEF StackInv, FlagInv
  <1>6. ServiceInv' /\ TablesInv'
    BY <1>1 DEF InterruptsInv, ServiceInv, TablesInv, Up
  <1>7. ServedInv'
    BY DEF InterruptsInv, ServedInv, InTable, Count
  <1> QED
    BY <1>4, <1>5, <1>6, <1>7 DEF InterruptsInv

LEMMA HandlersKeep ==
    ASSUME InterruptsInv,
           HandleFault \/ HandleBreakpoint \/ HandleScheduler \/ RunReturns \/ HandleCall
    PROVE  InterruptsInv'
  <1>0. /\ served \in [index : Int, ran : BOOLEAN]
        /\ is_scheduling \in BOOLEAN
    BY DEF InterruptsInv, InterruptsTypeOK, ServedInv
  <1>1. CASE HandleFault
    BY <1>1, StopKeeps DEF HandleFault, picVars
  <1>2. CASE HandleBreakpoint
    <2>1. CASE ke_stop
      BY <1>2, <2>1, StopKeeps DEF HandleBreakpoint, picVars
    <2>2. CASE /\ HasCurrentProcess
               /\ pc' = "iret" /\ stack' = Returned(stack) /\ UNCHANGED stopped
      <3>1. is_scheduling' = FALSE
        BY <1>0, <1>2 DEF HandleBreakpoint, InterruptsInv, FlagInv
      <3>2. /\ pc \in {"handler", "sched"} /\ vec = 3
            /\ served' \in [index : Int, ran : BOOLEAN]
            /\ UNCHANGED <<tables, irr, isr, imr, vec, iflag, hooks, stopped>>
        BY <1>0, <1>2, <2>2 DEF HandleBreakpoint, picVars
      <3>3. vec \in {3, 32, 50, 51} /\ vec \notin {50, 51} /\ team' = team
        BY <1>2, <3>2 DEF HandleBreakpoint
      <3> QED
        BY <2>2, <3>1, <3>2, <3>3, HandledKeeps
    <2> QED
      BY <1>2, <2>1, <2>2 DEF HandleBreakpoint
  <1>3. CASE HandleScheduler
    <2>1. /\ ~iflag /\ Len(stack) = 6 /\ HomeFrame(stack) /\ isr = {} /\ vec = 32
          /\ pc = "handler" /\ pc' = "sched" /\ is_scheduling' = TRUE
          /\ UNCHANGED <<tables, irr, isr, imr, vec, iflag, stack, team, hooks, served, stopped>>
      BY <1>3 DEF HandleScheduler, picVars, InterruptsInv, StackInv, ServiceInv
    <2>2. InterruptsTypeOK'
      BY <2>1 DEF InterruptsInv, InterruptsTypeOK
    <2>3. StackInv' /\ FlagInv'
      BY <2>1 DEF InterruptsInv, StackInv, FlagInv, HomeFrame
    <2>4. ServiceInv' /\ TablesInv' /\ ServedInv'
      BY <2>1 DEF InterruptsInv, ServiceInv, TablesInv, ServedInv, Up
    <2> QED
      BY <2>2, <2>3, <2>4 DEF InterruptsInv
  <1>4. CASE RunReturns
    <2>1. /\ pc = "sched" /\ vec = 32 /\ is_scheduling' = FALSE
          /\ pc' = "iret" /\ stack' = Returned(stack)
          /\ UNCHANGED <<tables, irr, isr, imr, vec, iflag, team, hooks, served, stopped>>
      BY <1>4 DEF RunReturns, picVars, InterruptsInv, StackInv
    <2>2. vec \in {3, 32, 50, 51} /\ vec \notin {50, 51} /\ pc \in {"handler", "sched"}
      BY <2>1
    <2> QED
      BY <1>0, <2>1, <2>2, HandledKeeps
  <1>5. CASE HandleCall
    <2>1. /\ pc = "handler" /\ vec \in {50, 51}
          /\ served' = [served EXCEPT !.ran = InTable(served.index) /\ hooks[served.index] = "proc"]
          /\ pc' = "iret" /\ stack' = Returned(stack)
          /\ UNCHANGED <<tables, irr, isr, imr, vec, iflag, team, is_scheduling, hooks, stopped>>
      BY <1>5 DEF HandleCall, picVars
    <2>2. is_scheduling' = FALSE
      BY <1>0, <2>1 DEF InterruptsInv, FlagInv
    <2>3. /\ served'.index = served.index
          /\ served'.ran = (InTable(served.index) /\ hooks[served.index] = "proc")
      BY <1>0, <2>1
    <2>4. served' \in [index : Int, ran : BOOLEAN]
      BY <1>0, <2>1
    <2> QED
      BY <1>0, <2>1, <2>2, <2>3, <2>4, HandledKeeps
  <1> QED
    BY <1>1, <1>2, <1>3, <1>4, <1>5

LEMMA IretKeeps ==
    ASSUME InterruptsInv, Iret
    PROVE  InterruptsInv'
  <1>1. /\ pc = "iret" /\ ~iflag /\ isr = {} /\ stack \in Seq(Words) /\ ~is_scheduling
        /\ Bare \/ (Coded /\ vec \notin Called)
        /\ stack' = SubSeq(stack, 1, Len(stack) - 5)
        /\ IF Top \in {"run", "halt"} THEN pc' = Top /\ iflag' = stack[Len(stack) - 2]
                                      ELSE pc' = "lost" /\ UNCHANGED iflag
        /\ UNCHANGED <<tables, irr, isr, imr, vec, team, is_scheduling, hooks, served, stopped>>
    BY DEF Iret, picVars, InterruptsInv, StackInv, ServiceInv, FlagInv
  <1>2. CASE Bare
    <2>1. Len(stack) = 5 /\ stack[3] \in BOOLEAN
          /\ stack[5] = IF stopped THEN "halt" ELSE "run"
      BY <1>2 DEF Bare, HomeFrame
    <2>2. Len(stack) - 5 = 0 /\ Len(stack) - 2 = 3
      BY <2>1
    <2>3. stack' = <<>>
      <3>1. SubSeq(stack, 1, 0) = <<>>
        BY SubSeqEmpty
      <3> QED
        BY <1>1, <2>2, <3>1
    <2>4. pc' = stack[5] /\ iflag' = stack[3]
      BY <1>1, <2>1, <2>2 DEF Top
    <2>5. stack' \in Seq(Words) /\ Len(stack') = 0
      BY <2>3, EmptySeq
    <2>6. InterruptsTypeOK'
      <3>1. Len(stack') <= 3 * 7
        BY <2>5
      <3>2. iflag' \in BOOLEAN /\ pc' \in {"run", "halt"}
        BY <2>1, <2>4
      <3> QED
        BY <1>1, <3>1, <3>2 DEF InterruptsInv, InterruptsTypeOK
    <2>7. StackInv'
      <3>1. Len(stack') <= 13
        BY <2>5
      <3> QED
        BY <1>1, <2>1, <2>3, <2>4, <2>5, <3>1 DEF StackInv
    <2>8. FlagInv' /\ ServiceInv' /\ TablesInv' /\ ServedInv'
      BY <1>1, <2>1, <2>4 DEF InterruptsInv, FlagInv, ServiceInv, TablesInv, ServedInv, Up
    <2> QED
      BY <2>6, <2>7, <2>8 DEF InterruptsInv
  <1>3. CASE Coded /\ vec \notin Called
    <2>1. Len(stack) = 6 /\ stack[6] = "code" /\ vec \in ErrorCodes \ Called
      BY <1>3 DEF Coded
    <2>2. Len(stack) - 5 = 1
      BY <2>1
    <2>3. pc' = "lost" /\ iflag' = iflag
      BY <1>1, <2>1 DEF Top
    <2>4. stack' \in Seq(Words) /\ Len(stack') = 1
      <3>1. stack \in [1 .. Len(stack) -> Words]
        BY <1>1, LenProperties
      <3>2. \A i \in 1 .. 1 : stack[i] \in Words
        BY <2>1, <3>1
      <3>3. SubSeq(stack, 1, 1) \in Seq(Words) /\ Len(SubSeq(stack, 1, 1)) = IF 1 <= 1 THEN 1 - 1 + 1 ELSE 0
        BY <3>2, SubSeqProperties
      <3>4. stack' = SubSeq(stack, 1, 1)
        BY <1>1, <2>2
      <3> QED
        BY <3>3, <3>4
    <2>5. Len(stack') <= 1 /\ Len(stack') <= 3 * 7
      BY <2>4
    <2>6. InterruptsTypeOK'
      BY <1>1, <2>3, <2>5 DEF InterruptsInv, InterruptsTypeOK
    <2>7. StackInv'
      BY <1>1, <2>1, <2>3, <2>4, <2>5 DEF StackInv
    <2>8. FlagInv' /\ ServiceInv' /\ TablesInv' /\ ServedInv'
      BY <1>1, <2>3 DEF InterruptsInv, FlagInv, ServiceInv, TablesInv, ServedInv, Up
    <2> QED
      BY <2>6, <2>7, <2>8 DEF InterruptsInv
  <1> QED
    BY <1>1, <1>2, <1>3

LEMMA InterruptsStep == InterruptsInv /\ InterruptsNext => InterruptsInv'
  BY EntriesKeep, OutsideKeeps, StubKeeps, HandlersKeep, IretKeeps DEF InterruptsNext, Proceed

\* The number of hooked calls bounds the indices of a table without holes.
LEMMA HookedServed == InterruptsInv => CallsServed
  <1> SUFFICES ASSUME InterruptsInv, NEW i \in DOMAIN hooks,
                      hooks[i] = "proc", \A j \in 0..i : hooks[j] # "none",
                      served.index = i, pc = "iret", vec \in {50, 51}
               PROVE  served.ran
    BY DEF CallsServed
  <1> DEFINE H == {j \in DOMAIN hooks : hooks[j] # "none"}
  <1>1. DOMAIN hooks = 0 .. SyscallMax - 1 /\ SyscallMax \in Nat
    BY InterruptsAssumption DEF InterruptsInv, ServedInv
  <1>2. i \in Nat /\ 0..i \in SUBSET H
    BY <1>1
  <1>3. IsFiniteSet(H)
    <2>1. IsFiniteSet(0 .. SyscallMax - 1)
      BY <1>1, FS_Interval
    <2> QED
      BY <1>1, <2>1, FS_Subset
  <1>4. Cardinality(0..i) <= Cardinality(H) /\ Cardinality(H) \in Nat
    BY <1>2, <1>3, FS_Subset, FS_CardinalityType
  <1>5. Cardinality(0..i) = i + 1
    BY <1>2, FS_Interval
  <1>6. InTable(served.index)
    BY <1>2, <1>4, <1>5 DEF InTable, Count
  <1> QED
    BY <1>6 DEF InterruptsInv, ServedInv

-----------------------------------------------------------------------------
(***************************************************************************)
(* The machine                                                             *)
(***************************************************************************)
MachineInv == ThreadsInv /\ InterruptsInv

\* The two inductive invariants, of the cores that run processes and of the
\* core that takes interrupts, hold in every state.
THEOREM MachineInvariant == Spec => []MachineInv
  <1>1. Init => MachineInv
    BY ThreadsStart, InterruptsStart DEF Init, MachineInv
  <1>2. ASSUME MachineInv, [Next]_vars
        PROVE  MachineInv'
    <2>1. ASSUME UNCHANGED threadVars
          PROVE  ThreadsInv'
      BY <1>2, <2>1 DEF MachineInv, threadVars, ThreadsInv, ThreadsTypeOK, SwitchTyped,
                        PTimeMatches, ContextFound
    <2>2. ASSUME UNCHANGED intVars
          PROVE  InterruptsInv'
      <3>1. InterruptsTypeOK'
        BY <1>2, <2>2 DEF MachineInv, intVars, InterruptsInv, InterruptsTypeOK
      <3>2. StackInv' /\ FlagInv'
        BY <1>2, <2>2 DEF MachineInv, intVars, InterruptsInv, StackInv, FlagInv, Bare, Coded, HomeFrame
      <3>3. ServiceInv' /\ TablesInv' /\ ServedInv'
        BY <1>2, <2>2 DEF MachineInv, intVars, InterruptsInv, ServiceInv, TablesInv, ServedInv, Up, InTable, Count
      <3> QED
        BY <3>1, <3>2, <3>3 DEF InterruptsInv
    <2>3. CASE Threads(ThreadsNext)
      BY <1>2, <2>2, <2>3, ThreadsStep DEF Threads, MachineInv
    <2>4. CASE Core(InterruptsNext)
      BY <1>2, <2>1, <2>4, InterruptsStep DEF Core, MachineInv
    <2>5. CASE UNCHANGED vars
      BY <2>1, <2>2, <2>5 DEF vars, MachineInv
    <2> QED
      BY <1>2, <2>3, <2>4, <2>5 DEF Next
  <1> QED
    BY <1>1, <1>2, PTL DEF Spec

\* The HardwareThread objects, the counter IsBusy shares between the cores and
\* the state of the boot core keep their types: the counter stays within one
\* of the longest time and at most three interrupts are on the stack.
THEOREM MachineTyped == Spec => []TypesOK
  <1>1. MachineInv => TypesOK
    BY DEF MachineInv, TypesOK, ThreadsInv, InterruptsInv
  <1> QED
    BY <1>1, MachineInvariant, PTL

\* A core keeps the time and the context of its own process whatever attempts
\* of others fail; every stub returns to the code it interrupted with no line
\* in service, the scheduler is never entered twice, and a system call at the
\* front of the table runs its procedure.
THEOREM CoresAreSound == Spec => []CoresSound
  <1>1. ASSUME MachineInv
        PROVE  CoresSound
    <2>1. PTimeMatches /\ ContextFound
      BY <1>1 DEF MachineInv, ThreadsInv
    <2>2. ReturnsHome
      BY <1>1 DEF MachineInv, InterruptsInv, StackInv, ReturnsHome
    <2>3. NothingInService /\ SchedulingAlone
      BY <1>1 DEF MachineInv, InterruptsInv, ServiceInv, FlagInv, NothingInService, SchedulingAlone
    <2> QED
      BY <1>1, <2>1, <2>2, <2>3, HookedServed DEF MachineInv, CoresSound
  <1> QED
    BY <1>1, MachineInvariant, PTL

\* Once ke_stop was called, the core never goes back to the code it ran,
\* although it goes on taking interrupts where the flag was left set.
THEOREM StopIsFinal == Spec => StopHolds
  <1>1. ASSUME MachineInv, MachineInv', [Next]_vars
        PROVE  [stopped => pc' # "run"]_intVars
    <2>1. ASSUME stopped, Core(InterruptsNext)
          PROVE  stopped'
      <3>1. InterruptsNext
        BY <2>1 DEF Core
      <3> QED
        BY <2>1, <3>1
        DEF InterruptsNext, Proceed, LoadGDT, LoadIDT, Spawn, FastCall, Raise, Deliver, Raises, Calls,
            StopInKernel, ke_stop, Stub, HandleFault, HandleBreakpoint, HandleScheduler,
            RunReturns, RunFaults, HandleCall, Iret, LostFaults
    <2>2. pc' = "run" => ~stopped'
      BY <1>1 DEF MachineInv, InterruptsInv, StackInv
    <2> QED
      BY <1>1, <2>1, <2>2 DEF Next, Threads, vars
  <1>2. Spec => [][Next]_vars
    BY DEF Spec
  <1> QED
    BY <1>1, <1>2, MachineInvariant, PTL DEF StopHolds
=============================================================================
