---------------------------- MODULE StorageProofs ---------------------------
(***************************************************************************)
(* Proofs about the drive manager and both of its drivers, for sectors and *)
(* disks of any size, requests of any size, any number of ports and slots. *)
(*                                                                         *)
(* ATA: while words move, the drive's place in the command it was given is *)
(* the driver's place in its request until the command is over, and what   *)
(* the drive holds are the last words of the caller.  AHCI: a read that is *)
(* left in its slot halts the port, so that there is at most one of them,  *)
(* in the first slot.                                                      *)
(***************************************************************************)
EXTENDS MCStorage, Integers, TLAPS, SequenceTheorems, WellFoundedInduction

-----------------------------------------------------------------------------
(***************************************************************************)
(* The invariant of the ATA driver                                         *)
(***************************************************************************)
Words == ({"old", "EPM", "junk", "new"} \cup Fills) \X Nat

Devs  == [phase : {"ready", "busy", "data", "error"}, cmd : {"none", "identify", "read", "write"},
          pos : Nat, left : Nat, held : Seq(Words)]
Calls == [pc : {"idle", "init", "identify", "command", "words"}, op : {"none", "init", "read", "write"},
          IO : Buses, Master : BOOLEAN, lba : Nat, size : Nat, i : Nat, ret : BOOLEAN]

AtaTypes ==
    /\ drives \subseteq Buses \X Units
    /\ store \in [DiskWords -> Words]
    /\ dev \in [Buses -> Devs]
    /\ unit \in [Buses -> Units]
    /\ ata \in Calls
    /\ buf \in Seq(Words)
    /\ failed \in BOOLEAN
    /\ \A b \in Buses : Len(dev[b].held) <= SectorWords
    /\ ata.i <= ata.size
    /\ ata.op \in {"read", "write"} => Len(buf) = ata.size
    /\ ata.pc \in {"command", "words"} => ata.op \in {"read", "write"}
    /\ ata.pc = "command" => ata.i = 0

\* A drive that stores what it holds does so for the request being served.
WritersKnown ==
    \A b \in Buses : dev[b].cmd = "write" /\ dev[b].phase = "busy"
                       => ata.pc = "words" /\ ata.op = "write" /\ b = ata.IO

First  == ata.lba * SectorWords        \* the first word of the request
Device == dev[ata.IO]
Moved  == Device.pos - First           \* words the drive has moved
Given  == AtaSectorCount(ata.size) * SectorWords

\* The words of the buffer that have come from the drive.
FromDisk(j) == First + j \in DiskWords /\ buf[j + 1] = store[First + j]

\* The drive has the command of the request and has not failed it.
InStep ==
    /\ Device.cmd = ata.op
    /\ Moved \in Nat /\ Moved <= ata.i /\ Moved + Device.left = Given
    /\ Device.left > 0 => Moved = ata.i
    /\ Device.phase # "error"

ReadingInv ==
    /\ Device.held = <<>>
    /\ IF Device.left > 0 THEN Device.phase \in {"busy", "data"} ELSE Device.phase = "ready"
    /\ \A j \in 0..(Moved - 1) : First + j \in DiskWords => FromDisk(j)

WritingInv ==
    LET n == Len(Device.held) IN
    /\ n <= Moved
    /\ Device.phase = "data" => Device.left > 0 /\ n < SectorWords
    /\ Device.phase = "ready" => Device.left = 0 /\ n = 0
    /\ Device.phase = "busy" => n = SectorWords
    /\ (Device.left + n) % SectorWords = 0
    /\ \A j \in 1..n : Device.held[j] = buf[Moved - n + j]
    /\ \A j \in 0..(Moved - n - 1) : First + j \in DiskWords => store[First + j] = buf[j + 1]

WordsInv ==
    ata.pc = "words" =>
      /\ <<ata.IO, unit[ata.IO]>> \in drives
      /\ \/ Device = [IdleDev EXCEPT !.phase = "error"] /\ failed
         \/ InStep /\ (ata.op = "read" => ReadingInv) /\ (ata.op = "write" => WritingInv)

\* A word a read has not come to is as the caller left it, one it has come to is
\* from the disk or from a bus without data.
BufferInv ==
    ata.op = "read" => \A j \in 0..(ata.size - 1) :
      IF ata.pc = "command" \/ (ata.pc = "words" /\ j >= ata.i)
        THEN buf[j + 1] = <<"new", j + 1>>
        ELSE buf[j + 1] = Junk \/ FromDisk(j)

DoneInv ==
    /\ ata.pc = "idle" /\ ata.op = "read" /\ ~failed /\ Covered =>
         \A j \in 0..(ata.size - 1) : First + j \in DiskWords => FromDisk(j)
    /\ ata.pc = "idle" /\ ata.op = "write" /\ ~failed /\ ata.size \in {SectorWords, SectorSz} =>
         \A j \in 0..(ata.size - 1) : First + j \in DiskWords => store[First + j] = buf[j + 1]

-----------------------------------------------------------------------------
(***************************************************************************)
(* The invariant of the drive manager: the drive requests are sent to      *)
(* answered to its identification, or its bus is empty.                    *)
(***************************************************************************)
Floating(bus) == \A u \in Units : <<bus, u>> \notin drives

Mounting == {"detect", "detecting"}

MgrTypes ==
    /\ build \in {"ATA", "AHCI"}
    /\ mount \in [DriveIndex -> [fKind : {"none", "kInvalidDisc", "kEPMDrive", "kUnformattedDrive"},
                                 fInput : {"none", "io_drv_input", "io_drv_unimplemented"},
                                 fReadOnly : BOOLEAN]]
    /\ task \in {"none", "primary", "secondary"} \cup Mounting
    /\ kATA \in [IO : Buses, Master : BOOLEAN]
    /\ good \in BOOLEAN

SearchInv ==
    /\ task = "none" /\ mount["A"] = NoTrait => ata = IdleCall /\ dev = [b \in Buses |-> IdleDev]
    /\ task \in {"primary", "secondary"} /\ build = "ATA" =>
         /\ ata.op = "init"
         /\ ata.IO = IF task = "primary" THEN "ATA_PRIMARY_IO" ELSE "ATA_SECONDARY_IO"
         /\ ata.pc = "idle" => IF ata.ret THEN <<ata.IO, CommandUnit(ata.Master)>> \in drives
                                          ELSE Floating(ata.IO)
    /\ task = "primary" => dev["ATA_SECONDARY_IO"] = IdleDev
    /\ task = "secondary" => build = "ATA" /\ kATA = [IO |-> "ATA_SECONDARY_IO", Master |-> FALSE]
    /\ ata.pc \in {"init", "identify"} =>
         /\ build = "ATA" /\ task \in {"primary", "secondary"} /\ ata.op = "init"
         /\ unit[ata.IO] = UnitSelected(ata.IO)
    /\ ata.pc = "init" => Device = IdleDev

DriveKnown ==
    /\ build = "ATA" /\ (task \in Mounting \/ (task = "none" /\ mount["A"] # NoTrait)) =>
         Floating(kATA.IO) \/ <<kATA.IO, CommandUnit(kATA.Master)>> \in drives
    /\ ata.pc \in {"command", "words"} =>
         /\ build = "ATA" /\ ata.IO = kATA.IO /\ ata.Master = kATA.Master
         /\ task = "detecting" \/ (task = "none" /\ mount["A"] # NoTrait)
    /\ build = "ATA" /\ task = "detecting" => ata.op = "read" /\ ata.lba = 0 /\ ata.size = SectorSz

AtaInv == AtaTypes /\ WritersKnown /\ WordsInv /\ BufferInv /\ DoneInv
MgrInv == MgrTypes /\ SearchInv /\ DriveKnown

-----------------------------------------------------------------------------
(***************************************************************************)
(* The invariant of the AHCI driver                                        *)
(***************************************************************************)
AhciTypes ==
    /\ host \in [Pi : SUBSET Ports, sata : SUBSET Ports] /\ host.sata \subseteq host.Pi
    /\ port \in [Cmd : SUBSET {"FRE", "ST", "FR", "CR"}, Ci : SUBSET Slots, Tfe : BOOLEAN,
                 Busy : BOOLEAN, halted : BOOLEAN]
    /\ tables \in [Slots -> Nat]
    /\ hba \in [pc : {"idle", "stopping", "poll", "waitCi", "waitIs", "check", "fault"},
                kAhciPort : Ports \cup {NoPort}, slot : Slots, spin : 0..kAhciMaxPoll, read : Nat,
                ret : BOOLEAN]
    /\ errno \in {"kErrorSuccess", "kErrorUnrecoverableDisk"}
    /\ lost \in BOOLEAN

\* The slots that are in use.
SlotsInv ==
    /\ hba.pc # "stopping" => "ST" \in port.Cmd
    /\ hba.pc \in {"idle", "fault"} => port.Ci = {} \/ (port.Ci = {0} /\ port.halted)
    /\ hba.pc \in {"stopping", "check"} => port.Ci = {}
    /\ hba.pc = "poll" => /\ ~port.Tfe
                          /\ \/ port.Ci = {} /\ hba.slot = 0
                             \/ port.Ci = {0} /\ port.halted /\ hba.slot = 1
    /\ hba.pc \in {"waitCi", "waitIs"} =>
         \/ hba.slot = 0 /\ (port.Ci = {} \/ (port.Ci = {0} /\ (port.Tfe => port.halted)))
         \/ hba.slot = 1 /\ port.Ci = {0, 1} /\ port.halted /\ ~port.Tfe

\* A failure is on record until the read has returned with an error.
LostInv ==
    /\ lost => hba.pc \in {"idle", "waitCi", "waitIs", "check"}
    /\ lost /\ hba.pc \in {"waitCi", "waitIs", "check"} => port.Tfe
    /\ lost /\ hba.pc = "idle" => errno = "kErrorUnrecoverableDisk"
    /\ hba.pc \in {"poll", "waitCi", "waitIs", "check"} => ~hba.ret
    /\ lost => ~hba.ret

AhciInv == AhciTypes /\ SlotsInv /\ LostInv

\* The AHCI driver runs in its own build, and not before its port is looked for.
HostInv ==
    /\ hba.pc # "idle" => build = "AHCI"
    /\ task = "none" /\ mount["A"] = NoTrait => hba.pc = "idle" /\ port.Ci = {}

StorageInv == AtaInv /\ MgrInv /\ AhciInv /\ HostInv

-----------------------------------------------------------------------------
(***************************************************************************)
(* The search for a slot                                                   *)
(***************************************************************************)
LEMMA LeastNumber ==
    ASSUME NEW T \in SUBSET Nat, T # {}
    PROVE  Min(T) \in T /\ \A y \in T : Min(T) <= y
  <1>1. PICK x \in T : \A y \in T : ~(<<y, x>> \in OpToRel(<, Nat))
    BY WFMin, NatLessThanWellFounded
  <1>2. \A y \in T : y \in Nat /\ x \in Nat /\ ~(y < x)
    BY <1>1 DEF OpToRel
  <1>3. \A y \in T : x <= y
    BY <1>2
  <1> QED
    BY <1>3 DEF Min

\* The mask of the first slot alone is 1: the sum that defines it is the only
\* solution of its recursive equation over the subsets of {1}.
LEMMA FirstSlotWeight == Weight({0}) = 1
  <1> DEFINE D == SUBSET {1}
             Pick(s) == CHOOSE x \in s : TRUE
             G(g) == [s \in D |-> IF s = {} THEN 0 ELSE Pick(s) + g[s \ {Pick(s)}]]
             iter == CHOOSE g : g = G(g)
             h == [s \in D |-> IF s = {} THEN 0 ELSE 1]
  <1>1. \A s \in D : s = {} \/ s = {1}
    OBVIOUS
  <1>2. Pick({1}) = 1 /\ {1} \ {1} = {} /\ {} \in D /\ {1} \in D /\ {1} # {}
    OBVIOUS
  <1>3. SumSet({1}) = iter[{1}]
    BY DEF SumSet, FoldSet, MapThenFoldSet
  <1> HIDE DEF D, Pick
  <1>4. h = G(h)
    <2>1. h[{}] = 0
      BY <1>2
    <2>2. \A s \in D : (IF s = {} THEN 0 ELSE 1) = (IF s = {} THEN 0 ELSE Pick(s) + h[s \ {Pick(s)}])
      <3> HIDE DEF h
      <3>1. {1} \ {Pick({1})} = {}
        BY <1>2
      <3>2. Pick({1}) + h[{1} \ {Pick({1})}] = 1
        BY <1>2, <2>1, <3>1
      <3> TAKE s \in D
      <3>3. CASE s = {}
        BY <3>3
      <3>4. CASE s = {1}
        BY <1>2, <3>2, <3>4
      <3> QED
        BY <1>1, <3>3, <3>4
    <2> QED
      BY <2>2
  <1>5. iter = G(iter)
    BY <1>4
  <1> HIDE DEF iter
  <1>6. iter[{}] = 0
    BY <1>2, <1>5
  <1>7. iter[{1}] = 1
    BY <1>2, <1>5, <1>6
  <1>8. {2 ^ s : s \in {0}} = {1}
    <2>1. 2 ^ 0 = 1
      OBVIOUS
    <2> QED
      BY <2>1
  <1> QED
    BY <1>3, <1>7, <1>8 DEF Weight

\* An idle port gives the first slot, one that was left with a command in it
\* the second.
LEMMA SlotChosen == FreeSlot({}) = 0 /\ FreeSlot({0}) = 1
  <1> DEFINE C(used) == {n \in 0..SlotCount : n \notin used \/ n >= Weight(used) \div 2 ^ n}
  <1>1. SlotCount \in Nat /\ SlotCount > 1
    BY AhciAssumption
  <1>2. C({}) \in SUBSET Nat /\ 0 \in C({})
    BY <1>1
  <1>3. FreeSlot({}) = 0
    <2>1. Min(C({})) \in Nat /\ Min(C({})) <= 0
      BY <1>2, LeastNumber
    <2> QED
      BY <2>1 DEF FreeSlot
  <1>4. C({0}) \in SUBSET Nat /\ 1 \in C({0})
    BY <1>1
  <1>5. 0 \notin C({0})
    <2>1. 2 ^ 0 = 1
      OBVIOUS
    <2>2. Weight({0}) \div 2 ^ 0 = 1
      BY <2>1, FirstSlotWeight
    <2> QED
      BY <2>2
  <1>6. FreeSlot({0}) = 1
    <2>1. Min(C({0})) \in Nat /\ Min(C({0})) <= 1 /\ Min(C({0})) # 0
      <3> HIDE DEF C
      <3> QED
        BY <1>4, <1>5, LeastNumber
    <2> QED
      BY <2>1 DEF FreeSlot
  <1> QED
    BY <1>3, <1>6

-----------------------------------------------------------------------------
(***************************************************************************)
(* The AHCI driver and its port                                            *)
(***************************************************************************)
LEMMA AhciConstants ==
    /\ PortCount \in Nat \ {0} /\ SlotCount \in Nat \ {0, 1} /\ kAhciMaxPoll \in Nat
    /\ 0 \in Slots /\ 1 \in Slots /\ Ports \subseteq Nat
  BY AhciAssumption DEF Slots, Ports

PortTypes == [Cmd : SUBSET {"FRE", "ST", "FR", "CR"}, Ci : SUBSET Slots, Tfe : BOOLEAN,
              Busy : BOOLEAN, halted : BOOLEAN]
HbaTypes == [pc : {"idle", "stopping", "poll", "waitCi", "waitIs", "check", "fault"},
             kAhciPort : Ports \cup {NoPort}, slot : Slots, spin : 0..kAhciMaxPoll, read : Nat,
             ret : BOOLEAN]

LEMMA AhciInitHolds == AhciInit => AhciInv
  <1> SUFFICES ASSUME AhciInit PROVE AhciInv
    OBVIOUS
  <1>1. host \in [Pi : SUBSET Ports, sata : SUBSET Ports] /\ host.sata \subseteq host.Pi
    BY DEF AhciInit
  <1>2. port \in PortTypes /\ "ST" \in port.Cmd /\ port.Ci = {}
    BY DEF AhciInit, FirmwarePort, PortTypes
  <1>3. hba \in HbaTypes /\ hba.pc = "idle"
    BY AhciConstants DEF AhciInit, HbaTypes
  <1>4. tables \in [Slots -> Nat] /\ errno = "kErrorSuccess" /\ lost = FALSE
    BY DEF AhciInit
  <1> QED
    BY <1>1, <1>2, <1>3, <1>4 DEF AhciInv, AhciTypes, SlotsInv, LostInv, PortTypes, HbaTypes

LEMMA AhciParts ==
    ASSUME AhciInv
    PROVE  port \in PortTypes /\ hba \in HbaTypes
  BY DEF AhciInv, AhciTypes, PortTypes, HbaTypes

LEMMA AhciJoined ==
    ASSUME UNCHANGED host, AhciInv, (port \in PortTypes)', (hba \in HbaTypes)', tables' \in [Slots -> Nat],
           errno' \in {"kErrorSuccess", "kErrorUnrecoverableDisk"}, lost' \in BOOLEAN,
           SlotsInv', LostInv'
    PROVE  AhciInv'
  BY DEF AhciInv, AhciTypes, PortTypes, HbaTypes

\* A port is looked for once, before any command.
LEMMA ProbeKeeps ==
    ASSUME AhciInv, AhciProbe, port.Ci = {}
    PROVE  AhciInv'
  <1>1. port \in PortTypes /\ hba \in HbaTypes
    BY AhciParts
  <1>2. UNCHANGED <<host, tables, errno>> /\ hba.pc = "idle" /\ lost' = FALSE
    BY DEF AhciProbe
  <1>3. CASE Probed = {}
    <2>1. hba' = [hba EXCEPT !.ret = FALSE] /\ port' = port
      BY <1>3 DEF AhciProbe
    <2>2. hba' \in HbaTypes /\ hba'.pc = hba.pc
      BY <1>1, <2>1 DEF HbaTypes
    <2> QED
      BY <1>1, <1>2, <2>1, <2>2, AhciJoined DEF AhciInv, AhciTypes, SlotsInv, LostInv, PortTypes, HbaTypes
  <1>4. CASE Probed # {}
    <2>1. /\ hba' = [hba EXCEPT !.pc = "stopping", !.kAhciPort = Min(Probed)]
          /\ port' = [port EXCEPT !.Cmd = @ \ {"FRE", "ST"}]
      BY <1>4 DEF AhciProbe
    <2>2. Min(Probed) \in Ports
      <3>1. Probed \subseteq Ports /\ Probed \in SUBSET Nat
        BY AhciConstants DEF Probed
      <3> QED
        BY <1>4, <3>1, LeastNumber
    <2>3. hba' \in HbaTypes /\ hba'.pc = "stopping"
      BY <1>1, <2>1, <2>2 DEF HbaTypes
    <2>4. port' \in PortTypes /\ port'.Ci = {}
      BY <1>1, <2>1 DEF PortTypes
    <2>5. SlotsInv' /\ LostInv'
      BY <1>2, <2>3, <2>4 DEF SlotsInv, LostInv
    <2> QED
      BY <1>2, <2>3, <2>4, <2>5, AhciJoined DEF AhciInv, AhciTypes
  <1> QED
    BY <1>3, <1>4

LEMMA ReadKeeps ==
    ASSUME AhciInv, NEW r \in Nat, AhciRead(r)
    PROVE  AhciInv'
  <1>1. port \in PortTypes /\ hba \in HbaTypes /\ tables \in [Slots -> Nat]
    BY AhciParts DEF AhciInv, AhciTypes
  <1>2. UNCHANGED <<host, errno>> /\ hba.pc = "idle" /\ lost' = FALSE
    BY DEF AhciRead
  <1>3. CASE hba.kAhciPort = NoPort
    <2>1. hba' = [hba EXCEPT !.pc = "fault"] /\ UNCHANGED <<port, tables>>
      BY <1>3 DEF AhciRead
    <2>2. hba' \in HbaTypes /\ hba'.pc = "fault"
      BY <1>1, <2>1 DEF HbaTypes
    <2>3. SlotsInv' /\ LostInv'
      BY <1>2, <2>1, <2>2 DEF AhciInv, SlotsInv, LostInv
    <2> QED
      BY <1>1, <1>2, <2>1, <2>2, <2>3, AhciJoined DEF AhciInv, AhciTypes
  <1>4. CASE hba.kAhciPort # NoPort
    <2> DEFINE s == FreeSlot(port.Ci)
    <2>1. /\ port' = [port EXCEPT !.Tfe = FALSE]
          /\ tables' = [t \in Slots |-> IF t = s THEN r ELSE IF t \in Cleared(s) THEN 0 ELSE tables[t]]
          /\ hba' = [hba EXCEPT !.pc = "poll", !.slot = s, !.spin = 0, !.read = r, !.ret = FALSE]
      BY <1>4 DEF AhciRead
    <2>2. \/ port.Ci = {} /\ s = 0
          \/ port.Ci = {0} /\ port.halted /\ s = 1
      BY <1>2, SlotChosen DEF AhciInv, SlotsInv
    <2>3. s \in Slots
      BY <2>2, AhciConstants
    <2> HIDE DEF s
    <2>4. hba' \in HbaTypes /\ hba'.pc = "poll" /\ hba'.slot = s /\ ~hba'.ret
      <3>1. 0 \in 0..kAhciMaxPoll
        BY AhciConstants
      <3>2. hba' \in HbaTypes
        BY <1>1, <2>1, <2>3, <3>1 DEF HbaTypes
      <3> QED
        BY <1>1, <2>1, <3>2 DEF HbaTypes
    <2>5. port' \in PortTypes /\ port'.Ci = port.Ci /\ port'.halted = port.halted /\ port'.Cmd = port.Cmd /\ ~port'.Tfe
      BY <1>1, <2>1 DEF PortTypes
    <2>6. tables' \in [Slots -> Nat]
      BY <1>1, <2>1
    <2>7. SlotsInv'
      BY <1>2, <2>2, <2>4, <2>5 DEF AhciInv, SlotsInv
    <2>8. LostInv'
      BY <1>2, <2>4 DEF LostInv
    <2> QED
      BY <1>2, <2>4, <2>5, <2>6, <2>7, <2>8, AhciJoined DEF AhciInv, AhciTypes
  <1> QED
    BY <1>3, <1>4

\* The steps of the driver.
LEMMA AhciStepKeeps ==
    ASSUME AhciInv, AhciStep
    PROVE  AhciInv'
  <1>1. /\ port \in PortTypes /\ hba \in HbaTypes /\ tables \in [Slots -> Nat]
        /\ errno \in {"kErrorSuccess", "kErrorUnrecoverableDisk"} /\ lost \in BOOLEAN
    BY AhciParts DEF AhciInv, AhciTypes
  <1>2. CASE AhciSetup
    <2>1. /\ hba.pc = "stopping" /\ UNCHANGED <<host, errno, lost>>
          /\ port' = [port EXCEPT !.Cmd = @ \cup {"FRE", "ST"}]
          /\ tables' = [s \in Slots |-> 0]
          /\ hba' = [hba EXCEPT !.pc = "idle", !.ret = TRUE]
      BY <1>2 DEF AhciSetup
    <2>2. port.Ci = {} /\ ~lost
      BY <2>1 DEF AhciInv, SlotsInv, LostInv
    <2>3. hba' \in HbaTypes /\ hba'.pc = "idle"
      BY <1>1, <2>1 DEF HbaTypes
    <2>4. port' \in PortTypes /\ port'.Ci = port.Ci /\ "ST" \in port'.Cmd
      BY <1>1, <2>1 DEF PortTypes
    <2>5. tables' \in [Slots -> Nat]
      BY <2>1
    <2>6. SlotsInv' /\ LostInv'
      BY <2>1, <2>2, <2>3, <2>4 DEF SlotsInv, LostInv
    <2> QED
      BY <1>1, <2>1, <2>3, <2>4, <2>5, <2>6, AhciJoined
  <1>3. CASE AhciPoll
    <2>1. /\ hba.pc = "poll" /\ UNCHANGED <<host, port, tables, errno, lost>> /\ hba.spin < kAhciMaxPoll
          /\ hba' = [hba EXCEPT !.spin = @ + 1]
      BY <1>3 DEF AhciPoll
    <2>2. hba.spin + 1 \in 0..kAhciMaxPoll
      BY <1>1, <2>1, AhciConstants DEF HbaTypes
    <2>3. hba' \in HbaTypes /\ hba'.pc = hba.pc /\ hba'.slot = hba.slot /\ hba'.ret = hba.ret
      BY <1>1, <2>1, <2>2 DEF HbaTypes
    <2>4. SlotsInv' /\ LostInv'
      BY <2>1, <2>3 DEF AhciInv, SlotsInv, LostInv
    <2> QED
      BY <1>1, <2>1, <2>3, <2>4, AhciJoined
  <1>4. CASE AhciIssue
    <2>1. hba.pc = "poll" /\ UNCHANGED <<host, tables, errno, lost>>
      BY <1>4 DEF AhciIssue
    <2>2. ~lost /\ ~hba.ret /\ "ST" \in port.Cmd
      BY <2>1 DEF AhciInv, SlotsInv, LostInv
    <2>3. CASE hba.spin = HungSpin
      <3>1. hba' = [hba EXCEPT !.pc = "idle"] /\ port' = port
        BY <1>4, <2>3 DEF AhciIssue
      <3>2. hba' \in HbaTypes /\ hba'.pc = "idle"
        BY <1>1, <3>1 DEF HbaTypes
      <3>3. SlotsInv' /\ LostInv'
        BY <2>1, <2>2, <3>1, <3>2 DEF AhciInv, SlotsInv, LostInv
      <3> QED
        BY <1>1, <2>1, <3>1, <3>2, <3>3, AhciJoined
    <2>4. CASE hba.spin # HungSpin
      <3>1. port' = [port EXCEPT !.Ci = @ \cup {hba.slot}] /\ hba' = [hba EXCEPT !.pc = "waitCi"]
        BY <1>4, <2>4 DEF AhciIssue
      <3>2. /\ hba' \in HbaTypes /\ hba'.pc = "waitCi" /\ hba'.slot = hba.slot /\ hba'.ret = hba.ret
            /\ hba.slot \in Slots
        BY <1>1, <3>1 DEF HbaTypes
      <3>3. /\ port' \in PortTypes /\ port'.Ci = port.Ci \cup {hba.slot} /\ port'.Cmd = port.Cmd
            /\ port'.Tfe = port.Tfe /\ port'.halted = port.halted
        BY <1>1, <3>1, <3>2 DEF PortTypes
      <3>4. ~port.Tfe
        BY <2>1 DEF AhciInv, LostInv, SlotsInv
      <3>5. SlotsInv'
        <4>1. CASE port.Ci = {} /\ hba.slot = 0
          <5>1. port'.Ci = {0}
            BY <3>3, <4>1
          <5> QED
            BY <2>2, <3>2, <3>3, <3>4, <4>1, <5>1 DEF SlotsInv
        <4>2. CASE port.Ci = {0} /\ port.halted /\ hba.slot = 1
          <5>1. port'.Ci = {0, 1}
            BY <3>3, <4>2
          <5> QED
            BY <2>2, <3>2, <3>3, <3>4, <4>2, <5>1 DEF SlotsInv
        <4> QED
          BY <2>1, <4>1, <4>2 DEF AhciInv, SlotsInv
      <3>6. LostInv'
        BY <2>1, <2>2, <3>2 DEF LostInv
      <3> QED
        BY <1>1, <2>1, <3>2, <3>3, <3>5, <3>6, AhciJoined
    <2> QED
      BY <2>3, <2>4
  <1>5. CASE AhciWaitCi
    <2>1. /\ hba.pc = "waitCi" /\ UNCHANGED <<host, port, tables, errno, lost>>
          /\ hba' = [hba EXCEPT !.pc = IF hba.slot \notin port.Ci THEN "check" ELSE "waitIs"]
      BY <1>5 DEF AhciWaitCi
    <2>2. /\ hba' \in HbaTypes /\ hba'.slot = hba.slot /\ hba'.ret = hba.ret
          /\ hba'.pc = IF hba.slot \notin port.Ci THEN "check" ELSE "waitIs"
      BY <1>1, <2>1 DEF HbaTypes
    <2>3. SlotsInv' /\ LostInv'
      BY <2>1, <2>2 DEF AhciInv, SlotsInv, LostInv
    <2> QED
      BY <1>1, <2>1, <2>2, <2>3, AhciJoined
  <1>6. CASE (AhciWaitIs \/ AhciCheck) /\ AhciFailed
    <2>1. /\ hba.pc \in {"waitIs", "check"} /\ UNCHANGED <<host, port, tables, lost>>
          /\ hba' = [hba EXCEPT !.pc = "idle"] /\ errno' = "kErrorUnrecoverableDisk"
      BY <1>6 DEF AhciWaitIs, AhciCheck, AhciFailed
    <2>2. hba' \in HbaTypes /\ hba'.pc = "idle" /\ hba'.ret = hba.ret
      BY <1>1, <2>1 DEF HbaTypes
    <2>3. port.Tfe
      <3>1. hba'.pc = "idle"
        BY <2>2
      <3> QED
        BY <1>1, <1>6, <2>1, <3>1 DEF AhciWaitIs, AhciCheck, AhciFailed, HbaTypes, LostInv, AhciInv
    <2>4. SlotsInv' /\ LostInv'
      BY <2>1, <2>2, <2>3 DEF AhciInv, SlotsInv, LostInv
    <2> QED
      BY <1>1, <2>1, <2>2, <2>4, AhciJoined
  <1>7. CASE AhciWaitIs /\ ~AhciFailed
    <2>1. /\ hba.pc = "waitIs" /\ UNCHANGED <<host, port, tables, lost, errno>>
          /\ hba' = [hba EXCEPT !.pc = "waitCi"]
      BY <1>7 DEF AhciWaitIs
    <2>2. hba' \in HbaTypes /\ hba'.slot = hba.slot /\ hba'.ret = hba.ret /\ hba'.pc = "waitCi"
      BY <1>1, <2>1 DEF HbaTypes
    <2>3. SlotsInv' /\ LostInv'
      BY <2>1, <2>2 DEF AhciInv, SlotsInv, LostInv
    <2> QED
      BY <1>1, <2>1, <2>2, <2>3, AhciJoined
  <1>8. CASE AhciCheck /\ ~AhciFailed
    <2>1. /\ hba.pc = "check" /\ UNCHANGED <<host, port, tables, lost, errno>> /\ ~port.Tfe
          /\ hba' = [hba EXCEPT !.pc = "idle", !.ret = TRUE]
      BY <1>8 DEF AhciCheck
    <2>2. hba' \in HbaTypes /\ hba'.pc = "idle"
      BY <1>1, <2>1 DEF HbaTypes
    <2>3. SlotsInv' /\ LostInv'
      BY <2>1, <2>2 DEF AhciInv, SlotsInv, LostInv
    <2> QED
      BY <1>1, <2>1, <2>2, <2>3, AhciJoined
  <1> QED
    BY <1>2, <1>3, <1>4, <1>5, <1>6, <1>7, <1>8 DEF AhciStep

\* The steps of the port: a halted port serves nothing, and an idle driver has
\* left no command to a port that is not halted.
LEMMA PortKeeps ==
    ASSUME AhciInv, PortStep
    PROVE  AhciInv'
  <1>1. /\ port \in PortTypes /\ hba \in HbaTypes /\ tables \in [Slots -> Nat]
        /\ errno \in {"kErrorSuccess", "kErrorUnrecoverableDisk"} /\ lost \in BOOLEAN
    BY AhciParts DEF AhciInv, AhciTypes
  <1>2. UNCHANGED <<host, tables, hba, errno>>
    BY DEF PortStep, EngineFollows, DriveBusy, DriveReady, DriveCompletes, DriveFaults
  <1>3. CASE EngineFollows
    <2>1. lost' = lost
      BY <1>3 DEF EngineFollows
    <2>2. CASE "ST" \in port.Cmd
      <3>1. port' = [port EXCEPT !.Cmd = @ \cup {"CR", "FR"}]
        BY <1>3, <2>2 DEF EngineFollows
      <3>2. /\ port' \in PortTypes /\ port'.Ci = port.Ci /\ "ST" \in port'.Cmd
            /\ port'.Tfe = port.Tfe /\ port'.halted = port.halted
        BY <1>1, <2>2, <3>1 DEF PortTypes
      <3>3. SlotsInv' /\ LostInv'
        BY <1>2, <2>1, <3>2 DEF AhciInv, SlotsInv, LostInv
      <3> QED
        BY <1>1, <1>2, <2>1, <3>2, <3>3, AhciJoined
    <2>3. CASE "ST" \notin port.Cmd
      <3>1. port' = [port EXCEPT !.Cmd = @ \ {"CR", "FR"}, !.Ci = {}, !.halted = FALSE]
        BY <1>3, <2>3 DEF EngineFollows
      <3>2. port' \in PortTypes /\ port'.Ci = {}
        BY <1>1, <3>1 DEF PortTypes
      <3>3. hba.pc = "stopping"
        BY <2>3 DEF AhciInv, SlotsInv
      <3>4. SlotsInv' /\ LostInv'
        BY <1>2, <2>1, <3>2, <3>3 DEF AhciInv, SlotsInv, LostInv
      <3> QED
        BY <1>1, <1>2, <2>1, <3>2, <3>4, AhciJoined
    <2> QED
      BY <2>2, <2>3
  <1>4. CASE DriveBusy \/ DriveReady
    <2>1. lost' = lost /\ \E b \in BOOLEAN : port' = [port EXCEPT !.Busy = b]
      BY <1>4 DEF DriveBusy, DriveReady
    <2>2. /\ port' \in PortTypes /\ port'.Ci = port.Ci /\ port'.Cmd = port.Cmd
          /\ port'.Tfe = port.Tfe /\ port'.halted = port.halted
      BY <1>1, <2>1 DEF PortTypes
    <2>3. SlotsInv' /\ LostInv'
      BY <1>2, <2>1, <2>2 DEF AhciInv, SlotsInv, LostInv
    <2> QED
      BY <1>1, <1>2, <2>1, <2>2, <2>3, AhciJoined
  <1>5. ASSUME Serving
        PROVE  /\ hba.pc \in {"waitCi", "waitIs"} /\ hba.slot = 0 /\ port.Ci = {0} /\ ~port.halted
               /\ ~hba.ret /\ ~port.Tfe
    BY <1>1, <1>5 DEF Serving, AhciInv, SlotsInv, LostInv, HbaTypes
  <1>6. CASE DriveCompletes
    <2>1. Serving /\ lost' = lost
      BY <1>6 DEF DriveCompletes
    <2>2. PICK s \in port.Ci : port' = [port EXCEPT !.Ci = @ \ {s}]
      BY <1>6 DEF DriveCompletes
    <2>3. /\ port' \in PortTypes /\ port'.Ci = port.Ci \ {s} /\ port'.Cmd = port.Cmd
          /\ port'.Tfe = port.Tfe
      BY <1>1, <2>2 DEF PortTypes
    <2>4. port'.Ci = {}
      BY <1>5, <2>1, <2>3
    <2>5. SlotsInv' /\ LostInv'
      BY <1>2, <1>5, <2>1, <2>3, <2>4 DEF AhciInv, SlotsInv, LostInv
    <2> QED
      BY <1>1, <1>2, <2>1, <2>3, <2>5, AhciJoined
  <1>7. CASE DriveFaults
    <2>1. Serving /\ lost' = TRUE
      BY <1>7 DEF DriveFaults
    <2>2. CASE \E s \in port.Ci : port' = [port EXCEPT !.Ci = @ \ {s}, !.Tfe = TRUE]
      <3>1. PICK s \in port.Ci : port' = [port EXCEPT !.Ci = @ \ {s}, !.Tfe = TRUE]
        BY <2>2
      <3>2. port' \in PortTypes /\ port'.Ci = port.Ci \ {s} /\ port'.Cmd = port.Cmd /\ port'.Tfe
        BY <1>1, <3>1 DEF PortTypes
      <3>3. port'.Ci = {}
        BY <1>5, <2>1, <3>2
      <3>4. SlotsInv' /\ LostInv'
        BY <1>2, <1>5, <2>1, <3>2, <3>3 DEF AhciInv, SlotsInv, LostInv
      <3> QED
        BY <1>1, <1>2, <2>1, <3>2, <3>4, AhciJoined
    <2>3. CASE port' = [port EXCEPT !.Tfe = TRUE, !.halted = TRUE]
      <3>1. port' \in PortTypes /\ port'.Ci = port.Ci /\ port'.Cmd = port.Cmd /\ port'.Tfe /\ port'.halted
        BY <1>1, <2>3 DEF PortTypes
      <3>2. SlotsInv' /\ LostInv'
        BY <1>2, <1>5, <2>1, <3>1 DEF AhciInv, SlotsInv, LostInv
      <3> QED
        BY <1>1, <1>2, <2>1, <3>1, <3>2, AhciJoined
    <2> QED
      BY <1>7, <2>2, <2>3 DEF DriveFaults
  <1> QED
    BY <1>3, <1>4, <1>6, <1>7 DEF PortStep

-----------------------------------------------------------------------------
(***************************************************************************)
(* Sectors, words and the status register                                  *)
(***************************************************************************)
LEMMA Remainder ==
    ASSUME NEW W \in Nat \ {0}, NEW q \in Nat, NEW r \in 0..(W - 1)
    PROVE  (q * W + r) % W = r /\ (q * W + r) \div W = q
  OBVIOUS

LEMMA Division ==
    ASSUME NEW W \in Nat \ {0}, NEW a \in Nat
    PROVE  a = (a \div W) * W + (a % W) /\ a % W \in 0..(W - 1) /\ a \div W \in Nat
  OBVIOUS

LEMMA AtaConstants ==
    /\ SectorWords \in Nat \ {0} /\ SectorSz = 2 * SectorWords /\ SectorSz \in Nat \ {0}
    /\ DiskWords \subseteq Nat /\ 0 \in DiskWords
  <1>1. SectorWords \in Nat \ {0} /\ SectorSz = 2 * SectorWords
    BY AtaAssumption DEF SectorWords
  <1>2. DiskSectors * SectorWords \in Nat \ {0}
    BY <1>1, AtaAssumption
  <1> QED
    BY <1>1, <1>2, AtaAssumption DEF DiskWords

\* A drive that holds n words of a sector fills it with the next one exactly
\* when what is left then is a number of whole sectors.
LEMMA SectorFilled ==
    ASSUME NEW W \in Nat \ {0}, NEW left \in Nat \ {0}, NEW n \in 0..(W - 1), (left + n) % W = 0
    PROVE  (left - 1) % W = 0 <=> n + 1 = W
  <1> DEFINE m == (left + n) \div W
  <1>1. left + n = m * W /\ m \in Nat
    BY Division
  <1>2. m # 0
    BY <1>1
  <1> HIDE DEF m
  <1> DEFINE q == m - 1
             r == W - (n + 1)
  <1>3. q \in Nat /\ r \in 0..(W - 1) /\ m = q + 1
    BY <1>1, <1>2
  <1>4. m * W = q * W + W
    BY <1>1, <1>3
  <1>5. q * W \in Nat
    BY <1>3
  <1>6. left - 1 = q * W + r
    BY <1>1, <1>4, <1>5
  <1> HIDE DEF q, r
  <1>7. (left - 1) % W = r
    BY <1>3, <1>6, Remainder
  <1> QED
    BY <1>7 DEF r

LEMMA WholeSectors ==
    ASSUME NEW W \in Nat \ {0}, NEW left \in Nat, (left + W) % W = 0
    PROVE  left % W = 0
  <1> DEFINE q == left \div W
             r == left % W
  <1>1. left = q * W + r /\ q \in Nat /\ r \in 0..(W - 1)
    BY Division
  <1> HIDE DEF q, r
  <1>2. left + W = (q + 1) * W + r
    BY <1>1
  <1>3. (left + W) % W = r
    BY <1>1, <1>2, Remainder
  <1> QED
    BY <1>3 DEF r

\* What the sector count makes of a size.
LEMMA CountFacts ==
    ASSUME NEW size \in Nat
    PROVE  /\ AtaSectorCount(size) \in Nat \ {0}
           /\ size <= SectorWords => AtaSectorCount(size) * SectorWords = SectorWords
           /\ size = SectorSz => AtaSectorCount(size) * SectorWords = SectorSz
           /\ AtaSectorCount(size) * SectorWords \in Nat
           /\ (AtaSectorCount(size) * SectorWords) % SectorWords = 0
           /\ AtaSectorCount(size) * SectorWords > 0
  <1> DEFINE k == (size + SectorSz) \div SectorSz
             n == k % 256
  <1>1. k \in Nat
    BY Division, AtaConstants
  <1>2. n \in Nat
    BY <1>1
  <1>3. AtaSectorCount(size) = IF n = 0 THEN 256 ELSE n
    BY DEF AtaSectorCount
  <1>4. AtaSectorCount(size) \in Nat \ {0}
    BY <1>2, <1>3
  <1>5. size <= SectorWords => AtaSectorCount(size) = 1
    <2> SUFFICES ASSUME size <= SectorWords PROVE AtaSectorCount(size) = 1
      OBVIOUS
    <2>1. size \in 0..(SectorSz - 1) /\ size + SectorSz = 1 * SectorSz + size
      BY AtaConstants
    <2>2. k = 1
      BY <2>1, Remainder, AtaConstants
    <2> HIDE DEF k
    <2>3. n = 1
      BY <2>2
    <2> HIDE DEF n
    <2> QED
      BY <1>3, <2>3
  <1>6. size = SectorSz => AtaSectorCount(size) = 2
    <2> SUFFICES ASSUME size = SectorSz PROVE AtaSectorCount(size) = 2
      OBVIOUS
    <2>1. 0 \in 0..(SectorSz - 1) /\ size + SectorSz = 2 * SectorSz + 0
      BY AtaConstants
    <2>2. k = 2
      BY <2>1, Remainder, AtaConstants
    <2> HIDE DEF k
    <2>3. n = 2
      BY <2>2
    <2> HIDE DEF n
    <2> QED
      BY <1>3, <2>3
  <1> DEFINE c == AtaSectorCount(size)
  <1>7. c \in Nat /\ c # 0
    BY <1>4
  <1> HIDE DEF c
  <1>8. c * SectorWords \in Nat /\ c * SectorWords > 0
    BY <1>7, AtaConstants
  <1>9. (c * SectorWords) % SectorWords = 0
    <2>1. c * SectorWords = c * SectorWords + 0 /\ 0 \in 0..(SectorWords - 1)
      BY <1>8, AtaConstants
    <2> QED
      BY <1>7, <2>1, Remainder, AtaConstants
  <1>10. (size <= SectorWords => c * SectorWords = SectorWords) /\ (size = SectorSz => c * SectorWords = SectorSz)
    BY <1>5, <1>6, AtaConstants DEF c
  <1> QED
    BY <1>4, <1>8, <1>9, <1>10 DEF c

LEMMA StatusFacts ==
    ASSUME NEW bus \in Buses, AtaTypes
    PROVE  /\ WaitIo(bus) => <<bus, unit[bus]>> \in drives /\ dev[bus].phase # "busy" /\ ~Floating(bus)
           /\ "ERR" \in Status(bus) => Floating(bus) \/ dev[bus].phase = "error"
  <1>1. CASE Floating(bus)
    <2>1. Status(bus) = {"BSY", "DRDY", "DRQ", "ERR"}
      BY <1>1 DEF Floating, Status, AtaTypes
    <2> QED
      BY <1>1, <2>1 DEF WaitIo
  <1>2. CASE ~Floating(bus) /\ <<bus, unit[bus]>> \in drives
    <2>1. Status(bus) = Bit(dev[bus].phase = "busy", "BSY") \cup Bit(dev[bus].phase # "busy", "DRDY")
                          \cup Bit(dev[bus].phase = "data", "DRQ") \cup Bit(dev[bus].phase = "error", "ERR")
      BY <1>2 DEF Floating, Status
    <2> QED
      BY <1>2, <2>1 DEF WaitIo, Bit
  <1>3. CASE ~Floating(bus) /\ <<bus, unit[bus]>> \notin drives
    <2>1. Status(bus) = {}
      BY <1>3 DEF Floating, Status
    <2> QED
      BY <2>1 DEF WaitIo
  <1> QED
    BY <1>1, <1>2, <1>3

LEMMA HeldGrows ==
    ASSUME NEW q \in Seq(Words), NEW x \in Words
    PROVE  /\ q \o <<x>> \in Seq(Words) /\ Len(q \o <<x>>) = Len(q) + 1
           /\ \A j \in 1..Len(q) : (q \o <<x>>)[j] = q[j]
           /\ (q \o <<x>>)[Len(q) + 1] = x
  <1>1. <<x>> \in Seq(Words) /\ Len(<<x>>) = 1 /\ <<x>>[1] = x
    OBVIOUS
  <1> QED
    BY <1>1, ConcatProperties

LEMMA HeldEmpty == ASSUME NEW q, q = <<>> PROVE q \o <<>> = <<>>
  OBVIOUS

LEMMA DeviceTypes ==
    ASSUME AtaTypes
    PROVE  /\ Device \in Devs /\ Device.pos \in Nat /\ Device.left \in Nat /\ Device.held \in Seq(Words)
           /\ Len(Device.held) \in Nat /\ Len(Device.held) <= SectorWords
           /\ First \in Nat /\ ata.IO \in Buses /\ ata.size \in Nat /\ ata.i \in Nat /\ ata.lba \in Nat
           /\ ata.i <= ata.size
  <1>1. ata \in Calls /\ dev \in [Buses -> Devs] /\ ata.i <= ata.size
    BY DEF AtaTypes
  <1>2. ata.IO \in Buses /\ ata.size \in Nat /\ ata.i \in Nat /\ ata.lba \in Nat
    BY <1>1 DEF Calls
  <1>3. First \in Nat
    BY <1>2, AtaConstants DEF First
  <1>4. Device \in Devs
    BY <1>1, <1>2 DEF Device
  <1>5. Device.pos \in Nat /\ Device.left \in Nat /\ Device.held \in Seq(Words)
    BY <1>4 DEF Devs
  <1>6. Len(Device.held) \in Nat
    BY <1>5
  <1>7. Len(Device.held) <= SectorWords
    BY <1>2 DEF AtaTypes, Device
  <1> QED
    BY <1>1, <1>2, <1>3, <1>4, <1>5, <1>6, <1>7

-----------------------------------------------------------------------------
(***************************************************************************)
(* The ATA driver: initialization and the beginning of a call              *)
(***************************************************************************)
LEMMA IdleDevTyped ==
    /\ IdleDev \in Devs /\ IdleDev.phase = "ready" /\ IdleDev.cmd = "none" /\ IdleDev.held = <<>>
    /\ [IdleDev EXCEPT !.phase = "error"] \in Devs
    /\ [IdleDev EXCEPT !.phase = "error"].phase = "error"
    /\ [IdleDev EXCEPT !.phase = "error"].cmd = "none"
    /\ [IdleDev EXCEPT !.phase = "error"].held = <<>>
  <1>1. <<>> \in Seq(Words)
    OBVIOUS
  <1> QED
    BY <1>1 DEF IdleDev, Devs

LEMMA WordsTyped ==
    /\ <<"old", 0>> \in Words /\ Magic \in Words /\ Junk \in Words
    /\ \A n \in Nat : <<"new", n>> \in Words /\ \A fill \in Fills : <<fill, n>> \in Words
  BY DEF Words, Magic, Junk

LEMMA AtaInitHolds ==
    ASSUME AtaInit
    PROVE  AtaInv /\ ata = IdleCall /\ dev = [b \in Buses |-> IdleDev]
  <1>1. ata = IdleCall /\ dev = [b \in Buses |-> IdleDev] /\ buf = <<>> /\ failed = FALSE
    BY DEF AtaInit
  <1>2. ata \in Calls /\ ata.pc = "idle" /\ ata.op = "none" /\ ata.i <= ata.size
    BY <1>1 DEF IdleCall, Calls, Buses
  <1>3. store \in [DiskWords -> Words]
    BY WordsTyped DEF AtaInit, Blank
  <1>4. unit \in [Buses -> Units] /\ drives \subseteq Buses \X Units
    BY DEF AtaInit, Units
  <1>5. dev \in [Buses -> Devs] /\ \A b \in Buses : dev[b].held = <<>> /\ dev[b].cmd = "none"
    BY <1>1, IdleDevTyped
  <1>6. \A b \in Buses : Len(dev[b].held) <= SectorWords
    BY <1>5, AtaConstants
  <1>7. buf \in Seq(Words)
    BY <1>1
  <1>8. AtaTypes
    BY <1>1, <1>2, <1>3, <1>4, <1>5, <1>6, <1>7 DEF AtaTypes
  <1> QED
    BY <1>1, <1>2, <1>5, <1>8 DEF AtaInv, WritersKnown, WordsInv, BufferInv, DoneInv

\* A step of the driver at which no word has moved: what is to be shown of the
\* rest of the invariant is that no drive is storing words.
LEMMA NoWordsMoved ==
    ASSUME AtaTypes', ata'.pc # "words", ata'.op \notin {"read", "write"},
           \A b \in Buses : ~(dev'[b].cmd = "write" /\ dev'[b].phase = "busy")
    PROVE  AtaInv'
  BY DEF AtaInv, WritersKnown, WordsInv, BufferInv, DoneInv

LEMMA InitCallKeeps ==
    ASSUME AtaInv, NEW bus \in Buses, AtaInitCall(bus)
    PROVE  /\ AtaInv' /\ UNCHANGED <<drives, dev>>
           /\ ata'.pc = "init" /\ ata'.op = "init" /\ ata'.IO = bus
           /\ unit'[bus] = UnitSelected(bus)
  <1>1. /\ ata.pc = "idle" /\ UNCHANGED <<drives, store, dev, buf>> /\ failed' = FALSE
        /\ ata' = [IdleCall EXCEPT !.pc = "init", !.op = "init", !.IO = bus]
        /\ unit' = [unit EXCEPT ![bus] = UnitSelected(bus)]
    BY DEF AtaInitCall
  <1>2. UnitSelected(bus) \in Units
    BY DEF UnitSelected, Units
  <1>3. unit' \in [Buses -> Units] /\ unit'[bus] = UnitSelected(bus)
    BY <1>1, <1>2 DEF AtaInv, AtaTypes
  <1>4. ata' \in Calls /\ ata'.pc = "init" /\ ata'.op = "init" /\ ata'.IO = bus /\ ata'.i <= ata'.size
    <2>1. IdleCall \in Calls /\ IdleCall.i = 0 /\ IdleCall.size = 0
      BY DEF IdleCall, Calls, Buses
    <2>2. ata' \in Calls
      BY <1>1, <2>1 DEF Calls
    <2>3. ata'.pc = "init" /\ ata'.op = "init" /\ ata'.IO = bus /\ ata'.i = 0 /\ ata'.size = 0
      BY <1>1, <2>1 DEF Calls
    <2> QED
      BY <2>2, <2>3
  <1>5. AtaTypes'
    BY <1>1, <1>3, <1>4 DEF AtaInv, AtaTypes
  <1>6. AtaInv'
    BY <1>1, <1>4, <1>5, NoWordsMoved DEF AtaInv, WritersKnown
  <1> QED
    BY <1>1, <1>3, <1>4, <1>6

LEMMA CallKeeps ==
    ASSUME AtaInv, NEW op \in {"read", "write"}, NEW bus \in Buses, NEW master \in BOOLEAN,
           NEW lba \in Nat, NEW contents \in Seq(Words),
           op = "read" => \A j \in 0..(Len(contents) - 1) : contents[j + 1] = <<"new", j + 1>>,
           AtaCall(op, bus, master, lba, contents)
    PROVE  /\ AtaInv' /\ UNCHANGED <<drives, dev, unit>>
           /\ ata'.pc = "command" /\ ata'.op = op /\ ata'.IO = bus /\ ata'.Master = master
           /\ ata'.lba = lba \div SectorSz /\ ata'.size = Len(contents)
  <1>1. /\ ata.pc = "idle" /\ UNCHANGED <<drives, store, dev, unit>> /\ buf' = contents /\ failed' = FALSE
        /\ ata' = [pc |-> "command", op |-> op, IO |-> bus, Master |-> master,
                   lba |-> lba \div SectorSz, size |-> Len(contents), i |-> 0, ret |-> FALSE]
    BY DEF AtaCall
  <1>2. lba \div SectorSz \in Nat /\ Len(contents) \in Nat
    <2>1. SectorSz \in Nat \ {0}
      BY AtaConstants
    <2>2. lba \div SectorSz \in Nat
      BY <2>1, Division
    <2> QED
      BY <2>2
  <1>3. ata' \in Calls
    BY <1>1, <1>2 DEF Calls
  <1>4. /\ ata'.pc = "command" /\ ata'.op = op /\ ata'.IO = bus /\ ata'.Master = master
        /\ ata'.lba = lba \div SectorSz /\ ata'.size = Len(contents) /\ ata'.i = 0
    BY <1>1
  <1>5. ata'.i <= ata'.size
    BY <1>2, <1>4
  <1>6. AtaTypes'
    BY <1>1, <1>3, <1>4, <1>5 DEF AtaInv, AtaTypes
  <1>7. WritersKnown'
    BY <1>1 DEF AtaInv, WritersKnown
  <1>8. BufferInv'
    BY <1>1, <1>4 DEF BufferInv
  <1>9. AtaInv'
    BY <1>4, <1>6, <1>7, <1>8 DEF AtaInv, WordsInv, DoneInv
  <1> QED
    BY <1>1, <1>4, <1>9

LEMMA DevChanged ==
    ASSUME AtaTypes, NEW bus \in Buses, NEW d \in Devs, Len(d.held) <= SectorWords,
           dev' = [dev EXCEPT ![bus] = d]
    PROVE  /\ dev' \in [Buses -> Devs] /\ dev'[bus] = d
           /\ \A b \in Buses : b # bus => dev'[b] = dev[b]
           /\ \A b \in Buses : Len(dev'[b].held) <= SectorWords
  <1>1. dev \in [Buses -> Devs] /\ \A b \in Buses : Len(dev[b].held) <= SectorWords
    BY DEF AtaTypes
  <1>2. /\ dev' \in [Buses -> Devs] /\ dev'[bus] = d
        /\ \A b \in Buses : b # bus => dev'[b] = dev[b]
    BY <1>1
  <1> QED
    BY <1>1, <1>2

\* A command sets the drive's place; cmd is what it was told to do.
LEMMA Commanded ==
    ASSUME AtaTypes, NEW bus \in Buses, NEW cmd \in {"identify", "read", "write"}, NEW sector \in Nat,
           NEW count \in Nat, Command(bus, cmd, sector, count)
    PROVE  /\ dev' \in [Buses -> Devs] /\ \A b \in Buses : Len(dev'[b].held) <= SectorWords
           /\ dev'[bus].cmd = cmd /\ dev'[bus].phase = (IF cmd = "write" THEN "data" ELSE "busy")
           /\ dev'[bus].pos = sector * SectorWords /\ dev'[bus].left = count * SectorWords
           /\ dev'[bus].held = <<>>
           /\ \A b \in Buses : b # bus => dev'[b] = dev[b]
  <1> DEFINE d == [phase |-> IF cmd = "write" THEN "data" ELSE "busy", cmd |-> cmd,
                   pos |-> sector * SectorWords, left |-> count * SectorWords, held |-> <<>>]
  <1>1. sector * SectorWords \in Nat /\ count * SectorWords \in Nat /\ <<>> \in Seq(Words)
    BY AtaConstants
  <1>2. d \in Devs /\ d.held = <<>> /\ Len(d.held) <= SectorWords
    BY <1>1, AtaConstants DEF Devs
  <1>3. dev' = [dev EXCEPT ![bus] = d]
    BY DEF Command
  <1>4. /\ d.cmd = cmd /\ d.phase = (IF cmd = "write" THEN "data" ELSE "busy")
        /\ d.pos = sector * SectorWords /\ d.left = count * SectorWords
    OBVIOUS
  <1> HIDE DEF d
  <1> QED
    BY <1>2, <1>3, <1>4, DevChanged

LEMMA InitPollKeeps ==
    ASSUME AtaInv, MgrInv, AtaInitPoll, UNCHANGED mgrVars
    PROVE  AtaInv' /\ MgrInv'
  <1>1. /\ ata.pc = "init" /\ UNCHANGED <<drives, store, unit, buf, failed>>
        /\ UNCHANGED <<build, mount, task, kATA, good>>
    BY DEF AtaInitPoll, mgrVars
  <1>2. ata \in Calls /\ ata.op = "init" /\ Device = IdleDev /\ ata.IO \in Buses
        /\ task \in {"primary", "secondary"} /\ unit[ata.IO] = UnitSelected(ata.IO)
    BY <1>1 DEF AtaInv, AtaTypes, MgrInv, SearchInv, Calls
  <1>3. /\ \E pc \in {"idle", "identify"}, r \in BOOLEAN : ata' = [ata EXCEPT !.pc = pc, !.ret = r]
        /\ ata'.pc = "idle" => Floating(ata.IO) /\ ~ata'.ret
        /\ dev' = dev \/ Command(ata.IO, "identify", 0, 1)
    <2>1. CASE "ERR" \in Status(ata.IO) /\ AtaReturn(FALSE) /\ UNCHANGED dev
      <3>1. Floating(ata.IO)
        BY <1>2, <2>1, StatusFacts, IdleDevTyped DEF AtaInv, Device
      <3>2. ata' = [ata EXCEPT !.pc = "idle", !.ret = FALSE]
        BY <2>1 DEF AtaReturn
      <3>3. ~ata'.ret
        BY <1>2, <3>2 DEF Calls
      <3> QED
        BY <2>1, <3>1, <3>2, <3>3
    <2>2. CASE /\ IF <<ata.IO, unit[ata.IO]>> \in drives
                    THEN Command(ata.IO, "identify", 0, 1) ELSE UNCHANGED dev
               /\ ata' = [ata EXCEPT !.pc = "identify"]
      <3>1. ata' = [ata EXCEPT !.pc = "identify", !.ret = ata.ret] /\ ata.ret \in BOOLEAN
        BY <1>2, <2>2 DEF Calls
      <3>2. ata'.pc = "identify"
        BY <1>2, <2>2 DEF Calls
      <3> QED
        BY <2>2, <3>1, <3>2
    <2> QED
      BY <2>1, <2>2 DEF AtaInitPoll
  <1>4. PICK pc \in {"idle", "identify"}, r \in BOOLEAN : ata' = [ata EXCEPT !.pc = pc, !.ret = r]
    BY <1>3
  <1>5. ata' \in Calls
    BY <1>2, <1>4 DEF Calls
  <1>6. /\ ata'.pc = pc /\ ata'.op = ata.op /\ ata'.IO = ata.IO /\ ata'.i = ata.i /\ ata'.size = ata.size
    BY <1>2, <1>4 DEF Calls
  <1>7. /\ dev' \in [Buses -> Devs] /\ \A b \in Buses : Len(dev'[b].held) <= SectorWords
        /\ \A b \in Buses : b # ata.IO => dev'[b] = dev[b]
        /\ \A b \in Buses : dev'[b] = dev[b] \/ dev'[b].cmd = "identify"
    <2>1. CASE dev' = dev
      BY <2>1 DEF AtaInv, AtaTypes
    <2>2. CASE Command(ata.IO, "identify", 0, 1)
      <3>1. 0 \in Nat /\ 1 \in Nat /\ AtaTypes
        BY DEF AtaInv
      <3> QED
        BY <1>2, <2>2, <3>1, Commanded
    <2> QED
      BY <1>3, <2>1, <2>2
  <1>8. AtaTypes'
    BY <1>1, <1>2, <1>5, <1>6, <1>7 DEF AtaInv, AtaTypes
  <1>9. AtaInv'
    BY <1>1, <1>2, <1>6, <1>7, <1>8, NoWordsMoved DEF AtaInv, WritersKnown
  <1>10. Floating(ata.IO)' <=> Floating(ata.IO)
    BY <1>1, <1>6 DEF Floating
  <1>11. SearchInv'
    <2>1. task = "primary" => ata.IO = "ATA_PRIMARY_IO" /\ "ATA_SECONDARY_IO" \in Buses
      BY <1>1, <1>2 DEF MgrInv, SearchInv, Buses, DriveKnown
    <2>2. ata'.pc \in {"idle", "identify"}
      BY <1>6
    <2> QED
      BY <1>1, <1>2, <1>3, <1>6, <1>7, <1>10, <2>1, <2>2 DEF MgrInv, SearchInv
  <1>12. DriveKnown'
    BY <1>1, <1>2, <1>6 DEF MgrInv, DriveKnown, Mounting
  <1> QED
    BY <1>1, <1>9, <1>11, <1>12 DEF MgrInv, MgrTypes

LEMMA IdentifyKeeps ==
    ASSUME AtaInv, MgrInv, AtaIdentify, UNCHANGED mgrVars
    PROVE  AtaInv' /\ MgrInv'
  <1>1. /\ ata.pc = "identify" /\ UNCHANGED <<drives, store, unit, buf, failed>>
        /\ UNCHANGED <<build, mount, task, kATA, good>> /\ WaitIo(ata.IO)
        /\ ata' = [ata EXCEPT !.pc = "idle", !.ret = TRUE, !.Master = (ata.IO # "ATA_PRIMARY_IO")]
    BY DEF AtaIdentify, mgrVars
  <1>2. /\ ata \in Calls /\ ata.op = "init" /\ ata.IO \in Buses
        /\ task \in {"primary", "secondary"} /\ unit[ata.IO] = UnitSelected(ata.IO)
    BY <1>1 DEF AtaInv, AtaTypes, MgrInv, SearchInv, Calls
  <1>3. ata' \in Calls
    BY <1>1, <1>2 DEF Calls
  <1>4. /\ ata'.pc = "idle" /\ ata'.op = ata.op /\ ata'.IO = ata.IO /\ ata'.i = ata.i
        /\ ata'.size = ata.size /\ ata'.ret /\ (ata'.Master <=> ata.IO # "ATA_PRIMARY_IO")
    BY <1>1, <1>2 DEF Calls
  <1> DEFINE e == [Device EXCEPT !.phase = "ready", !.left = 0, !.cmd = "none"]
             d == IF Device.phase = "data" THEN e ELSE Device
  <1>5. Device \in Devs /\ Len(Device.held) <= SectorWords
    BY DeviceTypes DEF AtaInv
  <1>6. e \in Devs /\ e.held = Device.held /\ e.cmd = "none"
    BY <1>5 DEF Devs
  <1>7. d \in Devs /\ Len(d.held) <= SectorWords /\ (d = Device \/ d.cmd = "none")
    BY <1>5, <1>6
  <1>8. dev' = [dev EXCEPT ![ata.IO] = d]
    BY DEF AtaIdentify, Device
  <1> HIDE DEF d
  <1>9. /\ dev' \in [Buses -> Devs] /\ dev'[ata.IO] = d
        /\ \A b \in Buses : b # ata.IO => dev'[b] = dev[b]
        /\ \A b \in Buses : Len(dev'[b].held) <= SectorWords
    BY <1>2, <1>7, <1>8, DevChanged DEF AtaInv
  <1>10. AtaTypes'
    BY <1>1, <1>2, <1>3, <1>4, <1>9 DEF AtaInv, AtaTypes
  <1>11. AtaInv'
    BY <1>1, <1>2, <1>4, <1>7, <1>9, <1>10, NoWordsMoved DEF AtaInv, WritersKnown, Device
  <1>12. <<ata.IO, CommandUnit(ata'.Master)>> \in drives
    <2>1. <<ata.IO, unit[ata.IO]>> \in drives
      BY <1>1, <1>2, StatusFacts DEF AtaInv
    <2>2. CommandUnit(ata'.Master) = unit[ata.IO]
      BY <1>2, <1>4 DEF CommandUnit, UnitSelected
    <2> QED
      BY <2>1, <2>2
  <1>13. SearchInv'
    <2>1. task = "primary" => ata.IO = "ATA_PRIMARY_IO" /\ "ATA_SECONDARY_IO" \in Buses
      BY <1>1, <1>2 DEF MgrInv, SearchInv, Buses
    <2> QED
      BY <1>1, <1>2, <1>4, <1>9, <1>12, <2>1 DEF MgrInv, SearchInv
  <1>14. DriveKnown'
    BY <1>1, <1>2, <1>4 DEF MgrInv, DriveKnown, Mounting
  <1> QED
    BY <1>1, <1>11, <1>13, <1>14 DEF MgrInv, MgrTypes

-----------------------------------------------------------------------------
(***************************************************************************)
(* The ATA driver: the words of a request                                  *)
(***************************************************************************)
\* A request that goes on, or comes to its end, leaves the manager alone.
LEMMA MgrUntouched ==
    ASSUME MgrInv, UNCHANGED mgrVars, UNCHANGED drives,
           ata.pc \in {"command", "words"}, ata'.pc \in {"words", "idle"},
           ata'.op = ata.op, ata'.IO = ata.IO, ata'.Master = ata.Master, ata'.lba = ata.lba,
           ata'.size = ata.size
    PROVE  MgrInv'
  <1>1. UNCHANGED <<build, mount, task, kATA, good>>
    BY DEF mgrVars
  <1>2. task = "detecting" \/ (task = "none" /\ mount["A"] # NoTrait)
    BY DEF MgrInv, DriveKnown
  <1>3. SearchInv'
    BY <1>1, <1>2 DEF MgrInv, SearchInv, Mounting
  <1>4. DriveKnown'
    BY <1>1 DEF MgrInv, DriveKnown, Floating
  <1> QED
    BY <1>1, <1>3, <1>4 DEF MgrInv, MgrTypes

LEMMA CommandKeeps ==
    ASSUME AtaInv, MgrInv, AtaCommand, UNCHANGED mgrVars
    PROVE  AtaInv' /\ MgrInv'
  <1>1. /\ ata.pc = "command" /\ UNCHANGED <<drives, store, buf, failed>> /\ WaitIo(ata.IO)
        /\ unit' = [unit EXCEPT ![ata.IO] = CommandUnit(ata.Master)]
        /\ ata' = [ata EXCEPT !.pc = "words"]
    BY DEF AtaCommand
  <1>2. /\ ata \in Calls /\ ata.IO \in Buses /\ ata.op \in {"read", "write"} /\ ata.lba \in Nat
        /\ ata.size \in Nat /\ ata.i \in Nat /\ ata.i <= ata.size /\ Len(buf) = ata.size
    BY <1>1 DEF AtaInv, AtaTypes, Calls
  <1>3. /\ ata' \in Calls /\ ata'.pc = "words" /\ ata'.op = ata.op /\ ata'.IO = ata.IO
        /\ ata'.Master = ata.Master /\ ata'.lba = ata.lba /\ ata'.size = ata.size /\ ata'.i = ata.i
    BY <1>1, <1>2 DEF Calls
  <1>4. <<ata.IO, CommandUnit(ata.Master)>> \in drives
    <2>1. ~Floating(ata.IO)
      BY <1>1, <1>2, StatusFacts DEF AtaInv
    <2> QED
      BY <1>1, <2>1 DEF MgrInv, DriveKnown, Mounting
  <1>5. CommandUnit(ata.Master) \in Units
    BY DEF CommandUnit, Units
  <1>6. unit' \in [Buses -> Units] /\ unit'[ata.IO] = CommandUnit(ata.Master)
    BY <1>1, <1>2, <1>5 DEF AtaInv, AtaTypes
  <1> DEFINE c == AtaSectorCount(ata.size)
  <1>7. c \in Nat /\ c * SectorWords \in Nat /\ c * SectorWords > 0 /\ (c * SectorWords) % SectorWords = 0
        /\ ata.i = 0
    BY <1>1, <1>2, CountFacts DEF AtaInv, AtaTypes
  <1>8. Command(ata.IO, ata.op, ata.lba, c)
    BY <1>4 DEF AtaCommand
  <1> HIDE DEF c
  <1>9. /\ dev' \in [Buses -> Devs] /\ \A b \in Buses : Len(dev'[b].held) <= SectorWords
        /\ dev'[ata.IO].cmd = ata.op
        /\ dev'[ata.IO].phase = (IF ata.op = "write" THEN "data" ELSE "busy")
        /\ dev'[ata.IO].pos = ata.lba * SectorWords /\ dev'[ata.IO].left = c * SectorWords
        /\ dev'[ata.IO].held = <<>>
        /\ \A b \in Buses : b # ata.IO => dev'[b] = dev[b]
    BY <1>2, <1>7, <1>8, Commanded DEF AtaInv
  <1>10. AtaTypes'
    BY <1>1, <1>2, <1>3, <1>6, <1>9 DEF AtaInv, AtaTypes
  <1>11. WritersKnown'
    BY <1>1, <1>3, <1>9 DEF AtaInv, WritersKnown
  <1>12. First' = ata.lba * SectorWords /\ Device' = dev'[ata.IO] /\ Given' = c * SectorWords /\ First' \in Nat
    BY <1>2, <1>3, AtaConstants DEF First, Device, Given, c
  <1>13. Moved' = 0
    BY <1>9, <1>12 DEF Moved
  <1>14. InStep'
    BY <1>2, <1>3, <1>7, <1>9, <1>12, <1>13 DEF InStep
  <1>15. ata.op = "read" => ReadingInv'
    BY <1>7, <1>9, <1>12, <1>13 DEF ReadingInv
  <1>16. ata.op = "write" => WritingInv'
    <2>1. Len(Device'.held) = 0 /\ c * SectorWords + 0 = c * SectorWords
      BY <1>7, <1>9, <1>12
    <2>2. 1..0 = {} /\ 0..(0 - 0 - 1) = {}
      OBVIOUS
    <2>3. \A j \in 1..Len(Device'.held) : FALSE
      BY <2>1, <2>2
    <2>4. \A j \in 0..(Moved' - Len(Device'.held) - 1) : FALSE
      BY <1>13, <2>1, <2>2
    <2>5. (Device'.left + Len(Device'.held)) % SectorWords = 0 /\ Device'.left > 0
      BY <1>7, <1>9, <1>12, <2>1
    <2>6. Len(Device'.held) <= Moved' /\ Len(Device'.held) < SectorWords
      BY <1>13, <2>1, AtaConstants
    <2> QED
      BY <1>9, <1>12, <2>3, <2>4, <2>5, <2>6 DEF WritingInv
  <1>17. WordsInv'
    BY <1>1, <1>3, <1>4, <1>6, <1>14, <1>15, <1>16 DEF WordsInv
  <1>18. BufferInv'
    BY <1>1, <1>3, <1>7 DEF AtaInv, BufferInv
  <1>19. AtaInv'
    BY <1>3, <1>10, <1>11, <1>17, <1>18 DEF AtaInv, DoneInv
  <1> QED
    BY <1>1, <1>3, <1>19, MgrUntouched

\* What a word that goes over the bus does to the drive.
LEMMA WordMoved ==
    ASSUME AtaInv, ata.pc = "words", WaitIo(ata.IO), NEW ws \in {<<>>} \cup {<<x>> : x \in Words},
           DataMoved(ata.IO, ws),
           Device.phase = "data" => Device.left > 0 /\ Len(Device.held \o ws) <= SectorWords
    PROVE  /\ dev' \in [Buses -> Devs] /\ \A b \in Buses : Len(dev'[b].held) <= SectorWords
           /\ \A b \in Buses : b # ata.IO => dev'[b] = dev[b]
           /\ Device.phase # "data" => dev' = dev
           /\ Device.phase = "data" =>
                /\ dev'[ata.IO].pos = Device.pos + 1 /\ dev'[ata.IO].left = Device.left - 1
                /\ dev'[ata.IO].held = Device.held \o ws /\ dev'[ata.IO].cmd = Device.cmd
                /\ dev'[ata.IO].phase = IF (Device.left - 1) % SectorWords = 0
                                          THEN IF Device.cmd = "read" /\ Device.left = 1 THEN "ready" ELSE "busy"
                                          ELSE "data"
  <1>1. Device \in Devs /\ ata.IO \in Buses /\ Device.left \in Nat /\ Device.pos \in Nat
        /\ Device.held \in Seq(Words)
    BY DeviceTypes DEF AtaInv
  <1>2. CASE Device.phase # "data"
    <2>1. dev' = dev
      BY <1>2 DEF DataMoved, Device
    <2> QED
      BY <1>2, <2>1 DEF AtaInv, AtaTypes
  <1>3. CASE Device.phase = "data"
    <2> DEFINE ph == IF (Device.left - 1) % SectorWords = 0
                       THEN IF Device.cmd = "read" /\ Device.left = 1 THEN "ready" ELSE "busy"
                       ELSE "data"
               d == [Device EXCEPT !.pos = @ + 1, !.left = @ - 1, !.held = @ \o ws, !.phase = ph]
    <2>1. dev' = [dev EXCEPT ![ata.IO] = d]
      BY <1>3 DEF DataMoved, Device
    <2>2. Device.pos + 1 \in Nat /\ Device.left - 1 \in Nat /\ ph \in {"ready", "busy", "data"}
      BY <1>1, <1>3
    <2>3. Device.held \o ws \in Seq(Words)
      <3>1. ws \in Seq(Words)
        <4>1. CASE ws = <<>>
          BY <4>1
        <4>2. CASE \E x \in Words : ws = <<x>>
          BY <4>2
        <4> QED
          BY <4>1, <4>2
      <3> QED
        BY <1>1, <3>1
    <2> HIDE DEF ph
    <2>4. d \in Devs
      BY <1>1, <2>2, <2>3 DEF Devs
    <2>5. /\ d.pos = Device.pos + 1 /\ d.left = Device.left - 1 /\ d.held = Device.held \o ws
          /\ d.cmd = Device.cmd /\ d.phase = ph
      BY <1>1 DEF Devs
    <2> HIDE DEF d
    <2>6. Len(d.held) <= SectorWords
      BY <1>3, <2>5
    <2> QED
      BY <1>1, <1>3, <2>1, <2>4, <2>5, <2>6, DevChanged DEF AtaInv, ph
  <1> QED
    BY <1>2, <1>3

\* The driver's counter after a word.
LEMMA WordCounted ==
    ASSUME AtaInv, ata.pc = "words", ata.i < ata.size, ata' = [ata EXCEPT !.i = @ + 1]
    PROVE  /\ ata' \in Calls /\ ata'.i = ata.i + 1 /\ ata'.i <= ata.size /\ ata.i + 1 \in 1..ata.size
           /\ ata'.pc = ata.pc /\ ata'.op = ata.op /\ ata'.IO = ata.IO /\ ata'.Master = ata.Master
           /\ ata'.lba = ata.lba /\ ata'.size = ata.size /\ First' = First /\ Given' = Given
           /\ Device' = dev'[ata.IO]
  <1>1. ata \in Calls /\ ata.i \in Nat /\ ata.size \in Nat
    BY DEF AtaInv, AtaTypes, Calls
  <1>2. ata.i + 1 \in Nat /\ ata.i + 1 \in 1..ata.size /\ ata.i + 1 <= ata.size
    BY <1>1
  <1>3. ata' \in Calls
    BY <1>1, <1>2 DEF Calls
  <1>4. /\ ata'.i = ata.i + 1 /\ ata'.pc = ata.pc /\ ata'.op = ata.op /\ ata'.IO = ata.IO
        /\ ata'.Master = ata.Master /\ ata'.lba = ata.lba /\ ata'.size = ata.size
    BY <1>1 DEF Calls
  <1> QED
    BY <1>2, <1>3, <1>4 DEF First, Given, Device

LEMMA ReadWordKeeps ==
    ASSUME AtaInv, MgrInv, AtaReadWord, UNCHANGED mgrVars
    PROVE  AtaInv' /\ MgrInv'
  <1>1. /\ ata.pc = "words" /\ ata.op = "read" /\ ata.i < ata.size /\ WaitIo(ata.IO)
        /\ buf' = [buf EXCEPT ![ata.i + 1] = DataIn(ata.IO)] /\ DataMoved(ata.IO, <<>>)
        /\ ata' = [ata EXCEPT !.i = @ + 1] /\ UNCHANGED <<drives, store, unit, failed>>
    BY DEF AtaReadWord
  <1>2. /\ ata' \in Calls /\ ata'.i = ata.i + 1 /\ ata'.i <= ata.size /\ ata.i + 1 \in 1..ata.size
        /\ ata'.pc = "words" /\ ata'.op = "read" /\ ata'.IO = ata.IO /\ ata'.Master = ata.Master
        /\ ata'.lba = ata.lba /\ ata'.size = ata.size /\ First' = First /\ Given' = Given
        /\ Device' = dev'[ata.IO]
    BY <1>1, WordCounted
  <1>3. /\ Device \in Devs /\ Device.pos \in Nat /\ Device.left \in Nat /\ Device.held \in Seq(Words)
        /\ First \in Nat /\ ata.IO \in Buses /\ ata.size \in Nat /\ ata.i \in Nat
        /\ Len(Device.held) <= SectorWords
    BY DeviceTypes DEF AtaInv
  <1>4. store \in [DiskWords -> Words] /\ buf \in Seq(Words) /\ Len(buf) = ata.size
    BY <1>1 DEF AtaInv, AtaTypes
  <1>5. DataIn(ata.IO) \in Words /\ (DataIn(ata.IO) # Junk => Device.phase = "data" /\ Device.cmd = "read"
          /\ Device.pos \in DiskWords /\ DataIn(ata.IO) = store[Device.pos])
    BY <1>4, WordsTyped DEF DataIn, Device
  <1>6. /\ buf' \in Seq(Words) /\ Len(buf') = ata.size /\ buf'[ata.i + 1] = DataIn(ata.IO)
        /\ \A j \in 0..(ata.size - 1) : j # ata.i => buf'[j + 1] = buf[j + 1]
    <2>1. ata.i + 1 \in 1..Len(buf)
      BY <1>2, <1>4
    <2>2. buf' \in Seq(Words) /\ Len(buf') = Len(buf)
      BY <1>1, <1>4, <1>5, <2>1
    <2>3. \A n \in 1..Len(buf) : buf'[n] = IF n = ata.i + 1 THEN DataIn(ata.IO) ELSE buf[n]
      BY <1>1, <1>4
    <2>4. \A j \in 0..(ata.size - 1) : j # ata.i => j + 1 \in 1..Len(buf) /\ j + 1 # ata.i + 1
      BY <1>3, <1>4
    <2> QED
      BY <1>4, <2>1, <2>2, <2>3, <2>4
  <1>7. /\ <<ata.IO, unit[ata.IO]>> \in drives
        /\ \/ Device = [IdleDev EXCEPT !.phase = "error"] /\ failed
           \/ InStep /\ ReadingInv
    BY <1>1 DEF AtaInv, WordsInv
  <1>8. Device.phase = "data" => /\ InStep /\ ReadingInv /\ Device.left > 0 /\ Device.held = <<>>
                                 /\ Device.pos = First + ata.i
    <2>1. Device.phase = "data" => InStep /\ ReadingInv
      BY <1>7, IdleDevTyped
    <2>2. Device.phase = "data" /\ ReadingInv => Device.left > 0 /\ Device.held = <<>>
      BY <1>3 DEF ReadingInv
    <2>3. InStep /\ Device.left > 0 => Device.pos = First + ata.i
      BY <1>3 DEF InStep, Moved
    <2> QED
      BY <2>1, <2>2, <2>3
  <1>9. /\ dev' \in [Buses -> Devs] /\ \A b \in Buses : Len(dev'[b].held) <= SectorWords
        /\ \A b \in Buses : b # ata.IO => dev'[b] = dev[b]
        /\ Device.phase # "data" => dev' = dev
        /\ Device.phase = "data" =>
             /\ Device'.pos = Device.pos + 1 /\ Device'.left = Device.left - 1
             /\ Device'.held = <<>> /\ Device'.cmd = Device.cmd
             /\ Device'.phase = IF (Device.left - 1) % SectorWords = 0
                                  THEN IF Device.cmd = "read" /\ Device.left = 1 THEN "ready" ELSE "busy"
                                  ELSE "data"
    <2>1. Device.phase = "data" => Device.left > 0 /\ Len(Device.held \o <<>>) <= SectorWords
                                   /\ Device.held \o <<>> = <<>>
      BY <1>8, HeldEmpty, AtaConstants
    <2> QED
      BY <1>1, <1>2, <2>1, WordMoved
  <1>10. AtaTypes'
    BY <1>1, <1>2, <1>6, <1>9 DEF AtaInv, AtaTypes
  <1>11. WritersKnown'
    <2>1. Device'.cmd # "write" \/ Device' = Device
      BY <1>2, <1>8, <1>9, <1>1 DEF InStep, Device
    <2> QED
      BY <1>1, <1>2, <1>3, <1>9, <2>1 DEF AtaInv, WritersKnown, Device
  <1>12. BufferInv'
    <2> SUFFICES ASSUME NEW j \in 0..(ata.size - 1)
                 PROVE  IF j >= ata.i + 1 THEN buf'[j + 1] = <<"new", j + 1>>
                                          ELSE buf'[j + 1] = Junk \/ FromDisk(j)'
      BY <1>2 DEF BufferInv
    <2>1. FromDisk(j)' <=> First + j \in DiskWords /\ buf'[j + 1] = store[First + j]
      BY <1>1, <1>2 DEF FromDisk
    <2>2. CASE j = ata.i
      BY <1>3, <1>5, <1>6, <1>8, <2>1, <2>2
    <2>3. CASE j # ata.i
      <3>1. j >= ata.i + 1 <=> j >= ata.i
        BY <1>3, <2>3
      <3> QED
        BY <1>1, <1>6, <2>1, <2>3, <3>1 DEF AtaInv, BufferInv, FromDisk
    <2> QED
      BY <2>2, <2>3
  <1>13. WordsInv'
    <2>1. CASE Device.phase = "data"
      <3>1. /\ Moved = ata.i /\ Moved' = ata.i + 1 /\ Device.cmd = "read" /\ ata.i + Device.left = Given
        <4>1. InStep /\ Device.left > 0
          BY <1>8, <2>1
        <4>2. Moved = ata.i /\ Device.cmd = "read" /\ Moved + Device.left = Given
          BY <1>1, <4>1 DEF InStep
        <4>3. Device.pos = First + ata.i /\ Device'.pos = Device.pos + 1 /\ First' = First
          BY <1>2, <1>8, <1>9, <2>1
        <4>4. Moved' = ata.i + 1
          BY <1>3, <4>3 DEF Moved
        <4> QED
          BY <4>2, <4>4
      <3>2. Device'.left = Device.left - 1 /\ Device.left > 0
        BY <1>8, <1>9, <2>1
      <3>3. InStep'
        <4>1. Moved' \in Nat /\ Moved' <= ata'.i /\ Moved' + Device'.left = Given' /\ Moved' = ata'.i
          BY <1>2, <1>3, <3>1, <3>2
        <4>2. Device'.phase # "error" /\ Device'.cmd = ata'.op
          BY <1>2, <1>9, <2>1, <3>1
        <4> QED
          BY <4>1, <4>2 DEF InStep
      <3>4. ReadingInv'
        <4>1. IF Device'.left > 0 THEN Device'.phase \in {"busy", "data"} ELSE Device'.phase = "ready"
          <5>1. 0 % SectorWords = 0 /\ 1 - 1 = 0
            BY AtaConstants
          <5>2. CASE Device.left = 1
            BY <1>9, <2>1, <3>1, <5>1, <5>2
          <5>3. CASE Device.left # 1
            <6>1. Device'.left > 0
              BY <1>3, <3>2, <5>3
            <6> QED
              BY <1>9, <2>1, <5>3, <6>1
          <5> QED
            BY <5>2, <5>3
        <4>2. ASSUME NEW j \in 0..(Moved' - 1), First + j \in DiskWords PROVE FromDisk(j)'
          <5>1. FromDisk(j)' <=> First + j \in DiskWords /\ buf'[j + 1] = store[First + j]
            BY <1>1, <1>2 DEF FromDisk
          <5>2. j \in 0..(ata.size - 1)
            BY <1>2, <1>3, <3>1
          <5>3. CASE j = ata.i
            <6>1. DataIn(ata.IO) = store[Device.pos]
              BY <1>8, <2>1, <3>1, <4>2, <5>3 DEF DataIn, Device
            <6> QED
              BY <1>6, <1>8, <2>1, <4>2, <5>1, <5>3, <6>1
          <5>4. CASE j # ata.i
            <6>1. j \in 0..(Moved - 1)
              BY <1>3, <3>1, <5>4
            <6>2. FromDisk(j)
              BY <1>8, <2>1, <4>2, <6>1 DEF ReadingInv
            <6> QED
              BY <1>6, <5>1, <5>2, <5>4, <6>2 DEF FromDisk
          <5> QED
            BY <5>3, <5>4
        <4> QED
          BY <1>2, <1>9, <2>1, <4>1, <4>2 DEF ReadingInv
      <3> QED
        BY <1>1, <1>2, <1>7, <3>3, <3>4 DEF WordsInv
    <2>2. CASE Device.phase # "data"
      <3>1. Device' = Device /\ Moved' = Moved
        BY <1>2, <1>9, <2>2 DEF Device, Moved
      <3>2. CASE Device = [IdleDev EXCEPT !.phase = "error"] /\ failed
        BY <1>1, <1>2, <1>7, <3>1, <3>2 DEF WordsInv
      <3>3. CASE InStep /\ ReadingInv
        <4>1. Device.left = 0
          <5>1. Device.phase # "busy"
            BY <1>1, <1>3, StatusFacts DEF AtaInv, Device
          <5> QED
            BY <1>3, <2>2, <3>3, <5>1 DEF ReadingInv
        <4>2. Moved \in Nat /\ Moved <= ata.i
          BY <3>3 DEF InStep
        <4>3. InStep'
          <5>1. Moved <= ata'.i
            BY <1>2, <1>3, <4>2
          <5> QED
            BY <1>1, <1>2, <3>1, <3>3, <4>1, <5>1 DEF InStep
        <4>4. ReadingInv'
          <5>1. ASSUME NEW j \in 0..(Moved - 1), First + j \in DiskWords PROVE FromDisk(j)'
            <6>1. j \in 0..(ata.size - 1) /\ j # ata.i
              BY <1>2, <1>3, <4>2
            <6>2. FromDisk(j)
              BY <3>3, <5>1 DEF ReadingInv
            <6> QED
              BY <1>1, <1>2, <1>6, <6>1, <6>2 DEF FromDisk
          <5> QED
            BY <1>2, <3>1, <3>3, <5>1 DEF ReadingInv
        <4> QED
          BY <1>1, <1>2, <1>7, <4>3, <4>4 DEF WordsInv
      <3> QED
        BY <1>7, <3>2, <3>3
    <2> QED
      BY <2>1, <2>2
  <1>14. AtaInv'
    BY <1>2, <1>10, <1>11, <1>12, <1>13 DEF AtaInv, DoneInv
  <1> QED
    BY <1>1, <1>2, <1>14, MgrUntouched

LEMMA WriteWordKeeps ==
    ASSUME AtaInv, MgrInv, AtaWriteWord, UNCHANGED mgrVars
    PROVE  AtaInv' /\ MgrInv'
  <1> DEFINE x == buf[ata.i + 1]
             n == Len(Device.held)
  <1>1. /\ ata.pc = "words" /\ ata.op = "write" /\ ata.i < ata.size /\ WaitIo(ata.IO)
        /\ DataMoved(ata.IO, <<x>>)
        /\ ata' = [ata EXCEPT !.i = @ + 1] /\ UNCHANGED <<drives, store, unit, buf, failed>>
    BY DEF AtaWriteWord
  <1>2. /\ ata' \in Calls /\ ata'.i = ata.i + 1 /\ ata'.i <= ata.size /\ ata.i + 1 \in 1..ata.size
        /\ ata'.pc = "words" /\ ata'.op = "write" /\ ata'.IO = ata.IO /\ ata'.Master = ata.Master
        /\ ata'.lba = ata.lba /\ ata'.size = ata.size /\ First' = First /\ Given' = Given
        /\ Device' = dev'[ata.IO]
    BY <1>1, WordCounted
  <1>3. /\ Device \in Devs /\ Device.pos \in Nat /\ Device.left \in Nat /\ Device.held \in Seq(Words)
        /\ First \in Nat /\ ata.IO \in Buses /\ ata.size \in Nat /\ ata.i \in Nat
        /\ n \in Nat /\ n <= SectorWords
    BY DeviceTypes DEF AtaInv
  <1>4. buf \in Seq(Words) /\ Len(buf) = ata.size /\ x \in Words
    BY <1>1, <1>2 DEF AtaInv, AtaTypes
  <1> HIDE DEF x, n
  <1>5. /\ Device.held \o <<x>> \in Seq(Words) /\ Len(Device.held \o <<x>>) = n + 1
        /\ \A j \in 1..n : (Device.held \o <<x>>)[j] = Device.held[j]
        /\ (Device.held \o <<x>>)[n + 1] = x
    BY <1>3, <1>4, HeldGrows DEF n
  <1>6. /\ <<ata.IO, unit[ata.IO]>> \in drives
        /\ \/ Device = [IdleDev EXCEPT !.phase = "error"] /\ failed
           \/ InStep /\ WritingInv
    BY <1>1 DEF AtaInv, WordsInv
  <1>7. Device.phase = "data" => /\ InStep /\ WritingInv /\ Device.left > 0 /\ n < SectorWords
                                 /\ Moved = ata.i
    <2>1. Device.phase = "data" => InStep /\ WritingInv
      BY <1>6, IdleDevTyped
    <2>2. Device.phase = "data" /\ WritingInv => Device.left > 0 /\ n < SectorWords
      BY DEF WritingInv, n
    <2> QED
      BY <2>1, <2>2 DEF InStep
  <1>8. /\ dev' \in [Buses -> Devs] /\ \A b \in Buses : Len(dev'[b].held) <= SectorWords
        /\ \A b \in Buses : b # ata.IO => dev'[b] = dev[b]
        /\ Device.phase # "data" => dev' = dev
        /\ Device.phase = "data" =>
             /\ Device'.pos = Device.pos + 1 /\ Device'.left = Device.left - 1
             /\ Device'.held = Device.held \o <<x>> /\ Device'.cmd = Device.cmd
             /\ Device'.phase = IF (Device.left - 1) % SectorWords = 0
                                  THEN IF Device.cmd = "read" /\ Device.left = 1 THEN "ready" ELSE "busy"
                                  ELSE "data"
    <2>1. Device.phase = "data" => Device.left > 0 /\ Len(Device.held \o <<x>>) <= SectorWords
      BY <1>3, <1>5, <1>7, AtaConstants
    <2>2. <<x>> \in {<<>>} \cup {<<y>> : y \in Words}
      BY <1>4
    <2> QED
      BY <1>1, <1>2, <2>1, <2>2, WordMoved
  <1>9. AtaTypes'
    BY <1>1, <1>2, <1>4, <1>8 DEF AtaInv, AtaTypes
  <1>10. WritersKnown'
    BY <1>1, <1>2, <1>3, <1>8 DEF AtaInv, WritersKnown
  <1>11. WordsInv'
    <2>1. CASE Device.phase = "data"
      <3>1. InStep /\ WritingInv /\ Device.left > 0 /\ n < SectorWords /\ Moved = ata.i
        BY <1>7, <2>1
      <3>2. Device.cmd = "write" /\ ata.i + Device.left = Given
        BY <1>1, <3>1 DEF InStep
      <3>3. Moved' = ata.i + 1
        <4>1. Device.pos - First = ata.i /\ Device'.pos = Device.pos + 1
          BY <1>8, <2>1, <3>1 DEF Moved
        <4> QED
          BY <1>2, <1>3, <4>1 DEF Moved
      <3>4. /\ Device'.left = Device.left - 1 /\ Device'.held = Device.held \o <<x>>
            /\ Device'.cmd = "write" /\ Len(Device'.held) = n + 1
            /\ Device'.phase = IF (Device.left - 1) % SectorWords = 0 THEN "busy" ELSE "data"
        BY <1>5, <1>8, <2>1, <3>2
      <3>5. InStep'
        <4>1. Moved' \in Nat /\ Moved' <= ata'.i /\ Moved' + Device'.left = Given' /\ Moved' = ata'.i
          <5>1. (ata.i + 1) + (Device.left - 1) = ata.i + Device.left /\ ata.i + 1 \in Nat
                /\ ata.i + 1 <= ata.i + 1
            <6>1. ASSUME NEW a \in Nat, NEW b \in Nat
                  PROVE  (a + 1) + (b - 1) = a + b /\ a + 1 \in Nat /\ a + 1 <= a + 1
              OBVIOUS
            <6>2. ata.i \in Nat /\ Device.left \in Nat
              BY <1>3
            <6> QED
              BY <6>1, <6>2
          <5> QED
            BY <1>2, <3>2, <3>3, <3>4, <5>1
        <4> QED
          BY <1>2, <3>4, <4>1 DEF InStep
      <3>6. WritingInv'
        <4>1. n <= ata.i /\ (Device.left + n) % SectorWords = 0
          BY <3>1 DEF WritingInv, n
        <4>2. (Device.left - 1) % SectorWords = 0 <=> n + 1 = SectorWords
          <5>1. Device.left \in Nat \ {0} /\ n \in 0..(SectorWords - 1)
            BY <1>3, <3>1, AtaConstants
          <5> QED
            BY <4>1, <5>1, SectorFilled, AtaConstants
        <4>3. (Device'.left + (n + 1)) % SectorWords = 0
          <5>1. Device'.left + (n + 1) = Device.left + n
            BY <1>3, <3>4
          <5> QED
            BY <4>1, <5>1
        <4>4. /\ Device'.phase = "data" => Device'.left > 0 /\ n + 1 < SectorWords
              /\ Device'.phase = "busy" => n + 1 = SectorWords
              /\ Device'.phase # "ready"
          <5>1. Device'.phase = "data" => Device.left # 1
            <6>1. 0 % SectorWords = 0 /\ 1 - 1 = 0
              BY AtaConstants
            <6> QED
              BY <3>4, <6>1
          <5>2. Device'.phase = "data" => n + 1 # SectorWords
            BY <3>4, <4>2
          <5>3. Device'.phase = "data" => Device'.left > 0 /\ n + 1 < SectorWords
            BY <1>3, <3>1, <3>4, <5>1, <5>2, AtaConstants
          <5> QED
            BY <3>4, <4>2, <5>3
        <4>5. \A j \in 1..(n + 1) : Device'.held[j] = buf[(ata.i + 1) - (n + 1) + j]
          <5>1. TAKE j \in 1..(n + 1)
          <5>2. (ata.i + 1) - (n + 1) + j = ata.i - n + j
            <6>1. ASSUME NEW a \in Nat, NEW b \in Nat, NEW c \in Nat
                  PROVE  (a + 1) - (b + 1) + c = a - b + c
              OBVIOUS
            <6>2. j \in Nat
              BY <1>3, <5>1
            <6> QED
              BY <1>3, <6>1, <6>2
          <5>3. CASE j = n + 1
            <6>1. ata.i - n + j = ata.i + 1
              BY <1>3, <5>3
            <6> QED
              BY <1>5, <3>4, <5>2, <5>3, <6>1 DEF x
          <5>4. CASE j # n + 1
            <6>1. j \in 1..n
              BY <1>3, <5>4
            <6>2. Device.held[j] = buf[ata.i - n + j]
              BY <3>1, <6>1 DEF WritingInv, n
            <6> QED
              BY <1>5, <3>4, <5>2, <6>1, <6>2
          <5> QED
            BY <5>3, <5>4
        <4>6. \A j \in 0..((ata.i + 1) - (n + 1) - 1) :
                 First + j \in DiskWords => store[First + j] = buf[j + 1]
          <5>1. (ata.i + 1) - (n + 1) - 1 = ata.i - n - 1
            BY <1>3
          <5> QED
            BY <3>1, <5>1 DEF WritingInv, n
        <4>7. n + 1 <= ata.i + 1
          BY <1>3, <4>1
        <4> QED
          BY <1>1, <1>2, <3>3, <3>4, <4>3, <4>4, <4>5, <4>6, <4>7 DEF WritingInv
      <3> QED
        BY <1>1, <1>2, <1>6, <3>5, <3>6 DEF WordsInv
    <2>2. CASE Device.phase # "data"
      <3>1. Device' = Device /\ Moved' = Moved
        BY <1>2, <1>8, <2>2 DEF Device, Moved
      <3>2. CASE Device = [IdleDev EXCEPT !.phase = "error"] /\ failed
        BY <1>1, <1>2, <1>6, <3>1, <3>2 DEF WordsInv
      <3>3. CASE InStep /\ WritingInv
        <4>1. Device.left = 0
          <5>1. Device.phase # "busy"
            BY <1>1, <1>3, StatusFacts DEF AtaInv, Device
          <5> QED
            BY <1>3, <2>2, <3>3, <5>1 DEF WritingInv, InStep, Devs
        <4>2. Moved \in Nat /\ Moved <= ata.i
          BY <3>3 DEF InStep
        <4>3. InStep'
          <5>1. Moved <= ata'.i
            BY <1>2, <1>3, <4>2
          <5> QED
            BY <1>1, <1>2, <3>1, <3>3, <4>1, <5>1 DEF InStep
        <4>4. WritingInv'
          BY <1>1, <1>2, <3>1, <3>3 DEF WritingInv
        <4> QED
          BY <1>1, <1>2, <1>6, <4>3, <4>4 DEF WordsInv
      <3> QED
        BY <1>6, <3>2, <3>3
    <2> QED
      BY <2>1, <2>2
  <1>12. AtaInv'
    BY <1>2, <1>9, <1>10, <1>11 DEF AtaInv, DoneInv, BufferInv
  <1> QED
    BY <1>1, <1>2, <1>12, MgrUntouched

\* A request returns once the drive has stored, or handed over, its words.
LEMMA FinishKeeps ==
    ASSUME AtaInv, MgrInv, AtaFinish, UNCHANGED mgrVars
    PROVE  AtaInv' /\ MgrInv'
  <1>1. /\ ata.pc = "words" /\ ata.i = ata.size /\ WaitIo(ata.IO)
        /\ ata' = [ata EXCEPT !.pc = "idle", !.ret = TRUE]
        /\ UNCHANGED <<drives, store, dev, unit, buf, failed>>
    BY DEF AtaFinish, AtaReturn
  <1>2. ata \in Calls
    BY DEF AtaInv, AtaTypes
  <1>3. ata' \in Calls
    BY <1>1, <1>2 DEF Calls
  <1>4. /\ ata'.pc = "idle" /\ ata'.op = ata.op /\ ata'.IO = ata.IO /\ ata'.Master = ata.Master
        /\ ata'.lba = ata.lba /\ ata'.size = ata.size /\ ata'.i = ata.i
    BY <1>1, <1>2 DEF Calls
  <1>5. /\ Device \in Devs /\ Device.left \in Nat /\ First \in Nat /\ ata.IO \in Buses
        /\ ata.size \in Nat /\ Len(Device.held) \in Nat
    BY DeviceTypes DEF AtaInv
  <1>6. Device.phase # "busy"
    BY <1>1, <1>5, StatusFacts DEF AtaInv, Device
  <1>7. First' = First
    BY <1>4 DEF First
  <1>8. AtaTypes'
    BY <1>1, <1>3, <1>4 DEF AtaInv, AtaTypes
  <1>9. WritersKnown'
    BY <1>1, <1>6 DEF AtaInv, WritersKnown, Device
  <1>10. BufferInv'
    <2> SUFFICES ASSUME ata.op = "read", NEW j \in 0..(ata.size - 1)
                 PROVE  buf[j + 1] = Junk \/ FromDisk(j)'
      BY <1>1, <1>4 DEF BufferInv
    <2>1. ~(j >= ata.i)
      BY <1>1, <1>5
    <2>2. buf[j + 1] = Junk \/ FromDisk(j)
      BY <1>1, <2>1 DEF AtaInv, BufferInv
    <2> QED
      BY <1>1, <1>7, <2>2 DEF FromDisk
  <1>11. DoneInv'
    <2> SUFFICES ASSUME ~failed PROVE DoneInv'
      BY <1>1 DEF DoneInv
    <2>1. InStep /\ (ata.op = "read" => ReadingInv) /\ (ata.op = "write" => WritingInv)
      BY <1>1 DEF AtaInv, WordsInv
    <2>2. /\ Moved \in Nat /\ Moved <= ata.size /\ Moved + Device.left = Given
          /\ Device.left > 0 => Moved = ata.size
      BY <1>1, <2>1 DEF InStep
    <2>3. Given \in Nat /\ (ata.size <= SectorWords => Given = SectorWords)
          /\ (ata.size = SectorSz => Given = SectorSz)
      BY <1>5, CountFacts DEF Given
    <2>4. Covered \/ ata.size = SectorWords => Moved = ata.size
      <3>1. Covered \/ ata.size = SectorWords => ata.size <= Given
        BY <1>5, <2>3, AtaConstants DEF Covered
      <3>2. CASE Device.left > 0
        BY <2>2, <3>2
      <3>3. CASE ~(Device.left > 0)
        <4>1. Moved = Given
          BY <1>5, <2>2, <2>3, <3>3
        <4> QED
          BY <1>5, <2>2, <2>3, <3>1, <4>1
      <3> QED
        BY <3>2, <3>3
    <2>5. (Covered)' <=> Covered
      BY <1>4 DEF Covered
    <2>6. ASSUME ata.op = "read", Covered
          PROVE  \A j \in 0..(ata.size - 1) : First + j \in DiskWords => FromDisk(j)
      BY <2>1, <2>4, <2>6 DEF ReadingInv
    <2>7. ASSUME ata.op = "write", ata.size \in {SectorWords, SectorSz}
          PROVE  \A j \in 0..(ata.size - 1) : First + j \in DiskWords => store[First + j] = buf[j + 1]
      <3>1. Covered
        BY <1>5, <2>7, AtaConstants DEF Covered
      <3>2. ata.size = Given
        BY <1>5, <2>3, <2>7
      <3>3. Device.left = 0 /\ Moved = ata.size
        BY <1>5, <2>2, <2>3, <2>4, <3>1, <3>2
      <3>4. Device.phase = "ready"
        BY <1>5, <1>6, <2>1, <2>7, <3>3 DEF WritingInv, InStep, Devs
      <3>5. Len(Device.held) = 0
        BY <2>1, <2>7, <3>4 DEF WritingInv
      <3>6. Moved - Len(Device.held) - 1 = ata.size - 1
        BY <1>5, <3>3, <3>5
      <3> QED
        BY <2>1, <2>7, <3>6 DEF WritingInv
    <2> QED
      BY <1>1, <1>4, <1>7, <2>5, <2>6, <2>7 DEF DoneInv, FromDisk
  <1>12. AtaInv'
    BY <1>4, <1>8, <1>9, <1>10, <1>11 DEF AtaInv, WordsInv
  <1> QED
    BY <1>1, <1>4, <1>12, MgrUntouched

-----------------------------------------------------------------------------
(***************************************************************************)
(* The drive                                                               *)
(***************************************************************************)
LEMMA MgrSeesDrive ==
    ASSUME AtaInv, MgrInv, UNCHANGED mgrVars, UNCHANGED <<drives, unit, ata>>, NEW bus \in Buses,
           dev[bus].phase = "busy", \A b \in Buses : b # bus => dev'[b] = dev[b]
    PROVE  MgrInv'
  <1>1. UNCHANGED <<build, mount, task, kATA, good>>
    BY DEF mgrVars
  <1>2. dev[bus] # IdleDev
    BY IdleDevTyped
  <1>3. ~(task = "none" /\ mount["A"] = NoTrait)
    BY <1>2 DEF MgrInv, SearchInv
  <1>4. task = "primary" => dev'["ATA_SECONDARY_IO"] = IdleDev
    BY <1>2 DEF MgrInv, SearchInv, Buses
  <1>5. ata.pc = "init" => Device' = IdleDev
    <2>1. ata.IO \in Buses
      BY DeviceTypes DEF AtaInv
    <2> QED
      BY <1>2, <2>1 DEF MgrInv, SearchInv, Device
  <1>6. SearchInv'
    BY <1>1, <1>3, <1>4, <1>5 DEF MgrInv, SearchInv, Floating
  <1>7. DriveKnown'
    BY <1>1 DEF MgrInv, DriveKnown, Floating
  <1> QED
    BY <1>1, <1>6, <1>7 DEF MgrInv, MgrTypes

LEMMA FailsKeeps ==
    ASSUME AtaInv, MgrInv, NEW bus \in Buses, DriveFails(bus), UNCHANGED mgrVars
    PROVE  AtaInv' /\ MgrInv'
  <1> DEFINE d == [IdleDev EXCEPT !.phase = "error"]
  <1>1. /\ dev[bus].phase = "busy" /\ dev' = [dev EXCEPT ![bus] = d] /\ failed' = TRUE
        /\ UNCHANGED <<drives, store, unit, ata, buf>>
    BY DEF DriveFails
  <1>2. d \in Devs /\ Len(d.held) <= SectorWords /\ d.cmd = "none"
    BY IdleDevTyped, AtaConstants
  <1>3. /\ dev' \in [Buses -> Devs] /\ dev'[bus] = d
        /\ \A b \in Buses : b # bus => dev'[b] = dev[b]
        /\ \A b \in Buses : Len(dev'[b].held) <= SectorWords
    <2> HIDE DEF d
    <2> QED
      BY <1>1, <1>2, DevChanged DEF AtaInv
  <1>4. AtaTypes'
    BY <1>1, <1>3 DEF AtaInv, AtaTypes
  <1>5. WritersKnown'
    BY <1>1, <1>2, <1>3 DEF AtaInv, WritersKnown
  <1>6. First' = First /\ ata.IO \in Buses /\ Given' = Given
    BY <1>1, DeviceTypes DEF AtaInv, First, Given
  <1>7. WordsInv'
    <2>1. CASE bus = ata.IO
      BY <1>1, <1>3, <2>1 DEF AtaInv, WordsInv, Device
    <2>2. CASE bus # ata.IO
      <3>1. Device' = Device
        BY <1>1, <1>3, <1>6, <2>2 DEF Device
      <3>2. Moved' = Moved
        BY <1>6, <3>1 DEF Moved
      <3>3. InStep => InStep'
        BY <1>1, <1>6, <3>1, <3>2 DEF InStep
      <3>4. ReadingInv => ReadingInv'
        BY <1>1, <1>6, <3>1, <3>2 DEF ReadingInv, FromDisk
      <3>5. WritingInv => WritingInv'
        BY <1>1, <1>6, <3>1, <3>2 DEF WritingInv
      <3> QED
        BY <1>1, <3>1, <3>3, <3>4, <3>5 DEF AtaInv, WordsInv
    <2> QED
      BY <2>1, <2>2
  <1>8. BufferInv' /\ DoneInv'
    BY <1>1, <1>6 DEF AtaInv, BufferInv, DoneInv, FromDisk
  <1>9. MgrInv'
    BY <1>1, <1>3, MgrSeesDrive
  <1> QED
    BY <1>4, <1>5, <1>7, <1>8, <1>9 DEF AtaInv

LEMMA PlaceInHeld ==
    ASSUME NEW a \in Nat, NEW n \in Nat, NEW w \in (a - n)..(a - 1)
    PROVE  w - (a - n) + 1 \in 1..n
  <1>1. w \in Int /\ a - n <= w /\ w <= a - 1
    OBVIOUS
  <1>2. 1 <= w - (a - n) + 1 /\ w - (a - n) + 1 <= n
    BY <1>1
  <1> QED
    BY <1>1, <1>2

\* The drive has fetched a sector, or stored the one it holds.
LEMMA WorksKeeps ==
    ASSUME AtaInv, MgrInv, NEW bus \in Buses, DriveWorks(bus), UNCHANGED mgrVars
    PROVE  AtaInv' /\ MgrInv'
  <1> DEFINE d == dev[bus]
             n == Len(d.held)
             p == IF d.left > 0 THEN "data" ELSE "ready"
             e == [d EXCEPT !.held = <<>>, !.phase = p]
  <1>1. /\ d \in Devs /\ d.pos \in Nat /\ d.left \in Nat /\ d.held \in Seq(Words) /\ n \in Nat
        /\ n <= SectorWords
    <2>1. d \in Devs /\ n <= SectorWords
      BY DEF AtaInv, AtaTypes
    <2>2. d.pos \in Nat /\ d.left \in Nat /\ d.held \in Seq(Words)
      BY <2>1 DEF Devs
    <2> QED
      BY <2>1, <2>2
  <1>2. d.phase = "busy" /\ UNCHANGED <<drives, unit, ata, buf, failed>>
    BY DEF DriveWorks
  <1>3. dev' = [dev EXCEPT ![bus] = e]
    <2>1. dev' = [dev EXCEPT ![bus].held = <<>>, ![bus].phase = p]
      BY DEF DriveWorks
    <2>2. dev \in [Buses -> Devs]
      BY DEF AtaInv, AtaTypes
    <2> QED
      BY <2>1, <2>2 DEF Devs
  <1>4. e \in Devs /\ e.held = <<>> /\ e.phase = p /\ e.cmd = d.cmd /\ e.pos = d.pos /\ e.left = d.left
    <2>1. <<>> \in Seq(Words) /\ p \in {"data", "ready"}
      OBVIOUS
    <2> HIDE DEF p, d
    <2> QED
      BY <1>1, <2>1 DEF Devs
  <1>5. /\ dev' \in [Buses -> Devs] /\ dev'[bus] = e
        /\ \A b \in Buses : b # bus => dev'[b] = dev[b]
        /\ \A b \in Buses : Len(dev'[b].held) <= SectorWords
    <2>1. Len(e.held) <= SectorWords
      BY <1>4, AtaConstants
    <2> HIDE DEF e
    <2> QED
      BY <1>3, <1>4, <2>1, DevChanged DEF AtaInv
  <1>6. First' = First /\ Given' = Given /\ ata.IO \in Buses /\ First \in Nat
    BY <1>2, DeviceTypes DEF AtaInv, First, Given
  <1>7. MgrInv'
    BY <1>2, <1>5, MgrSeesDrive
  <1>8. WritersKnown'
    <2>1. dev'[bus].phase # "busy"
      BY <1>4, <1>5
    <2> QED
      BY <1>2, <1>5, <2>1 DEF AtaInv, WritersKnown
  <1>9. CASE d.cmd = "write"
    <2>1. ata.pc = "words" /\ ata.op = "write" /\ bus = ata.IO /\ Device = d
      BY <1>2, <1>9 DEF AtaInv, WritersKnown, Device
    <2>2. InStep /\ WritingInv
      BY <1>2, <2>1, IdleDevTyped DEF AtaInv, WordsInv
    <2>3. /\ n <= Moved /\ n = SectorWords /\ (d.left + n) % SectorWords = 0 /\ Moved \in Nat
          /\ \A j \in 1..n : d.held[j] = buf[Moved - n + j]
          /\ \A j \in 0..(Moved - n - 1) : First + j \in DiskWords => store[First + j] = buf[j + 1]
      BY <1>2, <2>1, <2>2 DEF InStep, WritingInv
    <2>4. d.pos = First + Moved
      BY <1>1, <1>6, <2>1 DEF Moved
    <2>5. store' = [w \in DiskWords |->
                      IF w \in (d.pos - n)..(d.pos - 1) THEN d.held[w - (d.pos - n) + 1] ELSE store[w]]
      BY <1>9 DEF DriveWorks
    <2>6. store' \in [DiskWords -> Words]
      <3>1. store \in [DiskWords -> Words]
        BY DEF AtaInv, AtaTypes
      <3>2. ASSUME NEW w \in DiskWords, w \in (d.pos - n)..(d.pos - 1)
            PROVE  d.held[w - (d.pos - n) + 1] \in Words
        <4>1. w - (d.pos - n) + 1 \in 1..n
          BY <1>1, <3>2, PlaceInHeld
        <4> QED
          BY <1>1, <4>1
      <3> HIDE DEF d, n
      <3> QED
        BY <2>5, <3>1, <3>2
    <2>7. /\ Device' = e /\ Moved' = Moved
      <3>1. Device' = e
        BY <1>2, <1>5, <2>1 DEF Device
      <3> QED
        BY <1>4, <1>6, <2>1, <3>1 DEF Moved
    <2>8. InStep'
      <3>1. Device'.cmd = Device.cmd /\ Device'.left = Device.left /\ Device'.phase # "error"
        BY <1>4, <2>1, <2>7
      <3> QED
        BY <1>2, <1>6, <2>2, <2>7, <3>1 DEF InStep
    <2>9. WritingInv'
      <3>1. Device'.held = <<>> /\ Len(Device'.held) = 0 /\ Device'.left = d.left /\ Device'.phase = p
        BY <1>4, <2>7
      <3>2. d.left % SectorWords = 0
        <4>1. (d.left + SectorWords) % SectorWords = 0
          BY <2>3
        <4> HIDE DEF d
        <4> QED
          BY <1>1, <4>1, WholeSectors, AtaConstants
      <3>3. \A j \in 0..(Moved - 1) : First + j \in DiskWords => store'[First + j] = buf[j + 1]
        <4>1. SUFFICES ASSUME NEW j \in 0..(Moved - 1), First + j \in DiskWords
                       PROVE  store'[First + j] = buf[j + 1]
          OBVIOUS
        <4>2. CASE j < Moved - n
          <5>1. First + j \notin (d.pos - n)..(d.pos - 1) /\ j \in 0..(Moved - n - 1)
            BY <1>1, <1>6, <2>3, <2>4, <4>2
          <5> QED
            BY <2>3, <2>5, <4>1, <5>1
        <4>3. CASE ~(j < Moved - n)
          <5>1. First + j \in (d.pos - n)..(d.pos - 1)
            BY <1>1, <1>6, <2>3, <2>4, <4>3
          <5>2. (First + j) - (d.pos - n) + 1 \in 1..n
            BY <1>1, <5>1, PlaceInHeld
          <5>3. Moved - n + ((First + j) - (d.pos - n) + 1) = j + 1
            BY <1>1, <1>6, <2>3, <2>4
          <5>4. store'[First + j] = d.held[(First + j) - (d.pos - n) + 1]
            BY <2>5, <4>1, <5>1
          <5> QED
            BY <2>3, <5>2, <5>3, <5>4
        <4> QED
          BY <4>2, <4>3
      <3>4. /\ 0 <= Moved /\ Moved - 0 - 1 = Moved - 1 /\ d.left + 0 = d.left /\ 0 < SectorWords
            /\ p = "data" => d.left > 0
            /\ p = "ready" => d.left = 0
            /\ p # "busy"
        BY <1>1, <2>3, AtaConstants
      <3> HIDE DEF p, d, n
      <3> QED
        BY <1>2, <1>6, <2>7, <3>1, <3>2, <3>3, <3>4 DEF WritingInv
    <2> HIDE DEF d, e
    <2>10. AtaTypes'
      BY <1>2, <1>5, <2>6 DEF AtaInv, AtaTypes
    <2>11. WordsInv' /\ BufferInv' /\ DoneInv'
      BY <1>2, <2>1, <2>8, <2>9 DEF AtaInv, WordsInv, BufferInv, DoneInv
    <2> QED
      BY <1>7, <1>8, <2>10, <2>11 DEF AtaInv
  <1>10. CASE d.cmd # "write"
    <2>1. store' = store
      BY <1>10 DEF DriveWorks
    <2>2. AtaTypes'
      BY <1>2, <1>5, <2>1 DEF AtaInv, AtaTypes
    <2>3. BufferInv' /\ DoneInv'
      BY <1>2, <1>6, <2>1 DEF AtaInv, BufferInv, DoneInv, FromDisk, Covered
    <2>4. WordsInv'
      <3>1. CASE bus = ata.IO
        <4> SUFFICES ASSUME ata.pc = "words" PROVE WordsInv'
          BY <1>2 DEF WordsInv
        <4>1. Device = d
          BY <3>1 DEF Device
        <4>2. InStep /\ (ata.op = "write" => WritingInv) /\ (ata.op = "read" => ReadingInv)
          BY <1>2, <4>1, IdleDevTyped DEF AtaInv, WordsInv
        <4>3. ata.op = "read" /\ ReadingInv
          BY <1>10, <4>1, <4>2 DEF InStep, AtaInv, AtaTypes
        <4>4. d.left > 0
          BY <1>2, <4>1, <4>3 DEF ReadingInv
        <4>5. Device' = e /\ e.phase = "data"
          BY <1>2, <1>4, <1>5, <3>1, <4>4 DEF Device
        <4>6. Moved' = Moved
          BY <1>4, <1>6, <4>1, <4>5 DEF Moved
        <4>7. InStep'
          <5>1. Device'.cmd = Device.cmd /\ Device'.left = Device.left /\ Device'.phase # "error"
            BY <1>4, <4>1, <4>5
          <5> QED
            BY <1>2, <1>6, <4>2, <4>6, <5>1 DEF InStep
        <4>8. ReadingInv'
          <5>1. Device'.held = <<>> /\ Device'.left = Device.left /\ Device'.phase = "data" /\ Device'.left > 0
            BY <1>4, <4>1, <4>4, <4>5
          <5> QED
            BY <1>2, <1>6, <2>1, <4>3, <4>6, <5>1 DEF ReadingInv, FromDisk
        <4> QED
          BY <1>2, <4>3, <4>7, <4>8 DEF AtaInv, WordsInv
      <3>2. CASE bus # ata.IO
        <4>1. Device' = Device
          BY <1>2, <1>5, <1>6, <3>2 DEF Device
        <4>2. Moved' = Moved
          BY <1>6, <4>1 DEF Moved
        <4>3. InStep => InStep'
          BY <1>2, <1>6, <4>1, <4>2 DEF InStep
        <4>4. ReadingInv => ReadingInv'
          BY <1>2, <1>6, <2>1, <4>1, <4>2 DEF ReadingInv, FromDisk
        <4>5. WritingInv => WritingInv'
          BY <1>2, <1>6, <2>1, <4>1, <4>2 DEF WritingInv
        <4> QED
          BY <1>2, <4>1, <4>3, <4>4, <4>5 DEF AtaInv, WordsInv
      <3> QED
        BY <3>1, <3>2
    <2> QED
      BY <1>7, <1>8, <2>2, <2>3, <2>4 DEF AtaInv
  <1> QED
    BY <1>9, <1>10

-----------------------------------------------------------------------------
(***************************************************************************)
(* The drive manager                                                       *)
(***************************************************************************)
Traits == [fKind : {"none", "kInvalidDisc", "kEPMDrive", "kUnformattedDrive"},
           fInput : {"none", "io_drv_input", "io_drv_unimplemented"}, fReadOnly : BOOLEAN]

LEMMA TraitsTyped ==
    ASSUME NEW isEpm \in BOOLEAN
    PROVE  /\ NoTrait \in Traits /\ BlankTrait \in Traits /\ Detected(isEpm) \in Traits
           /\ Detected(isEpm) # NoTrait
           /\ Detected(isEpm).fKind = "kEPMDrive" <=> isEpm
  <1>1. NoTrait \in Traits /\ BlankTrait \in Traits
    BY DEF NoTrait, BlankTrait, Traits
  <1>2. NoTrait.fKind = "none"
    BY DEF NoTrait
  <1>3. CASE isEpm
    <2>1. Detected(isEpm) = [fKind |-> "kEPMDrive", fInput |-> "io_drv_input", fReadOnly |-> FALSE]
      BY <1>3 DEF Detected, MainTrait
    <2>2. Detected(isEpm) \in Traits /\ Detected(isEpm).fKind = "kEPMDrive"
      BY <2>1 DEF Traits
    <2> QED
      BY <1>1, <1>2, <1>3, <2>2
  <1>4. CASE ~isEpm
    <2>1. Detected(isEpm) = [fKind |-> "kUnformattedDrive", fInput |-> "io_drv_input", fReadOnly |-> TRUE]
      BY <1>4 DEF Detected, MainTrait
    <2>2. Detected(isEpm) \in Traits /\ Detected(isEpm).fKind = "kUnformattedDrive"
      BY <2>1 DEF Traits
    <2> QED
      BY <1>1, <1>2, <1>4, <2>2
  <1> QED
    BY <1>3, <1>4

LEMMA BufferTyped ==
    ASSUME NEW size \in Nat, NEW fill \in Fills \cup {"new"}
    PROVE  /\ Buffer(fill, size) \in Seq(Words) /\ Len(Buffer(fill, size)) = size
           /\ \A j \in 0..(size - 1) : Buffer(fill, size)[j + 1] = <<fill, j + 1>>
  <1>1. \A i \in 1..size : <<fill, i>> \in Words
    BY DEF Words
  <1>2. Buffer(fill, size) \in [1..size -> Words]
    BY <1>1 DEF Buffer
  <1>3. Buffer(fill, size) \in Seq(Words) /\ Len(Buffer(fill, size)) = size
    BY <1>2
  <1>4. \A j \in 0..(size - 1) : j + 1 \in 1..size
    OBVIOUS
  <1> QED
    BY <1>3, <1>4 DEF Buffer

LEMMA StorageInitHolds ==
    ASSUME Init
    PROVE  StorageInv
  <1>1. AtaInv /\ ata = IdleCall /\ dev = [b \in Buses |-> IdleDev]
    BY AtaInitHolds DEF Init
  <1>2. AhciInv
    BY AhciInitHolds DEF Init
  <1>3. /\ build \in {"ATA", "AHCI"} /\ task = "none" /\ mount = [d \in DriveIndex |-> NoTrait]
        /\ kATA = [IO |-> "ATA_PRIMARY_IO", Master |-> FALSE] /\ good = TRUE
        /\ hba.pc = "idle" /\ port.Ci = {}
    BY DEF Init, AhciInit, FirmwarePort
  <1>4. mount["A"] = NoTrait
    BY <1>3 DEF DriveIndex
  <1>5. MgrTypes
    BY <1>3, TraitsTyped DEF MgrTypes, Traits, Buses, Mounting
  <1>6. ata.pc = "idle"
    BY <1>1 DEF IdleCall
  <1>7. SearchInv
    BY <1>1, <1>3, <1>6 DEF SearchInv, Buses
  <1>8. DriveKnown
    BY <1>3, <1>4, <1>6 DEF DriveKnown, Mounting
  <1> QED
    BY <1>1, <1>2, <1>3, <1>5, <1>7, <1>8 DEF StorageInv, MgrInv, HostInv

LEMMA AtaUnchanged ==
    ASSUME AtaInv, UNCHANGED ataVars
    PROVE  AtaInv' /\ UNCHANGED <<drives, store, dev, unit, ata, buf, failed>>
  <1>1. UNCHANGED <<drives, store, dev, unit, ata, buf, failed>>
    BY DEF ataVars
  <1> QED
    BY <1>1 DEF AtaInv, AtaTypes, WritersKnown, WordsInv, BufferInv, DoneInv, InStep, ReadingInv,
                WritingInv, FromDisk, Device, Moved, Given, First, Covered

LEMMA AhciUnchanged ==
    ASSUME AhciInv, UNCHANGED ahciVars
    PROVE  AhciInv' /\ UNCHANGED <<host, port, tables, hba, errno, lost>>
  BY DEF ahciVars, AhciInv, AhciTypes, SlotsInv, LostInv

LEMMA MgrUnchanged ==
    ASSUME MgrInv, UNCHANGED <<drives, dev, unit, ata>>, UNCHANGED mgrVars
    PROVE  MgrInv' /\ UNCHANGED <<build, mount, task, kATA, good>>
  BY DEF mgrVars, MgrInv, MgrTypes, SearchInv, DriveKnown, Floating, Device

LEMMA ConstructKeeps ==
    ASSUME StorageInv, io_construct_main_drive
    PROVE  StorageInv'
  <1>1. task = "none" /\ mount["A"] = NoTrait /\ task' = "primary" /\ UNCHANGED <<build, mount, good>>
    BY DEF io_construct_main_drive
  <1>2. ata = IdleCall /\ dev = [b \in Buses |-> IdleDev] /\ hba.pc = "idle" /\ port.Ci = {}
    BY <1>1 DEF StorageInv, MgrInv, SearchInv, HostInv
  <1>3. ata.pc = "idle" /\ dev["ATA_SECONDARY_IO"] = IdleDev /\ dev["ATA_PRIMARY_IO"] = IdleDev
    BY <1>2 DEF IdleCall, Buses
  <1>4. CASE build = "ATA"
    <2>1. /\ AtaInitCall("ATA_PRIMARY_IO") /\ kATA' = [IO |-> "ATA_PRIMARY_IO", Master |-> TRUE]
          /\ UNCHANGED ahciVars
      BY <1>4 DEF io_construct_main_drive
    <2>2. /\ AtaInv' /\ UNCHANGED <<drives, dev>>
          /\ ata'.pc = "init" /\ ata'.op = "init" /\ ata'.IO = "ATA_PRIMARY_IO"
          /\ unit'["ATA_PRIMARY_IO"] = UnitSelected("ATA_PRIMARY_IO")
      BY <2>1, InitCallKeeps DEF StorageInv, Buses
    <2>3. AhciInv' /\ hba' = hba
      BY <2>1, AhciUnchanged DEF StorageInv
    <2>4. MgrTypes'
      BY <1>1, <2>1 DEF StorageInv, MgrInv, MgrTypes, Buses
    <2>5. SearchInv'
      BY <1>1, <1>3, <1>4, <2>1, <2>2 DEF SearchInv, Device
    <2>6. DriveKnown'
      BY <1>1, <2>2 DEF DriveKnown, Mounting
    <2> QED
      BY <1>1, <1>2, <2>2, <2>3, <2>4, <2>5, <2>6 DEF StorageInv, MgrInv, HostInv
  <1>5. CASE build # "ATA"
    <2>1. AhciProbe /\ UNCHANGED <<ataVars, kATA>> /\ build = "AHCI"
      BY <1>5 DEF io_construct_main_drive, StorageInv, MgrInv, MgrTypes
    <2>2. AhciInv'
      BY <1>2, <2>1, ProbeKeeps DEF StorageInv
    <2>3. UNCHANGED ataVars
      BY <2>1
    <2>4. AtaInv' /\ UNCHANGED <<drives, store, dev, unit, ata, buf, failed>>
      BY <2>3, AtaUnchanged DEF StorageInv
    <2>5. MgrInv'
      BY <1>1, <1>3, <2>1, <2>4 DEF StorageInv, MgrInv, MgrTypes, SearchInv, DriveKnown, Mounting
    <2> QED
      BY <1>1, <2>1, <2>2, <2>4, <2>5 DEF StorageInv, HostInv
  <1> QED
    BY <1>4, <1>5


LEMMA SecondaryKeeps ==
    ASSUME StorageInv, InitSecondary
    PROVE  StorageInv'
  <1>1. /\ task = "primary" /\ build = "ATA" /\ ata.pc = "idle" /\ hba.pc = "idle" /\ task' = "secondary"
        /\ AtaInitCall("ATA_SECONDARY_IO") /\ kATA' = [IO |-> "ATA_SECONDARY_IO", Master |-> FALSE]
        /\ UNCHANGED <<build, mount, good, ahciVars>>
    BY DEF InitSecondary, DriverIdle
  <1>2. /\ AtaInv' /\ UNCHANGED <<drives, dev>>
        /\ ata'.pc = "init" /\ ata'.op = "init" /\ ata'.IO = "ATA_SECONDARY_IO"
        /\ unit'["ATA_SECONDARY_IO"] = UnitSelected("ATA_SECONDARY_IO")
    BY <1>1, InitCallKeeps DEF StorageInv, Buses
  <1>3. AhciInv' /\ hba' = hba
    BY <1>1, AhciUnchanged DEF StorageInv
  <1>4. dev["ATA_SECONDARY_IO"] = IdleDev
    BY <1>1 DEF StorageInv, MgrInv, SearchInv
  <1>5. MgrTypes'
    BY <1>1 DEF StorageInv, MgrInv, MgrTypes, Buses
  <1>6. SearchInv'
    BY <1>1, <1>2, <1>4 DEF SearchInv, Device
  <1>7. DriveKnown'
    BY <1>1, <1>2 DEF DriveKnown, Mounting
  <1> QED
    BY <1>1, <1>2, <1>3, <1>5, <1>6, <1>7 DEF StorageInv, MgrInv, HostInv

LEMMA OverKeeps ==
    ASSUME StorageInv, InitOver
    PROVE  StorageInv'
  <1>1. /\ ata.pc = "idle" /\ hba.pc = "idle" /\ task \in {"primary", "secondary"} /\ task' = "detect"
        /\ UNCHANGED <<build, mount, ataVars, ahciVars>>
    BY DEF InitOver, DriverIdle
  <1>2. AtaInv' /\ UNCHANGED <<drives, store, dev, unit, ata, buf, failed>>
    BY <1>1, AtaUnchanged DEF StorageInv
  <1>3. AhciInv' /\ hba' = hba
    BY <1>1, AhciUnchanged DEF StorageInv
  <1>4. ata \in Calls /\ ata.IO \in Buses /\ ata.Master \in BOOLEAN
    BY DEF StorageInv, AtaInv, AtaTypes, Calls
  <1>5. kATA' \in [IO : Buses, Master : BOOLEAN] /\ good' \in BOOLEAN
    <2>1. CASE build = "ATA" /\ ata.ret
      <3>1. kATA' = [IO |-> ata.IO, Master |-> ata.Master] /\ good' = TRUE
        BY <2>1 DEF InitOver
      <3>2. ASSUME NEW b \in Buses, NEW m \in BOOLEAN
            PROVE  [IO |-> b, Master |-> m] \in [IO : Buses, Master : BOOLEAN]
        OBVIOUS
      <3> QED
        BY <1>4, <3>1, <3>2
    <2>2. CASE ~(build = "ATA" /\ ata.ret)
      <3>1. kATA' = kATA /\ good' = good
        BY <2>2 DEF InitOver
      <3> QED
        BY <3>1 DEF StorageInv, MgrInv, MgrTypes
    <2> QED
      BY <2>1, <2>2
  <1>6. MgrTypes'
    BY <1>1, <1>5 DEF StorageInv, MgrInv, MgrTypes, Mounting
  <1>7. SearchInv'
    BY <1>1, <1>2 DEF SearchInv
  <1>8. ASSUME build = "ATA"
        PROVE  Floating(kATA'.IO) \/ <<kATA'.IO, CommandUnit(kATA'.Master)>> \in drives
    <2>1. CASE ata.ret
      <3>1. kATA' = [IO |-> ata.IO, Master |-> ata.Master]
        BY <1>8, <2>1 DEF InitOver
      <3>2. <<ata.IO, CommandUnit(ata.Master)>> \in drives
        BY <1>1, <1>8, <2>1 DEF StorageInv, MgrInv, SearchInv
      <3> QED
        BY <3>1, <3>2
    <2>2. CASE ~ata.ret
      <3>1. task = "secondary" /\ kATA' = kATA
        BY <1>8, <2>2 DEF InitOver
      <3>2. Floating("ATA_SECONDARY_IO") /\ kATA = [IO |-> "ATA_SECONDARY_IO", Master |-> FALSE]
        BY <1>1, <1>8, <2>2, <3>1 DEF StorageInv, MgrInv, SearchInv
      <3> QED
        BY <3>1, <3>2
    <2> QED
      BY <2>1, <2>2
  <1>9. DriveKnown'
    <2>1. build' = build /\ ata'.pc = "idle" /\ drives' = drives /\ task' = "detect"
      BY <1>1, <1>2
    <2> QED
      BY <1>8, <2>1 DEF DriveKnown, Floating
  <1> QED
    BY <1>1, <1>2, <1>3, <1>6, <1>7, <1>9 DEF StorageInv, MgrInv, HostInv

\* A request to the drive that was found, of the search itself or of NeFS.
LEMMA RequestKeeps ==
    ASSUME StorageInv, build = "ATA", NEW op \in {"read", "write"}, NEW lba \in Nat, NEW size \in Nat,
           NEW fill \in Fills \cup {"new"}, op = "read" => fill = "new",
           AtaCall(op, kATA.IO, kATA.Master, lba, Buffer(fill, size)), UNCHANGED ahciVars,
           UNCHANGED <<build, mount, kATA>>, good' \in BOOLEAN,
           \/ task = "detect" /\ task' = "detecting" /\ op = "read" /\ lba = 0 /\ size = SectorSz
           \/ task = "none" /\ task' = "none" /\ mount["A"] # NoTrait
    PROVE  StorageInv'
  <1>1. kATA.IO \in Buses /\ kATA.Master \in BOOLEAN
    BY DEF StorageInv, MgrInv, MgrTypes
  <1>2. /\ Buffer(fill, size) \in Seq(Words) /\ Len(Buffer(fill, size)) = size
        /\ \A j \in 0..(size - 1) : Buffer(fill, size)[j + 1] = <<fill, j + 1>>
    BY BufferTyped
  <1>3. /\ AtaInv' /\ UNCHANGED <<drives, dev, unit>>
        /\ ata'.pc = "command" /\ ata'.op = op /\ ata'.IO = kATA.IO /\ ata'.Master = kATA.Master
        /\ ata'.lba = lba \div SectorSz /\ ata'.size = size
    <2> DEFINE c == Buffer(fill, size)
    <2>1. op = "read" => \A j \in 0..(Len(c) - 1) : c[j + 1] = <<"new", j + 1>>
      BY <1>2
    <2>2. c \in Seq(Words) /\ Len(c) = size /\ AtaCall(op, kATA.IO, kATA.Master, lba, c)
      BY <1>2
    <2> HIDE DEF c
    <2> QED
      BY <1>1, <2>1, <2>2, CallKeeps DEF StorageInv
  <1>4. AhciInv' /\ hba' = hba /\ port' = port
    BY AhciUnchanged DEF StorageInv
  <1>5. MgrTypes'
    BY DEF StorageInv, MgrInv, MgrTypes, Mounting
  <1>6. SearchInv'
    BY <1>3 DEF SearchInv
  <1>7. 0 \div SectorSz = 0
    BY AtaConstants
  <1>8. DriveKnown'
    <2>1. Floating(kATA.IO) \/ <<kATA.IO, CommandUnit(kATA.Master)>> \in drives
      BY DEF StorageInv, MgrInv, DriveKnown, Mounting
    <2>2. /\ build' = build /\ kATA' = kATA /\ mount' = mount /\ drives' = drives
          /\ task' = "detecting" => op = "read" /\ lba = 0 /\ size = SectorSz
          /\ task' = "detecting" \/ (task' = "none" /\ mount["A"] # NoTrait)
      BY <1>3
    <2> QED
      BY <1>3, <1>7, <2>1, <2>2 DEF DriveKnown, Floating
  <1> QED
    BY <1>3, <1>4, <1>5, <1>6, <1>8 DEF StorageInv, MgrInv, HostInv

LEMMA AhciRequestKeeps ==
    ASSUME StorageInv, build = "AHCI", AhciRead(hba.read + 1) \/ UNCHANGED ahciVars, UNCHANGED ataVars,
           UNCHANGED <<build, mount, kATA>>, good' \in BOOLEAN, ata.pc = "idle",
           \/ task = "detect" /\ task' = "detecting"
           \/ task = "none" /\ task' = "none" /\ mount["A"] # NoTrait
    PROVE  StorageInv'
  <1>1. AtaInv' /\ UNCHANGED <<drives, store, dev, unit, ata, buf, failed>>
    BY AtaUnchanged DEF StorageInv
  <1>2. AhciInv'
    <2>1. hba \in HbaTypes
      BY AhciParts DEF StorageInv
    <2>2. hba.read + 1 \in Nat
      BY <2>1 DEF HbaTypes
    <2> QED
      BY <2>2, ReadKeeps, AhciUnchanged DEF StorageInv
  <1>3. MgrTypes'
    BY DEF StorageInv, MgrInv, MgrTypes, Mounting
  <1>4. SearchInv' /\ DriveKnown'
    BY <1>1 DEF SearchInv, DriveKnown
  <1> QED
    BY <1>1, <1>2, <1>3, <1>4 DEF StorageInv, MgrInv, HostInv

LEMMA DetectInputKeeps ==
    ASSUME StorageInv, DetectInput
    PROVE  StorageInv'
  <1>1. /\ task = "detect" /\ task' = "detecting" /\ io_drv_input(0, SectorSz) /\ ata.pc = "idle"
        /\ UNCHANGED <<build, mount, kATA, good>>
    BY DEF DetectInput, DriverIdle
  <1>2. build \in {"ATA", "AHCI"} /\ good' \in BOOLEAN
    BY <1>1 DEF StorageInv, MgrInv, MgrTypes
  <1>3. CASE build = "ATA"
    <2>1. AtaCall("read", kATA.IO, kATA.Master, 0, Buffer("new", SectorSz)) /\ UNCHANGED ahciVars
      BY <1>1, <1>3 DEF io_drv_input
    <2> QED
      BY <1>1, <1>2, <1>3, <2>1, RequestKeeps, AtaConstants
  <1>4. CASE build = "AHCI"
    <2>1. AhciRead(hba.read + 1) /\ UNCHANGED ataVars
      BY <1>1, <1>4 DEF io_drv_input
    <2> QED
      BY <1>1, <1>2, <1>4, <2>1, AhciRequestKeeps
  <1> QED
    BY <1>2, <1>3, <1>4

\* The first block has been read: the drives of the mountpoint are made.
LEMMA DetectKeeps ==
    ASSUME StorageInv, ioi_detect_drive
    PROVE  StorageInv'
  <1>1. /\ task = "detecting" /\ task' = "none" /\ ata.pc = "idle" /\ hba.pc = "idle"
        /\ UNCHANGED <<build, kATA, good, ataVars, ahciVars>>
    BY DEF ioi_detect_drive, DriverIdle
  <1>2. PICK isEpm \in BOOLEAN :
          mount' = [d \in DriveIndex |-> IF d = "A" THEN Detected(isEpm) ELSE BlankTrait]
    BY DEF ioi_detect_drive
  <1>3. /\ BlankTrait \in Traits /\ Detected(isEpm) \in Traits /\ Detected(isEpm) # NoTrait
    BY TraitsTyped
  <1>4. mount' \in [DriveIndex -> Traits] /\ mount'["A"] # NoTrait
    BY <1>2, <1>3 DEF DriveIndex
  <1>5. AtaInv' /\ UNCHANGED <<drives, store, dev, unit, ata, buf, failed>>
    BY <1>1, AtaUnchanged DEF StorageInv
  <1>6. AhciInv' /\ hba' = hba
    BY <1>1, AhciUnchanged DEF StorageInv
  <1>7. MgrTypes'
    BY <1>1, <1>4 DEF StorageInv, MgrInv, MgrTypes, Traits
  <1>8. SearchInv'
    BY <1>1, <1>4, <1>5 DEF SearchInv
  <1>9. DriveKnown'
    <2>1. build = "ATA" => Floating(kATA.IO) \/ <<kATA.IO, CommandUnit(kATA.Master)>> \in drives
      BY <1>1 DEF StorageInv, MgrInv, DriveKnown, Mounting
    <2> QED
      BY <1>1, <1>5, <2>1 DEF DriveKnown, Floating
  <1> QED
    BY <1>1, <1>4, <1>5, <1>6, <1>7, <1>8, <1>9 DEF StorageInv, MgrInv, HostInv

LEMMA StutterKeeps ==
    ASSUME StorageInv, UNCHANGED ataVars, UNCHANGED ahciVars, UNCHANGED <<build, mount, task, kATA>>,
           good' \in BOOLEAN
    PROVE  StorageInv'
  <1>1. AtaInv' /\ UNCHANGED <<drives, store, dev, unit, ata, buf, failed>>
    BY AtaUnchanged DEF StorageInv
  <1>2. AhciInv' /\ UNCHANGED <<host, port, tables, hba, errno, lost>>
    BY AhciUnchanged DEF StorageInv
  <1>3. MgrTypes'
    BY DEF StorageInv, MgrInv, MgrTypes
  <1>4. SearchInv' /\ DriveKnown'
    BY <1>1 DEF StorageInv, MgrInv, SearchInv, DriveKnown, Floating, Device
  <1> QED
    BY <1>1, <1>2, <1>3, <1>4 DEF StorageInv, MgrInv, HostInv

LEMMA PacketsKeep ==
    ASSUME StorageInv, Packets
    PROVE  StorageInv'
  <1>1. PICK d \in DriveIndex, sector \in 0..(DiskSectors - 1), size \in Sizes :
          \/ fs_newfs_read(d, sector * SectorSz, size)
          \/ \E fill \in Fills : fs_newfs_write(d, sector * SectorSz, fill, size)
    BY DEF Packets
  <1> DEFINE lba == sector * SectorSz
  <1>2. lba \in Nat /\ size \in Nat
    BY AtaAssumption, AtaConstants
  <1> HIDE DEF lba
  <1>3. /\ task = "none" /\ mount["A"] # NoTrait /\ ata.pc = "idle" /\ good' = FALSE
        /\ UNCHANGED <<build, mount, task, kATA>>
    BY <1>1 DEF fs_newfs_read, fs_newfs_write, Idle, DriverIdle
  <1>4. build \in {"ATA", "AHCI"} /\ task' = "none" /\ good' \in BOOLEAN
    BY <1>3 DEF StorageInv, MgrInv, MgrTypes
  <1>5. CASE UNCHANGED <<ataVars, ahciVars>>
    BY <1>3, <1>4, <1>5, StutterKeeps
  <1>6. CASE io_drv_input(lba, size)
    <2>1. CASE build = "ATA"
      <3>1. AtaCall("read", kATA.IO, kATA.Master, lba, Buffer("new", size)) /\ UNCHANGED ahciVars
        BY <1>6, <2>1 DEF io_drv_input
      <3> QED
        BY <1>2, <1>3, <1>4, <2>1, <3>1, RequestKeeps
    <2>2. CASE build = "AHCI"
      <3>1. AhciRead(hba.read + 1) /\ UNCHANGED ataVars
        BY <1>6, <2>2 DEF io_drv_input
      <3> QED
        BY <1>3, <1>4, <2>2, <3>1, AhciRequestKeeps
    <2> QED
      BY <1>4, <2>1, <2>2
  <1>7. ASSUME NEW fill \in Fills, io_drv_output(lba, fill, size)
        PROVE  StorageInv'
    <2>1. CASE build = "ATA"
      <3>1. AtaCall("write", kATA.IO, kATA.Master, lba, Buffer(fill, size)) /\ UNCHANGED ahciVars
        BY <1>7, <2>1 DEF io_drv_output
      <3> QED
        BY <1>2, <1>3, <1>4, <2>1, <3>1, RequestKeeps
    <2>2. CASE build = "AHCI"
      <3>1. UNCHANGED <<ataVars, ahciVars>>
        BY <1>7, <2>2 DEF io_drv_output
      <3> QED
        BY <1>3, <1>4, <3>1, StutterKeeps
    <2> QED
      BY <1>4, <2>1, <2>2
  <1> QED
    BY <1>1, <1>5, <1>6, <1>7 DEF fs_newfs_read, fs_newfs_write, lba

-----------------------------------------------------------------------------
(***************************************************************************)
(* The theorems                                                            *)
(***************************************************************************)
LEMMA DriversKeep ==
    ASSUME StorageInv, AtaDriver \/ (\E bus \in Buses : AtaDrive(bus)) \/ AhciDriver \/ AhciDrive
    PROVE  StorageInv'
  <1>1. CASE AtaDriver \/ \E bus \in Buses : AtaDrive(bus)
    <2>1. UNCHANGED ahciVars /\ UNCHANGED mgrVars
      BY <1>1 DEF AtaDriver, AtaDrive
    <2>2. AtaInv' /\ MgrInv'
      <3>1. AtaInv /\ MgrInv
        BY DEF StorageInv
      <3>2. CASE AtaDriver
        BY <2>1, <3>1, <3>2, InitPollKeeps, IdentifyKeeps, CommandKeeps, ReadWordKeeps, WriteWordKeeps,
           FinishKeeps DEF AtaDriver, AtaStep
      <3>3. CASE \E bus \in Buses : AtaDrive(bus)
        BY <2>1, <3>1, <3>3, WorksKeeps, FailsKeeps DEF AtaDrive, DriveStep
      <3> QED
        BY <1>1, <3>2, <3>3
    <2>3. AhciInv' /\ UNCHANGED <<host, port, tables, hba, errno, lost>>
      BY <2>1, AhciUnchanged DEF StorageInv
    <2>4. HostInv'
      BY <2>1, <2>3 DEF StorageInv, HostInv, mgrVars
    <2> QED
      BY <2>2, <2>3, <2>4 DEF StorageInv
  <1>2. CASE AhciDriver \/ AhciDrive
    <2>1. UNCHANGED ataVars /\ UNCHANGED mgrVars /\ (AhciStep \/ (build = "AHCI" /\ PortStep))
      BY <1>2 DEF AhciDriver, AhciDrive
    <2>2. AtaInv' /\ UNCHANGED <<drives, store, dev, unit, ata, buf, failed>>
      BY <2>1, AtaUnchanged DEF StorageInv
    <2>3. MgrInv' /\ UNCHANGED <<build, mount, task, kATA, good>>
      BY <2>1, <2>2, MgrUnchanged DEF StorageInv
    <2>4. AhciInv'
      BY <2>1, AhciStepKeeps, PortKeeps DEF StorageInv
    <2>5. HostInv'
      <3>1. AhciStep => hba.pc # "idle"
        BY DEF AhciStep, AhciSetup, AhciPoll, AhciIssue, AhciWaitCi, AhciWaitIs, AhciCheck
      <3>2. CASE AhciStep
        BY <2>3, <3>1, <3>2 DEF StorageInv, HostInv
      <3>3. CASE PortStep
        <4>1. hba' = hba
          BY <3>3 DEF PortStep, EngineFollows, DriveBusy, DriveReady, DriveCompletes, DriveFaults
        <4>2. port \in PortTypes
          BY AhciParts DEF StorageInv
        <4>3. port.Ci = {} => port'.Ci = {}
          BY <3>3, <4>2 DEF PortStep, EngineFollows, DriveBusy, DriveReady, DriveCompletes, DriveFaults,
                            Serving, PortTypes
        <4> QED
          BY <2>3, <4>1, <4>3 DEF StorageInv, HostInv
      <3> QED
        BY <2>1, <3>2, <3>3
    <2> QED
      BY <2>2, <2>3, <2>4, <2>5 DEF StorageInv
  <1> QED
    BY <1>1, <1>2

\* The inductive invariant of the drive manager and its drivers.
THEOREM StorageInvariant == Spec => []StorageInv
  <1>1. Init => StorageInv
    BY StorageInitHolds
  <1>2. StorageInv /\ [Next]_vars => StorageInv'
    <2> SUFFICES ASSUME StorageInv, [Next]_vars PROVE StorageInv'
      OBVIOUS
    <2>1. CASE UNCHANGED vars
      <3>1. /\ UNCHANGED ataVars /\ UNCHANGED ahciVars /\ UNCHANGED <<build, mount, task, kATA>>
            /\ good' = good
        BY <2>1 DEF vars, mgrVars
      <3>2. good' \in BOOLEAN
        BY <3>1 DEF StorageInv, MgrInv, MgrTypes
      <3> QED
        BY <3>1, <3>2, StutterKeeps
    <2>2. CASE io_construct_main_drive \/ MgrStep
      BY <2>2, ConstructKeeps, SecondaryKeeps, OverKeeps, DetectInputKeeps, DetectKeeps DEF MgrStep
    <2>3. CASE Packets
      BY <2>3, PacketsKeep
    <2> QED
      BY <2>1, <2>2, <2>3, DriversKeep DEF Next
  <1> QED
    BY <1>1, <1>2, PTL DEF Spec

\* Every variable has its type (DriveMgr, ATA-PIO.cc, AHCI-DMA.cc): no state
\* holds a slot, a port, a unit or a place in the buffer outside its range.
THEOREM StorageTyped == Spec => []TypeOK
  <1>1. StorageInv => TypeOK
    <2> SUFFICES ASSUME StorageInv PROVE TypeOK
      OBVIOUS
    <2>1. AtaTypeOK
      <3>1. AtaTypes
        BY DEF StorageInv, AtaInv
      <3>2. ata.pc \in {"idle", "init", "identify", "command", "words"} /\ ata.i \in 0..ata.size
        <4>1. ata.pc \in {"idle", "init", "identify", "command", "words"}
          BY <3>1 DEF AtaTypes, Calls
        <4>2. ata.i \in Nat /\ ata.size \in Nat /\ ata.i <= ata.size
          BY <3>1, DeviceTypes
        <4> QED
          BY <4>1, <4>2
      <3>3. ASSUME NEW b \in Buses
            PROVE  /\ dev[b].phase \in {"ready", "busy", "data", "error"}
                   /\ dev[b].left \in Nat /\ dev[b].pos \in Nat /\ Len(dev[b].held) <= SectorWords
        <4>1. dev[b] \in Devs /\ Len(dev[b].held) <= SectorWords
          BY <3>1 DEF AtaTypes
        <4> QED
          BY <4>1 DEF Devs
      <3> QED
        BY <3>1, <3>2, <3>3 DEF AtaTypeOK, AtaTypes
    <2>2. AhciTypeOK
      <3>1. AhciTypes /\ port \in PortTypes /\ hba \in HbaTypes
        BY AhciParts DEF StorageInv, AhciInv
      <3>2. port.Ci \subseteq Slots
        BY <3>1 DEF PortTypes
      <3>3. /\ hba.pc \in {"idle", "stopping", "poll", "waitCi", "waitIs", "check", "fault"}
            /\ hba.kAhciPort \in Ports \cup {NoPort} /\ hba.slot \in Slots /\ hba.spin \in 0..kAhciMaxPoll
        BY <3>1 DEF HbaTypes
      <3>4. host.sata \subseteq host.Pi /\ host.Pi \subseteq Ports
        BY <3>1 DEF AhciTypes
      <3> QED
        BY <3>1, <3>2, <3>3, <3>4 DEF AhciTypeOK, AhciTypes
    <2> QED
      BY <2>1, <2>2 DEF TypeOK, StorageInv, MgrInv, MgrTypes, Mounting
  <1> QED
    BY <1>1, StorageInvariant, PTL

\* A request that has returned has kept its promise, for sectors, disks and
\* sizes of any length (drv_std_read, drv_std_write of both drivers).
THEOREM TransfersAreExact == Spec => []TransfersExact
  <1>1. StorageInv => TransfersExact
    <2> SUFFICES ASSUME StorageInv PROVE TransfersExact
      OBVIOUS
    <2>1. DriveAddressed
      BY DEF StorageInv, AtaInv, WordsInv, DriveAddressed
    <2>2. ErrorsSeen
      BY DEF StorageInv, AhciInv, LostInv, ErrorsSeen
    <2>3. First \in Nat /\ ata.size \in Nat /\ First = ata.lba * SectorWords
      BY DeviceTypes DEF StorageInv, AtaInv, First
    <2>4. ASSUME NEW w \in Asked
          PROVE  w - First \in 0..(ata.size - 1) /\ First + (w - First) = w /\ w \in Int
      BY <2>3 DEF Asked
    <2>5. ReadMatches
      <3> SUFFICES ASSUME ata.pc = "idle", ata.op = "read", ~failed, Covered, NEW w \in Asked \cap DiskWords
                   PROVE  buf[w - First + 1] = store[w]
        BY <2>3 DEF ReadMatches
      <3>1. FromDisk(w - First)
        BY <2>4 DEF StorageInv, AtaInv, DoneInv
      <3> QED
        BY <2>4, <3>1 DEF FromDisk
    <2>6. WriteStored
      <3> SUFFICES ASSUME ata.pc = "idle", ata.op = "write", ~failed, ata.size <= SectorSz,
                          ata.size % SectorWords = 0, NEW w \in Asked \cap DiskWords
                   PROVE  store[w] = buf[w - First + 1]
        BY <2>3 DEF WriteStored
      <3>1. ata.size \in {SectorWords, SectorSz}
        <4>1. ata.size # 0
          BY <2>3, <2>4
        <4>2. ASSUME NEW a \in Nat \ {0}, NEW W \in Nat \ {0}, a <= 2 * W, a % W = 0
              PROVE  a \in {W, 2 * W}
          <5>1. PICK k \in Nat : a = k * W
            <6>1. a = (a \div W) * W + 0 /\ a \div W \in Nat
              BY <4>2, Division
            <6> QED
              BY <6>1
          <5>2. k # 0 /\ k <= 2
            BY <4>2, <5>1
          <5> QED
            BY <5>1, <5>2
        <4> QED
          BY <2>3, <4>1, <4>2, AtaConstants
      <3> QED
        BY <2>4, <3>1 DEF StorageInv, AtaInv, DoneInv
    <2> QED
      BY <2>1, <2>2, <2>5, <2>6 DEF TransfersExact
  <1> QED
    BY <1>1, StorageInvariant, PTL

\* A step changes words of the write that is being served and no others, also
\* after writes that ended in the middle of a sector (drv_std_write).
THEOREM WritesConfined == Spec => WriteConfined
  <1> DEFINE Kept == \A w \in DiskWords : store'[w] # store[w] => w \in Asked /\ ata.op = "write"
  <1>1. StorageInv /\ [Next]_vars => [Kept]_ataVars
    <2> SUFFICES ASSUME StorageInv, [Next]_vars, NEW w \in DiskWords, store'[w] # store[w]
                 PROVE  w \in Asked /\ ata.op = "write"
      OBVIOUS
    <2>1. PICK bus \in Buses : DriveWorks(bus)
      BY DEF Next, vars, ataVars, io_construct_main_drive, MgrStep, InitSecondary, InitOver, DetectInput,
             ioi_detect_drive, Packets, fs_newfs_read, fs_newfs_write, io_drv_input, io_drv_output, AtaDriver,
             AtaDrive, AhciDriver, AhciDrive, AtaStep, DriveStep, DriveFails, AtaInitCall, AtaInitPoll,
             AtaIdentify, AtaCall, AtaCommand, AtaReadWord, AtaWriteWord, AtaFinish
    <2> DEFINE d == dev[bus]
               n == Len(d.held)
    <2>2. /\ d.phase = "busy" /\ d.cmd = "write" /\ w \in (d.pos - n)..(d.pos - 1)
      BY <2>1 DEF DriveWorks
    <2>3. ata.pc = "words" /\ ata.op = "write" /\ Device = d
      BY <2>2 DEF StorageInv, AtaInv, WritersKnown, Device
    <2>4. InStep /\ WritingInv
      BY <2>2, <2>3, IdleDevTyped DEF StorageInv, AtaInv, WordsInv
    <2>5. n <= Moved /\ Moved \in Nat /\ Moved <= ata.i
      BY <2>3, <2>4 DEF WritingInv, InStep
    <2>6. /\ First \in Nat /\ d.pos \in Nat /\ n \in Nat /\ ata.i \in Nat /\ ata.size \in Nat
          /\ ata.i <= ata.size
      BY <2>3, DeviceTypes DEF StorageInv, AtaInv
    <2>7. d.pos = First + Moved
      BY <2>3, <2>6 DEF Moved
    <2> HIDE DEF d, n
    <2>8. w \in First..(First + ata.size - 1)
      BY <2>2, <2>5, <2>6, <2>7
    <2> QED
      BY <2>3, <2>8 DEF Asked, First
  <1> QED
    BY <1>1, StorageInvariant, PTL DEF Spec, WriteConfined

\* A read neither takes a slot in use nor clears its table, for any number of
\* slots, also after reads that failed and stayed in their slots (drv_std_read).
THEOREM SlotsKept == Spec => CommandsKept
  <1> DEFINE Kept == \A s \in port.Ci : /\ tables'[s] = tables[s] \/ s \notin port'.Ci
                                        /\ hba.pc = "poll" => s # hba.slot
  <1>1. StorageInv /\ [Next]_vars => [Kept]_ahciVars
    <2> SUFFICES ASSUME StorageInv, [Next]_vars, NEW s \in port.Ci
                 PROVE  /\ tables'[s] = tables[s]
                        /\ hba.pc = "poll" => s # hba.slot
      OBVIOUS
    <2>1. hba.pc = "poll" => s # hba.slot
      BY DEF StorageInv, AhciInv, SlotsInv
    <2>2. \/ UNCHANGED tables
          \/ AhciSetup
          \/ \E r \in {hba.read + 1} : AhciRead(r)
      BY DEF Next, vars, ahciVars, io_construct_main_drive, MgrStep, InitSecondary, InitOver, DetectInput,
             ioi_detect_drive, Packets, fs_newfs_read, fs_newfs_write, io_drv_input, io_drv_output, AtaDriver,
             AtaDrive, AhciDriver, AhciDrive, AhciStep, AhciProbe, AhciPoll, AhciIssue, AhciWaitCi, AhciWaitIs,
             AhciCheck, PortStep, EngineFollows, DriveBusy, DriveReady, DriveCompletes, DriveFaults
    <2>3. CASE AhciSetup
      BY <2>3 DEF AhciSetup, StorageInv, AhciInv, SlotsInv
    <2>4. CASE AhciRead(hba.read + 1)
      <3>1. hba.pc = "idle"
        BY <2>4 DEF AhciRead
      <3>2. s = 0 /\ port.Ci = {0}
        BY <3>1 DEF StorageInv, AhciInv, SlotsInv
      <3>3. FreeSlot(port.Ci) = 1 /\ 0 \in Slots
        BY <3>2, SlotChosen, AhciConstants
      <3>4. 0 \notin Cleared(1)
        BY DEF Cleared
      <3> QED
        BY <2>4, <3>2, <3>3, <3>4 DEF AhciRead
    <2> QED
      BY <2>1, <2>2, <2>3, <2>4
  <1> QED
    BY <1>1, StorageInvariant, PTL DEF Spec, CommandsKept

\* A drive is taken for a partitioned one exactly when it is, unless it failed
\* the read (ioi_detect_drive): the block that is looked at is the first one.
THEOREM DrivesDetected == Spec => DetectedRight
  <1> DEFINE Right == build = "ATA" /\ mount' # mount
                        => /\ mount'["A"].fKind = "kEPMDrive" => store[0] = Magic
                           /\ store[0] = Magic /\ ~failed => mount'["A"].fKind = "kEPMDrive"
  <1>1. StorageInv /\ [Next]_vars => [Right]_vars
    <2> SUFFICES ASSUME StorageInv, [Next]_vars, build = "ATA", mount' # mount
                 PROVE  /\ mount'["A"].fKind = "kEPMDrive" => store[0] = Magic
                        /\ store[0] = Magic /\ ~failed => mount'["A"].fKind = "kEPMDrive"
      OBVIOUS
    <2>1. ioi_detect_drive
      BY DEF Next, vars, mgrVars, io_construct_main_drive, MgrStep, InitSecondary, InitOver, DetectInput,
             Packets, fs_newfs_read, fs_newfs_write, AtaDriver, AtaDrive, AhciDriver, AhciDrive
    <2>2. PICK isEpm \in BOOLEAN :
            /\ isEpm <=> buf[1] = Magic
            /\ mount' = [x \in DriveIndex |-> IF x = "A" THEN Detected(isEpm) ELSE BlankTrait]
      BY <2>1 DEF ioi_detect_drive
    <2>3. mount'["A"].fKind = "kEPMDrive" <=> buf[1] = Magic
      <3>1. mount'["A"] = Detected(isEpm)
        BY <2>2 DEF DriveIndex
      <3>2. Detected(isEpm).fKind = "kEPMDrive" <=> isEpm
        BY TraitsTyped
      <3> QED
        BY <2>2, <3>1, <3>2
    <2>4. ata.pc = "idle" /\ ata.op = "read" /\ ata.lba = 0 /\ ata.size = SectorSz
      BY <2>1 DEF ioi_detect_drive, DriverIdle, StorageInv, MgrInv, DriveKnown
    <2>5. First = 0 /\ 0 \in 0..(ata.size - 1) /\ First + 0 \in DiskWords /\ Covered
      BY <2>4, AtaConstants DEF First, Covered
    <2>6. buf[1] = Junk \/ buf[1] = store[0]
      <3>1. buf[0 + 1] = Junk \/ FromDisk(0)
        BY <2>4, <2>5 DEF StorageInv, AtaInv, BufferInv
      <3> QED
        BY <2>5, <3>1 DEF FromDisk
    <2>7. ~failed => buf[1] = store[0]
      <3>1. ~failed => FromDisk(0)
        BY <2>4, <2>5 DEF StorageInv, AtaInv, DoneInv
      <3> QED
        BY <2>5, <3>1 DEF FromDisk
    <2>8. Junk # Magic
      BY DEF Junk, Magic
    <2> QED
      BY <2>3, <2>6, <2>7, <2>8
  <1> QED
    BY <1>1, StorageInvariant, PTL DEF Spec, DetectedRight

\* Requests stay apart: the three together are what a caller can rely on whatever
\* was asked of the drives before.
THEOREM RequestsStayApart == Spec => RequestsApart
  BY WritesConfined, SlotsKept, DrivesDetected, PTL DEF RequestsApart
=============================================================================
