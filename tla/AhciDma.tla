------------------------------ MODULE AhciDma -------------------------------
(***************************************************************************)
(* The AHCI driver (src/dev/ZKAKit/HALKit/AMD64/Storage/AHCI-DMA.cc) and   *)
(* the port of the host bus adapter it drives: the search for a port, the  *)
(* restart of its engine, reads through command slots, polling, errors.    *)
(* Writing is empty in the driver.  Registers are read each time the code  *)
(* reads them, as if they were volatile.                                   *)
(***************************************************************************)
EXTENDS Naturals, FiniteSets, FiniteSetsExt

CONSTANTS
    PortCount,     \* kMaxPortsImplemented
    SlotCount,     \* command slots of a port, 32
    SectorCnt,     \* what the drive manager passes as sector_cnt
    kAhciMaxPoll,  \* polls of a busy port
    HungSpin       \* the count that is taken for a hung port, 1000000

ASSUME AhciAssumption ==
    /\ PortCount \in Nat \ {0} /\ SlotCount \in Nat \ {0, 1} /\ SectorCnt \in Nat \ {0}
    /\ kAhciMaxPoll \in Nat /\ HungSpin \in Nat

Ports == 0..(PortCount - 1)
Slots == 0..(SlotCount - 1)
NoPort == PortCount

VARIABLES
    host,   \* the ports that are implemented and those with a SATA drive
    port,   \* the registers of the port in use
    tables, \* for each slot, the read whose command its table holds; 0: none
    hba,    \* the driver: where it is, its port, slot, polls and read; ret: no error
    errno,  \* err_global_get()
    lost    \* the read that runs has been failed by the device

ahciVars == <<host, port, tables, hba, errno, lost>>

\* A port as the firmware leaves it, with its engine running.
FirmwarePort ==
    [Cmd |-> {"FRE", "ST", "FR", "CR"}, Ci |-> {}, Tfe |-> FALSE, Busy |-> FALSE, halted |-> FALSE]

AhciInit ==
    /\ host \in {[Pi |-> p, sata |-> s] : p \in SUBSET Ports, s \in SUBSET Ports}
    /\ host.sata \subseteq host.Pi
    /\ port = FirmwarePort
    /\ tables = [s \in Slots |-> 0]
    /\ hba = [pc |-> "idle", kAhciPort |-> NoPort, slot |-> 0, spin |-> 0, read |-> 0, ret |-> FALSE]
    /\ errno = "kErrorSuccess"
    /\ lost = FALSE

-----------------------------------------------------------------------------
(***************************************************************************)
(* drv_std_init                                                            *)
(***************************************************************************)
(***************************************************************************)
(* Ports are looked at from 0 on for as long as the mask, shifted once per *)
(* port, has a bit left; any bit will do.                                  *)
(***************************************************************************)
Probed == {p \in Ports : (\E q \in host.Pi : q >= p) /\ p \in host.sata}

\* No controller, or no port with a drive: kAhciPort stays what it was.
AhciProbe ==
    /\ hba.pc = "idle"
    /\ IF Probed = {}
         THEN hba' = [hba EXCEPT !.ret = FALSE] /\ UNCHANGED port
         ELSE /\ hba' = [hba EXCEPT !.pc = "stopping", !.kAhciPort = Min(Probed)]
              /\ port' = [port EXCEPT !.Cmd = @ \ {"FRE", "ST"}]
    /\ lost' = FALSE
    /\ UNCHANGED <<host, tables, errno>>

(***************************************************************************)
(* Once the engine has stopped the command list, the FIS area and the      *)
(* tables are laid out and cleared; the engine is started again.           *)
(***************************************************************************)
AhciSetup ==
    /\ hba.pc = "stopping"
    /\ port.Cmd \cap {"CR", "FR"} = {}
    /\ port' = [port EXCEPT !.Cmd = @ \cup {"FRE", "ST"}]
    /\ tables' = [s \in Slots |-> 0]
    /\ hba' = [hba EXCEPT !.pc = "idle", !.ret = TRUE]
    /\ UNCHANGED <<host, errno, lost>>

-----------------------------------------------------------------------------
(***************************************************************************)
(* drv_std_read                                                            *)
(***************************************************************************)
Weight(S) == SumSet({2 ^ s : s \in S})

\* The slots in use are not asked for.
FreeSlotBlind(used) == 0

(***************************************************************************)
(* The search: slots is shifted while it is compared with port, so it ends *)
(* at the first free slot or where the slot is not below what is left of   *)
(* the mask.                                                               *)
(***************************************************************************)
FreeSlot(used) ==
    Min({n \in 0..SlotCount : n \notin used \/ n >= Weight(used) \div 2 ^ n})

Prdtl == ((SectorCnt - 1) \div 16) + 1

PrdtEntrySz == 16    \* sizeof(HbaPrdtEntry)
CmdTblSz    == 256   \* the room each slot's table is given

\* rt_set_memory stores 32-bit words: four times the entries is cleared, over
\* the tables that follow.
Cleared(s) == {t \in Slots : t >= s /\ CmdTblSz * (t - s) < 4 * PrdtEntrySz * (Prdtl - 1)}

\* Without a port the registers are read through a null pointer.
AhciRead(r) ==
    LET s == FreeSlot(port.Ci) IN
    /\ hba.pc = "idle"
    /\ lost' = FALSE
    /\ IF hba.kAhciPort = NoPort
         THEN hba' = [hba EXCEPT !.pc = "fault"] /\ UNCHANGED <<port, tables>>
         ELSE /\ port' = [port EXCEPT !.Tfe = FALSE]
              /\ tables' = [t \in Slots |-> IF t = s THEN r ELSE IF t \in Cleared(s) THEN 0 ELSE tables[t]]
              /\ hba' = [hba EXCEPT !.pc = "poll", !.slot = s, !.spin = 0, !.read = r, !.ret = FALSE]
    /\ UNCHANGED <<host, errno>>

AhciPoll ==
    /\ hba.pc = "poll"
    /\ port.Busy /\ hba.spin < kAhciMaxPoll
    /\ hba' = [hba EXCEPT !.spin = @ + 1]
    /\ UNCHANGED <<host, port, tables, errno, lost>>

(***************************************************************************)
(* The polls are over: HungSpin of them mean that the port is hung.        *)
(***************************************************************************)
AhciIssue ==
    /\ hba.pc = "poll"
    /\ ~(port.Busy /\ hba.spin < kAhciMaxPoll)
    /\ IF hba.spin = HungSpin
         THEN hba' = [hba EXCEPT !.pc = "idle"] /\ UNCHANGED port
         ELSE /\ port' = [port EXCEPT !.Ci = @ \cup {hba.slot}]
              /\ hba' = [hba EXCEPT !.pc = "waitCi"]
    /\ UNCHANGED <<host, tables, errno, lost>>

\* The command has left the slot, or the status is looked at.
AhciWaitCi ==
    /\ hba.pc = "waitCi"
    /\ hba' = [hba EXCEPT !.pc = IF hba.slot \notin port.Ci THEN "check" ELSE "waitIs"]
    /\ UNCHANGED <<host, port, tables, errno, lost>>

AhciFailed ==
    /\ hba' = [hba EXCEPT !.pc = "idle"]
    /\ errno' = "kErrorUnrecoverableDisk"

\* The error is not looked at while the command is in its slot.
AhciWaitIsBlind ==
    /\ hba.pc = "waitIs"
    /\ hba' = [hba EXCEPT !.pc = "waitCi"]
    /\ UNCHANGED <<host, port, tables, lost, errno>>

AhciWaitIs ==
    /\ hba.pc = "waitIs"
    /\ IF port.Tfe THEN AhciFailed
                   ELSE hba' = [hba EXCEPT !.pc = "waitCi"] /\ UNCHANGED errno
    /\ UNCHANGED <<host, port, tables, lost>>

\* "Check again for the last time."
AhciCheck ==
    /\ hba.pc = "check"
    /\ IF port.Tfe THEN AhciFailed
                   ELSE hba' = [hba EXCEPT !.pc = "idle", !.ret = TRUE] /\ UNCHANGED errno
    /\ UNCHANGED <<host, port, tables, lost>>

AhciStep ==
    \/ AhciSetup \/ AhciPoll \/ AhciIssue
    \/ AhciWaitCi \/ AhciWaitIs \/ AhciCheck

-----------------------------------------------------------------------------
(***************************************************************************)
(* The port                                                                *)
(***************************************************************************)
\* CR and FR follow ST and FRE.  Stopping empties Ci and ends an error.
EngineFollows ==
    /\ port' = IF "ST" \in port.Cmd
                 THEN [port EXCEPT !.Cmd = @ \cup {"CR", "FR"}]
                 ELSE [port EXCEPT !.Cmd = @ \ {"CR", "FR"}, !.Ci = {}, !.halted = FALSE]
    /\ port' # port
    /\ UNCHANGED <<host, tables, hba, errno, lost>>

\* A command is carried out by a port whose engine runs.
Serving == port.Ci # {} /\ "CR" \in port.Cmd /\ ~port.halted

\* The drive starts on something else, a reset for one.
DriveBusy ==
    /\ port.Ci = {} /\ ~port.Busy
    /\ port' = [port EXCEPT !.Busy = TRUE]
    /\ UNCHANGED <<host, tables, hba, errno, lost>>

DriveReady ==
    /\ port.Busy
    /\ port' = [port EXCEPT !.Busy = FALSE]
    /\ UNCHANGED <<host, tables, hba, errno, lost>>

DriveCompletes ==
    /\ Serving /\ ~port.Busy
    /\ \E s \in port.Ci : port' = [port EXCEPT !.Ci = @ \ {s}]
    /\ UNCHANGED <<host, tables, hba, errno, lost>>

(***************************************************************************)
(* A task file error.  Some adapters take the command out of its slot and  *)
(* go on, others keep it and do nothing until the engine is restarted.     *)
(***************************************************************************)
DriveFaults ==
    /\ Serving /\ ~port.Busy
    /\ \/ \E s \in port.Ci : port' = [port EXCEPT !.Ci = @ \ {s}, !.Tfe = TRUE]
       \/ port' = [port EXCEPT !.Tfe = TRUE, !.halted = TRUE]
    /\ lost' = TRUE
    /\ UNCHANGED <<host, tables, hba, errno>>

PortStep == EngineFollows \/ DriveBusy \/ DriveReady \/ DriveCompletes \/ DriveFaults

\* What a port does sooner or later by itself.
PortProgress == EngineFollows \/ DriveReady \/ DriveCompletes

-----------------------------------------------------------------------------
\* Every variable has its type.
AhciTypeOK ==
    /\ host.sata \subseteq host.Pi /\ host.Pi \subseteq Ports
    /\ port.Ci \subseteq Slots
    /\ hba.pc \in {"idle", "stopping", "poll", "waitCi", "waitIs", "check", "fault"}
    /\ hba.kAhciPort \in Ports \cup {NoPort}
    /\ hba.slot \in Slots /\ hba.spin \in 0..kAhciMaxPoll
    /\ errno \in {"kErrorSuccess", "kErrorUnrecoverableDisk"}

\* The command in each slot that the port has not finished is the one that
\* was put there: a read neither takes a slot in use nor clears its table,
\* also after reads that failed and stayed in their slots (drv_std_read).
CommandsKept ==
    [][\A s \in port.Ci : /\ tables'[s] = tables[s] \/ s \notin port'.Ci
                          /\ hba.pc = "poll" => s # hba.slot]_ahciVars

\* A read the device has failed does not return as if it had data, whether
\* the error comes before, with or after the end of the command.
ErrorsSeen == hba.pc = "idle" /\ lost => ~hba.ret /\ errno = "kErrorUnrecoverableDisk"

\* A read that was issued to a working port returns, also if the device fails it.
ReadsReturn == (hba.pc = "waitCi" /\ ~port.halted) ~> (hba.pc = "idle")

\* No other does: a read that is issued after a failed one has halted the port
\* waits (AHCI-DMA.cc:272) for a command the port no longer carries out, with
\* no error to see, and never leaves the wait.
HaltedWaits ==
    [][hba.pc \in {"waitCi", "waitIs"} /\ port.halted /\ ~port.Tfe
         => hba'.pc \in {"waitCi", "waitIs"} /\ port'.halted /\ ~port'.Tfe]_ahciVars
=============================================================================
