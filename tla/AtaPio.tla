------------------------------- MODULE AtaPio -------------------------------
(***************************************************************************)
(* The ATA driver in PIO mode (src/dev/ZKAKit/HALKit/AMD64/Storage/        *)
(* ATA-PIO.cc) and the drives it talks to.                                 *)
(*                                                                         *)
(* A disk is an array of 16-bit words.  The driver moves one byte of the   *)
(* caller per word, so that a request of Size bytes moves Size words, while *)
(* the drive counts sectors of SectorSz bytes, SectorSz / 2 words each.    *)
(* The drive acts between any two accesses of the driver; reading the      *)
(* status register until it changes is a step that waits.                  *)
(***************************************************************************)
EXTENDS Naturals, Sequences, SequencesExt

CONSTANTS
    SectorSz,     \* bytes in a sector, kATASectorSize
    DiskSectors,  \* sectors of the drive
    Sizes,        \* the Size arguments callers use
    Fills         \* what callers fill their buffers with

ASSUME AtaAssumption ==
    /\ SectorSz \in Nat \ {0} /\ SectorSz % 2 = 0
    /\ DiskSectors \in Nat \ {0}
    /\ Sizes \subseteq Nat \ {0}

SectorWords == SectorSz \div 2
DiskWords   == 0..(DiskSectors * SectorWords - 1)

Buses == {"ATA_PRIMARY_IO", "ATA_SECONDARY_IO"}
Units == {"master", "slave"}

\* What is not on the disk: the bus reads as anything.
Junk == <<"junk", 0>>

\* A disk that has been partitioned begins with kEPMMagic.
Magic == <<"EPM", 0>>
Blank == [w \in DiskWords |-> <<"old", 0>>]

VARIABLES
    drives,   \* the <<bus, unit>> at which there is a drive
    store,    \* the words of the disk in use
    dev,      \* the selected drive: phase, command, next word, words left
    unit,     \* the unit selected on each bus
    ata,      \* the driver: where it is and the arguments of its call
    buf,      \* the caller's buffer
    failed    \* the drive has failed the command of this call

ataVars == <<drives, store, dev, unit, ata, buf, failed>>

IdleDev  == [phase |-> "ready", cmd |-> "none", pos |-> 0, left |-> 0, held |-> <<>>]
IdleCall == [pc |-> "idle", op |-> "none", IO |-> "ATA_PRIMARY_IO", Master |-> FALSE,
             lba |-> 0, size |-> 0, i |-> 0, ret |-> FALSE]

AtaInit ==
    /\ drives \in SUBSET (Buses \X Units)
    /\ store \in {Blank, [Blank EXCEPT ![0] = Magic]}
    /\ dev = [b \in Buses |-> IdleDev]
    /\ unit = [b \in Buses |-> "master"]
    /\ ata = IdleCall
    /\ buf = <<>>
    /\ failed = FALSE

Bit(c, bit) == IF c THEN {bit} ELSE {}

(***************************************************************************)
(* The status register.  A bus without drives floats and reads 0xFF; a     *)
(* unit that is missing next to one that is there reads 0.                 *)
(***************************************************************************)
Status(bus) ==
    LET d == dev[bus] IN
    CASE \A u \in Units : <<bus, u>> \notin drives -> {"BSY", "DRDY", "DRQ", "ERR"}
      [] <<bus, unit[bus]>> \in drives ->
           Bit(d.phase = "busy", "BSY") \cup Bit(d.phase # "busy", "DRDY")
             \cup Bit(d.phase = "data", "DRQ") \cup Bit(d.phase = "error", "ERR")
      [] OTHER -> {}

\* drv_std_wait_io comes back, with or without an error: its result is unused.
WaitIo(bus) == "BSY" \notin Status(bus) /\ Status(bus) \cap {"ERR", "DRDY"} # {}

\* drv_std_select and the device register of a command.
UnitSelected(bus) == IF bus = "ATA_PRIMARY_IO" THEN "master" ELSE "slave"

CommandUnit(Master) == IF Master THEN "slave" ELSE "master"

\* The sector count register has eight bits and 0 stands for 256.
AtaSectorCountExact(size) ==
    LET n == (size \div SectorSz) % 256 IN IF n = 0 THEN 256 ELSE n
AtaSectorCount(size) ==
    LET n == ((size + SectorSz) \div SectorSz) % 256 IN IF n = 0 THEN 256 ELSE n

-----------------------------------------------------------------------------
(***************************************************************************)
(* The drive                                                               *)
(***************************************************************************)
\* A command that is given while another waits for data ends that one.
Command(bus, cmd, sector, count) ==
    dev' = [dev EXCEPT ![bus] =
              [phase |-> IF cmd = "write" THEN "data" ELSE "busy", cmd |-> cmd,
               pos |-> sector * SectorWords, left |-> count * SectorWords, held |-> <<>>]]

\* A sector has been fetched, or the words of one have been stored.
DriveWorks(bus) ==
    LET d == dev[bus]
        n == Len(d.held) IN
    /\ d.phase = "busy"
    /\ store' = IF d.cmd = "write"
                  THEN [w \in DiskWords |->
                          IF w \in (d.pos - n)..(d.pos - 1) THEN d.held[w - (d.pos - n) + 1] ELSE store[w]]
                  ELSE store
    /\ dev' = [dev EXCEPT ![bus].held = <<>>,
                          ![bus].phase = IF d.left > 0 THEN "data" ELSE "ready"]
    /\ UNCHANGED <<drives, unit, ata, buf, failed>>

\* The command fails: what the drive holds of it is lost.
DriveFails(bus) ==
    /\ dev[bus].phase = "busy"
    /\ dev' = [dev EXCEPT ![bus] = [IdleDev EXCEPT !.phase = "error"]]
    /\ failed' = TRUE
    /\ UNCHANGED <<drives, store, unit, ata, buf>>

\* rt_in16 of the data register; without data it reads as anything.
DataIn(bus) ==
    LET d == dev[bus] IN
    IF d.phase = "data" /\ d.cmd = "read"
      THEN IF d.pos \in DiskWords THEN store[d.pos] ELSE Junk
      ELSE Junk

\* A word has gone over the data register; every SectorWords of them the
\* drive turns busy.
DataMoved(bus, words) ==
    LET d == dev[bus] IN
    dev' = IF d.phase # "data" THEN dev
             ELSE [dev EXCEPT ![bus] =
                     [d EXCEPT !.pos = @ + 1, !.left = @ - 1, !.held = @ \o words,
                               !.phase = IF (d.left - 1) % SectorWords = 0
                                           THEN IF d.cmd = "read" /\ d.left = 1 THEN "ready" ELSE "busy"
                                           ELSE "data"]]

-----------------------------------------------------------------------------
(***************************************************************************)
(* drv_std_init                                                            *)
(***************************************************************************)
AtaInitCall(bus) ==
    /\ ata.pc = "idle"
    /\ ata' = [IdleCall EXCEPT !.pc = "init", !.op = "init", !.IO = bus]
    /\ unit' = [unit EXCEPT ![bus] = UnitSelected(bus)]
    /\ failed' = FALSE
    /\ UNCHANGED <<drives, store, dev, buf>>

AtaReturn(r) == ata' = [ata EXCEPT !.pc = "idle", !.ret = r]

\* The error bit ends it; a busy drive is asked again.
AtaInitPoll ==
    /\ ata.pc = "init"
    /\ \/ /\ "ERR" \in Status(ata.IO)
          /\ AtaReturn(FALSE)
          /\ UNCHANGED dev
       \/ /\ Status(ata.IO) \cap {"ERR", "BSY"} = {}
          /\ IF <<ata.IO, unit[ata.IO]>> \in drives
               THEN Command(ata.IO, "identify", 0, 1) ELSE UNCHANGED dev
          /\ ata' = [ata EXCEPT !.pc = "identify"]
    /\ UNCHANGED <<drives, store, unit, buf, failed>>

\* The identification is read, whatever the wait says.
AtaIdentify ==
    /\ ata.pc = "identify"
    /\ WaitIo(ata.IO)
    /\ dev' = [dev EXCEPT ![ata.IO] =
                 IF @.phase = "data" THEN [@ EXCEPT !.phase = "ready", !.left = 0, !.cmd = "none"] ELSE @]
    /\ ata' = [ata EXCEPT !.pc = "idle", !.ret = TRUE,
                          !.Master = (ata.IO # "ATA_PRIMARY_IO")]
    /\ UNCHANGED <<drives, store, unit, buf, failed>>

-----------------------------------------------------------------------------
(***************************************************************************)
(* drv_std_read and drv_std_write                                          *)
(***************************************************************************)
AtaCall(op, bus, master, lba, contents) ==
    /\ ata.pc = "idle"
    /\ ata' = [pc |-> "command", op |-> op, IO |-> bus, Master |-> master,
               lba |-> lba \div SectorSz, size |-> Len(contents), i |-> 0, ret |-> FALSE]
    /\ buf' = contents
    /\ failed' = FALSE
    /\ UNCHANGED <<drives, store, dev, unit>>

\* The drive is waited for before the unit is chosen, not after.
AtaCommand ==
    /\ ata.pc = "command"
    /\ WaitIo(ata.IO)
    /\ unit' = [unit EXCEPT ![ata.IO] = CommandUnit(ata.Master)]
    /\ IF <<ata.IO, CommandUnit(ata.Master)>> \in drives
         THEN Command(ata.IO, ata.op, ata.lba, AtaSectorCount(ata.size))
         ELSE UNCHANGED dev
    /\ ata' = [ata EXCEPT !.pc = "words"]
    /\ UNCHANGED <<drives, store, buf, failed>>

AtaReadWord ==
    /\ ata.pc = "words" /\ ata.op = "read" /\ ata.i < ata.size
    /\ WaitIo(ata.IO)
    /\ buf' = [buf EXCEPT ![ata.i + 1] = DataIn(ata.IO)]
    /\ DataMoved(ata.IO, <<>>)
    /\ ata' = [ata EXCEPT !.i = @ + 1]
    /\ UNCHANGED <<drives, store, unit, failed>>

AtaWriteWord ==
    /\ ata.pc = "words" /\ ata.op = "write" /\ ata.i < ata.size
    /\ WaitIo(ata.IO)
    /\ DataMoved(ata.IO, <<buf[ata.i + 1]>>)
    /\ ata' = [ata EXCEPT !.i = @ + 1]
    /\ UNCHANGED <<drives, store, unit, buf, failed>>

AtaFinish ==
    /\ ata.pc = "words" /\ ata.i = ata.size
    /\ WaitIo(ata.IO)
    /\ AtaReturn(TRUE)
    /\ UNCHANGED <<drives, store, dev, unit, buf, failed>>

AtaStep == AtaInitPoll \/ AtaIdentify \/ AtaCommand \/ AtaReadWord \/ AtaWriteWord \/ AtaFinish

DriveStep(bus) == DriveWorks(bus) \/ DriveFails(bus)

-----------------------------------------------------------------------------
\* Every variable has its type.
AtaTypeOK ==
    /\ drives \subseteq Buses \X Units
    /\ DOMAIN store = DiskWords
    /\ \A b \in Buses : /\ dev[b].phase \in {"ready", "busy", "data", "error"}
                        /\ dev[b].left \in Nat /\ dev[b].pos \in Nat
                        /\ Len(dev[b].held) <= SectorWords
    /\ unit \in [Buses -> Units]
    /\ ata.pc \in {"idle", "init", "identify", "command", "words"}
    /\ ata.i \in 0..ata.size

\* The words a request is about.
Asked == (ata.lba * SectorWords)..(ata.lba * SectorWords + ata.size - 1)

\* A write that returns, of sizes up to a sector that fill what the drive
\* counts, is on the disk word by word; each caller byte took one word, so it
\* reaches as far as twice its size in bytes (drv_std_write).
WriteStored ==
    ata.pc = "idle" /\ ata.op = "write" /\ ata.ret /\ ~failed
      /\ ata.size <= SectorSz /\ ata.size % SectorWords = 0
        => \A w \in Asked \cap DiskWords : store[w] = buf[w - ata.lba * SectorWords + 1]

\* What the drive is asked for covers sizes of up to half a sector and of one
\* sector: it counts SectorWords words in each of (size + SectorSz) / SectorSz.
Covered == ata.size <= SectorWords \/ ata.size = SectorSz

\* A read of a size that is covered returns what is on the disk, also after a
\* write that ended in the middle of a sector and left the drive waiting.
ReadMatches ==
    ata.pc = "idle" /\ ata.op = "read" /\ ata.ret /\ ~failed /\ Covered
      => \A w \in Asked \cap DiskWords : buf[w - ata.lba * SectorWords + 1] = store[w]

\* A step changes words of the request being served and no others.
WriteConfined ==
    [][\A w \in DiskWords : store'[w] # store[w] => w \in Asked /\ ata.op = "write"]_ataVars
=============================================================================
