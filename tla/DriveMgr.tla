------------------------------ MODULE DriveMgr ------------------------------
(***************************************************************************)
(* The drive manager (src/dev/ZKAKit/src/DriveMgr.cc, KernelKit/DriveMgr.h) *)
(* with the driver of the build, the drives of the mountpoint and the      *)
(* packets NeFS sends to them (src/NeFS+IO.cc, fs_init_newfs of NeFS.cc).  *)
(* The build is chosen once: __ATA_PIO__ or __AHCI__.  The data of an AHCI *)
(* read are not modelled, only whether it has any.                         *)
(***************************************************************************)
EXTENDS AtaPio, AhciDma

CONSTANT MaxReads      \* bound on the reads sent to an AHCI drive

VARIABLES
    build,    \* the driver that is compiled in
    mount,    \* kDiskMountpoint: the traits of the drives A to D
    task,     \* what the drive manager waits for
    kATA,     \* kATAIO and kATAMaster
    good      \* fPacketGood of the packet in use

mgrVars == <<build, mount, task, kATA, good>>
vars    == <<ataVars, ahciVars, mgrVars>>

DriveIndex == {"A", "B", "C", "D"}

NoTrait   == [fKind |-> "none", fInput |-> "none", fReadOnly |-> FALSE]
MainTrait == [fKind |-> "kMassStorageDisc", fInput |-> "io_drv_input", fReadOnly |-> FALSE]
BlankTrait == [fKind |-> "kInvalidDisc", fInput |-> "io_drv_unimplemented", fReadOnly |-> FALSE]

Init ==
    /\ AtaInit /\ AhciInit
    /\ build \in {"ATA", "AHCI"}
    /\ build = "ATA" => host.Pi = {}
    /\ build = "AHCI" => drives = {} /\ store = Blank
    /\ mount = [d \in DriveIndex |-> NoTrait]
    /\ task = "none"
    /\ kATA = [IO |-> "ATA_PRIMARY_IO", Master |-> FALSE]
    /\ good = TRUE

Buffer(fill, size) == [i \in 1..size |-> <<fill, i>>]

-----------------------------------------------------------------------------
(***************************************************************************)
(* io_drv_input and io_drv_output                                          *)
(***************************************************************************)
io_drv_input(lba, size) ==
    IF build = "ATA"
      THEN AtaCall("read", kATA.IO, kATA.Master, lba, Buffer("new", size)) /\ UNCHANGED ahciVars
      ELSE AhciRead(hba.read + 1) /\ UNCHANGED ataVars

\* The AHCI driver writes nothing.
io_drv_output(lba, fill, size) ==
    IF build = "ATA"
      THEN AtaCall("write", kATA.IO, kATA.Master, lba, Buffer(fill, size)) /\ UNCHANGED ahciVars
      ELSE hba.pc = "idle" /\ UNCHANGED <<ataVars, ahciVars>>

DriverIdle == ata.pc = "idle" /\ hba.pc = "idle"

-----------------------------------------------------------------------------
(***************************************************************************)
(* io_construct_main_drive, called by fs_init_newfs: io_drv_init, then the *)
(* first sector of the drive.                                              *)
(***************************************************************************)
io_construct_main_drive ==
    /\ task = "none" /\ mount["A"] = NoTrait
    /\ task' = "primary"
    /\ IF build = "ATA"
         THEN /\ AtaInitCall("ATA_PRIMARY_IO")
              /\ kATA' = [IO |-> "ATA_PRIMARY_IO", Master |-> TRUE]
              /\ UNCHANGED ahciVars
         ELSE AhciProbe /\ UNCHANGED <<ataVars, kATA>>
    /\ UNCHANGED <<build, mount, good>>

\* The second bus is tried when the first one has failed.
InitSecondary ==
    /\ task = "primary" /\ build = "ATA" /\ DriverIdle /\ ~ata.ret
    /\ task' = "secondary"
    /\ AtaInitCall("ATA_SECONDARY_IO")
    /\ kATA' = [IO |-> "ATA_SECONDARY_IO", Master |-> FALSE]
    /\ UNCHANGED <<build, mount, good, ahciVars>>

\* io_drv_init is over, which is not asked whether it found a drive.
InitOver ==
    /\ DriverIdle
    /\ \/ task = "primary" /\ (build = "ATA" => ata.ret)
       \/ task = "secondary"
    /\ task' = "detect"
    /\ IF build = "ATA" /\ ata.ret
         THEN kATA' = [IO |-> ata.IO, Master |-> ata.Master] /\ good' = TRUE
         ELSE UNCHANGED <<kATA, good>>
    /\ UNCHANGED <<build, mount, ataVars, ahciVars>>

DetectInput ==
    /\ task = "detect" /\ DriverIdle
    /\ task' = "detecting"
    /\ io_drv_input(0, SectorSz)
    /\ UNCHANGED <<build, mount, kATA, good>>

\* The kind is left as it is made.
DetectedPlain(isEpm) == MainTrait

\* What ioi_detect_drive makes of the block; then B, C and D are blank drives.
Detected(isEpm) ==
    IF isEpm THEN [MainTrait EXCEPT !.fKind = "kEPMDrive"]
             ELSE [MainTrait EXCEPT !.fKind = "kUnformattedDrive", !.fReadOnly = TRUE]

ioi_detect_drive ==
    /\ task = "detecting" /\ DriverIdle
    /\ task' = "none"
    /\ \E isEpm \in BOOLEAN :
         /\ build = "ATA" => (isEpm <=> buf[1] = Magic)
         /\ mount' = [d \in DriveIndex |-> IF d = "A" THEN Detected(isEpm) ELSE BlankTrait]
    /\ UNCHANGED <<build, kATA, good, ataVars, ahciVars>>

-----------------------------------------------------------------------------
(***************************************************************************)
(* Packets to the drives, fs_newfs_read and fs_newfs_write.  Their result  *)
(* is fPacketGood, which they clear and no driver sets; whether a drive is *)
(* read only is not asked.                                                 *)
(***************************************************************************)
Idle == task = "none" /\ DriverIdle /\ mount["A"] # NoTrait

fs_newfs_read(d, lba, size) ==
    /\ Idle
    /\ good' = FALSE
    /\ hba.read < MaxReads
    /\ IF mount[d].fInput = "io_drv_input"
         THEN io_drv_input(lba, size) ELSE UNCHANGED <<ataVars, ahciVars>>
    /\ UNCHANGED <<build, mount, task, kATA>>

fs_newfs_write(d, lba, fill, size) ==
    /\ Idle
    /\ good' = FALSE
    /\ IF mount[d].fInput = "io_drv_input"
         THEN io_drv_output(lba, fill, size) ELSE UNCHANGED <<ataVars, ahciVars>>
    /\ UNCHANGED <<build, mount, task, kATA>>

\* GetAddressOf: any other index has no drive.
Packets ==
    \E d \in DriveIndex, sector \in 0..(DiskSectors - 1), size \in Sizes :
      \/ fs_newfs_read(d, sector * SectorSz, size)
      \/ \E fill \in Fills : fs_newfs_write(d, sector * SectorSz, fill, size)

MgrStep == InitSecondary \/ InitOver \/ DetectInput \/ ioi_detect_drive

AtaDriver == AtaStep /\ UNCHANGED <<ahciVars, mgrVars>>
AtaDrive(bus) == DriveStep(bus) /\ UNCHANGED <<ahciVars, mgrVars>>
AhciDriver == AhciStep /\ UNCHANGED <<ataVars, mgrVars>>
AhciDrive == build = "AHCI" /\ PortStep /\ UNCHANGED <<ataVars, mgrVars>>

Next ==
    \/ io_construct_main_drive \/ MgrStep \/ Packets
    \/ AtaDriver \/ AhciDriver \/ AhciDrive
    \/ \E bus \in Buses : AtaDrive(bus)

(***************************************************************************)
(* The kernel goes on with what it has begun, and drives finish, with or   *)
(* without success, what they are told to do.                              *)
(***************************************************************************)
Fairness ==
    /\ WF_vars(io_construct_main_drive) /\ WF_vars(MgrStep)
    /\ WF_vars(AtaDriver) /\ WF_vars(AhciDriver)
    /\ \A bus \in Buses : WF_vars(AtaDrive(bus))
    /\ WF_vars(PortProgress /\ UNCHANGED <<ataVars, mgrVars>>)

Spec == Init /\ [][Next]_vars /\ Fairness

-----------------------------------------------------------------------------
TypeOK ==
    /\ AtaTypeOK /\ AhciTypeOK
    /\ build \in {"ATA", "AHCI"}
    /\ mount \in [DriveIndex -> [fKind : {"none", "kInvalidDisc", "kEPMDrive", "kUnformattedDrive"},
                                 fInput : {"none", "io_drv_input", "io_drv_unimplemented"},
                                 fReadOnly : BOOLEAN]]
    /\ task \in {"none", "primary", "secondary", "detect", "detecting"}
    /\ kATA \in [IO : Buses, Master : BOOLEAN]
    /\ good \in BOOLEAN

\* The drives with which the search of io_drv_init comes to an end.
Found ==
    \/ <<"ATA_PRIMARY_IO", "master">> \in drives
    \/ (\A u \in Units : <<"ATA_PRIMARY_IO", u>> \notin drives) /\ <<"ATA_SECONDARY_IO", "slave">> \in drives

\* The first drive is mounted when it is the master of the first bus, or the
\* slave of the second one while the first bus is empty.
Mounted == (build = "ATA" /\ Found) => <>(mount["A"] # NoTrait)

\* Requests to a mounted ATA drive return, with an error or without.
RequestsReturn == (ata.pc = "command") ~> (ata.pc = "idle" \/ ~Found)

\* A drive is taken for a partitioned one only when it begins with the magic,
\* and a partitioned one is taken for one unless it failed the read.
DetectedRight ==
    [][build = "ATA" /\ mount' # mount
         => /\ mount'["A"].fKind = "kEPMDrive" => store[0] = Magic
            /\ store[0] = Magic /\ ~failed => mount'["A"].fKind = "kEPMDrive"]_vars

\* Words move to and from the drive that answered to its identification.
DriveAddressed == ata.pc = "words" => <<ata.IO, unit[ata.IO]>> \in drives
=============================================================================
