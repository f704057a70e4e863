----------------------------- MODULE BootLoader -----------------------------
(***************************************************************************)
(* The boot loader (src/dev/ZBAKit) from Main to the kernel's first steps: *)
(* the check and the formatting of the disk, the reading of the files of   *)
(* the boot volume, the loading of their images, the leave of the firmware *)
(* and the kernel's installer, with resets and power cuts in between.      *)
(*                                                                         *)
(* Undefined behaviour: the byte after the literal kNeFSIdent is whatever  *)
(* the build puts there (tail), memcpy of a constant size is the loader's  *)
(* own, which copies four times as much, or the compiler's (wide), GetInfo *)
(* is given half of the size it reads, and a call through a null pointer   *)
(* is a fault.                                                             *)
(***************************************************************************)
EXTENDS Naturals, Sequences, FiniteSets, FiniteSetsExt

CONSTANTS
    DiskSizes,      \* sizes of drives; 0 stands for no drive
    MinDisk,        \* kNeFSMinimumDiskSize
    FileChunks,     \* chunks a file of the boot volume may have
    Images,         \* what syschk.sys and minoskrnl.exe may contain
    Word32,         \* 2^32 in the units of BitMapSz
    BitMapSz,       \* kHandoverBitMapSz
    MaxCatalogs,    \* bound: catalogs the running kernel creates
    MaxCuts,        \* bound: power cuts
    MaxErrors       \* bound: failing reads of the boot volume

ASSUME BootAssumption ==
    /\ DiskSizes \subseteq Nat /\ MinDisk \in Nat \ {0}
    /\ FileChunks \subseteq Nat \ {0} /\ FileChunks # {} /\ IsFiniteSet(FileChunks)
    /\ Word32 \in Nat \ {0} /\ BitMapSz \in Nat
    /\ MaxCatalogs \in Nat /\ MaxCuts \in Nat /\ MaxErrors \in Nat

\* The sections of an image a linker has made lie inside of it.
ASSUME ImagesAssumption ==
    \A img \in Images :
      /\ img.size \in Nat
      /\ img.sections \in Seq([name : STRING, va : Nat, raw : Nat, size : Nat])
      /\ \A i \in 1..Len(img.sections) : img.sections[i].va + img.sections[i].size <= img.size

Programs  == {"syschk.sys", "minoskrnl.exe"}
Resources == {"startup.wav", "urbanist.ttf"}
Files     == Programs \cup Resources

VARIABLES
    machine,  \* drive size, protocols, and the choices of the build
    volume,   \* the boot volume: chunks and contents of each file, 0 if missing
    disk,     \* partition block, EPM block, root catalog, catalogs of the kernel
    pc,       \* where the loader is
    rd,       \* the locals of BFileReader::ReadAll
    blob,     \* what has been read: chunks, and whether some are missing
    start,    \* the BThread of each program: fStartAddress
    hand,     \* BootInfoHeader
    svc,      \* the firmware: the map has changed since it was asked for; left
    cuts, errors

vars == <<machine, volume, disk, pc, rd, blob, start, hand, svc, cuts, errors>>

\* The fields of NFS_ROOT_PARTITION_BLOCK the check and the kernel look at.
NoBlock == [Ident |-> FALSE, tail |-> 0, DiskSize |-> 0, SectorSize |-> 0,
            Version |-> 0, StartCatalog |-> 0, Named |-> FALSE, Free |-> 0]

kSectorSize == 512
kNeFSVersionInteger == 297
kNeFSCatalogStartAddress == 2560

\* The size comes from the identification, which stays zero without a drive.
GetDiskSize == machine.size

\* A read of a drive that was not detected leaves the buffer as it was.
PartitionRead == IF GetDiskSize = 0 THEN NoBlock ELSE disk.part

FormatTail == IF machine.wide THEN machine.tail ELSE 0

FormatBlockKernel ==
    [Ident |-> TRUE, tail |-> FormatTail, DiskSize |-> GetDiskSize, SectorSize |-> 0,
     Version |-> kNeFSVersionInteger, StartCatalog |-> kNeFSCatalogStartAddress,
     Named |-> TRUE, Free |-> MaxCatalogs]
\* The block BDiskFormatFactory::Format fills.
FormatBlock ==
    [Ident |-> TRUE, tail |-> FormatTail, DiskSize |-> GetDiskSize,
     SectorSize |-> kSectorSize, Version |-> kNeFSVersionInteger,
     StartCatalog |-> kNeFSCatalogStartAddress, Named |-> TRUE, Free |-> MaxCatalogs]

IsPartitionValidFree ==
    LET b == PartitionRead IN
    /\ b.Ident /\ b.tail = machine.tail
    /\ b.DiskSize = GetDiskSize /\ b.DiskSize >= 1
    /\ b.SectorSize = kSectorSize /\ b.Version = kNeFSVersionInteger
    /\ b.StartCatalog # 0 /\ b.Named /\ b.Free > 0
\* Eight bytes of the seven-byte literal are compared.
IsPartitionValid ==
    LET b == PartitionRead IN
    /\ b.Ident /\ b.tail = machine.tail
    /\ b.DiskSize = GetDiskSize /\ b.DiskSize >= 1
    /\ b.SectorSize = kSectorSize /\ b.Version = kNeFSVersionInteger
    /\ b.StartCatalog # 0 /\ b.Named

NoRead == [file |-> "none", until |-> 0, cnt |-> 0, bufSize |-> 1]
NoHand == [Magic |-> FALSE, BitMap |-> 0, Pool |-> 0, Tables |-> FALSE,
           Image |-> FALSE, ImageSz |-> 0, Rsrc |-> FALSE]

\* What a reset leaves: the disk, the boot volume and the machine.
PowerOn ==
    /\ pc' = "main" /\ rd' = NoRead
    /\ blob' = [f \in Files |-> [got |-> 0, hole |-> FALSE, read |-> FALSE]]
    /\ start' = [p \in Programs |-> "none"]
    /\ hand' = NoHand
    /\ svc' = [stale |-> FALSE, left |-> FALSE]

\* Disks come blank, from another machine, or partitioned without a size of
\* sector, as NeFSParser::Format of the kernel leaves it.
Init ==
    /\ machine \in [size : DiskSizes, gop : BOOLEAN, mp : BOOLEAN, tail : {0, 1}, wide : BOOLEAN]
    /\ volume \in [chunks : [Files -> {0} \cup FileChunks], image : [Programs -> Images]]
    /\ disk \in [part : {NoBlock, FormatBlockKernel, [FormatBlock EXCEPT !.DiskSize = @ + 1]},
                 epm : {FALSE}, root : {FALSE}, cats : {0}]
    /\ pc = "main" /\ rd = NoRead
    /\ blob = [f \in Files |-> [got |-> 0, hole |-> FALSE, read |-> FALSE]]
    /\ start = [p \in Programs |-> "none"]
    /\ hand = NoHand
    /\ svc = [stale |-> FALSE, left |-> FALSE]
    /\ cuts = 0 /\ errors = 0

-----------------------------------------------------------------------------
(***************************************************************************)
(* Main, up to the check of the disk                                       *)
(***************************************************************************)
\* Without a graphics mode Main returns; the MP services are used unchecked.
Main ==
    /\ pc = "main"
    /\ pc' = CASE ~machine.gop -> "returned"
               [] machine.gop /\ ~machine.mp -> "fault"
               [] OTHER -> "check"
    /\ UNCHANGED <<machine, volume, disk, rd, blob, start, hand, svc, cuts, errors>>

\* A drive that was not detected reads as zeros and has no size.
CheckDisk ==
    /\ pc = "check"
    /\ pc' = IF IsPartitionValid THEN "map"
             ELSE IF GetDiskSize < MinDisk THEN "stopped" ELSE "format"
    /\ UNCHANGED <<machine, volume, disk, rd, blob, start, hand, svc, cuts, errors>>

(***************************************************************************)
(* Format writes the partition block, then the EPM block, then the root    *)
(* catalog, each at a place of its own; afterwards the machine is reset.   *)
(***************************************************************************)
WritePartition ==
    /\ pc = "format"
    /\ disk' = [disk EXCEPT !.part = FormatBlock]
    /\ pc' = "epm"
    /\ UNCHANGED <<machine, volume, rd, blob, start, hand, svc, cuts, errors>>

WriteEpm ==
    /\ pc = "epm"
    /\ disk' = [disk EXCEPT !.epm = TRUE]
    /\ pc' = "root"
    /\ UNCHANGED <<machine, volume, rd, blob, start, hand, svc, cuts, errors>>

WriteRootCatalog ==
    /\ pc = "root"
    /\ disk' = [disk EXCEPT !.root = TRUE]
    /\ pc' = "reset"
    /\ UNCHANGED <<machine, volume, rd, blob, start, hand, svc, cuts, errors>>

rt_reset_hardware ==
    /\ pc = "reset"
    /\ PowerOn
    /\ UNCHANGED <<machine, volume, disk, cuts, errors>>

PowerCut ==
    /\ cuts < MaxCuts
    /\ cuts' = cuts + 1
    /\ PowerOn
    /\ UNCHANGED <<machine, volume, disk, errors>>

-----------------------------------------------------------------------------
(***************************************************************************)
(* The memory map and the bit map of the kernel                            *)
(***************************************************************************)
\* The second GetMemoryMap comes after an allocation that changes the map: it
\* may fail, and the search then runs through memory nobody has filled.
GetMemoryMap ==
    /\ pc = "map"
    /\ svc' = [svc EXCEPT !.stale = FALSE]
    /\ pc' \in {"bitmap", "fault"}
    /\ UNCHANGED <<machine, volume, disk, rd, blob, start, hand, cuts, errors>>

\* AllocatePool takes 32 bits of the size it is asked for.
AllocateBitMap ==
    /\ pc = "bitmap"
    /\ hand' = [hand EXCEPT !.BitMap = BitMapSz, !.Pool = BitMapSz % Word32, !.Tables = TRUE]
    /\ svc' \in {svc, [svc EXCEPT !.stale = TRUE]}
    /\ rd' = [NoRead EXCEPT !.file = "syschk.sys"]
    /\ pc' = "open"
    /\ UNCHANGED <<machine, volume, disk, blob, start, cuts, errors>>

-----------------------------------------------------------------------------
(***************************************************************************)
(* BFileReader                                                             *)
(***************************************************************************)
\* A file that could not be opened is read through a null pointer.
OpenFile ==
    /\ pc = "open"
    /\ LET n == volume.chunks[rd.file] IN
         IF n = 0 THEN pc' = "fault" /\ UNCHANGED <<rd, svc>>
         ELSE /\ rd' \in {[rd EXCEPT !.until = n], rd}
              /\ svc' = [svc EXCEPT !.stale = TRUE]
              /\ pc' = "read"
    /\ UNCHANGED <<machine, volume, disk, blob, start, hand, cuts, errors>>

ReadChunkTwice ==
    /\ pc = "read" /\ rd.cnt < rd.until
    /\ rd' = [rd EXCEPT !.cnt = @ + 2 * rd.bufSize + 1]
    /\ UNCHANGED <<machine, volume, disk, pc, blob, start, hand, svc, cuts, errors>>
ReadChunk ==
    /\ pc = "read" /\ rd.cnt < rd.until
    /\ rd' = [rd EXCEPT !.cnt = @ + rd.bufSize]
    /\ UNCHANGED <<machine, volume, disk, pc, blob, start, hand, svc, cuts, errors>>

\* A failing read may leave the size as it was or set it to 0, and only
\* kBufferTooSmall, which no read of a file returns, sets it back.
ReadFails ==
    /\ pc = "read" /\ rd.cnt < rd.until /\ errors < MaxErrors
    /\ errors' = errors + 1
    /\ \E b \in {0, rd.bufSize} : rd' = [rd EXCEPT !.cnt = @ + b, !.bufSize = b]
    /\ blob' = [blob EXCEPT ![rd.file].hole = TRUE]
    /\ UNCHANGED <<machine, volume, disk, pc, start, hand, svc, cuts>>

NextFile == CASE rd.file = "startup.wav" -> "urbanist.ttf" [] OTHER -> "none"

FileRead ==
    /\ pc = "read" /\ rd.cnt >= rd.until
    /\ blob' = [blob EXCEPT ![rd.file] = [got |-> rd.cnt, hole |-> @.hole \/ rd.until = 0, read |-> TRUE]]
    /\ IF rd.file \in Programs
         THEN pc' = "load" /\ UNCHANGED <<rd, hand>>
         ELSE /\ rd' = [NoRead EXCEPT !.file = NextFile]
              /\ IF NextFile # "none"
                   THEN pc' = "open" /\ UNCHANGED hand
                   ELSE /\ pc' = "exit"
                        /\ hand' = [hand EXCEPT !.Rsrc = TRUE, !.Image = TRUE,
                                                !.ImageSz = blob["minoskrnl.exe"].got]
    /\ UNCHANGED <<machine, volume, disk, start, svc, cuts, errors>>

-----------------------------------------------------------------------------
(***************************************************************************)
(* BThread: an image is [kind, good, ldr, sections, size]; a section has a *)
(* name, a place in memory, one in the file and a size, in units of 512    *)
(* bytes.  SetMem and CopyMem write four times what they are asked for.    *)
(***************************************************************************)
Overrun == 4

\* Units per page of the firmware; the loader asks for one page per unit.
PageUnits == 8
PagesAsked(img) == img.size

Written(s) == s.va..(s.va + Overrun * s.size - 1)

\* The sections are copied in the order of their headers.
SectionOrder(img) == img.sections

\* The offset in the file of what memory unit a holds after loading.
UnitAt(img, a) ==
    LET ss == SectionOrder(img)
        i  == Max({j \in 1..Len(ss) : a \in Written(ss[j])}) IN
    ss[i].raw + (a - ss[i].va)

\* strcmp is the length of the common beginning: names that differ in their
\* first character count as equal.
IsCode(name) == name = ".text" \/ name = "plain"
IsLdr(name)  == name = ".ldr"

\* A stub is refused when both its magic and its type are wrong.
BadStub(img) == (\E i \in 1..Len(img.sections) : IsLdr(img.sections[i].name)) /\ img.ldr = "bad"

Loaded(img) ==
    CASE img.kind # "MZ" \/ ~img.good -> "null"
      [] BadStub(img) -> "stop"
      [] \E i \in 1..Len(img.sections) : IsCode(img.sections[i].name) -> "address"
      [] OTHER -> "null"

\* An image with missing parts may look like anything.
LoadImage ==
    /\ pc = "load"
    /\ \E r \in IF blob[rd.file].hole THEN {"null", "stop", "address"}
                ELSE {Loaded(volume.image[rd.file])} :
         /\ start' = [start EXCEPT ![rd.file] = IF r = "stop" THEN "null" ELSE r]
         /\ pc' = IF r = "stop" THEN "stopped"
                  ELSE IF rd.file = "syschk.sys" THEN "syschk" ELSE "kernelset"
    /\ svc' = [svc EXCEPT !.stale = TRUE]
    /\ UNCHANGED <<machine, volume, disk, rd, blob, hand, cuts, errors>>

\* BThread::Start without an address stops the machine.
StartSyschk ==
    /\ pc = "syschk"
    /\ pc' = IF start["syschk.sys"] = "null" THEN "stopped" ELSE "filled"
    /\ UNCHANGED <<machine, volume, disk, rd, blob, start, hand, svc, cuts, errors>>

FillHandover ==
    /\ pc = "filled"
    /\ hand' = [hand EXCEPT !.Tables = FALSE, !.Magic = TRUE]
    /\ rd' = [NoRead EXCEPT !.file = "minoskrnl.exe"]
    /\ pc' = "open"
    /\ UNCHANGED <<machine, volume, disk, blob, start, svc, cuts, errors>>

KernelThread ==
    /\ pc = "kernelset"
    /\ hand' = [hand EXCEPT !.Image = TRUE]
    /\ rd' = [NoRead EXCEPT !.file = "startup.wav"]
    /\ pc' = "open"
    /\ UNCHANGED <<machine, volume, disk, blob, start, svc, cuts, errors>>

\* The firmware refuses a key of an older map; the result is not looked at.
ExitBootServices ==
    /\ pc = "exit"
    /\ svc' = [svc EXCEPT !.left = ~svc.stale]
    /\ pc' = "start"
    /\ UNCHANGED <<machine, volume, disk, rd, blob, start, hand, cuts, errors>>

StartKernel ==
    /\ pc = "start"
    /\ pc' = IF start["minoskrnl.exe"] = "null" THEN "stopped" ELSE "kernel"
    /\ UNCHANGED <<machine, volume, disk, rd, blob, start, hand, svc, cuts, errors>>

\* hal_init_platform leaves when the magic and the version are both wrong.
hal_init_platform ==
    /\ pc = "kernel"
    /\ pc' = IF hand.Magic THEN "running" ELSE "stopped"
    /\ UNCHANGED <<machine, volume, disk, rd, blob, start, hand, svc, cuts, errors>>

\* The kernel creates a catalog, and counts it in the partition block.
KernelCreates ==
    /\ pc = "running" /\ disk.root /\ disk.part.Free > 0
    /\ disk' = [disk EXCEPT !.cats = @ + 1, !.part.Free = @ - 1]
    /\ UNCHANGED <<machine, volume, pc, rd, blob, start, hand, svc, cuts, errors>>

-----------------------------------------------------------------------------
Settled == pc \in {"returned", "fault", "stopped", "running"}

LoaderStep ==
    \/ Main \/ CheckDisk \/ WritePartition \/ WriteEpm \/ WriteRootCatalog \/ rt_reset_hardware
    \/ GetMemoryMap \/ AllocateBitMap \/ OpenFile \/ ReadChunk \/ FileRead
    \/ LoadImage \/ StartSyschk \/ FillHandover \/ KernelThread
    \/ ExitBootServices \/ StartKernel \/ hal_init_platform

Next == LoaderStep \/ ReadFails \/ PowerCut \/ KernelCreates

\* The processor goes on with the program.
Spec == Init /\ [][Next]_vars /\ WF_vars(LoaderStep)

-----------------------------------------------------------------------------
\* Every variable has its type.
TypeOK ==
    /\ pc \in {"main", "returned", "fault", "stopped", "check", "format", "epm", "root", "reset", "map",
               "bitmap", "open", "read", "load", "syschk", "filled", "kernelset", "exit", "start",
               "kernel", "running"}
    /\ rd.file \in Files \cup {"none"} /\ rd.cnt \in 0..Max(FileChunks) /\ rd.bufSize \in {0, 1}
    /\ disk.cats + disk.part.Free <= MaxCatalogs
    /\ cuts \in 0..MaxCuts /\ errors \in 0..MaxErrors

\* What the build puts after the literal is what Format leaves there.
IdentStable == FormatTail = machine.tail

\* The kernel starts with a partition block made for this drive, after both
\* programs had an address, with its resources, without the tables of the
\* firmware ("nullify these fields, to avoid being reused later"), and with all
\* of its image unless the firmware failed a read or a size.  The firmware is
\* still there: the key of the map is stale by then (BootMain.cc:321).
HandedOver ==
    pc \in {"kernel", "running"} =>
      /\ IsPartitionValid /\ machine.size >= 1
      /\ \A p \in Programs : start[p] = "address"
      /\ hand.Magic /\ ~hand.Tables /\ hand.Image /\ hand.Rsrc
      /\ \A f \in Files : blob[f].read
      /\ \A f \in Files : ~blob[f].hole => blob[f].got = volume.chunks[f]
      /\ hand.ImageSz = blob["minoskrnl.exe"].got /\ ~svc.left

\* The counters of the partition block go with the catalogs on the disk across
\* every reset and power cut: a disk in use is not formatted again.
CountsKept ==
    disk.cats > 0 => disk.part.Free = MaxCatalogs - disk.cats /\ disk.epm /\ disk.root

\* Loading writes nothing outside of the pages it asked for, though SetMem and
\* CopyMem overrun: the pages are counted in units of 512 bytes.
LoadConfined ==
    pc = "load" => \A i \in 1..Len(volume.image[rd.file].sections) :
        LET img == volume.image[rd.file] IN
        img.kind = "MZ" /\ img.good =>
          \A a \in Written(img.sections[i]) : a < PageUnits * PagesAsked(img)

\* Every section of an image whose headers are in the order of their addresses
\* is in memory as it is in the file once all are copied.
SectionsIntact ==
    pc = "load" =>
      LET img == volume.image[rd.file]
          ss  == img.sections IN
      (\A i, j \in 1..Len(ss) : i < j => ss[i].va + ss[i].size <= ss[j].va) =>
        \A i \in 1..Len(ss) : \A k \in 0..(ss[i].size - 1) :
          UnitAt(img, ss[i].va + k) = ss[i].raw + k

\* The machine comes to the kernel or to a stop, whatever was on the disk and
\* wherever the power was cut: a formatted disk is not formatted on and on, and
\* reading ends unless the firmware failed a read.
BootSettles == (IdentStable /\ []<>(errors = 0)) => <>[]Settled

\* What is left of a start, from the places of the loader: each of the four files
\* takes at most FileSteps, the last one the rest of the way to the kernel.
FileSteps == Max(FileChunks) + 8

FilesBehind ==
    CASE rd.file = "syschk.sys" -> 3 [] rd.file = "minoskrnl.exe" -> 2
      [] rd.file = "startup.wav" -> 1 [] OTHER -> 0

PlaceLeft ==
    CASE Settled -> 0
      [] pc = "kernel"    -> 1
      [] pc = "start"     -> 2
      [] pc = "exit"      -> 3
      [] pc = "load"      -> FilesBehind * FileSteps + 6
      [] pc = "read"      -> FilesBehind * FileSteps + 7 + (Max(FileChunks) - rd.cnt)
      [] pc = "open"      -> FilesBehind * FileSteps + 8 + Max(FileChunks)
      [] pc = "kernelset" -> 2 * FileSteps + 4
      [] pc = "filled"    -> 3 * FileSteps + 4
      [] pc = "syschk"    -> 3 * FileSteps + 5
      [] pc = "bitmap"    -> 4 * FileSteps + 6
      [] pc = "map"       -> 4 * FileSteps + 7
      [] pc = "check"     -> 4 * FileSteps + 8
      [] pc = "main"      -> 4 * FileSteps + 9
      [] pc = "reset"     -> 4 * FileSteps + 10
      [] pc = "root"      -> 4 * FileSteps + 11
      [] pc = "epm"       -> 4 * FileSteps + 12
      [] pc = "format"    -> 4 * FileSteps + 13

\* A disk that will not pass the check is formatted first.
StartLeft == PlaceLeft + (IF pc \in {"main", "check"} /\ ~IsPartitionValid THEN 10 ELSE 0)

\* Every step of the loader brings the machine nearer to the kernel or to a stop,
\* across the reset after a formatting, unless the power is cut or a read fails.
StartsDescend ==
    [][IdentStable /\ ~Settled /\ cuts' = cuts /\ errors' = errors
         => StartLeft' < StartLeft]_vars

\* The machine settles, and no place is passed twice on the way.
BootEnds == BootSettles /\ StartsDescend

\* What the loader hands over is complete and made for this drive, a disk in use
\* is not formatted again (BootMain.cc:174), and the loading of an image stays
\* in its pages and keeps every section (BootThread.cc:102).
BootSafe == HandedOver /\ CountsKept /\ LoadConfined /\ SectionsIntact
=============================================================================
