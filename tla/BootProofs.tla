----------------------------- MODULE BootProofs -----------------------------
(***************************************************************************)
(* Proofs about the boot loader, for every size of the drive, every set of *)
(* images and files and any number of power cuts and failing reads.        *)
(*                                                                         *)
(* The invariant says, for each place the loader can be at, what it has    *)
(* done since the last reset, and of the disk that one with catalogs on it *)
(* passes the check, so that a reset never leads to its formatting.        *)
(***************************************************************************)
EXTENDS BootLoader, TLAPS, FiniteSetTheorems, WellFoundedInduction

-----------------------------------------------------------------------------
(***************************************************************************)
(* The largest file                                                        *)
(***************************************************************************)
LEMMA LeastNumber ==
    ASSUME NEW T \in SUBSET Nat, T # {}
    PROVE  \E x \in T : \A y \in T : x <= y
  <1>1. PICK x \in T : \A y \in T : ~(<<y, x>> \in OpToRel(<, Nat))
    BY WFMin, NatLessThanWellFounded
  <1>2. \A y \in T : y \in Nat /\ x \in Nat /\ ~(y < x)
    BY <1>1 DEF OpToRel
  <1> QED
    BY <1>2

\* Max yields the largest number of a finite set: a smallest set without a
\* largest number would have one after the removal of any element.
LEMMA LargestNumber ==
    ASSUME NEW S \in SUBSET Nat, S # {}, IsFiniteSet(S)
    PROVE  Max(S) \in S /\ \A y \in S : y <= Max(S)
  <1> DEFINE HasMax(U) == \E x \in U : \A y \in U : x >= y
             T == {n \in Nat : \E U \in SUBSET S : U # {} /\ Cardinality(U) = n /\ ~HasMax(U)}
  <1>1. T = {}
    <2> SUFFICES ASSUME T # {} PROVE FALSE
      OBVIOUS
    <2>1. PICK n \in T : \A m \in T : n <= m
      BY LeastNumber
    <2>2. PICK U \in SUBSET S : U # {} /\ Cardinality(U) = n /\ ~HasMax(U)
      BY <2>1
    <2>3. PICK x \in U : TRUE
      BY <2>2
    <2> DEFINE V == U \ {x}
    <2>4. IsFiniteSet(U) /\ Cardinality(U) \in Nat
      BY FS_Subset, FS_CardinalityType
    <2>5. IsFiniteSet(V) /\ Cardinality(V) = Cardinality(U) - 1 /\ Cardinality(V) \in Nat
      BY <2>3, <2>4, FS_RemoveElement, FS_CardinalityType
    <2>6. \A y \in U : y \in Nat
      OBVIOUS
    <2>7. CASE V = {}
      <3>1. \A y \in U : x >= y
        BY <2>3, <2>6, <2>7
      <3> QED
        BY <2>2, <2>3, <3>1
    <2>8. CASE V # {}
      <3>1. Cardinality(V) \notin T
        <4>1. ~(n <= Cardinality(V))
          BY <2>2, <2>4, <2>5
        <4> HIDE DEF T, V
        <4> QED
          BY <2>1, <4>1
      <3>2. HasMax(V)
        BY <2>5, <2>8, <3>1
      <3>3. PICK z \in V : \A y \in V : z >= y
        BY <3>2
      <3>4. z \in Nat /\ x \in Nat /\ (x >= z \/ z >= x)
        BY <2>3, <2>6, <3>3
      <3>5. \A y \in U : y = x \/ y \in V
        OBVIOUS
      <3>6. CASE x >= z
        <4>1. \A y \in U : x >= y
          BY <2>6, <3>3, <3>4, <3>5, <3>6
        <4> QED
          BY <2>2, <2>3, <4>1
      <3>7. CASE z >= x
        <4>1. \A y \in U : z >= y
          BY <2>6, <3>3, <3>4, <3>5, <3>7
        <4> QED
          BY <2>2, <3>3, <4>1
      <3> QED
        BY <3>4, <3>6, <3>7
    <2> QED
      BY <2>7, <2>8
  <1>2. HasMax(S)
    BY <1>1, FS_CardinalityType
  <1>3. Max(S) \in S /\ \A y \in S : Max(S) >= y
    BY <1>2 DEF Max
  <1> QED
    BY <1>3

-----------------------------------------------------------------------------
(***************************************************************************)
(* The invariant                                                           *)
(***************************************************************************)
Places == {"main", "returned", "fault", "stopped", "check", "format", "epm", "root", "reset", "map",
           "bitmap", "open", "read", "load", "syschk", "filled", "kernelset", "exit", "start",
           "kernel", "running"}

Blocks == [Ident : BOOLEAN, tail : {0, 1}, DiskSize : Nat, SectorSize : Nat, Version : Nat,
           StartCatalog : Nat, Named : BOOLEAN, Free : Nat]

Machines == [size : DiskSizes, gop : BOOLEAN, mp : BOOLEAN, tail : {0, 1}, wide : BOOLEAN]
Volumes  == [chunks : [Files -> {0} \cup FileChunks], image : [Programs -> Images]]
Disks    == [part : Blocks, epm : BOOLEAN, root : BOOLEAN, cats : Nat]
Reads    == [file : Files \cup {"none"}, until : {0} \cup FileChunks, cnt : Nat, bufSize : {0, 1}]
Blobs    == [Files -> [got : Nat, hole : BOOLEAN, read : BOOLEAN]]
Starts   == [Programs -> {"none", "null", "address"}]
Hands    == [Magic : BOOLEAN, BitMap : Nat, Pool : Nat, Tables : BOOLEAN,
             Image : BOOLEAN, ImageSz : Nat, Rsrc : BOOLEAN]
Services == [stale : BOOLEAN, left : BOOLEAN]

Types ==
    /\ machine \in Machines /\ volume \in Volumes /\ disk \in Disks /\ pc \in Places
    /\ rd \in Reads /\ blob \in Blobs /\ start \in Starts /\ hand \in Hands /\ svc \in Services
    /\ cuts \in 0..MaxCuts /\ errors \in 0..MaxErrors

\* The counters go with the catalogs, and a disk in use passes the check.
DiskInv ==
    /\ disk.cats <= MaxCatalogs
    /\ disk.part.Free = IF disk.part.Ident THEN MaxCatalogs - disk.cats ELSE 0
    /\ disk.cats > 0 => disk.root /\ IsPartitionValid
    /\ disk.root => disk.epm
    /\ pc \in {"format", "epm", "root", "reset"} => disk.cats = 0
    /\ pc = "root" => disk.epm

Reading == {"open", "read", "load"}

\* The locals of ReadAll: a short read leaves a hole in its blob.
ReadInv ==
    /\ rd.cnt <= rd.until
    /\ pc \in Reading => rd.file \in Files
    /\ pc = "open" => rd = [NoRead EXCEPT !.file = rd.file]
    /\ pc \in {"open", "read"} /\ rd.bufSize = 0 => blob[rd.file].hole
    /\ pc = "read" /\ rd.until # 0 => rd.until = volume.chunks[rd.file]
    /\ pc = "load" => rd.file \in Programs

Whole(f) == blob[f].read /\ (~blob[f].hole => blob[f].got = volume.chunks[f])

\* What has been done by the time the loader is at a place.
Checked  == {"map", "bitmap", "open", "read", "load", "syschk", "filled", "kernelset",
             "exit", "start", "kernel", "running"}
SyschkOver ==
    \/ pc \in {"kernelset", "exit", "start", "kernel", "running"}
    \/ pc \in Reading /\ rd.file # "syschk.sys"
KernelOver ==
    \/ pc \in {"exit", "start", "kernel", "running"}
    \/ pc \in Reading /\ rd.file \in Resources

StageInv ==
    /\ pc \in Checked => IsPartitionValid
    /\ pc = "load" => Whole(rd.file)
    /\ pc \in {"read", "load", "syschk", "filled", "kernelset", "exit"} => svc.stale
    /\ pc \in {"syschk", "filled"} => Whole("syschk.sys")
    /\ pc = "syschk" => start["syschk.sys"] # "none"
    /\ pc = "filled" => start["syschk.sys"] = "address"
    /\ SyschkOver => /\ Whole("syschk.sys") /\ start["syschk.sys"] = "address"
                     /\ hand.Magic /\ ~hand.Tables
    /\ pc = "kernelset" => Whole("minoskrnl.exe") /\ start["minoskrnl.exe"] # "none"
    /\ KernelOver => /\ Whole("minoskrnl.exe") /\ start["minoskrnl.exe"] # "none"
                     /\ hand.Image
    /\ pc \in Reading /\ rd.file = "urbanist.ttf" => Whole("startup.wav")
    /\ pc \in {"exit", "start", "kernel", "running"} =>
         /\ Whole("startup.wav") /\ Whole("urbanist.ttf")
         /\ hand.Rsrc /\ hand.ImageSz = blob["minoskrnl.exe"].got
    /\ pc \in {"start", "kernel", "running"} => ~svc.left
    /\ pc \in {"kernel", "running"} => start["minoskrnl.exe"] = "address"

IndInv == Types /\ DiskInv /\ ReadInv /\ StageInv

-----------------------------------------------------------------------------
LEMMA Constants ==
    /\ DiskSizes \subseteq Nat /\ MinDisk \in Nat \ {0} /\ FileChunks \subseteq Nat \ {0}
    /\ Word32 \in Nat \ {0} /\ BitMapSz \in Nat /\ BitMapSz % Word32 \in Nat
    /\ MaxCatalogs \in Nat /\ MaxCuts \in Nat /\ MaxErrors \in Nat
  BY BootAssumption

\* The blocks written to a disk are blocks with all catalogs free.
LEMMA FormattedBlocks ==
    ASSUME machine \in Machines
    PROVE  /\ NoBlock \in Blocks /\ FormatBlock \in Blocks /\ FormatBlockKernel \in Blocks
           /\ [FormatBlock EXCEPT !.DiskSize = @ + 1] \in Blocks
           /\ ~NoBlock.Ident /\ NoBlock.Free = 0
           /\ FormatBlock.Ident /\ FormatBlock.Free = MaxCatalogs
           /\ FormatBlockKernel.Ident /\ FormatBlockKernel.Free = MaxCatalogs
           /\ [FormatBlock EXCEPT !.DiskSize = @ + 1].Ident
           /\ [FormatBlock EXCEPT !.DiskSize = @ + 1].Free = MaxCatalogs
  <1>1. machine.size \in Nat /\ machine.tail \in {0, 1} /\ FormatTail \in {0, 1}
    BY Constants DEF Machines, FormatTail
  <1>2. NoBlock \in Blocks /\ ~NoBlock.Ident /\ NoBlock.Free = 0
    BY DEF NoBlock, Blocks
  <1>3. FormatBlock \in Blocks /\ FormatBlock.Ident /\ FormatBlock.Free = MaxCatalogs
    BY <1>1, Constants DEF FormatBlock, Blocks, GetDiskSize, kSectorSize, kNeFSVersionInteger,
         kNeFSCatalogStartAddress
  <1>4. FormatBlockKernel \in Blocks /\ FormatBlockKernel.Ident /\ FormatBlockKernel.Free = MaxCatalogs
    BY <1>1, Constants DEF FormatBlockKernel, Blocks, GetDiskSize, kNeFSVersionInteger,
         kNeFSCatalogStartAddress
  <1>5. /\ [FormatBlock EXCEPT !.DiskSize = @ + 1] \in Blocks
        /\ [FormatBlock EXCEPT !.DiskSize = @ + 1].Ident
        /\ [FormatBlock EXCEPT !.DiskSize = @ + 1].Free = MaxCatalogs
    BY <1>3 DEF Blocks
  <1> QED
    BY <1>2, <1>3, <1>4, <1>5

LEMMA ChunkNumbers == {0} \cup FileChunks \subseteq Nat
  BY BootAssumption

\* The check depends on the machine and on the disk only.
LEMMA CheckKept ==
    ASSUME UNCHANGED <<machine, disk>>
    PROVE  IsPartitionValid' <=> IsPartitionValid
  BY DEF IsPartitionValid, PartitionRead, GetDiskSize

LEMMA CheckPassed ==
    ASSUME IsPartitionValid, machine \in Machines
    PROVE  machine.size >= 1 /\ disk.part.Ident /\ PartitionRead = disk.part
  BY Constants DEF IsPartitionValid, PartitionRead, GetDiskSize, NoBlock, Machines

\* Counting a catalog in the block does not change the verdict on it.
LEMMA CheckIgnoresFree ==
    ASSUME Types, IsPartitionValid, NEW n \in Nat, machine' = machine,
           disk'.part = [disk.part EXCEPT !.Free = n]
    PROVE  IsPartitionValid'
  <1>1. machine.size # 0 /\ disk.part \in Blocks
    BY CheckPassed, Constants DEF Types, Disks, Machines
  <1>2. PartitionRead' = disk'.part
    BY <1>1 DEF PartitionRead, GetDiskSize
  <1>3. PartitionRead = disk.part
    BY <1>1 DEF PartitionRead, GetDiskSize
  <1> QED
    BY <1>1, <1>2, <1>3 DEF IsPartitionValid, GetDiskSize, Blocks

-----------------------------------------------------------------------------
LEMMA InitHolds == Init => IndInv
  <1> SUFFICES ASSUME Init PROVE IndInv
    OBVIOUS
  <1>1. machine \in Machines /\ volume \in Volumes
    BY DEF Init, Machines, Volumes
  <1>2. /\ disk.part \in Blocks /\ disk.cats = 0 /\ ~disk.epm /\ ~disk.root
        /\ disk.part.Free = IF disk.part.Ident THEN MaxCatalogs - disk.cats ELSE 0
        /\ disk \in Disks
    <2>1. /\ disk \in [part : {NoBlock, FormatBlockKernel, [FormatBlock EXCEPT !.DiskSize = @ + 1]},
                        epm : {FALSE}, root : {FALSE}, cats : {0}]
      BY DEF Init
    <2>2. disk.cats = 0 /\ ~disk.epm /\ ~disk.root
      BY <2>1
    <2>3. /\ disk.part \in Blocks
          /\ disk.part.Free = IF disk.part.Ident THEN MaxCatalogs ELSE 0
      BY <1>1, <2>1, FormattedBlocks
    <2>4. disk \in Disks
      <3>1. disk = [part |-> disk.part, epm |-> disk.epm, root |-> disk.root, cats |-> disk.cats]
        BY <2>1
      <3>2. disk.epm \in BOOLEAN /\ disk.root \in BOOLEAN
        BY <2>1
      <3>3. [part |-> disk.part, epm |-> disk.epm, root |-> disk.root, cats |-> disk.cats] \in Disks
        BY <2>2, <2>3, <3>2 DEF Disks
      <3> QED
        BY <3>1, <3>3, Zenon
    <2>5. MaxCatalogs - disk.cats = MaxCatalogs
      BY <2>2, Constants
    <2> QED
      BY <2>2, <2>3, <2>4, <2>5
  <1>3. Types
    BY <1>1, <1>2, Constants DEF Init, Types, Places, Reads, NoRead, Blobs, Starts, Hands, NoHand, Services, Files
  <1>4. DiskInv
    BY <1>2, Constants DEF Init, DiskInv
  <1>5. ReadInv
    BY DEF Init, ReadInv, NoRead, Reading
  <1>6. StageInv
    BY DEF Init, StageInv, Checked, SyschkOver, KernelOver, Reading
  <1> QED
    BY <1>3, <1>4, <1>5, <1>6 DEF IndInv

\* A reset, by the program or by the power, keeps the disk.
LEMMA PowerOnKeeps ==
    ASSUME IndInv, PowerOn, UNCHANGED <<machine, volume, disk>>,
           cuts' \in 0..MaxCuts, errors' \in 0..MaxErrors
    PROVE  IndInv'
  <1>1. Types'
    BY DEF IndInv, Types, PowerOn, Places, Reads, NoRead, Blobs, Starts, Hands, NoHand, Services, Files
  <1>2. DiskInv'
    BY CheckKept DEF IndInv, DiskInv, PowerOn
  <1>3. ReadInv'
    BY DEF PowerOn, ReadInv, NoRead, Reading
  <1>4. StageInv'
    BY DEF PowerOn, StageInv, Checked, SyschkOver, KernelOver, Reading
  <1> QED
    BY <1>1, <1>2, <1>3, <1>4 DEF IndInv

\* The steps that move only the place, or the place and the firmware's state.
LEMMA PlaceSteps ==
    ASSUME IndInv, Main \/ CheckDisk \/ GetMemoryMap \/ StartSyschk \/ ExitBootServices \/ StartKernel
                     \/ hal_init_platform
    PROVE  IndInv'
  <1> USE DEF IndInv
  <1>1. UNCHANGED <<machine, volume, disk, rd, blob, start, hand, cuts, errors>>
    BY DEF Main, CheckDisk, GetMemoryMap, StartSyschk, ExitBootServices, StartKernel, hal_init_platform
  <1>2. IsPartitionValid' <=> IsPartitionValid
    BY <1>1, CheckKept
  <1>3. svc' \in Services
    BY DEF Main, CheckDisk, GetMemoryMap, StartSyschk, ExitBootServices, StartKernel, hal_init_platform,
           Types, Services
  <1>4. pc' \in Places
    BY DEF Main, CheckDisk, GetMemoryMap, StartSyschk, ExitBootServices, StartKernel, hal_init_platform,
           Places
  <1>5. Types'
    BY <1>1, <1>3, <1>4 DEF Types
  <1>6. pc' \notin {"open", "read", "load", "epm", "root", "reset"}
    BY DEF Main, CheckDisk, GetMemoryMap, StartSyschk, ExitBootServices, StartKernel, hal_init_platform
  <1>7. DiskInv'
    <2>1. pc' = "format" => ~IsPartitionValid
      BY DEF Main, CheckDisk, GetMemoryMap, StartSyschk, ExitBootServices, StartKernel, hal_init_platform
    <2>2. disk.cats \in Nat
      BY DEF Types, Disks
    <2> QED
      BY <1>1, <1>2, <1>6, <2>1, <2>2 DEF DiskInv
  <1>8. ReadInv'
    BY <1>1, <1>6 DEF ReadInv, Reading
  <1>9. StageInv'
    <2>1. start \in Starts /\ svc \in Services
      BY DEF Types
    <2> USE DEF StageInv, Checked, SyschkOver, KernelOver, Reading, Whole
    <2>2. CASE Main
      BY <1>1, <2>2 DEF Main
    <2>3. CASE CheckDisk
      BY <1>1, <1>2, <2>3 DEF CheckDisk
    <2>4. CASE GetMemoryMap
      BY <1>1, <1>2, <2>4 DEF GetMemoryMap
    <2>5. CASE StartSyschk
      BY <1>1, <1>2, <2>1, <2>5 DEF StartSyschk, Starts, Programs
    <2>6. CASE ExitBootServices
      BY <1>1, <1>2, <2>1, <2>6 DEF ExitBootServices, Services
    <2>7. CASE StartKernel
      BY <1>1, <1>2, <2>1, <2>7 DEF StartKernel, Starts, Programs
    <2>8. CASE hal_init_platform
      BY <1>1, <1>2, <2>8 DEF hal_init_platform
    <2> QED
      BY <2>2, <2>3, <2>4, <2>5, <2>6, <2>7, <2>8
  <1> QED
    BY <1>5, <1>7, <1>8, <1>9

\* The writes of Format, and the kernel's, to the disk.
LEMMA DiskSteps ==
    ASSUME IndInv, WritePartition \/ WriteEpm \/ WriteRootCatalog \/ KernelCreates
    PROVE  IndInv'
  <1> USE DEF IndInv
  <1>1. UNCHANGED <<machine, volume, rd, blob, start, hand, svc, cuts, errors>>
    BY DEF WritePartition, WriteEpm, WriteRootCatalog, KernelCreates
  <1>2. machine \in Machines /\ disk \in Disks /\ disk.part \in Blocks /\ disk.cats \in Nat
    BY DEF Types, Disks
  <1>3. CASE WritePartition
    <2>1. disk' = [disk EXCEPT !.part = FormatBlock] /\ pc' = "epm" /\ pc = "format"
      BY <1>3 DEF WritePartition
    <2>2. disk' \in Disks /\ disk'.part = FormatBlock /\ disk'.cats = disk.cats
          /\ disk'.epm = disk.epm /\ disk'.root = disk.root
      BY <1>2, <2>1, FormattedBlocks DEF Disks
    <2>3. Types'
      BY <1>1, <2>1, <2>2 DEF Types, Places
    <2>4. DiskInv'
      BY <1>2, <2>1, <2>2, FormattedBlocks, Constants DEF DiskInv
    <2> QED
      BY <1>1, <2>1, <2>3, <2>4 DEF ReadInv, StageInv, Checked, SyschkOver, KernelOver, Reading
  <1>4. CASE WriteEpm
    <2>1. disk' = [disk EXCEPT !.epm = TRUE] /\ pc' = "root" /\ pc = "epm"
      BY <1>4 DEF WriteEpm
    <2>2. disk' \in Disks /\ disk'.part = disk.part /\ disk'.cats = disk.cats
          /\ disk'.epm /\ disk'.root = disk.root
      BY <1>2, <2>1 DEF Disks
    <2>3. Types'
      BY <1>1, <2>1, <2>2 DEF Types, Places
    <2>4. DiskInv'
      BY <1>2, <2>1, <2>2, Constants DEF DiskInv
    <2> QED
      BY <1>1, <2>1, <2>3, <2>4 DEF ReadInv, StageInv, Checked, SyschkOver, KernelOver, Reading
  <1>5. CASE WriteRootCatalog
    <2>1. disk' = [disk EXCEPT !.root = TRUE] /\ pc' = "reset" /\ pc = "root"
      BY <1>5 DEF WriteRootCatalog
    <2>2. disk' \in Disks /\ disk'.part = disk.part /\ disk'.cats = disk.cats
          /\ disk'.epm = disk.epm /\ disk'.root
      BY <1>2, <2>1 DEF Disks
    <2>3. Types'
      BY <1>1, <2>1, <2>2 DEF Types, Places
    <2>4. DiskInv'
      BY <1>2, <2>1, <2>2, Constants DEF DiskInv
    <2> QED
      BY <1>1, <2>1, <2>3, <2>4 DEF ReadInv, StageInv, Checked, SyschkOver, KernelOver, Reading
  <1>6. CASE KernelCreates
    <2>1. /\ disk' = [disk EXCEPT !.cats = @ + 1, !.part.Free = @ - 1] /\ pc' = pc /\ pc = "running"
          /\ disk.root /\ disk.part.Free > 0
      BY <1>6 DEF KernelCreates
    <2>2. disk.part.Free - 1 \in Nat /\ disk.part.Ident /\ disk.part.Free = MaxCatalogs - disk.cats
      BY <1>2, <2>1, Constants DEF DiskInv, Blocks
    <2> DEFINE b == [disk.part EXCEPT !.Free = disk.part.Free - 1]
    <2>3. b \in Blocks /\ b.Free = disk.part.Free - 1 /\ b.Ident
      BY <1>2, <2>2 DEF Blocks
    <2>4. disk' \in Disks /\ disk'.part = b /\ disk'.cats = disk.cats + 1
          /\ disk'.epm = disk.epm /\ disk'.root = disk.root
      <3>1. disk' = [disk EXCEPT !.part = b, !.cats = disk.cats + 1]
        BY <1>2, <2>1 DEF Disks, Blocks
      <3>2. disk.cats + 1 \in Nat
        BY <1>2
      <3> HIDE DEF b
      <3>3. disk' \in Disks
        BY <1>2, <2>3, <3>1, <3>2 DEF Disks
      <3>4. disk'.part = b /\ disk'.cats = disk.cats + 1
        BY <1>2, <3>1 DEF Disks
      <3>5. disk'.epm = disk.epm /\ disk'.root = disk.root
        BY <1>2, <3>1 DEF Disks
      <3> QED
        BY <3>3, <3>4, <3>5
    <2>5. IsPartitionValid
      BY <2>1 DEF StageInv, Checked
    <2>6. IsPartitionValid'
      BY <1>1, <2>2, <2>4, <2>5, CheckIgnoresFree
    <2>7. Types'
      BY <1>1, <2>1, <2>4 DEF Types
    <2>8. DiskInv'
      <3>1. disk'.cats <= MaxCatalogs /\ b.Free = MaxCatalogs - disk'.cats
        BY <1>2, <2>1, <2>2, <2>3, <2>4, Constants
      <3> HIDE DEF b
      <3> QED
        BY <2>1, <2>3, <2>4, <2>6, <3>1 DEF DiskInv
    <2>9. ReadInv'
      BY <1>1, <2>1 DEF ReadInv
    <2>10. StageInv'
      BY <1>1, <2>1, <2>6 DEF StageInv, Checked, SyschkOver, KernelOver, Reading, Whole
    <2> QED
      BY <2>7, <2>8, <2>9, <2>10
  <1> QED
    BY <1>3, <1>4, <1>5, <1>6

\* A disk that is only read keeps its invariant, unless formatting begins.
LEMMA DiskUntouched ==
    ASSUME IndInv, UNCHANGED <<machine, disk>>, pc' \notin {"format", "epm", "root", "reset"}
    PROVE  DiskInv'
  BY CheckKept DEF IndInv, DiskInv

LEMMA FirstOfFile ==
    ASSUME NEW f \in Files \cup {"none"}
    PROVE  /\ [NoRead EXCEPT !.file = f] \in Reads
           /\ [NoRead EXCEPT !.file = f].file = f /\ [NoRead EXCEPT !.file = f].cnt = 0
           /\ [NoRead EXCEPT !.file = f].until = 0 /\ [NoRead EXCEPT !.file = f].bufSize = 1
  BY DEF NoRead, Reads

LEMMA FileNames ==
    /\ Programs \subseteq Files /\ Resources \subseteq Files
    /\ "syschk.sys" \in Programs /\ "minoskrnl.exe" \in Programs
    /\ "startup.wav" \in Resources /\ "urbanist.ttf" \in Resources
    /\ \A f \in Files : f \in {"syschk.sys", "minoskrnl.exe", "startup.wav", "urbanist.ttf"}
    /\ \A f \in Resources : f \notin Programs /\ f \in {"startup.wav", "urbanist.ttf"}
    /\ \A f \in Programs : f \notin Resources /\ f \in {"syschk.sys", "minoskrnl.exe"}
  BY DEF Files, Programs, Resources

\* The steps that set the next file to be opened.
LEMMA OpeningSteps ==
    ASSUME IndInv, AllocateBitMap \/ FillHandover \/ KernelThread
    PROVE  IndInv'
  <1> USE DEF IndInv
  <1>1. UNCHANGED <<machine, volume, disk, blob, start, cuts, errors>> /\ pc' = "open"
    BY DEF AllocateBitMap, FillHandover, KernelThread
  <1>2. PICK f \in Files : rd' = [NoRead EXCEPT !.file = f]
    BY FileNames DEF AllocateBitMap, FillHandover, KernelThread
  <1>3. rd' \in Reads /\ rd'.file = f /\ rd'.cnt = 0 /\ rd'.until = 0 /\ rd'.bufSize = 1
    BY <1>2, FirstOfFile
  <1>4. hand \in Hands /\ svc \in Services
    BY DEF Types
  <1>5. hand' \in Hands /\ svc' \in Services
    BY <1>4, Constants DEF AllocateBitMap, FillHandover, KernelThread, Hands, Services
  <1>6. Types'
    BY <1>1, <1>3, <1>5 DEF Types, Places
  <1>7. DiskInv'
    BY <1>1, DiskUntouched
  <1>8. ReadInv'
    BY <1>1, <1>2, <1>3 DEF ReadInv, Reading
  <1>9. StageInv'
    <2>1. IsPartitionValid' <=> IsPartitionValid
      BY <1>1, CheckKept
    <2> USE DEF StageInv, Checked, SyschkOver, KernelOver, Reading, Whole
    <2>2. CASE AllocateBitMap
      <3>1. rd'.file = "syschk.sys"
        BY <2>2, FirstOfFile, FileNames DEF AllocateBitMap
      <3> QED
        BY <1>1, <2>1, <2>2, <3>1, FileNames DEF AllocateBitMap
    <2>3. CASE FillHandover
      <3>1. rd'.file = "minoskrnl.exe" /\ "minoskrnl.exe" \notin Resources
        BY <2>3, FirstOfFile, FileNames DEF FillHandover
      <3>2. hand'.Magic /\ ~hand'.Tables
        BY <1>4, <2>3 DEF FillHandover, Hands
      <3>3. pc = "filled"
        BY <2>3 DEF FillHandover
      <3> QED
        BY <1>1, <2>1, <3>1, <3>2, <3>3
    <2>4. CASE KernelThread
      <3>1. rd'.file = "startup.wav"
        BY <2>4, FirstOfFile, FileNames DEF KernelThread
      <3>2. hand'.Magic = hand.Magic /\ hand'.Tables = hand.Tables /\ hand'.Image
        BY <1>4, <2>4 DEF KernelThread, Hands
      <3>3. pc = "kernelset"
        BY <2>4 DEF KernelThread
      <3> QED
        BY <1>1, <2>1, <3>1, <3>2, <3>3
    <2> QED
      BY <2>2, <2>3, <2>4
  <1> QED
    BY <1>6, <1>7, <1>8, <1>9

LEMMA OpenKeeps ==
    ASSUME IndInv, OpenFile
    PROVE  IndInv'
  <1> USE DEF IndInv
  <1>1. UNCHANGED <<machine, volume, disk, blob, start, hand, cuts, errors>> /\ pc = "open"
    BY DEF OpenFile
  <1>2. DiskInv'
    BY <1>1, DiskUntouched DEF OpenFile
  <1>3. IsPartitionValid' <=> IsPartitionValid
    BY <1>1, CheckKept
  <1> DEFINE n == volume.chunks[rd.file]
  <1>4. rd.file \in Files /\ n \in {0} \cup FileChunks
    BY <1>1 DEF ReadInv, Reading, Types, Volumes
  <1>5. rd \in Reads /\ rd.cnt = 0 /\ rd.until = 0 /\ rd.bufSize = 1 /\ svc \in Services
    BY <1>1, <1>4, FirstOfFile DEF ReadInv, Types
  <1>6. CASE n = 0
    <2>1. pc' = "fault" /\ UNCHANGED <<rd, svc>>
      BY <1>6 DEF OpenFile
    <2> QED
      BY <1>1, <1>2, <2>1 DEF Types, Places, ReadInv, StageInv, Checked, SyschkOver, KernelOver, Reading
  <1>7. CASE n # 0
    <2>1. rd' \in {[rd EXCEPT !.until = n], rd} /\ svc' = [svc EXCEPT !.stale = TRUE] /\ pc' = "read"
      BY <1>7 DEF OpenFile
    <2>2. /\ rd' \in Reads /\ rd'.file = rd.file /\ rd'.cnt = 0 /\ rd'.bufSize = 1
          /\ rd'.until = 0 \/ rd'.until = n
      BY <1>4, <1>5, <2>1 DEF Reads
    <2>3. svc' \in Services /\ svc'.stale
      BY <1>5, <2>1 DEF Services
    <2>4. Types'
      BY <1>1, <2>1, <2>2, <2>3 DEF Types, Places
    <2>5. ReadInv'
      <3>1. rd'.cnt <= rd'.until
        <4>1. n \in Nat
          BY <1>4, ChunkNumbers
        <4> HIDE DEF n
        <4> QED
          BY <2>2, <4>1
      <3> QED
        BY <1>1, <1>4, <2>1, <2>2, <3>1 DEF ReadInv, Reading
    <2>6. StageInv'
      BY <1>1, <1>3, <2>1, <2>2, <2>3 DEF StageInv, Checked, SyschkOver, KernelOver, Reading, Whole
    <2> QED
      BY <1>2, <2>4, <2>5, <2>6
  <1> QED
    BY <1>6, <1>7

LEMMA ReadingKeeps ==
    ASSUME IndInv, ReadChunk \/ ReadFails
    PROVE  IndInv'
  <1> USE DEF IndInv
  <1>1. /\ UNCHANGED <<machine, volume, disk, pc, start, hand, svc, cuts>>
        /\ pc = "read" /\ rd.cnt < rd.until
    BY DEF ReadChunk, ReadFails
  <1>2. DiskInv'
    BY <1>1, DiskUntouched
  <1>3. IsPartitionValid' <=> IsPartitionValid
    BY <1>1, CheckKept
  <1>4. rd.file \in Files /\ rd \in Reads /\ blob \in Blobs
    BY <1>1 DEF ReadInv, Reading, Types
  <1>5. /\ rd.cnt \in Nat /\ rd.bufSize \in {0, 1} /\ rd.until \in Nat
        /\ blob[rd.file] \in [got : Nat, hole : BOOLEAN, read : BOOLEAN]
    <2>1. rd.cnt \in Nat /\ rd.bufSize \in {0, 1} /\ rd.until \in {0} \cup FileChunks
      BY <1>4 DEF Reads
    <2>2. blob[rd.file] \in [got : Nat, hole : BOOLEAN, read : BOOLEAN]
      BY <1>4 DEF Blobs
    <2> QED
      BY <2>1, <2>2, ChunkNumbers
  <1>6. errors' \in 0..MaxErrors
    BY Constants DEF ReadChunk, ReadFails, Types
  <1>7. /\ \E b \in {0, 1} : /\ b = 0 \/ rd.bufSize = b
                             /\ rd' = [rd EXCEPT !.cnt = @ + b, !.bufSize = b]
        /\ rd'.bufSize = rd.bufSize \/ blob'[rd.file].hole
        /\ blob' = blob \/ blob' = [blob EXCEPT ![rd.file].hole = TRUE]
    <2>1. CASE ReadChunk
      <3>1. rd' = [rd EXCEPT !.cnt = @ + rd.bufSize] /\ blob' = blob
        BY <2>1 DEF ReadChunk
      <3>2. rd' = [rd EXCEPT !.cnt = @ + rd.bufSize, !.bufSize = rd.bufSize]
        BY <1>4, <3>1 DEF Reads
      <3>3. rd'.bufSize = rd.bufSize
        BY <1>4, <3>1 DEF Reads
      <3> QED
        BY <1>5, <3>1, <3>2, <3>3
    <2>2. CASE ReadFails
      <3>1. blob' = [blob EXCEPT ![rd.file].hole = TRUE]
        BY <2>2 DEF ReadFails
      <3>2. blob'[rd.file].hole
        BY <1>4, <1>5, <3>1 DEF Blobs
      <3> QED
        BY <1>5, <2>2, <3>1, <3>2 DEF ReadFails
    <2> QED
      BY <2>1, <2>2
  <1>8. PICK b \in {0, 1} : /\ b = 0 \/ rd.bufSize = b
                            /\ rd' = [rd EXCEPT !.cnt = @ + b, !.bufSize = b]
    BY <1>7
  <1>9. /\ rd' \in Reads /\ rd'.file = rd.file /\ rd'.until = rd.until
        /\ rd'.cnt = rd.cnt + b /\ rd'.bufSize = b
    <2>1. rd.cnt + b \in Nat
      BY <1>5
    <2>2. rd' = [rd EXCEPT !.cnt = rd.cnt + b, !.bufSize = b]
      BY <1>8
    <2>3. rd' \in Reads
      BY <1>4, <2>1, <2>2 DEF Reads
    <2> QED
      BY <1>4, <2>2, <2>3 DEF Reads
  <1>10. rd'.cnt <= rd'.until
    BY <1>1, <1>5, <1>9
  <1>11. /\ blob' \in Blobs
         /\ \A f \in Files : /\ blob'[f].got = blob[f].got /\ blob'[f].read = blob[f].read
                             /\ blob[f].hole => blob'[f].hole
    <2>1. CASE blob' = blob
      BY <1>4, <2>1
    <2>2. CASE blob' = [blob EXCEPT ![rd.file].hole = TRUE]
      <3> DEFINE r == [blob[rd.file] EXCEPT !.hole = TRUE]
      <3>1. /\ r \in [got : Nat, hole : BOOLEAN, read : BOOLEAN]
            /\ r.got = blob[rd.file].got /\ r.read = blob[rd.file].read /\ r.hole
        BY <1>5
      <3>2. blob' = [blob EXCEPT ![rd.file] = r]
        BY <2>2
      <3> HIDE DEF r
      <3>3. blob' \in Blobs
        BY <1>4, <3>1, <3>2 DEF Blobs
      <3>4. \A f \in Files : blob'[f] = IF f = rd.file THEN r ELSE blob[f]
        BY <1>4, <3>2 DEF Blobs
      <3> QED
        BY <3>1, <3>3, <3>4
    <2> QED
      BY <1>7, <2>1, <2>2
  <1>12. Types'
    BY <1>1, <1>6, <1>9, <1>11 DEF Types
  <1>13. ReadInv'
    BY <1>1, <1>4, <1>7, <1>9, <1>10, <1>11 DEF ReadInv, Reading
  <1>14. \A f \in Files : Whole(f) => Whole(f)'
    BY <1>1, <1>11 DEF Whole
  <1>15. StageInv'
    BY <1>1, <1>3, <1>9, <1>11, <1>14, FileNames DEF StageInv, Checked, SyschkOver, KernelOver, Reading
  <1> QED
    BY <1>2, <1>12, <1>13, <1>15

\* A file has been read: either all of it, or its blob is marked.
LEMMA FileReadKeeps ==
    ASSUME IndInv, FileRead
    PROVE  IndInv'
  <1> USE DEF IndInv
  <1>1. /\ UNCHANGED <<machine, volume, disk, start, svc, cuts, errors>>
        /\ pc = "read" /\ rd.cnt >= rd.until
    BY DEF FileRead
  <1>2. pc' \in {"load", "open", "exit"}
    BY DEF FileRead
  <1>3. DiskInv'
    BY <1>1, <1>2, DiskUntouched
  <1>4. IsPartitionValid' <=> IsPartitionValid
    BY <1>1, CheckKept
  <1>5. rd.file \in Files /\ rd \in Reads /\ blob \in Blobs /\ hand \in Hands
    BY <1>1 DEF ReadInv, Reading, Types
  <1>6. rd.cnt \in Nat /\ rd.until \in Nat /\ rd.cnt = rd.until
    <2>1. rd.cnt \in Nat /\ rd.until \in Nat
      BY <1>5, ChunkNumbers DEF Reads
    <2> QED
      BY <1>1, <2>1 DEF ReadInv
  <1> DEFINE r == [got |-> rd.cnt, hole |-> blob[rd.file].hole \/ rd.until = 0, read |-> TRUE]
  <1>7. /\ r \in [got : Nat, hole : BOOLEAN, read : BOOLEAN] /\ r.read
        /\ ~r.hole => r.got = volume.chunks[rd.file]
    <2>1. r.read /\ r.got = rd.cnt /\ (~r.hole => rd.until # 0)
      OBVIOUS
    <2>2. r \in [got : Nat, hole : BOOLEAN, read : BOOLEAN]
      BY <1>6
    <2> QED
      BY <1>1, <1>6, <2>1, <2>2 DEF ReadInv
  <1>8. blob' = [blob EXCEPT ![rd.file] = r]
    BY DEF FileRead
  <1> HIDE DEF r
  <1>9. blob' \in Blobs /\ \A f \in Files : blob'[f] = IF f = rd.file THEN r ELSE blob[f]
    BY <1>5, <1>7, <1>8 DEF Blobs
  <1>10. \A f \in Files : f = rd.file \/ Whole(f) => Whole(f)'
    BY <1>1, <1>7, <1>9 DEF Whole
  <1>11. CASE rd.file \in Programs
    <2>1. pc' = "load" /\ UNCHANGED <<rd, hand>>
      BY <1>11 DEF FileRead
    <2>2. Types'
      BY <1>1, <1>9, <2>1 DEF Types, Places
    <2>3. ReadInv'
      BY <1>5, <1>11, <2>1 DEF ReadInv, Reading
    <2>4. StageInv'
      BY <1>1, <1>4, <1>5, <1>10, <1>11, <2>1, FileNames
         DEF StageInv, Checked, SyschkOver, KernelOver, Reading
    <2> QED
      BY <1>3, <2>2, <2>3, <2>4
  <1>12. CASE rd.file = "startup.wav"
    <2>1. /\ rd' = [NoRead EXCEPT !.file = "urbanist.ttf"] /\ pc' = "open" /\ hand' = hand
          /\ "urbanist.ttf" \in Files
      BY <1>12, FileNames DEF FileRead, NextFile
    <2>2. /\ rd' \in Reads /\ rd'.file = "urbanist.ttf" /\ rd'.cnt = 0 /\ rd'.until = 0
          /\ rd'.bufSize = 1
      BY <2>1, FirstOfFile
    <2>3. Types'
      BY <1>1, <1>9, <2>1, <2>2 DEF Types, Places
    <2>4. ReadInv'
      BY <2>1, <2>2 DEF ReadInv, Reading
    <2>5. Whole("syschk.sys")' /\ Whole("minoskrnl.exe")' /\ Whole("startup.wav")'
      BY <1>1, <1>10, <1>12, FileNames DEF StageInv, SyschkOver, KernelOver, Reading
    <2>6. StageInv'
      BY <1>1, <1>4, <1>12, <2>1, <2>2, <2>5, FileNames
         DEF StageInv, Checked, SyschkOver, KernelOver, Reading
    <2> QED
      BY <1>3, <2>3, <2>4, <2>6
  <1>13. CASE rd.file = "urbanist.ttf"
    <2>1. /\ rd' = [NoRead EXCEPT !.file = "none"] /\ pc' = "exit"
          /\ hand' = [hand EXCEPT !.Rsrc = TRUE, !.Image = TRUE, !.ImageSz = blob["minoskrnl.exe"].got]
      BY <1>13, FileNames DEF FileRead, NextFile
    <2>2. rd' \in Reads /\ rd'.cnt = 0 /\ rd'.until = 0
      BY <2>1, FirstOfFile
    <2>3. blob["minoskrnl.exe"].got \in Nat /\ blob'["minoskrnl.exe"] = blob["minoskrnl.exe"]
      BY <1>5, <1>9, <1>13, FileNames DEF Blobs
    <2>4. /\ hand' \in Hands /\ hand'.Rsrc /\ hand'.Image /\ hand'.ImageSz = blob'["minoskrnl.exe"].got
          /\ hand'.Magic = hand.Magic /\ hand'.Tables = hand.Tables
      BY <1>5, <2>1, <2>3 DEF Hands
    <2>5. Types'
      BY <1>1, <1>9, <2>1, <2>2, <2>4 DEF Types, Places
    <2>6. ReadInv'
      BY <2>1, <2>2 DEF ReadInv, Reading
    <2>7. /\ Whole("syschk.sys")' /\ Whole("minoskrnl.exe")' /\ Whole("startup.wav")'
          /\ Whole("urbanist.ttf")'
      BY <1>1, <1>10, <1>13, FileNames DEF StageInv, SyschkOver, KernelOver, Reading
    <2>8. StageInv'
      BY <1>1, <1>4, <1>13, <2>1, <2>4, <2>7, FileNames
         DEF StageInv, Checked, SyschkOver, KernelOver, Reading
    <2> QED
      BY <1>3, <2>5, <2>6, <2>8
  <1> QED
    BY <1>5, <1>11, <1>12, <1>13, FileNames

LEMMA LoadKeeps ==
    ASSUME IndInv, LoadImage
    PROVE  IndInv'
  <1> USE DEF IndInv
  <1>1. /\ UNCHANGED <<machine, volume, disk, rd, blob, hand, cuts, errors>>
        /\ pc = "load" /\ rd.file \in Programs /\ svc' = [svc EXCEPT !.stale = TRUE]
    BY DEF LoadImage, ReadInv
  <1>2. PICK r \in {"null", "stop", "address"} :
          /\ start' = [start EXCEPT ![rd.file] = IF r = "stop" THEN "null" ELSE r]
          /\ pc' = IF r = "stop" THEN "stopped"
                   ELSE IF rd.file = "syschk.sys" THEN "syschk" ELSE "kernelset"
    BY DEF LoadImage, Loaded
  <1>3. svc \in Services /\ start \in Starts
    BY DEF Types
  <1>4. svc' \in Services /\ svc'.stale
    BY <1>1, <1>3 DEF Services
  <1>5. /\ start' \in Starts /\ start'[rd.file] # "none"
        /\ \A p \in Programs : p # rd.file => start'[p] = start[p]
    BY <1>1, <1>2, <1>3 DEF Starts
  <1>6. Types'
    BY <1>1, <1>2, <1>4, <1>5 DEF Types, Places
  <1>7. DiskInv'
    BY <1>1, <1>2, DiskUntouched
  <1>8. ReadInv'
    BY <1>1, <1>2 DEF ReadInv, Reading
  <1>9. IsPartitionValid' <=> IsPartitionValid
    BY <1>1, CheckKept
  <1>10. \A f \in Files : Whole(f) => Whole(f)'
    BY <1>1 DEF Whole
  <1>11. StageInv'
    <2> USE DEF StageInv, Checked, SyschkOver, KernelOver, Reading
    <2>1. CASE pc' = "stopped"
      BY <2>1
    <2>2. CASE rd.file = "syschk.sys" /\ pc' = "syschk"
      BY <1>1, <1>4, <1>5, <1>9, <1>10, <2>2, FileNames
    <2>3. CASE rd.file = "minoskrnl.exe" /\ pc' = "kernelset"
      <3>1. /\ Whole("syschk.sys") /\ start["syschk.sys"] = "address" /\ Whole("minoskrnl.exe")
            /\ hand.Magic /\ ~hand.Tables
        BY <1>1, <2>3
      <3> QED
        BY <1>1, <1>4, <1>5, <1>9, <1>10, <2>3, <3>1, FileNames
    <2> QED
      BY <1>1, <1>2, <2>1, <2>2, <2>3, FileNames
  <1> QED
    BY <1>6, <1>7, <1>8, <1>11

\* The inductive invariant holds in every reachable state.
THEOREM BootInvariant == Spec => []IndInv
  <1>1. IndInv /\ [Next]_vars => IndInv'
    <2> SUFFICES ASSUME IndInv, [Next]_vars PROVE IndInv'
      OBVIOUS
    <2>1. CASE UNCHANGED vars
      BY <2>1 DEF vars, IndInv, Types, DiskInv, ReadInv, StageInv, Checked, SyschkOver, KernelOver,
                  Reading, Whole, IsPartitionValid, PartitionRead, GetDiskSize
    <2>2. CASE rt_reset_hardware
      BY <2>2, PowerOnKeeps DEF rt_reset_hardware, IndInv, Types
    <2>3. CASE PowerCut
      <3>1. cuts' \in 0..MaxCuts
        BY <2>3, Constants DEF PowerCut, IndInv, Types
      <3> QED
        BY <2>3, <3>1, PowerOnKeeps DEF PowerCut, IndInv, Types
    <2> QED
      BY <2>1, <2>2, <2>3, PlaceSteps, DiskSteps, OpeningSteps, OpenKeeps, ReadingKeeps, FileReadKeeps,
         LoadKeeps DEF Next, LoaderStep
  <1> QED
    BY <1>1, InitHolds, PTL DEF Spec

\* No counter of the loader leaves its range: a file is read to its end and not
\* beyond, and the partition block never promises more catalogs than there are
\* (BFileReader::ReadAll, BDiskFormatFactory::Format).
THEOREM BootTyped == Spec => []TypeOK
  <1>1. IndInv => TypeOK
    <2> SUFFICES ASSUME IndInv PROVE TypeOK
      OBVIOUS
    <2>1. /\ rd.file \in Files \cup {"none"} /\ rd.cnt \in Nat /\ rd.bufSize \in {0, 1}
          /\ rd.until \in {0} \cup FileChunks /\ rd.cnt <= rd.until
      BY DEF IndInv, Types, Reads, ReadInv
    <2>2. Max(FileChunks) \in Nat /\ \A n \in FileChunks : n \in Nat /\ n <= Max(FileChunks)
      BY BootAssumption, LargestNumber
    <2>3. rd.cnt \in 0..Max(FileChunks)
      BY <2>1, <2>2
    <2>4. disk.part.Free \in Nat /\ disk.cats \in Nat
      BY DEF IndInv, Types, Disks, Blocks
    <2>5. disk.cats + disk.part.Free <= MaxCatalogs
      BY <2>4, Constants DEF IndInv, DiskInv
    <2> QED
      BY <2>1, <2>3, <2>5 DEF IndInv, Types, TypeOK, Places
  <1> QED
    BY <1>1, BootInvariant, PTL

-----------------------------------------------------------------------------
(***************************************************************************)
(* The images                                                              *)
(***************************************************************************)
LEMMA SectionTypes ==
    ASSUME NEW img \in Images, NEW i \in 1..Len(img.sections)
    PROVE  /\ img.sections[i].va \in Nat /\ img.sections[i].raw \in Nat /\ img.sections[i].size \in Nat
           /\ img.size \in Nat /\ img.sections[i].va + img.sections[i].size <= img.size
           /\ Len(img.sections) \in Nat
  <1>1. img.sections \in Seq([name : STRING, va : Nat, raw : Nat, size : Nat])
    BY ImagesAssumption
  <1> DEFINE ss == img.sections
             R == [name : STRING, va : Nat, raw : Nat, size : Nat]
  <1>2. ss[i] \in R /\ Len(ss) \in Nat
    <2>1. ss \in Seq(R) /\ i \in 1..Len(ss)
      BY <1>1
    <2> HIDE DEF ss, R
    <2> QED
      BY <2>1
  <1> QED
    BY <1>2, ImagesAssumption

\* The overrun of a section stays in the pages: four times the size of the
\* image is less than the pages that were asked for.
LEMMA WritesInside ==
    ASSUME NEW img \in Images, NEW i \in 1..Len(img.sections), NEW a \in Written(img.sections[i])
    PROVE  a < PageUnits * PagesAsked(img)
  <1> DEFINE va == img.sections[i].va
             sz == img.sections[i].size
  <1>1. va \in Nat /\ sz \in Nat /\ img.size \in Nat /\ va + sz <= img.size
    BY SectionTypes
  <1>2. a \in va..(va + 4 * sz - 1)
    BY DEF Written, Overrun
  <1>3. PageUnits * PagesAsked(img) = 8 * img.size
    BY DEF PageUnits, PagesAsked
  <1> HIDE DEF va, sz
  <1> QED
    BY <1>1, <1>2, <1>3

\* With the headers in the order of the addresses the last section that covers
\* a unit is the one it belongs to.
LEMMA UnitsKept ==
    ASSUME NEW img \in Images, NEW i \in 1..Len(img.sections),
           \A m, n \in 1..Len(img.sections) :
              m < n => img.sections[m].va + img.sections[m].size <= img.sections[n].va,
           NEW k \in 0..(img.sections[i].size - 1)
    PROVE  UnitAt(img, img.sections[i].va + k) = img.sections[i].raw + k
  <1> DEFINE ss == img.sections
             a == ss[i].va + k
             J == {j \in 1..Len(ss) : a \in Written(ss[j])}
  <1>1. /\ ss[i].va \in Nat /\ ss[i].size \in Nat /\ ss[i].raw \in Nat /\ Len(ss) \in Nat
        /\ k \in Nat /\ k < ss[i].size /\ a \in Nat
    BY SectionTypes
  <1>2. i \in J
    <2>1. a \in ss[i].va..(ss[i].va + 4 * ss[i].size - 1)
      <3> DEFINE v == ss[i].va
                 z == ss[i].size
      <3>1. v \in Nat /\ z \in Nat /\ k \in Nat /\ k < z
        BY <1>1
      <3>2. ASSUME NEW x \in Nat, NEW y \in Nat, NEW l \in Nat, l < y
            PROVE  x + l \in x..(x + 4 * y - 1)
        BY <3>2
      <3> HIDE DEF v, z
      <3>3. v + k \in v..(v + 4 * z - 1)
        BY <3>1, <3>2
      <3> QED
        BY <3>3 DEF v, z
    <2> QED
      BY <2>1 DEF Written, Overrun
  <1>3. \A j \in J : j <= i
    <2> SUFFICES ASSUME NEW j \in J, ~(j <= i) PROVE FALSE
      OBVIOUS
    <2>1. i < j /\ j \in 1..Len(ss)
      BY <1>1
    <2>2. ss[i].va + ss[i].size <= ss[j].va /\ ss[j].va \in Nat /\ ss[j].size \in Nat
      BY <2>1, SectionTypes
    <2>3. a >= ss[j].va
      BY <2>2 DEF Written, Overrun
    <2>4. ASSUME NEW x \in Nat, NEW y \in Nat, NEW z \in Nat, k < y, x + y <= z, x + k >= z
          PROVE  FALSE
      BY <1>1, <2>4
    <2> QED
      BY <1>1, <2>2, <2>3, <2>4
  <1>4. J \subseteq Nat
    BY <1>1
  <1>5. Max(J) = i
    <2>1. \A x \in J : (\A y \in J : x >= y) => x = i
      BY <1>2, <1>3, <1>4
    <2>2. \A y \in J : i >= y
      BY <1>2, <1>3, <1>4
    <2> HIDE DEF J
    <2> QED
      BY <1>2, <2>1, <2>2 DEF Max
  <1>6. UnitAt(img, a) = ss[i].raw + (a - ss[i].va)
    BY <1>5 DEF UnitAt, SectionOrder
  <1> QED
    BY <1>1, <1>6

-----------------------------------------------------------------------------
\* What the loader hands over is complete and made for this drive, a disk in use
\* is not formatted again (BootMain.cc:174), and the loading of an image stays
\* in its pages and keeps every section (BootThread.cc:102).
THEOREM BootIsSafe == Spec => []BootSafe
  <1>1. IndInv => HandedOver
    <2> SUFFICES ASSUME IndInv, pc \in {"kernel", "running"} PROVE HandedOver
      BY DEF HandedOver
    <2>1. IsPartitionValid /\ machine.size >= 1
      BY CheckPassed DEF IndInv, Types, StageInv, Checked
    <2>2. \A p \in Programs : start[p] = "address"
      BY FileNames DEF IndInv, StageInv, SyschkOver
    <2>3. hand.Magic /\ ~hand.Tables /\ hand.Image /\ hand.Rsrc
      BY DEF IndInv, StageInv, SyschkOver, KernelOver
    <2>4. \A f \in Files : Whole(f)
      BY FileNames DEF IndInv, StageInv, SyschkOver, KernelOver
    <2>5. hand.ImageSz = blob["minoskrnl.exe"].got /\ ~svc.left
      BY DEF IndInv, StageInv
    <2> QED
      BY <2>1, <2>2, <2>3, <2>4, <2>5 DEF HandedOver, Whole
  <1>2. IndInv => CountsKept
    <2> SUFFICES ASSUME IndInv, disk.cats > 0
                 PROVE  disk.part.Free = MaxCatalogs - disk.cats /\ disk.epm /\ disk.root
      BY DEF CountsKept
    <2>1. disk.part.Ident
      BY CheckPassed DEF IndInv, Types, DiskInv
    <2> QED
      BY <2>1 DEF IndInv, DiskInv
  <1>3. IndInv /\ pc = "load" => volume.image[rd.file] \in Images
    BY DEF IndInv, ReadInv, Types, Volumes
  <1>4. IndInv => LoadConfined
    BY <1>3, WritesInside DEF LoadConfined
  <1>5. IndInv => SectionsIntact
    <2> SUFFICES ASSUME IndInv, pc = "load" PROVE SectionsIntact
      BY DEF SectionsIntact
    <2> DEFINE img == volume.image[rd.file]
    <2>1. img \in Images
      BY <1>3
    <2> HIDE DEF img
    <2>2. ASSUME \A i, j \in 1..Len(img.sections) :
                    i < j => img.sections[i].va + img.sections[i].size <= img.sections[j].va
          PROVE  \A i \in 1..Len(img.sections) : \A k \in 0..(img.sections[i].size - 1) :
                    UnitAt(img, img.sections[i].va + k) = img.sections[i].raw + k
      BY <2>1, <2>2, UnitsKept
    <2> QED
      BY <2>2 DEF SectionsIntact, img
  <1> QED
    BY <1>1, <1>2, <1>4, <1>5, BootInvariant, PTL DEF BootSafe

-----------------------------------------------------------------------------
(***************************************************************************)
(* The descent of a start                                                  *)
(***************************************************************************)
\* A disk that is being formatted is large enough, and passes the check from its
\* first write on if the build keeps the byte after the identification.
FormatInv ==
    /\ pc \in {"format", "epm", "root", "reset"} => machine.size >= MinDisk
    /\ IdentStable /\ pc \in {"epm", "root", "reset"} => IsPartitionValid

LEMMA LargeDisk ==
    ASSUME NEW n \in Nat, n >= MinDisk
    PROVE  n >= 1 /\ n # 0
  BY Constants

LEMMA FormattedPasses ==
    ASSUME Types, IdentStable, machine.size >= MinDisk, machine' = machine,
           disk'.part = FormatBlock
    PROVE  IsPartitionValid'
  <1>1. machine.size \in Nat /\ machine.size >= 1 /\ machine.size # 0
    <2>1. machine.size \in Nat
      BY Constants DEF Types, Machines
    <2> QED
      BY <2>1, LargeDisk, Zenon
  <1>2. PartitionRead' = FormatBlock
    BY <1>1 DEF PartitionRead, GetDiskSize
  <1>3. FormatBlock.tail = machine.tail
    BY DEF FormatBlock, IdentStable
  <1>4. /\ FormatBlock.Ident /\ FormatBlock.DiskSize = machine.size
        /\ FormatBlock.SectorSize = kSectorSize /\ FormatBlock.Version = kNeFSVersionInteger
        /\ FormatBlock.StartCatalog # 0 /\ FormatBlock.Named
    BY DEF FormatBlock, GetDiskSize, kNeFSCatalogStartAddress
  <1> QED
    BY <1>1, <1>2, <1>3, <1>4 DEF IsPartitionValid, GetDiskSize

LEMMA FormatKept ==
    ASSUME IndInv, FormatInv, [Next]_vars
    PROVE  FormatInv'
  <1> USE DEF IndInv
  <1>1. machine' = machine
    BY DEF Next, LoaderStep, vars, Main, CheckDisk, WritePartition, WriteEpm, WriteRootCatalog,
           rt_reset_hardware, GetMemoryMap, AllocateBitMap, OpenFile, ReadChunk, FileRead, LoadImage,
           StartSyschk, FillHandover, KernelThread, ExitBootServices, StartKernel, hal_init_platform,
           ReadFails, PowerCut, KernelCreates
  <1>2. IdentStable' <=> IdentStable
    BY <1>1 DEF IdentStable, FormatTail
  <1>3. machine.size \in Nat /\ disk \in Disks
    BY Constants DEF Types, Machines
  <1>4. CASE CheckDisk
    BY <1>1, <1>3, <1>4, Constants DEF CheckDisk, FormatInv, GetDiskSize
  <1>5. CASE WritePartition
    <2>1. pc = "format" /\ pc' = "epm" /\ disk'.part = FormatBlock
      BY <1>3, <1>5 DEF WritePartition, Disks
    <2>2. machine.size >= MinDisk
      BY <2>1 DEF FormatInv
    <2>3. IdentStable => IsPartitionValid'
      BY <1>1, <2>1, <2>2, FormattedPasses
    <2> QED
      BY <1>1, <1>2, <2>1, <2>2, <2>3 DEF FormatInv
  <1>6. CASE WriteEpm \/ WriteRootCatalog
    <2>1. pc \in {"epm", "root"} /\ pc' \in {"root", "reset"} /\ disk'.part = disk.part
      BY <1>3, <1>6 DEF WriteEpm, WriteRootCatalog, Disks
    <2>2. IsPartitionValid' <=> IsPartitionValid
      BY <1>1, <2>1 DEF IsPartitionValid, PartitionRead, GetDiskSize
    <2> QED
      BY <1>1, <1>2, <2>1, <2>2 DEF FormatInv
  <1>7. CASE UNCHANGED vars
    <2>1. UNCHANGED <<machine, disk, pc>>
      BY <1>7 DEF vars
    <2> QED
      BY <1>2, <2>1, CheckKept DEF FormatInv
  <1>8. CASE ~(CheckDisk \/ WritePartition \/ WriteEpm \/ WriteRootCatalog \/ UNCHANGED vars)
    <2>1. pc' \notin {"format", "epm", "root", "reset"}
      BY <1>8 DEF Next, LoaderStep, Main, rt_reset_hardware, PowerOn, GetMemoryMap, AllocateBitMap,
           OpenFile, ReadChunk, FileRead, LoadImage, StartSyschk, FillHandover, KernelThread,
           ExitBootServices, StartKernel, hal_init_platform, ReadFails, PowerCut, KernelCreates
    <2> QED
      BY <2>1 DEF FormatInv
  <1> QED
    BY <1>4, <1>5, <1>6, <1>7, <1>8

LEMMA FormatHolds == Spec => []FormatInv
  <1>1. Init => FormatInv
    BY DEF Init, FormatInv
  <1> QED
    BY <1>1, FormatKept, BootInvariant, PTL DEF Spec

\* What is left of a start, place by place; Behind is what the files to come take.
Behind == FilesBehind * FileSteps

RankOfPlace ==
    /\ Behind \in Nat
    /\ rd.file = "syschk.sys" => Behind = 3 * FileSteps
    /\ rd.file = "minoskrnl.exe" => Behind = 2 * FileSteps
    /\ rd.file = "startup.wav" => Behind = FileSteps
    /\ rd.file = "urbanist.ttf" => Behind = 0
    /\ Settled          => StartLeft = 0
    /\ pc = "kernel"    => StartLeft = 1
    /\ pc = "start"     => StartLeft = 2
    /\ pc = "exit"      => StartLeft = 3
    /\ pc = "load"      => StartLeft = Behind + 6
    /\ pc = "read"      => StartLeft = Behind + 7 + (Max(FileChunks) - rd.cnt)
    /\ pc = "open"      => StartLeft = Behind + FileSteps
    /\ pc = "kernelset" => StartLeft = 2 * FileSteps + 4
    /\ pc = "filled"    => StartLeft = 3 * FileSteps + 4
    /\ pc = "syschk"    => StartLeft = 3 * FileSteps + 5
    /\ pc = "bitmap"    => StartLeft = 4 * FileSteps + 6
    /\ pc = "map"       => StartLeft = 4 * FileSteps + 7
    /\ pc = "check" /\ IsPartitionValid => StartLeft = 4 * FileSteps + 8
    /\ pc = "check" /\ ~IsPartitionValid => StartLeft = 4 * FileSteps + 18
    /\ pc = "main" /\ IsPartitionValid => StartLeft = 4 * FileSteps + 9
    /\ pc = "main" /\ ~IsPartitionValid => StartLeft = 4 * FileSteps + 19
    /\ pc = "reset"     => StartLeft = 4 * FileSteps + 10
    /\ pc = "root"      => StartLeft = 4 * FileSteps + 11
    /\ pc = "epm"       => StartLeft = 4 * FileSteps + 12
    /\ pc = "format"    => StartLeft = 4 * FileSteps + 13

LEMMA StepsOfFile ==
    Max(FileChunks) \in Nat /\ FileSteps = Max(FileChunks) + 8 /\ FileSteps \in Nat
  <1>1. Max(FileChunks) \in Nat
    BY BootAssumption, LargestNumber
  <1> QED
    BY <1>1 DEF FileSteps

LEMMA Ranks == IndInv => RankOfPlace
  <1> SUFFICES ASSUME IndInv PROVE RankOfPlace
    OBVIOUS
  <1> DEFINE M == Max(FileChunks)
             S == FileSteps
             B == Behind
  <1>1. M \in Nat /\ S \in Nat /\ S = M + 8
    BY StepsOfFile
  <1>2. rd.cnt \in Nat
    BY DEF IndInv, Types, Reads
  <1>3. /\ B \in Nat
        /\ rd.file = "syschk.sys" => B = 3 * S
        /\ rd.file = "minoskrnl.exe" => B = 2 * S
        /\ rd.file = "startup.wav" => B = S
        /\ rd.file = "urbanist.ttf" => B = 0
    <2>1. /\ rd.file = "syschk.sys" => FilesBehind = 3
          /\ rd.file = "minoskrnl.exe" => FilesBehind = 2
          /\ rd.file = "startup.wav" => FilesBehind = 1
          /\ rd.file \notin {"syschk.sys", "minoskrnl.exe", "startup.wav"} => FilesBehind = 0
      BY DEF FilesBehind
    <2>2. B = FilesBehind * S
      BY DEF Behind
    <2> HIDE DEF B, S
    <2>3. 3 * S \in Nat /\ 2 * S \in Nat /\ 1 * S = S /\ 0 * S = 0
      BY <1>1
    <2> QED
      BY <1>1, <2>1, <2>2, <2>3
  <1>4. PlaceLeft = CASE Settled -> 0
      [] pc = "kernel"    -> 1
      [] pc = "start"     -> 2
      [] pc = "exit"      -> 3
      [] pc = "load"      -> B + 6
      [] pc = "read"      -> B + 7 + (M - rd.cnt)
      [] pc = "open"      -> B + 8 + M
      [] pc = "kernelset" -> 2 * S + 4
      [] pc = "filled"    -> 3 * S + 4
      [] pc = "syschk"    -> 3 * S + 5
      [] pc = "bitmap"    -> 4 * S + 6
      [] pc = "map"       -> 4 * S + 7
      [] pc = "check"     -> 4 * S + 8
      [] pc = "main"      -> 4 * S + 9
      [] pc = "reset"     -> 4 * S + 10
      [] pc = "root"      -> 4 * S + 11
      [] pc = "epm"       -> 4 * S + 12
      [] pc = "format"    -> 4 * S + 13
    BY Zenon DEF PlaceLeft, Behind
  <1> HIDE DEF M, S, B
  <1>5. /\ pc \notin {"main", "check"} => StartLeft = PlaceLeft + 0
        /\ pc \in {"main", "check"} /\ IsPartitionValid => StartLeft = PlaceLeft + 0
        /\ pc \in {"main", "check"} /\ ~IsPartitionValid => StartLeft = PlaceLeft + 10
    BY DEF StartLeft
  <1>6. /\ Settled          => StartLeft = 0
        /\ pc = "kernel"    => StartLeft = 1
        /\ pc = "start"     => StartLeft = 2
        /\ pc = "exit"      => StartLeft = 3
    BY <1>4, <1>5 DEF Settled
  <1>7. /\ pc = "load"      => StartLeft = B + 6
        /\ pc = "read"      => StartLeft = B + 7 + (M - rd.cnt)
        /\ pc = "open"      => StartLeft = B + S
    BY <1>1, <1>2, <1>3, <1>4, <1>5 DEF Settled
  <1>8. /\ pc = "kernelset" => StartLeft = 2 * S + 4
        /\ pc = "filled"    => StartLeft = 3 * S + 4
        /\ pc = "syschk"    => StartLeft = 3 * S + 5
        /\ pc = "bitmap"    => StartLeft = 4 * S + 6
        /\ pc = "map"       => StartLeft = 4 * S + 7
    BY <1>1, <1>4, <1>5 DEF Settled
  <1>9. /\ pc = "check" /\ IsPartitionValid  => StartLeft = 4 * S + 8
        /\ pc = "check" /\ ~IsPartitionValid => StartLeft = 4 * S + 18
        /\ pc = "main" /\ IsPartitionValid   => StartLeft = 4 * S + 9
        /\ pc = "main" /\ ~IsPartitionValid  => StartLeft = 4 * S + 19
    BY <1>1, <1>4, <1>5 DEF Settled
  <1>10. /\ pc = "reset"     => StartLeft = 4 * S + 10
         /\ pc = "root"      => StartLeft = 4 * S + 11
         /\ pc = "epm"       => StartLeft = 4 * S + 12
         /\ pc = "format"    => StartLeft = 4 * S + 13
    BY <1>1, <1>4, <1>5 DEF Settled
  <1> QED
    BY <1>3, <1>6, <1>7, <1>8, <1>9, <1>10 DEF RankOfPlace, M, S, B

LEMMA RanksNext == IndInv' => RankOfPlace'
  BY Ranks, PTL

\* The places in their order, and what one step on a file takes.
LEMMA PlaceWeights ==
    ASSUME NEW s \in Nat, s > 7
    PROVE  /\ 0 < 1 /\ 0 < 2 /\ 1 < 2 /\ 2 < 3 /\ 0 < 3 * s + 5 /\ 3 * s + 4 < 3 * s + 5
           /\ 0 < 4 * s + 7 /\ 4 * s + 6 < 4 * s + 7 /\ 4 * s + 7 < 4 * s + 8
           /\ 0 < 4 * s + 9 /\ 4 * s + 8 < 4 * s + 9
           /\ 0 < 4 * s + 19 /\ 4 * s + 18 < 4 * s + 19
           /\ 0 < 4 * s + 18 /\ 4 * s + 13 < 4 * s + 18
           /\ 4 * s + 12 < 4 * s + 13 /\ 4 * s + 11 < 4 * s + 12
           /\ 4 * s + 10 < 4 * s + 11 /\ 4 * s + 9 < 4 * s + 10
           /\ 3 * s + s < 4 * s + 6 /\ 2 * s + s < 3 * s + 4 /\ s + s < 2 * s + 4
  OBVIOUS

LEMMA OpenWeights ==
    ASSUME NEW m \in Nat, NEW b \in Nat, NEW d \in Nat, d <= m
    PROVE  0 < b + (m + 8) /\ b + 7 + (m - d) < b + (m + 8)
  OBVIOUS

LEMMA ChunkWeights ==
    ASSUME NEW m \in Nat, NEW b \in Nat, NEW c \in Nat
    PROVE  b + 7 + (m - (c + 1)) < b + 7 + (m - c)
  OBVIOUS

LEMMA FileWeights ==
    ASSUME NEW m \in Nat, NEW b \in Nat, NEW c \in Nat, c <= m
    PROVE  /\ b + 6 < b + 7 + (m - c) /\ 3 < b + 7 + (m - c)
           /\ 0 + (m + 8) < (m + 8) + 7 + (m - c)
  OBVIOUS

LEMMA LoadWeights ==
    ASSUME NEW s \in Nat, NEW b \in Nat
    PROVE  0 < b + 6 /\ 3 * s + 5 < 3 * s + 6 /\ 2 * s + 4 < 2 * s + 6
  OBVIOUS

\* What has been read of a file is not more than the longest file.
ReadWithin == rd.cnt \in Nat /\ rd.cnt <= Max(FileChunks)

LEMMA ReadsWithin == IndInv => ReadWithin
  <1> SUFFICES ASSUME IndInv PROVE ReadWithin
    OBVIOUS
  <1>1. rd.cnt \in Nat /\ rd.until \in {0} \cup FileChunks /\ rd.cnt <= rd.until
    BY DEF IndInv, Types, Reads, ReadInv
  <1>2. Max(FileChunks) \in Nat /\ \A n \in FileChunks : n \in Nat /\ n <= Max(FileChunks)
    BY BootAssumption, LargestNumber
  <1>3. rd.cnt <= Max(FileChunks)
    BY <1>1, <1>2
  <1> QED
    BY <1>1, <1>3 DEF ReadWithin

LEMMA ReadsWithinNext == IndInv' => ReadWithin'
  BY ReadsWithin, PTL

\* The steps from the check of the disk to the reset after its formatting.
LEMMA DiskStepsDescend ==
    ASSUME IndInv, IndInv', FormatInv, IdentStable,
           Main \/ CheckDisk \/ WritePartition \/ WriteEpm \/ WriteRootCatalog \/ rt_reset_hardware
    PROVE  StartLeft' < StartLeft
  <1> DEFINE S == FileSteps
             L == StartLeft
             V == IsPartitionValid
  <1>1. S \in Nat /\ S' = S /\ S > 7
    BY StepsOfFile DEF FileSteps
  <1>2. RankOfPlace /\ RankOfPlace'
    BY Ranks, RanksNext
  <1>3. CASE Main
    <2>1. pc = "main" /\ (pc' = "check" \/ Settled')
      BY <1>3 DEF Main, Settled
    <2>2. V' <=> V
      BY <1>3, CheckKept DEF Main
    <2>3. \/ L = 4 * S + 9 /\ (L' = 4 * S + 8 \/ L' = 0)
          \/ L = 4 * S + 19 /\ (L' = 4 * S + 18 \/ L' = 0)
      BY <1>1, <1>2, <2>1, <2>2 DEF RankOfPlace
    <2> QED
      BY <1>1, <2>3, PlaceWeights, Zenon
  <1>4. CASE CheckDisk
    <2>1. pc = "check" /\ IF V THEN pc' = "map" ELSE pc' = "format" \/ Settled'
      BY <1>4 DEF CheckDisk, Settled
    <2>2. \/ L = 4 * S + 8 /\ L' = 4 * S + 7
          \/ L = 4 * S + 18 /\ (L' = 4 * S + 13 \/ L' = 0)
      BY <1>1, <1>2, <2>1 DEF RankOfPlace
    <2> QED
      BY <1>1, <2>2, PlaceWeights, Zenon
  <1>5. CASE WritePartition \/ WriteEpm \/ WriteRootCatalog
    <2>1. \/ pc = "format" /\ pc' = "epm"
          \/ pc = "epm" /\ pc' = "root"
          \/ pc = "root" /\ pc' = "reset"
      BY <1>5 DEF WritePartition, WriteEpm, WriteRootCatalog
    <2>2. \/ L = 4 * S + 13 /\ L' = 4 * S + 12
          \/ L = 4 * S + 12 /\ L' = 4 * S + 11
          \/ L = 4 * S + 11 /\ L' = 4 * S + 10
      BY <1>1, <1>2, <2>1 DEF RankOfPlace
    <2> QED
      BY <1>1, <2>2, PlaceWeights, Zenon
  <1>6. CASE rt_reset_hardware
    <2>1. pc = "reset" /\ pc' = "main" /\ UNCHANGED <<machine, disk>>
      BY <1>6 DEF rt_reset_hardware, PowerOn
    <2>2. V'
      BY <2>1, CheckKept DEF FormatInv
    <2>3. L = 4 * S + 10 /\ L' = 4 * S + 9
      BY <1>1, <1>2, <2>1, <2>2 DEF RankOfPlace
    <2> QED
      BY <1>1, <2>3, PlaceWeights, Zenon
  <1> QED
    BY <1>3, <1>4, <1>5, <1>6

\* The steps between the files.
LEMMA OpeningDescends ==
    ASSUME IndInv, IndInv',
           \/ GetMemoryMap \/ AllocateBitMap \/ StartSyschk \/ FillHandover \/ KernelThread
           \/ ExitBootServices \/ StartKernel \/ hal_init_platform
    PROVE  StartLeft' < StartLeft
  <1> DEFINE S == FileSteps
             L == StartLeft
  <1>1. S \in Nat /\ S' = S /\ S > 7
    BY StepsOfFile DEF FileSteps
  <1>2. RankOfPlace /\ RankOfPlace'
    BY Ranks, RanksNext
  <1>3. CASE GetMemoryMap \/ ExitBootServices \/ StartKernel \/ hal_init_platform \/ StartSyschk
    <2>1. \/ pc = "map" /\ (pc' = "bitmap" \/ Settled')
          \/ pc = "syschk" /\ (pc' = "filled" \/ Settled')
          \/ pc = "exit" /\ pc' = "start"
          \/ pc = "start" /\ (pc' = "kernel" \/ Settled')
          \/ pc = "kernel" /\ Settled'
      BY <1>3 DEF GetMemoryMap, ExitBootServices, StartKernel, hal_init_platform, StartSyschk, Settled
    <2>2. \/ L = 4 * S + 7 /\ (L' = 4 * S + 6 \/ L' = 0)
          \/ L = 3 * S + 5 /\ (L' = 3 * S + 4 \/ L' = 0)
          \/ L = 3 /\ L' = 2
          \/ L = 2 /\ (L' = 1 \/ L' = 0)
          \/ L = 1 /\ L' = 0
      BY <1>1, <1>2, <2>1 DEF RankOfPlace
    <2> QED
      BY <1>1, <2>2, PlaceWeights, Zenon
  <1>4. CASE AllocateBitMap \/ FillHandover \/ KernelThread
    <2>1. /\ pc' = "open"
          /\ \/ pc = "bitmap" /\ rd' = [NoRead EXCEPT !.file = "syschk.sys"]
             \/ pc = "filled" /\ rd' = [NoRead EXCEPT !.file = "minoskrnl.exe"]
             \/ pc = "kernelset" /\ rd' = [NoRead EXCEPT !.file = "startup.wav"]
      BY <1>4 DEF AllocateBitMap, FillHandover, KernelThread
    <2>2. \/ pc = "bitmap" /\ rd'.file = "syschk.sys"
          \/ pc = "filled" /\ rd'.file = "minoskrnl.exe"
          \/ pc = "kernelset" /\ rd'.file = "startup.wav"
      BY <2>1, FirstOfFile, FileNames
    <2>3. \/ L = 4 * S + 6 /\ L' = 3 * S + S
          \/ L = 3 * S + 4 /\ L' = 2 * S + S
          \/ L = 2 * S + 4 /\ L' = S + S
      BY <1>1, <1>2, <2>1, <2>2 DEF RankOfPlace
    <2> QED
      BY <1>1, <2>3, PlaceWeights, Zenon
  <1> QED
    BY <1>3, <1>4

\* The steps on a file: its opening, its chunks and the loading of its image.
LEMMA FileDescends ==
    ASSUME IndInv, IndInv', OpenFile \/ ReadChunk \/ FileRead \/ LoadImage
    PROVE  [StartLeft' < StartLeft]_vars
  <1> DEFINE M == Max(FileChunks)
             S == FileSteps
             L == StartLeft
             B == Behind
             c == rd.cnt
  <1>1. M \in Nat /\ M' = M /\ S \in Nat /\ S' = S /\ S = M + 8
    BY StepsOfFile DEF FileSteps
  <1>2. RankOfPlace /\ RankOfPlace'
    BY Ranks, RanksNext
  <1>3. B \in Nat /\ B' \in Nat
    BY <1>2 DEF RankOfPlace
  <1>4. c \in Nat /\ c <= M /\ c' \in Nat /\ c' <= M
    BY <1>1, ReadsWithin, ReadsWithinNext DEF ReadWithin
  <1>5. CASE OpenFile
    <2>1. pc = "open" /\ (Settled' \/ (pc' = "read" /\ rd'.file = rd.file))
      <3>1. rd \in Reads
        BY DEF IndInv, Types
      <3> QED
        BY <1>5, <3>1 DEF OpenFile, Settled, Reads
    <2>2. Behind' = Behind \/ Settled'
      BY <2>1 DEF Behind, FilesBehind, FileSteps
    <2>3. L = B + (M + 8) /\ (L' = 0 \/ (L' = B + 7 + (M - c')))
      BY <1>1, <1>2, <2>1, <2>2 DEF RankOfPlace
    <2>4. L' < L
      <3> HIDE DEF S, L, M, B, c
      <3> QED
        BY <1>1, <1>3, <1>4, <2>3, OpenWeights, Zenon
    <2> QED
      BY <2>4
  <1>6. CASE ReadChunk
    <2>1. pc = "read" /\ pc' = "read" /\ rd' = [rd EXCEPT !.cnt = @ + rd.bufSize]
      BY <1>6 DEF ReadChunk
    <2>2. rd \in Reads /\ rd.bufSize \in {0, 1}
      BY DEF IndInv, Types, Reads
    <2>3. CASE rd.bufSize = 0
      <3>1. rd' = rd
        BY <1>4, <2>1, <2>2, <2>3 DEF Reads
      <3> QED
        BY <1>6, <3>1 DEF ReadChunk, vars
    <2>4. CASE rd.bufSize = 1
      <3>1. rd'.file = rd.file /\ c' = c + 1
        BY <2>1, <2>2, <2>4 DEF Reads
      <3>2. Behind' = Behind
        BY <3>1 DEF Behind, FilesBehind, FileSteps
      <3>3. (L = B + 7 + (M - c)) /\ (L' = B + 7 + (M - (c + 1)))
        BY <1>1, <1>2, <2>1, <3>1, <3>2 DEF RankOfPlace
      <3>4. L' < L
        <4> HIDE DEF S, L, M, B, c
        <4> QED
          BY <1>1, <1>3, <1>4, <3>3, ChunkWeights, Zenon
      <3> QED
        BY <3>4
    <2> QED
      BY <2>2, <2>3, <2>4
  <1>7. CASE FileRead
    <2>1. pc = "read" /\ rd.file \in Files
      BY <1>7 DEF FileRead, IndInv, ReadInv, Reading
    <2>2. L = B + 7 + (M - c)
      BY <1>2, <2>1 DEF RankOfPlace
    <2>3. L' < L
      <3>1. CASE rd.file \in Programs
        <4>1. pc' = "load" /\ rd' = rd
          BY <1>7, <3>1 DEF FileRead
        <4>2. Behind' = Behind
          BY <4>1 DEF Behind, FilesBehind, FileSteps
        <4>3. L' = B + 6
          BY <1>2, <4>1, <4>2 DEF RankOfPlace
        <4> HIDE DEF S, L, M, B, c
        <4> QED
          BY <1>1, <1>3, <1>4, <2>2, <4>3, FileWeights, Zenon
      <3>2. CASE rd.file = "startup.wav"
        <4>1. pc' = "open" /\ rd' = [NoRead EXCEPT !.file = "urbanist.ttf"]
          BY <1>7, <3>2, FileNames DEF FileRead, NextFile
        <4>2. rd'.file = "urbanist.ttf"
          BY <4>1, FirstOfFile, FileNames
        <4>3. L = (M + 8) + 7 + (M - c) /\ L' = 0 + (M + 8)
          BY <1>1, <1>2, <2>2, <3>2, <4>1, <4>2 DEF RankOfPlace
        <4> HIDE DEF S, L, M, B, c
        <4> QED
          BY <1>1, <1>3, <1>4, <2>2, <4>3, FileWeights, Zenon
      <3>3. CASE rd.file = "urbanist.ttf"
        <4>1. pc' = "exit"
          BY <1>7, <3>3, FileNames DEF FileRead, NextFile
        <4>2. L' = 3
          BY <1>2, <4>1 DEF RankOfPlace
        <4> HIDE DEF S, L, M, B, c
        <4> QED
          BY <1>1, <1>3, <1>4, <2>2, <4>2, FileWeights, Zenon
      <3> QED
        BY <2>1, <3>1, <3>2, <3>3, FileNames
    <2> QED
      BY <2>3
  <1>8. CASE LoadImage
    <2>1. pc = "load" /\ rd.file \in Programs /\ rd' = rd
      BY <1>8 DEF LoadImage, IndInv, ReadInv
    <2>2. \/ Settled'
          \/ rd.file = "syschk.sys" /\ pc' = "syschk"
          \/ rd.file = "minoskrnl.exe" /\ pc' = "kernelset"
      BY <1>8, <2>1, FileNames DEF LoadImage, Settled
    <2>3. \/ L = B + 6 /\ L' = 0
          \/ L = 3 * S + 6 /\ L' = 3 * S + 5
          \/ L = 2 * S + 6 /\ L' = 2 * S + 4
      BY <1>1, <1>2, <2>1, <2>2 DEF RankOfPlace
    <2>4. L' < L
      <3> HIDE DEF S, L, M, B, c
      <3> QED
        BY <1>1, <1>3, <2>3, LoadWeights, Zenon
    <2> QED
      BY <2>4
  <1> QED
    BY <1>5, <1>6, <1>7, <1>8

\* Every step of the loader brings the machine nearer to the kernel or to a stop,
\* across the reset after a formatting (rt_reset_hardware), unless the power is
\* cut or a read fails: with the fairness of the processor, starts end.
THEOREM StartsAlwaysDescend == Spec => StartsDescend
  <1> DEFINE A == IdentStable /\ ~Settled /\ cuts' = cuts /\ errors' = errors
                    => StartLeft' < StartLeft
  <1>1. IndInv /\ IndInv' /\ FormatInv /\ [Next]_vars => [A]_vars
    <2> SUFFICES ASSUME IndInv, IndInv', FormatInv, Next, IdentStable, ~Settled,
                        cuts' = cuts, errors' = errors
                 PROVE  [StartLeft' < StartLeft]_vars
      OBVIOUS
    <2>1. CASE PowerCut
      <3>1. cuts' = cuts + 1 /\ cuts \in Nat
        BY <2>1, Constants DEF PowerCut, IndInv, Types
      <3> QED
        BY <3>1
    <2>2. CASE ReadFails
      <3>1. errors' = errors + 1 /\ errors \in Nat
        BY <2>2, Constants DEF ReadFails, IndInv, Types
      <3> QED
        BY <3>1
    <2>3. CASE KernelCreates
      BY <2>3 DEF KernelCreates, Settled
    <2> QED
      BY <2>1, <2>2, <2>3, DiskStepsDescend, OpeningDescends, FileDescends DEF Next, LoaderStep
  <1> QED
    BY <1>1, BootInvariant, FormatHolds, PTL DEF Spec, StartsDescend
=============================================================================
