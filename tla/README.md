# ZKA: a TLA+ development

ZKA is a hobby operating system in C++: an EFI boot loader (`src/dev/ZBAKit`),
a kernel (`src/dev/ZKAKit`) with its hardware layer (`HALKit`), a system call
library (`src/dev/SCIKit`) and driver headers (`src/dev/Modules`).  The
repository has no tests; what it promises is said in doc comments, in
`src/dev/ZKAKit/doc/SPECIFICATION.md` and in the names of its operations.  This
directory holds TLA+ models of the parts that keep state, the TLC runs that
check them, and TLAPS proofs.

All paths below are relative to `src/dev/`.

## 1. Inventory

| part | state | operations | who calls it | what makes it correct |
|---|---|---|---|---|
| NeFS catalogs (`ZKAKit/src/FS/NeFS.cc`, `FSKit/NeFS.h`) | the catalog list on the disk, the counters of the partition block | `CreateCatalog`, `GetCatalog` / `FindCatalog`, `RemoveCatalog`, `CloseCatalog` | file manager, installer in `KernelMain.cc` | the list is acyclic and dense, names are unique, lookups are exact, counters follow the list, a crash between two writes does not corrupt it |
| NeFS forks (`NeFS.cc`) | fork headers and data on the disk | `CreateFork`, `FindFork`, `WriteCatalog`, `ReadCatalog`, `Seek`, `Tell` | file manager | a fork is found again, two forks of a catalog do not overlap, what was written is read back |
| NeFS format (`NeFS.cc`, `ZBAKit/BootKit/BootKit.h`) | partition block, EPM blocks, root catalog | `Format` (kernel and boot loader) | boot loader, installer | a formatted disk is an empty, valid file system |
| Drives (`src/DriveMgr.cc`, `src/NeFS+IO.cc`, `HALKit/AMD64/Storage/*`) | the mount point's four drive slots, packets, ATA/AHCI registers | mount, unmount, read, write, detect | file system | the packet reaches the drive; a busy device is waited for |
| File manager (`src/FileMgr.cc`, `src/NeFS+FileMgr.cc`, `KernelKit/FileMgr.h`, installer in `src/KernelMain.cc`) | the mounted manager, streams and the memory of their nodes | mount, open, read, write, close, create; the installer of every start | code loader, user code | a stream holds its node until it is closed, until a stream that has written frees it, and no node is left behind; a restart does not install twice |
| Heap (`src/Heap.cc`, `src/BitMapMgr.cc`, `src/PageMgr.cc`, `src/Pmm.cc`, `src/New+Delete.cc`) | bitmap header, heap information block | `mm_new_heap`, `mm_delete_heap`, `mm_is_valid_heap`, `mm_protect_heap`, page requests | everyone | live allocations are disjoint; a pointer is freed once; a corrupted kernel block is noticed |
| Process team (`src/UserProcessScheduler.cc`, `src/UserProcessTeam.cc`, `src/CodeMgr.cc`, AMD64 interrupt handlers) | the process table, the current process, the process count, each process's status | `Spawn`, `Exit`, `Crash`, `Remove`, `Wake`, `Run`, `Switch`, fault handlers | code loader, timer and fault interrupts | a pid names one process, the table holds every live process, schedulable processes run |
| Hardware threads (`src/HardwareThreadScheduler.cc`, `HALKit/AMD64/HalCoreScheduler.cc`) | busy / awake flags, process control blocks | `Switch`, `IsBusy`, `Wake`, `mp_register_process`, `mp_get_cores` | process scheduler | a busy core is not taken over |
| Semaphore, timers, lock delegate (`src/Semaphore.cc`, `src/Timer.cc`, `HALKit/AMD64/HalTimerAMD64.cc`, `KernelKit/LockDelegate.h`) | the locking process, timer counters | `Lock`, `LockOrWait`, `Unlock`, `WaitForProcess`, `Wait` | kernel code | one holder at a time; a wait ends |
| Code loader, process memory, libraries (`src/PEFCodeMgr.cc`, `src/UserProcessScheduler.cc`, `src/IPEFDLLObject.cc`) | the cached image, the blocks the loader takes, the list of allocations of a process | load, `FindSymbol`, `rtl_create_process`, `New`, `Delete`, `Exit`, DLL init / fini | process creation, user code | every block is accounted for, and only the text of `StringBuilder::Construct` is freed twice |
| IPC (`src/Network/IPC.cc`) | message headers | construct, pass, sanitize | servers | only well-formed messages pass; data stays inside a packet |
| Paging (`HALKit/AMD64/HalPagingMgrAMD64.cc`) | page tables, page cache | `mm_map_page` | heap, scheduler | the mapping of an address is the one asked for |
| Users (`src/User.cc`) | credentials | `Save`, `Matches` | session | a stored password matches |
| Boot loader (`ZBAKit/src/HEL/AMD64/BootMain.cc`, `BootThread.cc`, `BootFileReader.cc`, `BootATA.cc`) | handover block, loaded blobs | read files, format, start the kernel | firmware | the kernel starts with a complete handover |
| Interrupts (`HALKit/AMD64/HalInterruptAPI.asm`, `HalDescriptorLoader.cc`, `HalCoreInterruptHandlerAMD64.cc`, `src/Stop.cc`) | descriptor tables, PICs, the stack of the boot core, the tables of calls | load GDT and IDT, stubs, handlers, system and kernel calls, `ke_stop` | processor and devices | a stub returns to where it came from; lines are served; a fault stops the kernel |
| Firmware tables and PCI (`src/ACPIFactoryInterface.cc`, `HalCoreScheduler.cc`, `HALKit/AMD64/PCI/*`) | the tables and configuration words as found | `Find`, `mp_get_cores`, the device iterator, activation of the AHCI controller | start-up, drivers | the walk stays inside the table; the device found is the one there is |
| Containers and strings (`NewKit/*`, `src/KString.cc`, `src/Utils.cc`) | nodes, buffers | arrays, lists, strings, the JSON reader | everyone | they agree with what a C string, a list, a pair is |
| SCIKit, Modules headers | - | system call stubs, register layouts | user code, drivers | - |

The hard behaviours are: crashes between the disk writes of one operation
(NeFS); searches that follow links which earlier operations wrote (NeFS);
tables and counters at their limit (process team, NeFS); pointers used after
the object they name has gone (process team, heap); interrupts that arrive
while the scheduler runs (AMD64 handlers); waits that must end (timers, ATA and
AHCI polling).  `PROJECT.json` lists the forty that
matter most line by line under "hazards"; the comments of the modules name the
lines of the others.

## 2. Plan

The order follows how much other parts rest on a component and how hard it is
to test.

1. **NeFS catalogs** (done): `NeFSPath`, `NeFSCatalog`, the abstract
   `NeFSNamespace`, `NeFSCatalogProofs`.
2. **Process team** (done): `ProcessTeam`, the abstract `ProcessRoster`,
   `ProcessTeamProofs`.
3. **Kernel heap** (done): `KernelHeap`, `KernelHeapProofs`.
4. **NeFS forks** (done): `NeFSFork`, `NeFSForkProofs`.
5. **Storage** (done): `AtaPio` and `AhciDma` under `DriveMgr`, `MCStorage`,
   `StorageProofs`.
6. **Boot and formatting across restarts** (done): `BootLoader`, `BootProofs`.
7. **The machine** (done): `HardwareThreads`, `Interrupts`, `MCMachine`,
   `MachineProofs`.
8. **Services of the kernel** (done): `FileMgr`, `CodeLoader`,
   `ProcessMemory`, `Semaphore`, `LockDelegate`, `Timers`, `Paging`, `Strings`,
   `Containers`, `Messages`, `Users`, `FirmwareTables`, `Pci`, `MCServices`,
   `ServicesProofs`.

Still worth doing: an abstract specification of the drive (a read returns the
last write of each word) that `AtaPio` implements.  `ReadMatches` says the same
of one request; the driver's count of sectors, which is one too large for most
sizes, has to be part of what is promised.

Composition: `DriveMgr` extends both drivers.  `MCMachine` and `MCServices` put
components that share no state side by side: the variable `subject` says which
of them a behaviour is about, the others rest in one initial state.  What they
do share is modelled inside each: `FileMgr`, `CodeLoader` and `ProcessMemory`
have other users of the heap as steps of their own.

## 3. The modules

### NeFSPath, NeFSCatalog and NeFSNamespace

`NeFSPath` abstracts catalog names.  A name is a sequence of components; a
component is a directory (it ends in `/`) or not, and is short (one character)
or not, because the code that cuts the parent from a name behaves differently
for these (`NeFS.cc:269-304`).  `Ancestor` and `Levels` say which catalogs
`FindCatalog` looks up, in order, on its way to a name.

`NeFSCatalog` is the parser.  `disk` is the array of catalog slots, `block` the
counters of the partition block, `pc`, `call` and `cur` the running call with
the locals of `FindCatalog` and of the scan in `CreateCatalog`, `res` the last
result.  One action is one disk access with the computation around it:

| actions | code |
|---|---|
| `CreateCatalog`, `GetCatalog`, `RemoveCatalog` | entry and early returns |
| `FindAncestor`, `FindNext`, `FindFallback`, `FindReturn` | the loop of `FindCatalog` and its fallback to the whole list |
| `FindParent`, `ParentReturn`, `ScanReturn`, `ScanNext` | the search for the parent and for a free slot |
| `WriteNewCatalog`, `CreateBlock` | the two writes of a creation |
| `MarkDeleted`, `RemoveMissing`, `RemoveBlock` | the writes of a removal; a missing name reads flags through a null pointer, which is a choice of outcomes |
| `Crash` | the machine stops between two accesses; the disk stays |

`NeFSNamespace` is what the store promises: a set of names, calls that take
effect at one instant, answers computed from the set at that instant.
`ImplementsNamespace` is the refinement: `names` is the set of names in used
slots, and a creation takes effect when the catalog is written, although the
call goes on to write the partition block.

That calls end is a property of its own, `CallsEnd`, because the searches nest:
a name that is not found sends the search back to the start of the list
(`NeFS.cc:769`), once per ancestor of the name, and then the parent is searched
for in the same way.  `StepsLeft` counts what is left over these three, every
access of a call lowers it (`CallsDescend`), and no call starts above
`CallBudget`, four times the disk per component of the name and three times more.

### NeFSFork

Forks on the sectors that `ATA-PIO.cc` really moves.  The driver transfers one
byte per 16-bit word, so 512 bytes of a header occupy two sectors (names in the
first, numbers in the second), and its sector count register has eight bits, so
that of the 16 MiB of a fork one sector is written.  `disk` maps written
sectors to their contents; `HeaderAt` is what a read finds at an address, also
when its two sectors come from different writes.  `CreateRead`, `LinkPrevious`,
`StoreFork` are the accesses of `CreateFork`; `WriteRead`, `WriteData`,
`WriteForkHeader` those of `WriteCatalog`; `ReadStep` those of `ReadCatalog`;
`Crash` as above.  `last`, `made` and `stored` are history.  `StepsLeft` is the
sector a call looks at: siblings lie below, so a search moves down.

Assumed: fork sizes are whole sectors, catalog names are shorter than 56
characters, the buffers of a call do not overlap (the heap's contract).

### ProcessTeam

`mProcessList`, `mCurrentProcess` and `mProcessCount` are the members of
`UserProcessTeam`; `proc` has the id and status of every process object and
whether it has been deleted.  `CreateProcess` is `rtl_create_process` with
`Spawn`, and its failure, which deletes the object; `Crash`, `Wake`, `Remove`
call `Exit` and change the status as the code does, on deleted objects too;
`Fault` and `Breakpoint` are the AMD64 handlers, `Run` is the timer's.  Index
`Limit` of the table is the member behind it, as `Array::Assign` checks
nothing.  `KernelNext` leaves `Remove` out, which nothing in the repository
calls; `Next` has it.  Allocation is the heap's contract, so the branches of
`Spawn` for failed allocations are not taken.  `PTime`, exit codes, signals and
the switches of CR3 are left out: nothing in this module reads them, since
`Run` returns before it looks at a process (`Array::Empty` is inverted) and
`Switch` is never reached.

`ProcessRoster` is what the team amounts to while nothing calls `Remove`: a
sequence of processes, those that run, whether the kernel has stopped, and the
last answer.  A process has the id of its place; one is admitted at the end,
refused when the roster is one longer than the table, and only the last of a
full roster ever leaves, by a crash while it runs.  `ImplementsRoster` maps the
table to it: the roster is read off the table, and the member behind it, up to
the count.
Pointers in the table to deleted objects, the status of those objects and the
current process do not appear, so the property says that they never decide
what a caller sees.

### KernelHeap

A caller holds at most one pointer and may use it after it, or somebody else,
has freed it.  `bitmap` and `hib` are the headers of the two blocks that
`FindBitMap` can look at, `data` what the caller has stored.  `New`, `Delete`,
`Protect`, `IsValid`, `Make` are the functions of `Heap.cc` with what they call
in `PageMgr.cc` and `BitMapMgr.cc`; `Write` is a caller.  `PageMgr::Free` gets a
reference to a temporary, so whether the bitmap header is marked free is a
choice.  `MUST_PASS` stops in a debug build and does nothing in another, which
is a choice as well.  Assumed: callers do not store the magic word of a bitmap
where `FindBitMap` looks.

### AtaPio, AhciDma, DriveMgr

`AtaPio` is the PIO driver beside the drives on two buses.  A drive acts between
any two register accesses: it may be busy for as long as it likes, fail a
command, or be missing, and then its status reads 0.  The driver moves one byte
per 16-bit word and one sector more than the size needs; the words of the disk
are kept, so that a write is compared with what a read returns.  `AhciDma` is
the AHCI driver and one port: the probe, the restart of the engine, the search
for a slot in the mask of commands that earlier reads may have left, the poll
for a busy port and the waits for `Ci` and `Is`.  The data of an AHCI read are
not modelled; `AHCI` writes are empty in the driver.  Registers are read
whenever the code reads them, as if they were volatile.

`DriveMgr` chooses a build (`__ATA_PIO__` or `__AHCI__`), constructs and mounts
the main drive, initialises it (the primary bus, then the secondary one),
detects its partition map and passes NeFS's packets on.

### BootLoader

From `Main` to `hal_init_platform`.  `machine` is what a build and a computer
bring along (size of the drive, the byte after the literal `kNeFSIdent`, whose
`memcpy` is used), `volume` the boot volume, `disk` the partition block, the EPM
block, the root catalog and the number of catalogs of the kernel, `rd` the file
reader, `blob` and `start` what was read and loaded, `hand` the hand-over, `svc`
the firmware.  `Format` is three writes with a power cut between any two; after
it the machine is reset.  `KernelCreates` is the kernel creating a catalog,
which changes the block the next start will check.  `StartLeft` ranks the places
of the loader, the files that are left and what is left of the one being read;
a disk that fails the check counts for more, so that the second start of a disk
that was just formatted is lower than the first (`StartsDescend`).  `PowerCut` and `ReadFails`
are bounded by `MaxCuts` and `MaxErrors`.  Undefined behaviour of the loader is
a choice made once in `Init`, because a build settles it.

### HardwareThreads, Interrupts

`HardwareThreads` is `UserProcessHelper::Switch`, core by core, with the static
counter of `IsBusy` that all cores share, the failures of
`HardwareThread::Switch` (asleep, busy, bad stack) and the roll-back.  `Run`
never reaches `Switch` and nothing in the repository calls `Wake`; both are
operations the classes offer, and the module says what they do when called.  A
core is named by a `Ref` to a copy that is gone, and so is the id of the
current process that `Switch` writes (`UserProcessScheduler.cc:544`): a caller
that meets another word there, or no current process, may fault or write
elsewhere, and is `astray` from then on.

`Interrupts` is the boot core.  The stack is kept word by word, since a stub
returns with `iret` from whatever is on top.  `LoadGDT` and `LoadIDT` are the
start-up with the PICs; `Deliver`, `Raises`, `Calls`, `FastCall` enter a stub;
`Stub`, the handlers and `Iret` carry it on; code that returned to a wrong place
is `lost` and faults.  `ke_stop` ends the kernel.  The plain flag
`is_scheduling` is only ever touched by the boot core with interrupts off.

Whether the team has a process (`TeamHasProcess`, which the inverted `Empty` of
`Run` asks) and whether there is a current process (`HasCurrentProcess`) are two
facts: `Spawn` never sets the current process, only the process it writes behind
the full table overwrites it.  So a normal start leaves a team with one process
and no current one, and a breakpoint then stops the kernel
(`HalCoreInterruptHandlerAMD64.cc:136`); the code goes on only behind a table
that has overflowed.

### FileMgr, CodeLoader, ProcessMemory

These three follow memory: a node, a block or a list entry is held, freed, or
held by somebody else.  `FileMgr` has streams and the installer that runs at
every start (`Restart`, with a stop between any two of its calls).  A stream
that has written has had its node deleted by `WriteCatalog` and deletes the
address again (`DeleteNode`): the heap refuses a block that is free, and frees
one that another stream or another part of the kernel (`OthersAllocate`) has got
in the meantime, whose `holds` is false from then on and which sets `harm`.  A
file system that is not NeFS is external.

`CodeLoader` is `PEFLoader` on images of every kind and `rtl_create_process`;
what an `ErrorOr` that outlives its value holds is a choice.  The string that
`StringBuilder::Construct` makes is followed as well: its object is lost
(`Object`), its buffer is freed by the destructors of two copies (`Buffer`,
`BufferAgain`; the heap refuses the second), and `FindSymbol` appends to what
was there (`Appended`: the call goes on, faults, or has written somewhere that
is no longer followed).

`ProcessMemory` is `New`, `Delete` and `Exit` whole: the loop over the list and
behind it the directory, the image, the frame, the stack and the object
(`parts`), with `MUST_PASS` as in a build with `__DEBUG__`, and `rtl_init_dll`.
The tls templates need the current process (`ThreadLocalStorage.inl:20`);
without one they stop the kernel.

### Semaphore, LockDelegate, Timers

Callers of a semaphore interleave between calls, not inside one: one core runs
the callers and nothing preempts them, but `LockOrWait` waits on a timer between
its two attempts, so others come in between.  `LockDelegate` is its loop beside
the side that sets the flag.  `Timers` keeps the width of the signed word,
because the software wait ends by overflow; a build may also take the condition
for always true (`compiled`).

### Paging, FirmwareTables, Pci, Strings, Containers, Messages, Users

`Paging` is `mm_map_page` with its store of the last entry, over directories of
several processes, and the switches of CR3.  `FirmwareTables` and `Pci` are the
walks over tables and configuration words that the firmware left (external,
every content within the bound; the memory behind a table has no signature that
is asked for).  Both go through a `Ref` to a copy that is gone: `mp_get_cores`
takes any memory for its MADT, and `Select` any slot for an entry of the
iterator, with `overwritten` saying whether it was another one.  `Strings`,
`Containers` and the JSON reader are algorithms against reference definitions
over every text within the bound, with arbitrary characters behind the
terminator.  A `KString` is built with a size and appended to, beyond its buffer
too; what `Construct` returns is dead (`CodeLoader` says what its caller then
does).  `Messages` are packets whose fields processes write as they like, magic
and sender included, with the current process, which need not be the caller,
where the kernel asks for it; `Users` are the tokens under an arbitrary hash.

## 4. The runs

| run | instance | checks |
|---|---|---|
| `nefs_catalog` | 6 slots, room for 3 creations, 1 lost update, 7 names up to 3 deep, counters modulo 3 | types, dense list, unique names, exact lookups, true verdicts of creation, exact counters, durability, every call ends within its budget (`CallsEnd`), refinement of `NeFSNamespace` |
| `nefs_remove` | the same | **violated**: a removed catalog is still found |
| `process_team` | table of 3, 5 objects, without `Remove` | the table holds exactly the live processes, refinement of `ProcessRoster` |
| `team_remove` | table of 2, 4 objects, `Remove` of every index, count down to -1 | no gaps, the current process is set only by overflow |
| `kernel_heap` | 2 callers, 3 allocations, 3 contents, one of them with checksum 0 | frees within allocations, protected blocks are not freed when changed |
| `heap_disjoint` | the same | **violated**: two owners get one block |
| `forks` | 2 catalogs, 2 fork names, sizes 0 to 3, smallest disk, crashes | catalogs do not touch each other's forks, the last fork is found |
| `fork_calls` | 1 catalog, no crashes | siblings lie below, every call ends, moving down (`CallsEnd`) |
| `storage` | both builds, two buses with every arrangement of drives, a disk of 3 sectors, requests of 1 to 4 words (a sector has 2 words and 4 bytes); 2 ports, 4 slots, 3 reads | a request reaches the drive that was found, a write is read back, failed reads are seen; it changes only its own words and leaves old commands alone (`RequestsApart`); a drive that is there is mounted, every ATA request returns, and of the AHCI reads all but those behind a halted port, which never do (`RequestsEnd`) |
| `boot` | drives of 3 sizes, files of 2 chunks, 5 images, 1 power cut, 1 failed read, 2 catalogs | a complete hand-over, a disk in use is not formatted again, loading stays in its pages; the machine settles and passes no place twice (`BootEnds`) |
| `machine` | 3 cores, 2 blocks, times 1 and 3; the timer line and one of the slave, 5 exceptions, 2 calls, a table of 1 process, 3 raised lines | a core keeps the time and the context of its process, a stub returns home, nothing stays in service, calls are served; a call of `Switch` ends, lines are delivered, faults stop the kernel for good (`CoresProgress`) |
| `services` | 2 streams, 2 nodes, 15 blocks, 4 allocations of a process, 3 callers, a word of 4 bits, 2 processes and pages, texts of 4 characters, 2 senders and 3 writes of a field, 2 users, tables of 4 records, 2 buses | see the groups below |

The groups of `services`, each the conjunction of the properties of its modules:

- `FilesSound`: a stream that does not write holds its node, alone, until it is
  closed, unless one that has written frees the block a second time; before any
  write went through nobody loses a block (`NodeHeld`).  No node is left behind
  or shared (`NodesFreed`).  The system page has its one fork unless the machine
  was once switched off between the catalog and the fork; then it has none, on
  this and every later start (`PageForked`).
- `LoadsSound`: no block of a program is freed twice, whereas whoever has a
  symbol has had a name's buffer freed twice (`FreedOnce`); every block belongs
  to somebody or is known to be lost (`BlocksAccounted`); what `Exit` has freed
  of a process that is gone and what it has left (`ExitLeaves`); memory of
  others is freed only by an `Exit` that stops the kernel (`HarmStops`); no
  process is made from a file of NeFS, and none gets a library object.
- `PagingSound`: flags as asked, the store, CR3 after every call.  That
  `RequestPage` gives no page follows from one line, a new page being present.
- `HardwareFound`: `Find` stays inside the XSDT and finds the first table; the
  walk over the MADT leaves `kAPICLocales` in one case, which `LocalesInside`
  names, and in no other; an AHCI controller that is the only storage is found
  unless a copy that was gone had been overwritten.
- `TextsSound`: the algorithms, and what a `KString` reads as and equals.
- `MessagesSound`: a sane packet has had its size replaced (`SaneTakesWork`) and
  is not copied onto itself (`NoEcho`); nothing is written behind a packet
  unless both processes announced more than there is (`StaysInside`); a packet
  whose sender the kernel chose gets only what is for the current process
  (`ForTheCurrent`).
- `WaitsSound`: who holds the semaphore, what ends a wait.

Several say what the code does where its names promise more (`ExitLeaves`,
`NoProcessFromNeFS`, `HaltedWaits`, a hardware wait that ends at once or never).
They are stated so that a repair of one line shows at once in what else it
changes; `HarmStops`, `NodesFreed`, `StoreHonest`, `OneHolder` are what has to
stay true afterwards.  `Users` has its type invariant only: as the code stands
nothing is ever saved and nobody matches.

Why the bounds are enough.  *Catalogs*: three creations and a lost update fill
the disk to the point where `FreeCatalog` refuses; seven names give a parent, a
grandparent, a short name whose parent is computed wrongly, siblings, and
children created before their parents; counters wrap at 3.  *Team*: one object
more than the table and its overflow cell, so that the refusal happens as well.
*Heap*: the zone has only the two blocks the code can reach; two callers alias,
a third allocation reuses what was freed.  *Forks*: two neighbouring catalogs
show whether zones touch; the zones of others are further away.  *Storage*: sizes
below, at and above a sector, with a sector more on the disk than a request
needs; two ports, so that the first may be the wrong one; more slots than reads.
*Boot*: one cut at every step and one more start after it.  *Machine*: the boot
core and two that can be busy with each other's count; a line of each PIC, and
exceptions with and without an error code, with and without a handler; a table
that is full with one process, so that a second one becomes current.
*Services*: a third allocation of a process, a third caller behind a holder and
a waiter, a word that overflows, a packet of the largest size and one more, a
table that is shorter than its header, one record more than cores.  Fifteen
blocks are what one load and one process take (`Room`; symbols are asked for
while `Spare` are free); two nodes are enough for one stream to free the other's;
three writes make one packet sane, or let two of them announce 7000 bytes and
one name its addressee.  `fork_calls`
has one catalog because `forks` shows that catalogs do not read each other's
sectors.

Deadlock is checked where the system must be able to go on (file system).  It is
off for the others: a halted kernel stops, a loader returns, an answered call is
over, and the bounds on objects and allocations end a run.

Fairness of the file system is weak fairness of the steps of the running call
(`Step`), in the runs with `CallsEnd` only: a parser call
runs on its caller's thread and is carried on until it returns; an ATA access is taken to end.  Starting calls and
crashing are not fair.  In `nefs_catalog` crashes are part of the
specification: a crash ends the call.  In `storage` the drivers, the manager
and the drives are weakly fair: a drive that took a command ends it, well or
with an error, which is what the drivers' unlimited waits rely on; a drive that
hangs for ever would hang the kernel, and the AHCI read behind a halted port
does.  In `boot` the loader's steps are weakly
fair and cuts are not; `BootEnds` assumes a build in which the byte after the
literal is the one `Format` leaves, since the disk is formatted at every start
otherwise.  In `machine` the core carries on what it is in (weak), a line that
is pending is taken at one of the moments interrupts are open (strong: stubs
close them again and again), and a call of `Switch` goes on to its end (weak).
Nobody is assumed to call `Switch` or `Wake`, since nothing in the repository
gets there: whether cores are ever given out is not claimed.  In `services` only
the loop of the lock delegate is fair.

Disagreements with comments that the models show although no run is about them.
`UserProcessScheduler.cc:282` says `Spawn` returns "the process index inside the
team"; the id is the count, which every exit lowers, so after a removal a live
process loses its entry to a new one (`TeamExact` holds only without
`Remove`).  `NeFS.cc:87` says "Loop until we get what we
want, that is a free fork zone"; `kBadAddress` is 0, the loop ends at the first
fork with a sibling, and a second fork is written over the first.  A stop between
the two writes of `CreateFork` (`:136`, `:152`) leaves a header that is its own
sibling, and `ReadCatalog` of that catalog does not return, which is why
`fork_calls` has no crashes.

`WriteCatalog` deletes the node it was given (`NeFS.cc:704`) and `~FileStream`
deletes it again (`FileMgr.h:423`), so that a stream in mode w that has written
frees what has become another stream's or somebody else's block; `NodeHeld` says
when.  A machine that is switched off between the catalog of the system page and
its fork (`KernelMain.cc:147`) finds the page on every later start and never
makes the fork (`PageForked`).  `UserProcessScheduler.cc:217` says of the
allocations "Make sure to free all of them", `:237` "Free the memory's page
directory" and `:240` "Delete image if not done already"; the loop stops the
kernel at the first one that is freed, and the directory, the image and the
stack frame stay (`ExitLeaves`).  `StringBuilder::Construct` (`KString.cc:91-94`)
loses the string it makes and returns the address of a copy whose destructor has
freed the buffer, a second time (`KString.h:44`, `Ref.h:35`, `ErrorOr.h:41`);
`FindSymbol` appends to it.  `User.h:69` says `Save` "saves a password" and
`User.h:71` that `Matches` "checks if a password matches"; both take the 0 with
which the hash ends for a failure.  `IPC.h:102` says a constructed packet is
correct; its size is above the limit of the check and its sender is the current
process, not the caller.  `IPC.h:66` says "message cannot be greater than 6K";
`Pass` compares the two announced sizes with each other and not with the array
(`StaysInside`).  `mp_get_cores` does not look at the length of the MADT and
indexes `kAPICLocales` by the record (`LocalesInside`).  `operator[]` of the PCI
iterator and `Find` return a `Ref` to a copy that is gone (`Ref.h:35`).  An AHCI
read that fails and halts the port returns; the next one takes another slot and
waits at `AHCI-DMA.cc:272` for ever (`HaltedWaits`).

Observations that are not runs, since they restate one line: `Spawn` accepts a
33rd process and `Array::Assign` writes it behind the table
(`UserProcessScheduler.cc:341`; `CurrentByOverflow` is about what follows);
`Remove` answers true for a process removed before (`:384`); `Run` returns when
the team has a process (`:417`); the handlers freeze a process before `Crash`
looks whether it is running
(`HalCoreInterruptHandlerAMD64.cc:29`), so it is not exited;
`mm_is_valid_heap` looks for a bitmap in the caller's memory (`Heap.cc:270`) and
answers no; `WriteCatalog` writes its copy of the header one sector below the
fork (`NeFS.cc:697`), which covers the names of the header it copies, so that
`ReadCatalog` no longer finds a fork that was written.

## 5. The proofs

All theorems hold for every value of the constants that satisfies the named
assumptions, which TLC evaluates in the runs.

**`NeFSCatalogProofs`** (assumption: there is a slot for every catalog that
`FreeCatalog` and the crashes allow, which holds because `FreeCatalog` is
`SectorCount / 512` and a catalog takes four sectors).  The inductive invariant
is `IndInv`: `TypeOK`; `KindInv`, what the running call may be; `StoreInv`, the
used slots are a prefix, each links to the next, and the counters match;
`NamesUnique`; `SearchInv`, what a search in progress has established about the
slots it has passed; `GetExact`; `CreateVerdict`.  `NamesUnique` alone is not
inductive: a creation relies on a search that ended several steps earlier, so
the invariant must say that a name that was not found is still absent when the
catalog is written.  One lemma per action shows `IndInv` preserved; `Durable`
follows from the invariant step by step.  `CallsAlwaysDescend` and
`CallsStayBounded` are the part of `CallsEnd` that needs no fairness: the rank
`StepsLeft` falls with every access of a call and never exceeds the budget of
its name.  The rank is a sum over the level of `FindCatalog`, whether its
fallback has run, and the cursor; a step lowers one of these and may raise those
behind it, by less than the lowered one weighs.

**`ProcessTeamProofs`**.  `TableInv` (`TypeOK`, `NoGaps`, `CurrentByOverflow`)
is inductive with `Remove`; `KernelInv` without it.  `KernelInv` adds that only
live processes are running and that the current process, if it is alive, is the
one behind the table, which is why `Crash` lowers the count only for the last
id and ids stay exact.  Most actions only change a status: the lemmas named
`Quiet` reduce them to one case.  `TeamIsARoster` is the refinement of
`ProcessRoster`, for every size of the table: `KernelInv` gives that live
processes are exactly those of the table up to the count, each at its own id, so
a spawn appends and a crash, if it exits anyone, drops the last place.

**`KernelHeapProofs`**.  `HeapInv` says that no header is ever written above the
start of the zone; it follows that all allocations are one block
(`AllocationsAlias`), that `mm_delete_heap` succeeds at most once per allocation
(`FreesBounded`), and that a checksum is enforced (`ProtectionHolds`).

**The refinement** (`Refines` in `NeFSCatalogProofs`).  The parser, pointer by
pointer and with crashes between any two disk accesses, implements
`NeFSNamespace`.  The steps of the searches are stutters; a creation takes
effect with its first write and is pending until its second; the other calls
take effect when they answer.  That an answer is right at that instant is what
`SearchInv` is for; a crash maps to a loss of the pending call.

**`NeFSForkProofs`** (assumption `ForkAssumption`: the disk has room for the
zones of all catalogs, sizes are whole sectors).  `IndInv` says which sectors of
a catalog's zone can hold what (`DiskInv`): a header at `DataFork(c)`, and one
sector below it the copy that `WriteCatalog` leaves there.  `ForksApart` follows
for every number of catalogs.  `LastInv` follows the header that was created
last until a fork of its catalog is stored.  `SiblingsLieBelow` is about
`FairSpec`, which has no crashes, like the run `fork_calls`; it needs
`NoneEmpty`: the header that is its own sibling is on the disk only until the
second write of the same call.  `CallsAlwaysDescend` follows, for every content
of the disk: a search goes on only to a sector below the one it looked at.

**`StorageProofs`** (assumptions `AtaAssumption`, `AhciAssumption`: a sector has
an even number of bytes, a port has two slots at least; the hardware has 32).
For ATA the drive's place in its command is the driver's place in the request,
word by word, until the command is over, and what a drive holds back are the
last words of the caller: `WordsInv` relates the two counters through the
sector the drive is in.  `ReadMatches` is about the sizes that the count of
sectors covers (`Covered`), because the driver asks the drive for
`(size + SectorSz) / SectorSz` sectors of half as many words as bytes; for the
others the driver goes on to take words that the drive does not have.  For AHCI, a failed read that is
left in its slot halts the port, so that there is at most one, in slot 0, and
the next read takes slot 1.

**`BootProofs`** (`BootAssumption`, `ImagesAssumption`: the sections of an image
end inside it).  `IndInv` says for each place of the loader what has been done
since the last reset (`StageInv`) and that a disk with a catalog passes the
check that would format it (`DiskInv`), which a power cut between the writes of
`Format` must not break.  `StartsAlwaysDescend` says that a start gets nearer to
its end with every step, also across the reset after a formatting.  For that
`FormatInv` adds what formatting has established when the machine is reset: a
drive large enough, and a block that the next check accepts, provided the build
keeps the byte after the identification.  The files are counted from the last to
the first, each with room for the longest file (`LargestNumber`).

**`MachineProofs`** (`ThreadsAssumption`, `InterruptsAssumption`).  `ThreadsInv`:
a busy core has a process, and its time and context are those of the switch
that was granted, whatever later attempts failed and were rolled back.
`InterruptsInv` says what the stack can be at every place of the core: the frame
of the code, a second one of the page fault that interrupts the scheduler, and
an error code only where the processor pushed one.  `StopIsFinal` is an action
property.

**`ServicesProofs`**.  A service acts only in the behaviours that are about it
and rests in the others, so each has an invariant of its own and a lemma that no
step of `MCServices` breaks it.  Those that say more than the property: a
caller that waits without having been refused is the one that holds the
semaphore (`SemInv`); a stream that holds a node holds it alone, and a node of
the streams is held by one (`Owned`); nobody has lost a node before a write, and
until a delete frees what another stream holds only writers have (`Losers`); the
fork of the page is made right after its catalog or never (`InstallInv`); the
heap has room for what `rtl_create_process` has still to take, and no allocated
block has two owners or none (`Need`, `Disjoint`); the counters of a timer and
what is left of the sum (`Counting`, `Polling`); what a process has not written
in its packet is as `ipc_construct_packet` made it (`AsMade`); a `KString` none
of whose texts was empty has the bytes said (`StringsInv`); the iterator has the
devices that the probe kept (`PciInv`); what `mp_get_cores` stored is what some
content of the memory behind the reference gives (`TablesInv`).
Assumed: the heap is finite
(`LoaderAssumption`), the word of an entry count is larger than a table
(`TableSizes`).

Where an argument is by induction it is made by the smallest counterexample
instead, which needs no operator as a parameter (`MinIs`, `LeastNumber`,
`WFMin` for the order of the naturals): the first free slot, the first
terminator of a text, the first entry of a table, the shortest beginning of a
text that the recursive function `Shown` would not cover.  With the equation of
that function proved (`ShownUnfolds`), what the JSON reader has done with a text
so far is an invariant of its loop (`JsonInv`: the key is what was shown until a
colon, then everything goes to the value or behind a terminator), and
`JsonFirst` is that invariant at the end of the text.

Only model-checked: what needs fairness, since liveness and `ENABLED` are beyond
the prover, and the two violations.  Of `CallsEnd` (catalogs and forks) and
`BootEnds` this is the half named `CallsComplete` and `BootSettles`: that a rank
falls with every step is proved, that the next step is taken is what the runs
add.  `RequestsEnd` and `CoresProgress` have no such rank: a drive may be busy for as
long as it likes, and a line is delivered when the interrupts are open again.
They are model-checked as a whole, `HaltedWaits` among them (of `CoresProgress`,
`StopHolds` is proved), like the end of the delegate's loop in `WaitsSound`,
whose remaining conjuncts `WaitsAreSafe` states.

## 6. What is not modelled

The components listed as `not_modelled` in `PROJECT.json`, with the reason; of
the modelled ones: `FindFork` (reads into a null buffer, no callers), `Seek` and
`Tell` (not implemented), the kernel's `Format` (no caller), `mm_realloc_heap`
(stops the kernel), `FreePage` and the toggles of `Pmm` (no callers), the data
of AHCI reads, `FileStream::WriteAll` (cannot be instantiated), the general
registers, inter-processor interrupts (no caller), conversions of numbers to
text, ARM64 and the other architectures (stubs), log output, drawing, and the
contents of files.

Assumed throughout: the kernel is built with `__DEBUG__` where `MUST_PASS`
matters, except in `KernelHeap`, which has both; device registers are read
whenever the code reads them; buffers of one call do not overlap; callers of the
kernel run on the boot core.  Seen while modelling and left as it is: the
bus master bit of a PCI device is set only where the code asks for another bit,
an XSDT shorter than its header gives a huge number of entries.  What disagrees
with the documentation is at the end of section 4.
