----------------------------- MODULE MCServices -----------------------------
(***************************************************************************)
(* The services of the kernel, one of them at a time: the file manager,    *)
(* the program loader, the memory of a process, the things callers wait    *)
(* on, paging, texts, messages, users, and what is found in the firmware's *)
(* tables and on the PCI bus.  The others rest in an initial state.        *)
(***************************************************************************)
EXTENDS FileMgr, CodeLoader, ProcessMemory, Semaphore, LockDelegate, Timers, Paging, Strings,
        Containers, Messages, Users, FirmwareTables, Pci

VARIABLE subject   \* the component this behaviour is about

vars == <<subject, fileVars, loaderVars, memVars, semVars, lockVars, timerVars, pagingVars,
          stringVars, containerVars, messageVars, userVars, tableVars, pciVars>>

\* What rests has one value, given before the component's own Init is asked.
Init ==
    /\ subject \in {"files", "loader", "memory", "semaphore", "lock", "timer", "paging", "string",
                    "array", "json", "message", "address", "user", "table", "pci"}
    /\ \/ subject = "files"
       \/ subject # "files" /\ catalogs = {} /\ file = <<>>
    /\ FilesInit
    /\ LoaderInit
    /\ subject # "loader" => fs = "NeFS" /\ image.magic = "bad" /\ image.count = 0 /\ image.own
    /\ \/ subject = "memory"
       \/ subject # "memory" /\ dll = "none" /\ current = FALSE /\ parts = Spawned
    /\ MemoryInit
    /\ SemInit
    /\ \/ subject = "lock"
       \/ subject # "lock" /\ expr = FALSE /\ kept = "read" /\ fLockStatus = {}
    /\ LockInit
    /\ \/ subject = "timer"
       \/ subject # "timer" /\ kind = "software" /\ fWaitFor = 0 /\ compiled = "wraps"
    /\ TimersInit
    /\ \/ subject = "paging"
       \/ subject # "paging" /\ words = [x \in Spaces \X Indices |-> NoEntry]
    /\ PagingInit
    /\ \/ subject = "string"
       \/ subject # "string" /\ text = [i \in 1 .. TextRoom + 1 |-> 0] /\ needle = text
    /\ StringsInit
    /\ \/ subject = "json"
       \/ subject # "json" /\ json = [text |-> <<>>, at |-> 1, array |-> TRUE, probe |-> TRUE,
                                      key |-> <<>>, value |-> <<>>]
    /\ ContainersInit
    /\ \/ subject = "address"
       \/ subject # "address" /\ ip = <<"dot">>
    /\ \/ subject = "message"
       \/ subject # "message" /\ mCurrentProcess = {}
    /\ MessagesInit
    /\ \/ subject = "user"
       \/ subject # "user" /\ ring = [u \in UserNames |-> "std"]
                             /\ hash = [x \in {"kStdUserType", "kSuperUserType"} \X (Passwords \cup {Empty})
                                        |-> CHOOSE t \in Tokens : TRUE]
    /\ UsersInit
    /\ \/ subject = "table"
       \/ subject # "table" /\ xsdt = [length |-> 0, tables |-> <<"APIC">>]
    /\ TablesInit
    /\ \/ subject = "pci"
       \/ subject # "pci" /\ machine = [s \in Slots |-> "none"] /\ command = {} /\ bar = [high |-> 1, low |-> 0]
    /\ PciInit

\* The step of one component and what it leaves alone.
Next ==
    /\ UNCHANGED subject
    /\ \/ subject = "files" /\ FilesNext
       \/ subject # "files" /\ UNCHANGED fileVars
    /\ \/ subject = "loader" /\ LoaderNext
       \/ subject # "loader" /\ UNCHANGED loaderVars
    /\ \/ subject = "memory" /\ MemoryNext
       \/ subject # "memory" /\ UNCHANGED memVars
    /\ \/ subject = "semaphore" /\ SemNext
       \/ subject # "semaphore" /\ UNCHANGED semVars
    /\ \/ subject = "lock" /\ LockNext
       \/ subject # "lock" /\ UNCHANGED lockVars
    /\ \/ subject = "timer" /\ TimersNext
       \/ subject # "timer" /\ UNCHANGED timerVars
    /\ \/ subject = "paging" /\ PagingNext
       \/ subject # "paging" /\ UNCHANGED pagingVars
    /\ \/ subject = "string" /\ StringsNext
       \/ subject # "string" /\ UNCHANGED stringVars
    /\ \/ subject = "array" /\ ArrayNext
       \/ subject = "json" /\ Step
       \/ subject \notin {"array", "json"} /\ UNCHANGED containerVars
    /\ \/ subject = "message" /\ MessagesNext
       \/ subject # "message" /\ UNCHANGED messageVars
    /\ \/ subject = "user" /\ UsersNext
       \/ subject # "user" /\ UNCHANGED userVars
    /\ \/ subject = "table" /\ TablesNext
       \/ subject # "table" /\ UNCHANGED tableVars
    /\ \/ subject = "pci" /\ PciNext
       \/ subject # "pci" /\ UNCHANGED pciVars

\* The constructor of a delegate is a loop without a wait: it runs on.
Spec == Init /\ [][Next]_vars /\ WF_vars(subject = "lock" /\ Next /\ (Poll \/ GiveUp))

-----------------------------------------------------------------------------
\* Every variable of every component has its type.
TypesOK ==
    /\ FilesTypeOK /\ LoaderTypeOK /\ MemoryTypeOK
    /\ SemTypeOK /\ LockTypeOK /\ TimersTypeOK /\ PagingTypeOK
    /\ StringsTypeOK /\ ContainersTypeOK /\ MessagesTypeOK /\ UsersTypeOK
    /\ TablesTypeOK /\ PciTypeOK

\* A stream holds its node alone until it is closed unless a stream that wrote
\* has freed the block a second time, no node is left behind, and the page of
\* the installer has its fork but for a cut between the two (FileMgr.h:423,
\* NeFS.cc:704, KernelMain.cc:147).
FilesSound == NodeHeld /\ NodesFreed /\ PageForked

\* No block of a program is freed twice, while the buffers of the names are; what
\* the loader allocates is accounted for; what Exit frees of a process and what it
\* leaves; and a free of somebody else's block stops the kernel (PEFCodeMgr.cc:95,
\* KString.cc:94, UserProcessScheduler.cc:222).
LoadsSound ==
    /\ FreedOnce /\ BlocksAccounted /\ NoProcessFromNeFS
    /\ HarmStops /\ ExitLeaves /\ NoLibrary

\* LockDelegate's DelegateEnds, for the behaviours that are about a delegate.
LockEnds == (subject = "lock") => DelegateEnds

\* What callers wait on: one holder of a semaphore, whatever the others try
\* (Semaphore.cc), a delegate that ends and tells what it saw
\* (LockDelegate.h), waits that last as the loops of the two timers make them.
WaitsSound ==
    /\ [](OneHolder /\ DoneIfSeen /\ OverflowEndsWait)
    /\ YesAfterRefusal /\ SilentHolderStays /\ HardwareNeverWaits
    /\ LockEnds

\* Page entries get the flags asked for, the store never pairs an address with
\* an entry it has in no directory, and CR3 comes back but for the one exit that
\* leaves it (HalPagingMgrAMD64.cc, UserProcessScheduler.cc:214, Pmm.cc:40).
PagingSound == FlagsAsAsked /\ StoreHonest /\ Cr3Back /\ PmmGivesNothing

\* The walk over the XSDT stays where the table is and finds the first one, the
\* walk over the MADT leaves its array in one case that can be named, and the
\* controller that is there is found unless the stack was written over
\* (ACPIFactoryInterface.cc, HalCoreScheduler.cc:213, Iterator.cc:37).
HardwareFound == EntriesInside /\ FirstFound /\ LocalesInside /\ ControllerFound /\ LowHalfLost

\* The string routines agree with what a C string is on every text of the bound,
\* with arbitrary bytes behind its end (Utils.cc), a KString with the texts that
\* were appended to it (KString.cc), the JSON reader with the first pair of its
\* text, and an array keeps what it was given first.
TextsSound ==
    /\ LenExact /\ LimitKept /\ FoundExact /\ EqualsExact /\ Terminated /\ ComparesRight
    /\ FirstStays /\ JsonFirst

\* A packet takes work before it is sane, a sane one is not copied onto itself,
\* nothing is written behind a packet whose process announced what there is, and
\* what arrives in a packet was meant for the sender it names, whom the kernel
\* and not the process chose (IPC.cc, IPC.h).
MessagesSound == SaneTakesWork /\ NoEcho /\ StaysInside /\ ForTheCurrent /\ IpAccepted
=============================================================================
