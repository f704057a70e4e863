------------------------------- MODULE FileMgr ------------------------------
(***************************************************************************)
(* The file manager (src/dev/ZKAKit/src/FileMgr.cc, src/NeFS+FileMgr.cc,   *)
(* KernelKit/FileMgr.h) and the installer that runs on every start of the  *)
(* kernel (src/KernelMain.cc).                                             *)
(*                                                                         *)
(* The catalogs of the disk are a set of names and the forks of the one    *)
(* file a set: NeFSCatalog and NeFSFork model them in detail.  What counts *)
(* here is who holds the copy of a catalog (the node) that Open returns.   *)
(* The manager's parser is null, as its constructor leaves it; the methods *)
(* of the parser do not look at it.                                        *)
(***************************************************************************)
EXTENDS Naturals, FiniteSets

CONSTANTS
    Streams,   \* FileStream objects
    Nodes,     \* addresses in the heap
    NoNode     \* nullptr

ASSUME FileAssumption == NoNode \notin Nodes

VARIABLES
    mounted,    \* kMountedFilesystem is set
    catalogs,   \* the names on the disk
    file,       \* the forks of the file, and what each one holds
    pageForks,  \* the forks of the system page
    stream,     \* the open streams
    held,       \* who holds an address
    deleted,    \* a write has deleted the node of its stream since the start
    harm,       \* a stream has freed a block that was no longer its own
    cut,        \* the installer was cut off between the page and its fork
    install,    \* where the installer is
    answer      \* what the last operation of a stream returned

historyVars == <<deleted, harm, cut>>

fileVars == <<mounted, catalogs, file, pageForks, stream, held, historyVars, install, answer>>

Dirs     == {"/Boot/", "/System/", "/Support/", "/Applications/", "/Users/",
             "/Library/", "/Mount/"}
SysPage  == "/System/syspage.sys"
TheFile  == "/notes"
Forks    == {"data", "rsrc"}
Modes    == {"r", "rb", "w", "rw", "rwb", "x"}

MaxForks == 2   \* bound: the forks of the system page that are told apart

\* Sizes of a request: none, one that has no bit of kFileFlagRsrc, one that
\* has (kFileReadChunk, the size every Write passes, is such a size), and one
\* above kNeFSForkSize.
Sizes  == {0, 16, 102, 9999}
kNeFSForkSize == 512

\* flags & kFileFlagRsrc, which is 104: one of the bits 3, 5 and 6.
Rsrc(flags) == \E b \in {8, 32, 64} : (flags \div b) % 2 = 1

\* A stream keeps the address it got from Open; "holds" follows whether the
\* block there is still the one it got.
Closed == [open |-> FALSE, restrict |-> "rb", node |-> NoNode, holds |-> FALSE]

FilesInit ==
    /\ mounted = FALSE
    /\ catalogs \in {{}, {TheFile}, {TheFile, "/System/"}}
    /\ file \in {[f \in S |-> "old"] : S \in SUBSET Forks}
    /\ TheFile \notin catalogs => file = <<>>
    /\ pageForks = 0
    /\ stream = [s \in Streams |-> Closed]
    /\ held = [n \in Nodes |-> "free"]
    /\ deleted = FALSE /\ harm = FALSE /\ cut = FALSE
    /\ install = "start"
    /\ answer = "none"

-----------------------------------------------------------------------------
(***************************************************************************)
(* The mounted filesystem                                                  *)
(***************************************************************************)

Mount ==
    /\ install = "done" /\ mounted' = TRUE
    /\ UNCHANGED <<catalogs, file, pageForks, stream, held, historyVars, install, answer>>

Unmount ==
    /\ install = "done" /\ mounted' = FALSE
    /\ UNCHANGED <<catalogs, file, pageForks, stream, held, historyVars, install, answer>>

\* The names whose parent is on the disk.
Creatable(p) == p = SysPage => "/System/" \in catalogs

\* CreateDirectory, Create, CreateAlias and CreateSwapFile, called by others:
\* the copy of the catalog they return is left out.  Remove leaves a catalog
\* visible (see NeFSCatalog), so it changes nothing here.
Create(p) ==
    /\ install = "done" /\ mounted
    /\ Creatable(p)
    /\ catalogs' = catalogs \cup {p}
    /\ UNCHANGED <<mounted, file, pageForks, stream, held, historyVars, install, answer>>

-----------------------------------------------------------------------------
(***************************************************************************)
(* The installer                                                           *)
(***************************************************************************)

\* A manager is made and mounted unless there is one.
InstallMount ==
    /\ install = "start"
    /\ mounted' = TRUE
    /\ install' = "directories"
    /\ UNCHANGED <<catalogs, file, pageForks, stream, held, historyVars, answer>>

\* fImpl: the constructor declares a local of this name and fills that one.
ParserOf == FALSE

\* The seven directories, when the manager has a parser.
InstallDirectories ==
    /\ install = "directories"
    /\ catalogs' = IF ParserOf THEN catalogs \cup Dirs ELSE catalogs
    /\ install' = "page"
    /\ UNCHANGED <<mounted, file, pageForks, stream, held, historyVars, answer>>

PageMissing == SysPage \notin catalogs

\* The system page is there, or its catalog is made.  Without /System/ there is
\* no catalog and the name of null is read: a fault, or the bytes at address 0.
InstallPage ==
    /\ install = "page"
    /\ IF ~PageMissing
         THEN install' = "done" /\ UNCHANGED catalogs
       ELSE IF Creatable(SysPage)
         THEN install' = "fork" /\ catalogs' = catalogs \cup {SysPage}
         ELSE install' \in {"done", "stopped"} /\ UNCHANGED catalogs
    /\ UNCHANGED <<mounted, file, pageForks, stream, held, historyVars, answer>>

\* Its fork.
InstallFork ==
    /\ install = "fork"
    /\ pageForks' = IF pageForks < MaxForks THEN pageForks + 1 ELSE pageForks
    /\ install' = "done"
    /\ UNCHANGED <<mounted, catalogs, file, stream, held, historyVars, answer>>

\* The machine is switched off, at any moment, and started again.
Restart ==
    /\ cut' = (cut \/ install = "fork")
    /\ install' = "start" /\ mounted' = FALSE
    /\ stream' = [s \in Streams |-> Closed]
    /\ held' = [n \in Nodes |-> "free"]
    /\ answer' = "none" /\ deleted' = FALSE /\ harm' = FALSE
    /\ UNCHANGED <<catalogs, file, pageForks>>

-----------------------------------------------------------------------------
(***************************************************************************)
(* Streams                                                                 *)
(***************************************************************************)

\* The mode is compared with the entries of a table over the length of the
\* entry: "r", the first one, fits everything that begins with r.
RestrictOf(mode) ==
    CASE mode \in {"r", "rb", "rw", "rwb"} -> "r"
      [] mode = "w"                        -> "w"
      [] OTHER                             -> "rb"

MayRead(s)  == stream[s].restrict \in {"r", "rb", "rw", "rwb"}
MayWrite(s) == stream[s].restrict \in {"w", "rw", "rwb"}

\* The constructor.  With nothing mounted it calls through a null pointer.
Open(s, mode) ==
    /\ install = "done" /\ ~stream[s].open
    /\ IF ~mounted
         THEN install' = "stopped" /\ UNCHANGED <<stream, held>>
         ELSE /\ \E n \in (IF TheFile \in catalogs
                             THEN {n \in Nodes : held[n] = "free"} ELSE {NoNode}) :
                   /\ stream' = [stream EXCEPT ![s] =
                        [open |-> TRUE, restrict |-> RestrictOf(mode), node |-> n,
                         holds |-> n # NoNode]]
                   /\ held' = [m \in Nodes |-> IF m = n THEN "stream" ELSE held[m]]
              /\ UNCHANGED install
    /\ answer' = "none"
    /\ UNCHANGED <<mounted, catalogs, file, pageForks, historyVars>>

Usable(s) == install = "done" /\ stream[s].open

\* Named and chunked reads: NeFS answers only a size from 1 to kNeFSForkSize,
\* for a node it was given, with the header of the fork it finds.  In a block
\* that is no longer its own it finds what the last user left there.
ReadNode(s, size, rsrc) ==
    LET found == /\ stream[s].node # NoNode /\ size \in 1..kNeFSForkSize
                 /\ (IF rsrc THEN "rsrc" ELSE "data") \in DOMAIN file
    IN \/ found /\ answer' = "header"
       \/ ~(found /\ stream[s].holds) /\ answer' = "null"

\* ReadAll and Read(name) pass the size 0, Read(offset, size) its size; all
\* three pass flags that say resource fork.  Seek does nothing.
Read(s, size) ==
    /\ Usable(s)
    /\ IF MayRead(s) /\ mounted THEN ReadNode(s, size, Rsrc(102)) ELSE answer' = "null"
    /\ UNCHANGED <<mounted, catalogs, file, pageForks, stream, held, historyVars, install>>

\* mm_delete_heap(node) by stream s refuses a block that is free; a block that
\* has become somebody else's in the meantime it frees, and whoever had it is
\* left with the address.
DeleteNode(s) ==
    LET n == stream[s].node IN
    /\ held' = [m \in Nodes |-> IF m = n THEN "free" ELSE held[m]]
    /\ harm' = (harm \/ (n # NoNode /\ held[n] # "free" /\ ~stream[s].holds))

\* The streams once the block at n is free.
Unheld(n) == [t \in Streams |-> IF stream[t].node = n
                                   THEN [stream[t] EXCEPT !.holds = FALSE] ELSE stream[t]]

\* WriteCatalog stores the data in the fork and deletes the node it was given.
WriteNode(s, fork) ==
    /\ file' = [file EXCEPT ![fork] = "new"]
    /\ DeleteNode(s) /\ stream' = Unheld(stream[s].node)
    /\ deleted' = TRUE
    /\ UNCHANGED cut

\* Write(offset, data, size) passes its size as the flags and kFileReadChunk
\* as the size: a fork of that size is written, the resource fork when the
\* size has a bit of kFileFlagRsrc.  A block that is no longer its own may
\* name the fork still, or not.
Write(s, size) ==
    LET fork  == IF Rsrc(size) THEN "rsrc" ELSE "data"
        found == MayWrite(s) /\ mounted /\ stream[s].node # NoNode /\ fork \in DOMAIN file
    IN
    /\ Usable(s)
    /\ \/ found /\ WriteNode(s, fork)
       \/ ~(found /\ stream[s].holds) /\ UNCHANGED <<file, held, stream, historyVars>>
    /\ answer' = "none"
    /\ UNCHANGED <<mounted, catalogs, pageForks, install>>

CloseForgets(s) ==
    /\ Usable(s)
    /\ stream' = [stream EXCEPT ![s] = Closed]
    /\ UNCHANGED <<mounted, catalogs, file, pageForks, held, historyVars, install, answer>>

\* The destructor: mm_delete_heap(fFile), whatever became of the block.
Close(s) ==
    /\ Usable(s)
    /\ DeleteNode(s)
    /\ stream' = [Unheld(stream[s].node) EXCEPT ![s] = Closed]
    /\ answer' = "none"
    /\ UNCHANGED <<mounted, catalogs, file, pageForks, deleted, cut, install>>

\* Another part of the kernel allocates and frees memory.
OthersAllocate(n) ==
    /\ install = "done"
    /\ \/ held[n] = "free"   /\ held' = [held EXCEPT ![n] = "others"]
       \/ held[n] = "others" /\ held' = [held EXCEPT ![n] = "free"]
    /\ UNCHANGED <<mounted, catalogs, file, pageForks, stream, historyVars, install, answer>>

Install == InstallMount \/ InstallDirectories \/ InstallPage \/ InstallFork

FilesNext ==
    \/ Install \/ Restart \/ Mount \/ Unmount
    \/ \E p \in {TheFile, "/System/"} : Create(p)
    \/ \E s \in Streams :
         \/ \E mode \in Modes : Open(s, mode)
         \/ \E size \in Sizes : Read(s, size) \/ Write(s, size)
         \/ Close(s)
    \/ \E n \in Nodes : OthersAllocate(n)

-----------------------------------------------------------------------------
(***************************************************************************)
(* Properties                                                              *)
(***************************************************************************)

\* Every variable of the file manager has its type.
FilesTypeOK ==
    /\ mounted \in BOOLEAN
    /\ catalogs \subseteq Dirs \cup {SysPage, TheFile}
    /\ DOMAIN file \subseteq Forks
    /\ pageForks \in 0..MaxForks
    /\ \A s \in Streams : /\ stream[s].restrict \in Modes
                          /\ stream[s].node \in Nodes \cup {NoNode}
                          /\ stream[s].holds \in BOOLEAN
    /\ deleted \in BOOLEAN /\ harm \in BOOLEAN /\ cut \in BOOLEAN
    /\ held \in [Nodes -> {"free", "stream", "others"}]
    /\ install \in {"start", "directories", "page", "fork", "done", "stopped"}
    /\ answer \in {"none", "null", "header"}

\* A stream whose mode does not let it write holds its node, and holds it
\* alone, until it is closed, unless a stream that had written has freed the
\* block for it: WriteCatalog deletes the node it is given (NeFS.cc:704), the
\* stream keeps the address, and ~FileStream deletes it once more
\* (FileMgr.h:423), also when somebody else has the block by then.  Before a
\* write went through nobody loses a block.
NodeHeld ==
    /\ ~deleted => ~harm
    /\ ~harm =>
         \A s \in Streams :
           stream[s].open /\ stream[s].node # NoNode /\ stream[s].restrict # "w" => stream[s].holds

\* A node belongs to the streams exactly when one open stream, and no second
\* one, holds it: no node is left behind and none is shared, also when others
\* were deleted early or twice.
NodesFreed ==
    \A n \in Nodes :
      LET holders == {s \in Streams : stream[s].open /\ stream[s].node = n /\ stream[s].holds} IN
      /\ held[n] = "stream" => holders # {}
      /\ \A s, t \in holders : s = t /\ held[n] = "stream"

\* However often the machine is started, and wherever it is switched off, the
\* system page has one fork, unless it was switched off once between the
\* catalog and the fork (KernelMain.cc:147): then the page is there on every
\* later start and never gets one.
PageForked ==
    SysPage \in catalogs /\ install # "fork" => pageForks = IF cut THEN 0 ELSE 1

=============================================================================
