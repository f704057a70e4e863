----------------------------- MODULE CodeLoader -----------------------------
(***************************************************************************)
(* The loader of PEF programs (src/dev/ZKAKit/src/PEFCodeMgr.cc,           *)
(* KernelKit/PEFCodeMgr.h, PEF.h) and the making of a process from one.    *)
(*                                                                         *)
(* What is followed is memory: a program's bytes come in blocks that       *)
(* FileStream::Read allocates, FindSymbol copies out of them and frees     *)
(* them, and StringBuilder::Construct allocates the names to compare with. *)
(* ErrorOr<T>(T) keeps the address of a parameter that is gone             *)
(* (NewKit/Ref.h), so a name is appended to and compared through a string  *)
(* that is no more, and a pointer that went through ErrorOr<VoidPtr> is    *)
(* that pointer or another word.                                           *)
(***************************************************************************)
EXTENDS Naturals, FiniteSets, FiniteSetsExt

CONSTANTS
    Blocks,   \* addresses in the heap, as numbers
    None,     \* nullptr
    Junk      \* a word that is no address of a block

ASSUME LoaderAssumption ==
    Blocks \subseteq Nat /\ IsFiniteSet(Blocks) /\ {None, Junk} \cap Blocks = {}

VARIABLES
    fs,       \* the filesystem behind FileStream: NeFS, or one that reads size 0 as all
    image,    \* the file's container
    mem,      \* the allocated blocks
    twice,    \* whose blocks were freed when they were not allocated
    loader,   \* the PEFLoader
    pc,       \* where rtl_create_process is
    proc,     \* the process it makes
    copies,   \* the blocks FindSymbol has handed out
    lost      \* the blocks whose address nobody keeps any more

loaderVars == <<fs, image, mem, twice, loader, pc, proc, copies, lost>>

Kinds    == {"kPefCode", "kPefData", "kPefZero", "kPefLinkerID"}
NoLoader == [made |-> FALSE, blob |-> None, bad |-> FALSE, fat |-> FALSE, fFile |-> "null"]
NoProcess == [made |-> FALSE, code |-> None, blob |-> None]

\* Magic, processor and ABI of the container are right, the magic is the one
\* of a fat binary read backwards, or neither; it has commands or none, for
\* this processor or for another one.
Images == [magic : {"Joy!", "fat", "bad"}, count : {0, 1}, own : BOOLEAN]

LoaderInit ==
    /\ fs \in {"NeFS", "other"}
    /\ image \in Images
    /\ mem = {} /\ twice = {}
    /\ loader = NoLoader
    /\ pc = "idle" /\ proc = NoProcess
    /\ copies = {} /\ lost = {}

FreshAbove(M) == IF M = {} THEN Min(Blocks) ELSE Max(M) + 1

Fresh(M) == Min(Blocks \ M)

\* Bound: a call is made while the heap has room for what it may allocate.
Room(n) == Cardinality(mem) + n <= Cardinality(Blocks)

\* mm_delete_heap of b.
FreedTwice(M, b) == b # None /\ b \notin M

-----------------------------------------------------------------------------
(***************************************************************************)
(* StringBuilder::Construct, see Strings                                   *)
(***************************************************************************)

\* The string is allocated and its address forgotten.
Object(M) == Fresh(M)

\* Its buffer is freed by the destructors of the two copies that ErrorOr(T) and
\* Ref(T) take of the string.
Buffer(M) == Fresh(M \cup {Object(M)})

\* Whose blocks the second destructor frees.
BufferAgain(M) == {w \in {"name"} : FreedTwice((M \cup {Object(M), Buffer(M)}) \ {Buffer(M)}, Buffer(M))}

\* operator+= then writes where the dead string points: into the freed buffer or
\* memory nobody uses, nowhere, or into memory that is somebody's, behind which
\* nothing more is followed.
Appended == {"on", "fault", "astray"}

-----------------------------------------------------------------------------
(***************************************************************************)
(* FileStream::Read(name), which asks for the size 0                       *)
(***************************************************************************)

\* NeFileSystemMgr::Read answers null to the size 0; another filesystem may not.
ReadNamed(M) == IF fs = "NeFS" THEN {None} ELSE {None, Fresh(M)}

-----------------------------------------------------------------------------
(***************************************************************************)
(* Construction and destruction                                            *)
(***************************************************************************)

\* fFile is not initialised: New does nothing when it is not null.
Undefined == {"null", "junk"}

BadBlobKept(M, b) ==
    /\ loader' = [made |-> TRUE, blob |-> b, bad |-> TRUE, fat |-> FALSE, fFile |-> "open"]
    /\ mem' = M \ {b}

\* A container of another format is freed and forgotten.
BadBlob(M, b) ==
    /\ loader' = [made |-> TRUE, blob |-> None, bad |-> TRUE, fat |-> FALSE, fFile |-> "open"]
    /\ mem' = M \ {b}

\* PEFLoader(path).  A path of one character does not pass the check of KString
\* and stops the kernel; of the others the string stays behind.  The bytes at
\* address 0 are read when the fork is missing: a fault, or a bad container.
LoadPath ==
    /\ pc = "idle" /\ ~loader.made /\ Room(3)
    /\ \/ pc' = "fault" /\ UNCHANGED <<mem, loader, twice, lost>>
       \/ LET M == mem \cup {Object(mem)} IN
          /\ lost' = lost \cup {Object(mem)} /\ twice' = twice \cup BufferAgain(mem)
          /\ \E f \in Undefined, b \in ReadNamed(M) :
               \/ (f = "junk" \/ b = None) /\ pc' = "fault" /\ mem' = M /\ UNCHANGED loader
               \/ /\ f = "null" /\ (b = None \/ image.magic = "bad")
                  /\ BadBlob(M, b) /\ UNCHANGED pc
               \/ /\ f = "null" /\ b # None /\ image.magic # "bad"
                  /\ loader' = [made |-> TRUE, blob |-> b, bad |-> FALSE,
                                fat |-> image.magic = "fat", fFile |-> "open"]
                  /\ mem' = M \cup {b} /\ UNCHANGED pc
    /\ UNCHANGED <<fs, image, proc, copies>>

\* PEFLoader(blob): the caller's block, no look at it, fFatBinary and fFile as
\* the memory had them.
LoadBlob ==
    /\ pc = "idle" /\ ~loader.made /\ Room(1)
    /\ \E fat \in BOOLEAN, f \in Undefined :
         loader' = [made |-> TRUE, blob |-> Fresh(mem), bad |-> FALSE, fat |-> fat, fFile |-> f]
    /\ mem' = mem \cup {Fresh(mem)}
    /\ UNCHANGED <<fs, image, twice, pc, proc, copies, lost>>

\* ~PEFLoader: the blob and the stream.  OwnPtr::Delete deletes what is not
\* null, and its own destructor finds null.
Destroy ==
    /\ pc = "idle" /\ loader.made
    /\ IF loader.fFile = "junk" THEN pc' = "fault" ELSE UNCHANGED pc
    /\ twice' = twice \cup {w \in {"program"} : FreedTwice(mem, loader.blob)}
    /\ mem' = mem \ {loader.blob}
    /\ loader' = NoLoader
    /\ UNCHANGED <<fs, image, proc, copies, lost>>

-----------------------------------------------------------------------------
(***************************************************************************)
(* FindSymbol                                                              *)
(***************************************************************************)

\* What a call may come to: the block it returns, the blocks that are allocated
\* and lost then, whose blocks it freed twice, and whether it goes on.
Found(b, M, L, T, e) == [ret |-> b, mem |-> M, lost |-> L, twice |-> T, end |-> e]
Ends(M, L, T, e)     == Found(None, M, L, T, e)

\* The loop over the commands, which looks at the first one each time; M is
\* allocated besides raw, and L lost.
Scan(raw, M, L, T) ==
    LET Held == M \cup ({raw} \ {None}) IN
    UNION {
      \* no command, or none that fits
      IF raw # None \/ image.count = 0 THEN {Ends(Held \ {raw}, L, T, "on")} ELSE {},
      \* the header at address 0
      IF raw = None /\ image.count > 0 THEN {Ends(M, L, T, "fault"), Ends(M, L, T, "on")} ELSE {},
      \* it fits: the copy, and the block is freed; for another processor only
      \* a fat binary gives one
      IF raw # None /\ image.count > 0 /\ (image.own \/ loader.fat)
        THEN {Found(Fresh(Held), (Held \cup {Fresh(Held)}) \ {raw}, L, T, "on")} ELSE {}}

\* The name is made behind the read, and the symbol appended to it.
Compared(raw) ==
    LET Held == mem \cup ({raw} \ {None})
        L    == lost \cup {Object(Held)}
        T    == twice \cup BufferAgain(Held)
    IN UNION {IF e = "on" THEN Scan(raw, mem \cup {Object(Held)}, L, T)
              ELSE {Ends(mem \cup {Object(Held)}, L, T, e)} : e \in Appended}

FindSymbol(kind) ==
    IF loader.blob = None \/ loader.bad THEN {Ends(mem, lost, twice, "on")}
    ELSE IF loader.fFile # "open" THEN {Ends(mem, lost, twice, "fault")}
    ELSE UNION {IF kind \notin {"kPefCode", "kPefData", "kPefZero"}
                  THEN {Ends(mem \cup ({raw} \ {None}), lost \cup ({raw} \ {None}), twice, "on")}
                  ELSE Compared(raw) : raw \in ReadNamed(mem)}

\* Bound: symbols are asked for while this many blocks are free; a call takes
\* three of them.
Spare == 10

\* A caller that keeps what it gets.
Symbol(kind) ==
    /\ pc = "idle" /\ loader.made
    /\ Room(Spare)
    /\ \E o \in FindSymbol(kind) :
         /\ mem' = o.mem /\ lost' = o.lost /\ twice' = o.twice
         /\ copies' = copies \cup ({o.ret} \ {None})
         /\ pc' = IF o.end = "on" THEN pc ELSE o.end
    /\ UNCHANGED <<fs, image, loader, proc>>

\* And gives it back.
Release(b) ==
    /\ pc = "idle" /\ b \in copies /\ b # proc.code
    /\ copies' = copies \ {b} /\ mem' = mem \ {b}
    /\ UNCHANGED <<fs, image, twice, loader, pc, proc, lost>>

-----------------------------------------------------------------------------
(***************************************************************************)
(* rtl_create_process                                                      *)
(***************************************************************************)

\* ErrorOr<VoidPtr>(p).Leak().Leak().
Leaked(p) == {p, Junk}

\* FindStart; the process gets the code and the loader's own block.
CreateStart ==
    /\ pc = "idle" /\ loader.made /\ ~proc.made
    /\ Room(13)
    /\ \E o \in FindSymbol("kPefCode") :
         /\ mem' = o.mem /\ lost' = o.lost /\ twice' = o.twice
         /\ IF o.end # "on" THEN pc' = o.end /\ UNCHANGED <<proc, copies>>
            ELSE IF o.ret = None THEN UNCHANGED <<pc, proc, copies>>
            ELSE /\ pc' = "stack"
                 /\ copies' = copies \cup {o.ret}
                 /\ \E c \in Leaked(o.ret), b \in Leaked(loader.blob) :
                      proc' = [made |-> TRUE, code |-> c, blob |-> b]
    /\ UNCHANGED <<fs, image, loader>>

\* The sizes of the stack and of the heap and the name: what FindSymbol hands
\* out is read and forgotten.  A missing size is read at address 0.
CreateField ==
    /\ pc \in {"stack", "heap", "name", "name2", "name3"}
    /\ \E o \in FindSymbol("kPefData") :
         /\ mem' = o.mem /\ twice' = o.twice
         /\ lost' = o.lost \cup ({o.ret} \ {None})
         /\ pc' \in
              IF o.end # "on" THEN {o.end}
              ELSE CASE pc = "stack" -> IF o.ret = None THEN {"fault", "heap"} ELSE {"heap"}
                     [] pc = "heap"  -> IF o.ret = None THEN {"fault", "name"} ELSE {"name"}
                     [] pc = "name"  -> IF o.ret = None THEN {"spawn"} ELSE {"name2"}
                     [] pc = "name2" -> {"name3"}
                     [] pc = "name3" -> {"spawn"}
    /\ UNCHANGED <<fs, image, loader, proc, copies>>

\* Spawn takes the process or refuses it; the refused one is deleted.
CreateSpawn ==
    /\ pc = "spawn" /\ pc' = "idle"
    /\ proc' \in {proc, NoProcess}
    /\ UNCHANGED <<fs, image, mem, twice, loader, copies, lost>>

LoaderNext ==
    \/ LoadPath \/ LoadBlob \/ Destroy
    \/ \E k \in Kinds : Symbol(k)
    \/ \E b \in Blocks : Release(b)
    \/ CreateStart \/ CreateField \/ CreateSpawn

-----------------------------------------------------------------------------
(***************************************************************************)
(* Properties                                                              *)
(***************************************************************************)

\* Every variable of the loader has its type.
LoaderTypeOK ==
    /\ fs \in {"NeFS", "other"} /\ image \in Images
    /\ mem \subseteq Blocks /\ twice \subseteq {"program", "name"}
    /\ loader.blob \in Blocks \cup {None} /\ loader.fFile \in {"null", "junk", "open"}
    /\ pc \in {"idle", "stack", "heap", "name", "name2", "name3", "spawn", "fault", "astray"}
    /\ copies \subseteq Blocks /\ lost \subseteq Blocks

\* No block of a program is freed twice: a loader that has found its file bad
\* forgets the block it freed, and a copy survives the block it was made from.
\* The names are another matter: whoever has a symbol has had the buffer of its
\* name freed twice (KString.cc:94, KString.h:44), and mm_delete_heap has
\* refused the second time.
FreedOnce ==
    /\ "program" \notin twice
    /\ copies # {} \/ proc.made => "name" \in twice

\* Every allocated block is the loader's, was handed out by FindSymbol, or was
\* lost: the strings names are made in, and the answer to a kind FindSymbol does
\* not know or to a question of rtl_create_process.  Of the program itself a
\* symbol that is not found leaves nothing behind.
BlocksAccounted ==
    mem = ({loader.blob} \ {None}) \cup copies \cup lost

\* NeFS refuses the size 0 that FileStream::Read(name) asks for, so no process
\* is made from a file on a NeFS disk.
NoProcessFromNeFS == fs = "NeFS" => ~proc.made
=============================================================================
