---------------------------- MODULE NeFSCatalog -----------------------------
(***************************************************************************)
(* The catalog store of NeFSParser (src/dev/ZKAKit/src/FS/NeFS.cc):        *)
(* CreateCatalog, GetCatalog / FindCatalog and RemoveCatalog on a disk the *)
(* boot loader formatted, one disk access per step, with a crash possible  *)
(* between any two of them.                                                *)
(*                                                                         *)
(* Slot s stands for the catalog at                                        *)
(*    kNeFSCatalogStartAddress + (s - 1) * 4 * sizeof(NFS_CATALOG_STRUCT)  *)
(* and slot 0 for every address up to kNeFSRootCatalogStartAddress, where  *)
(* the searches stop.                                                      *)
(***************************************************************************)
EXTENDS NeFSPath, FiniteSets

CONSTANTS
    OtherKinds,    \* catalog kinds other than file and directory
    Slots,         \* catalog slots before the zone of the forks
    FreeCatalog0,  \* SectorCount / sizeof(NFS_CATALOG_STRUCT)
    FreeSectors0,  \* SectorCount
    Word,          \* SizeT arithmetic is modulo Word (2^64 in the code)
    MaxLeaks       \* bound: crashes between a catalog write and its block

ASSUME SlotsAssumption ==
    /\ Slots \in Nat /\ FreeCatalog0 \in Nat /\ MaxLeaks \in Nat
    /\ Word \in Nat /\ Word >= 2 /\ FreeSectors0 \in 0..(Word - 1)
    \* a catalog takes four sectors and FreeCatalog is SectorCount / 512
    /\ Slots >= FreeCatalog0 + MaxLeaks + 2
    /\ "file" \notin OtherKinds /\ "dir" \notin OtherKinds

VARIABLES
    disk,    \* the catalog slots
    block,   \* the counters of NFS_ROOT_PARTITION_BLOCK
    pc,      \* where the running parser call is
    call,    \* the running call and its arguments
    cur,     \* the locals of FindCatalog and of the scan of CreateCatalog
    res,     \* what the last completed call returned
    leaked   \* crashes that lost the block update of a written catalog

vars == <<disk, block, pc, call, cur, res, leaked>>

kNeFSFlagUnallocated == 0
kNeFSFlagDeleted     == 70
kNeFSFlagCreated     == 71

(***************************************************************************)
(* Flags |= f and Flags & kNeFSFlagCreated on {0, 70, 71}: the bits of 70  *)
(* are among those of 71, so the union is the larger of the two and every  *)
(* non-zero value meets 71.                                                *)
(***************************************************************************)
FlagOr(a, b) == IF a >= b THEN a ELSE b
IsCreated(c) == c.flags # kNeFSFlagUnallocated

Kinds    == {"file", "dir"} \cup OtherKinds
Calls    == {"create", "get", "remove"}
Returns  == {"found", "created", "exists", "existsInScan", "null", "true", "false"}
NoRes    == [op |-> "none", name |-> Root, kind |-> "dir", ret |-> "none"]
NoCall   == [op |-> "none", name |-> Root, kind |-> "dir"]
NoCursor == [top |-> 0, lvl |-> 0, at |-> 1, local |-> FALSE, lba |-> 1]
Zeroed   == [name |-> NoName, flags |-> kNeFSFlagUnallocated,
             kind |-> "none", next |-> 0]

Used         == {s \in 1..Slots : IsCreated(disk[s])}
CatalogNames == {disk[s].name : s \in Used}

\* FindCatalog reaches a catalog only through all of the ancestors it looks up.
Findable(p) == \A k \in Levels(p) : Ancestor(p, k) \in CatalogNames

Inc(x) == IF x = Word - 1 THEN 0 ELSE x + 1
Dec(x) == IF x = 0 THEN Word - 1 ELSE x - 1

(***************************************************************************)
(* BDiskFormatFactory::Format on a blank disk: the partition block goes    *)
(* out before WriteRootCatalog decrements its counters.                    *)
(***************************************************************************)
Init ==
    /\ disk = [s \in 1..Slots |->
                 IF s = 1 THEN [name |-> Root, flags |-> kNeFSFlagCreated,
                                kind |-> "dir", next |-> 2]
                          ELSE Zeroed]
    /\ block = [freeCatalog |-> FreeCatalog0, catalogCount |-> 1, freeSectors |-> FreeSectors0]
    /\ pc = "idle"
    /\ call = NoCall
    /\ cur = NoCursor
    /\ res = NoRes
    /\ leaked = 0

-----------------------------------------------------------------------------
(***************************************************************************)
(* Calls and returns                                                       *)
(***************************************************************************)

Return(ret) ==
    /\ res' = [op |-> call.op, name |-> call.name, kind |-> call.kind, ret |-> ret]
    /\ pc' = "idle"
    /\ call' = NoCall
    /\ cur' = NoCursor

\* FindCatalog starts with its innermost recursive call, on the root.
FindFrom(top) == [top |-> top, lvl |-> 0, at |-> 1, local |-> FALSE, lba |-> 1]

StartFind(c) ==
    /\ pc' = "find"
    /\ call' = c
    /\ cur' = FindFrom(Len(c.name))
    /\ res' = NoRes

\* A directory's name ends in a slash, the name of anything else does not.
CreateCatalog(n, k) ==
    /\ pc = "idle"
    /\ IF (k = "dir") = EndsInSeparator(n)
         THEN StartFind([op |-> "create", name |-> n, kind |-> k])
         ELSE /\ res' = [op |-> "create", name |-> n, kind |-> k, ret |-> "null"]
              /\ UNCHANGED <<pc, call, cur>>
    /\ UNCHANGED <<disk, block, leaked>>

GetCatalog(n) ==
    /\ pc = "idle"
    /\ StartFind([op |-> "get", name |-> n, kind |-> "dir"])
    /\ UNCHANGED <<disk, block, leaked>>

RemoveCatalog(n) ==
    /\ pc = "idle"
    /\ IF n = Root
         THEN /\ res' = [op |-> "remove", name |-> n, kind |-> "dir", ret |-> "false"]
              /\ UNCHANGED <<pc, call, cur>>
         ELSE StartFind([op |-> "remove", name |-> n, kind |-> "dir"])
    /\ UNCHANGED <<disk, block, leaked>>

-----------------------------------------------------------------------------
(***************************************************************************)
(* FindCatalog: the list walk, one catalog read per step.  cur.lvl is the  *)
(* name the current recursion level looks for, cur.top the one the caller  *)
(* asked for.                                                              *)
(***************************************************************************)

Searching == pc \in {"find", "parent"}

Wanted == Ancestor(call.name, cur.lvl)

Hit == disk[cur.at].name = Wanted /\ IsCreated(disk[cur.at])

FindAncestorLocalOnly ==
    /\ Searching /\ Hit /\ cur.lvl # cur.top
    /\ cur' = [cur EXCEPT !.lvl = NextLevel(call.name, cur.lvl),
                          !.at = IF cur.lvl = 0 THEN 1 ELSE disk[cur.at].next]
    /\ UNCHANGED <<disk, block, pc, call, res, leaked>>

\* An ancestor is found: look for the next one, first behind its own catalog.
FindAncestor ==
    /\ Searching /\ Hit /\ cur.lvl # cur.top
    /\ cur' = [cur EXCEPT !.lvl = NextLevel(call.name, cur.lvl),
                          !.at = IF cur.lvl = 0 THEN 1 ELSE disk[cur.at].next,
                          !.local = cur.lvl # 0]
    /\ UNCHANGED <<disk, block, pc, call, res, leaked>>

FindNext ==
    /\ Searching /\ ~Hit /\ disk[cur.at].next # 0
    /\ cur' = [cur EXCEPT !.at = disk[cur.at].next]
    /\ UNCHANGED <<disk, block, pc, call, res, leaked>>

FindFallbackStillLocal ==
    /\ Searching /\ ~Hit /\ disk[cur.at].next = 0 /\ cur.local
    /\ cur' = [cur EXCEPT !.at = 1]
    /\ UNCHANGED <<disk, block, pc, call, res, leaked>>

\* The local search failed: NeFSSearchThroughCatalogList again, from the start.
FindFallback ==
    /\ Searching /\ ~Hit /\ disk[cur.at].next = 0 /\ cur.local
    /\ cur' = [cur EXCEPT !.at = 1, !.local = FALSE]
    /\ UNCHANGED <<disk, block, pc, call, res, leaked>>

Found == Searching /\ Hit /\ cur.lvl = cur.top

NotFoundLocally == Searching /\ ~Hit /\ disk[cur.at].next = 0

NotFound == Searching /\ ~Hit /\ disk[cur.at].next = 0 /\ ~cur.local

\* CreateCatalog allocates after the catalog at lba.
ScanFrom(lba) ==
    /\ pc' = "scan"
    /\ cur' = [NoCursor EXCEPT !.at = disk[lba].next, !.lba = lba]
    /\ UNCHANGED <<call, res>>

FindReturn ==
    /\ \/ Found /\ call.op = "get" /\ Return("found")
       \/ NotFound /\ call.op = "get" /\ Return("null")
       \/ Found /\ call.op = "create" /\ pc = "find" /\ Return("exists")
    /\ UNCHANGED <<disk, block, leaked>>

FindParent ==
    /\ NotFound /\ call.op = "create" /\ pc = "find"
    /\ pc' = "parent"
    /\ cur' = FindFrom(ParentLevel(call.name))
    /\ UNCHANGED <<disk, block, call, res, leaked>>

ParentRequired ==
    /\ pc = "parent"
    /\ \/ /\ Found
          /\ IF disk[cur.at].kind = "file" THEN Return("null") ELSE ScanFrom(cur.at)
       \/ NotFound /\ Return("null")
    /\ UNCHANGED <<disk, block, leaked>>

\* The parent is a file, the parent is the place to allocate after, no parent.
ParentReturn ==
    /\ pc = "parent"
    /\ \/ /\ Found
          /\ IF disk[cur.at].kind = "file" THEN Return("null") ELSE ScanFrom(cur.at)
       \/ NotFound /\ ScanFrom(1)
    /\ UNCHANGED <<disk, block, leaked>>

-----------------------------------------------------------------------------
(***************************************************************************)
(* CreateCatalog: the scan for a free slot, then the write of the catalog  *)
(* and, as a second disk write, of the partition block.                    *)
(***************************************************************************)

Candidate == disk[cur.at]

RoomUnchecked == TRUE
Room == block.freeCatalog >= 1

\* start_free is not an address of a catalog, or no catalog is left.
Refused == cur.at = 0 \/ (~IsCreated(Candidate) /\ ~Room)

ScanReturn ==
    /\ pc = "scan"
    /\ \/ Refused /\ Return("null")
       \/ /\ cur.at # 0 /\ IsCreated(Candidate) /\ Candidate.name = call.name
          /\ Return("existsInScan")
    /\ UNCHANGED <<disk, block, leaked>>

ScanNextAnyName ==
    /\ pc = "scan" /\ cur.at # 0 /\ IsCreated(Candidate)
    /\ cur' = [cur EXCEPT !.at = cur.at + 1]
    /\ UNCHANGED <<disk, block, pc, call, res, leaked>>

ScanNext ==
    /\ pc = "scan" /\ cur.at # 0
    /\ IsCreated(Candidate) /\ Candidate.name # call.name
    /\ cur' = [cur EXCEPT !.at = cur.at + 1]
    /\ UNCHANGED <<disk, block, pc, call, res, leaked>>

NewCatalogUnlinked ==
    [name |-> call.name, flags |-> kNeFSFlagCreated, kind |-> call.kind, next |-> cur.lba]

NewCatalog ==
    [name |-> call.name, flags |-> kNeFSFlagCreated, kind |-> call.kind,
     next |-> IF Candidate.name # Ancestor(call.name, ParentLevel(call.name))
                THEN cur.at + 1 ELSE cur.lba]

WriteNewCatalog ==
    /\ pc = "scan" /\ cur.at # 0
    /\ ~IsCreated(Candidate) /\ Room
    /\ disk' = [disk EXCEPT ![cur.at] = NewCatalog]
    /\ pc' = "createBlock"
    /\ UNCHANGED <<block, call, cur, res, leaked>>

CreateBlockCountOnly ==
    /\ pc = "createBlock"
    /\ block' = [block EXCEPT !.catalogCount = Inc(@), !.freeSectors = Dec(@)]
    /\ Return("created")
    /\ UNCHANGED <<disk, leaked>>

CreateBlock ==
    /\ pc = "createBlock"
    /\ block' = [freeCatalog  |-> block.freeCatalog - 1,
                 catalogCount |-> Inc(block.catalogCount),
                 freeSectors  |-> Dec(block.freeSectors)]
    /\ Return("created")
    /\ UNCHANGED <<disk, leaked>>

-----------------------------------------------------------------------------
(***************************************************************************)
(* RemoveCatalog                                                           *)
(***************************************************************************)

MarkUnallocated ==
    /\ Found /\ call.op = "remove"
    /\ disk' = [disk EXCEPT ![cur.at].flags = kNeFSFlagUnallocated]
    /\ pc' = "removeBlock"
    /\ UNCHANGED <<block, call, cur, res, leaked>>

MarkDeleted ==
    /\ Found /\ call.op = "remove"
    /\ disk' = [disk EXCEPT ![cur.at].flags = FlagOr(@, kNeFSFlagDeleted)]
    /\ pc' = "removeBlock"
    /\ UNCHANGED <<block, call, cur, res, leaked>>

(***************************************************************************)
(* Nothing found: catalog is null and out_lba is 0, and catalog->Flags     *)
(* reads whatever the first page holds.  A zero there ends the call, any   *)
(* other value writes outside the catalogs and goes on to the block; a     *)
(* page fault is a Crash.                                                  *)
(***************************************************************************)
RemoveMissing ==
    /\ NotFound /\ call.op = "remove"
    /\ \/ Return("false")
       \/ pc' = "removeBlock" /\ UNCHANGED <<call, cur, res>>
    /\ UNCHANGED <<disk, block, leaked>>

RemoveBlock ==
    /\ pc = "removeBlock"
    /\ block' = [block EXCEPT !.catalogCount = Dec(@), !.freeSectors = Inc(@)]
    /\ Return("true")
    /\ UNCHANGED <<disk, leaked>>

-----------------------------------------------------------------------------
(***************************************************************************)
(* The machine stops (ke_stop, a fault, power) inside a call; the next     *)
(* boot finds the disk as it is.                                           *)
(***************************************************************************)
Crash ==
    /\ pc # "idle"
    /\ IF pc = "createBlock"
         THEN leaked < MaxLeaks /\ leaked' = leaked + 1
         ELSE leaked' = leaked
    /\ pc' = "idle"
    /\ call' = NoCall
    /\ cur' = NoCursor
    /\ res' = NoRes
    /\ UNCHANGED <<disk, block>>

Step ==
    \/ FindAncestor \/ FindNext \/ FindFallback \/ FindReturn
    \/ FindParent \/ ParentReturn
    \/ ScanReturn \/ ScanNext \/ WriteNewCatalog \/ CreateBlock
    \/ MarkDeleted \/ RemoveMissing \/ RemoveBlock

Call ==
    \E n \in Paths :
        \/ \E k \in Kinds : CreateCatalog(n, k)
        \/ GetCatalog(n)
        \/ RemoveCatalog(n)

Next == Call \/ Step \/ Crash

Spec == Init /\ [][Next]_vars

(***************************************************************************)
(* Nothing blocks a parser call: each disk access returns and the call     *)
(* goes on, so its steps are weakly fair.  Calls and crashes are not.      *)
(***************************************************************************)
FairSpec == Spec /\ WF_vars(Step)

-----------------------------------------------------------------------------
(***************************************************************************)
(* Properties                                                              *)
(***************************************************************************)

CatalogType ==
    [name : Paths \cup {NoName}, flags : {0, 70, 71},
     kind : Kinds \cup {"none"}, next : 0..Slots]

\* Every variable has its type; above all, no cursor and no link of the list
\* ever leaves the catalog slots, so a call reads and writes catalogs only.
TypeOK ==
    /\ disk \in [1..Slots -> CatalogType]
    /\ block \in [freeCatalog : 0..FreeCatalog0,
                  catalogCount : 0..(Word - 1), freeSectors : 0..(Word - 1)]
    /\ pc \in {"idle", "find", "parent", "scan", "createBlock", "removeBlock"}
    /\ call \in [op : Calls \cup {"none"}, name : Paths, kind : Kinds]
    /\ cur \in [top : Int, lvl : Nat, at : 1..Slots, local : BOOLEAN, lba : 1..Slots]
    /\ res \in [op : Calls \cup {"none"}, name : Paths, kind : Kinds,
               ret : Returns \cup {"none"}]
    /\ leaked \in 0..MaxLeaks

\* Slots 1..n hold the list in order and the slots behind it are untouched.
DenseTo(n) ==
    /\ Used = 1..n
    /\ \A s \in 1..n : disk[s].next = s + 1
    /\ \A s \in 1..Slots : s > n => disk[s] = Zeroed

\* The catalogs CreateCatalog allocates fill the slots from the first one
\* without a gap and each links to the slot right after it, so the list that
\* FindCatalog follows has no cycle and ends in a free slot, whatever the
\* order of creations, removals and crashes.
CatalogsDense == \E n \in 1..Slots : DenseTo(n)

\* CreateCatalog never allocates a second catalog of the same name, although
\* it searches behind the parent only and although FindCatalog does not see a
\* catalog whose parent is missing.
NamesUnique ==
    \A s, t \in Used : disk[s].name = disk[t].name => s = t

\* GetCatalog returns a catalog exactly when it and every ancestor that the
\* recursion of FindCatalog looks up are on the disk: neither the local search
\* behind the parent nor the fallback can miss or invent one.
GetExact ==
    res.op = "get" => (res.ret = "found" <=> Findable(res.name))

\* What CreateCatalog's return tells its caller is true of the disk: created
\* and kErrorFileExists name a catalog FindCatalog can reach, the early return
\* of the scan one that it cannot (its parent is missing), and null means a
\* name that does not fit the kind or a disk with no free catalog.
CreateVerdict ==
    res.op = "create" =>
      /\ res.ret = "exists" => Findable(res.name)
      /\ res.ret = "created" => res.name \in CatalogNames
      /\ res.ret = "existsInScan" => res.name \in CatalogNames /\ ~Findable(res.name)
      /\ res.ret = "null" /\ block.freeCatalog > 0 =>
           (res.kind = "dir") # EndsInSeparator(res.name)

\* FreeCatalog is what the used slots leave over, off by the crashes that hit
\* between the two disk writes of CreateCatalog (each makes the block promise
\* one catalog too many, never one too few).
FreeCatalogExact ==
    block.freeCatalog + Cardinality(Used)
      = FreeCatalog0 + 1 + leaked + (IF pc = "createBlock" THEN 1 ELSE 0)

\* No step, RemoveCatalog and crashes included, takes an allocated catalog off
\* the list or changes its name or kind.
CatalogsDurable ==
    [][\A s \in Used : /\ IsCreated(disk'[s])
                       /\ disk'[s].name = disk[s].name
                       /\ disk'[s].kind = disk[s].kind
                       /\ disk'[s].next = disk[s].next]_vars

\* Every parser call ends: the list walks and the scan of CreateCatalog
\* terminate.
CallsComplete == pc # "idle" ~> pc = "idle"

\* What a search may still read: the rest of the list, all of it again if it
\* began behind a parent, and twice the list for each level below.
SearchLeft ==
    (cur.top - cur.lvl) * (2 * Slots) + (IF cur.local THEN Slots ELSE 0) + (Slots - cur.at)

\* An upper bound of the disk accesses the running call will still make.
StepsLeft ==
    CASE pc = "find"   -> SearchLeft + Len(call.name) * (2 * Slots) + 2 * Slots + 2
      [] pc = "parent" -> SearchLeft + Slots + 2
      [] pc = "scan"   -> Slots - cur.at + 2
      [] pc \in {"createBlock", "removeBlock"} -> 1
      [] pc = "idle"   -> 0

\* No disk access of a call is made in vain: neither the fallback of FindCatalog
\* to the start of the list nor its recursion over the ancestors (NeFS.cc:769)
\* nor the step from the search for the name to that for its parent ever brings
\* a call back to where it was.
CallsDescend == [][pc # "idle" => StepsLeft' < StepsLeft]_vars

\* A call on a name of l components makes at most so many disk accesses.
CallBudget == Len(call.name) * (4 * Slots) + 3 * Slots + 1

CallsBounded == StepsLeft \in 0..CallBudget

\* Calls end, and within a number of disk accesses that the length of the name
\* and the size of the disk fix.
CallsEnd == CallsComplete /\ CallsDescend /\ []CallsBounded

\* "Mark catalog as removed. ... @return if the catalog was removed or not."
\* (NeFS.cc, the comment of RemoveCatalog): after a RemoveCatalog that returned
\* true the catalog is not found any more.
RemovedIsGone ==
    res.op = "remove" /\ res.ret = "true" => ~Findable(res.name)

-----------------------------------------------------------------------------
(***************************************************************************)
(* The inductive invariant behind the safety properties.                   *)
(***************************************************************************)

\* The list, the counter and the cursor agree on the number n of catalogs.
StoreInv ==
    \E n \in 1..Slots :
        /\ DenseTo(n)
        /\ n < Slots
        /\ disk[1].name = Root
        /\ block.freeCatalog + n = FreeCatalog0 + 1 + leaked + (IF pc = "createBlock" THEN 1 ELSE 0)
        /\ pc = "createBlock" => block.freeCatalog >= 1
        /\ cur.at <= n + 1
        /\ pc = "scan" => cur.at >= 2

\* Where the running call is in the recursion of FindCatalog: the ancestors
\* above the wanted one are on the disk, the list search from the start has
\* passed no catalog of the wanted name, and the parent is looked for only
\* after the name itself was not found.
SearchInv ==
    /\ Searching =>
         /\ call.op \in Calls
         /\ pc = "find" => cur.top = Len(call.name)
         /\ pc = "parent" => /\ call.op = "create" /\ call.name # Root
                             /\ cur.top = ParentLevel(call.name)
                             /\ ~Findable(call.name)
         /\ cur.lvl \in Levels(call.name) /\ cur.lvl <= cur.top
         /\ \A j \in Levels(call.name) : j < cur.lvl => Ancestor(call.name, j) \in CatalogNames
         /\ ~cur.local => \A s \in Used : s < cur.at => disk[s].name # Wanted
    /\ pc = "scan" =>
         /\ call.op = "create" /\ ~Findable(call.name)
         /\ \A s \in Used : s < cur.at => disk[s].name # call.name
    /\ pc = "createBlock" => call.op = "create" /\ call.name \in CatalogNames
    /\ pc = "removeBlock" => call.op = "remove"
    /\ call.op = "create" => ((call.kind = "dir") <=> EndsInSeparator(call.name))
    /\ pc # "idle" => res = NoRes

\* A catalog is a directory exactly when its name ends in the separator, so
\* CreateCatalog's "Parent name is file" never applies.
KindInv ==
    \A s \in Used : disk[s].kind = "dir" <=> EndsInSeparator(disk[s].name)

IndInv == TypeOK /\ KindInv /\ StoreInv /\ NamesUnique /\ SearchInv /\ GetExact /\ CreateVerdict

-----------------------------------------------------------------------------
(***************************************************************************)
(* The catalog store implements an atomic set of names.                    *)
(***************************************************************************)
Namespace ==
    INSTANCE NeFSNamespace WITH
        names <- CatalogNames,
        pend  <- IF pc = "createBlock" THEN [call EXCEPT !.op = "added"] ELSE call,
        reply <- res

\* Every behaviour of the pointer-chasing parser, crashes included, is one in
\* which each call takes effect at one instant and answers from the set of
\* names at that instant.
ImplementsNamespace == Namespace!Spec
=============================================================================
