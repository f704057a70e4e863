------------------------------ MODULE NeFSFork ------------------------------
(***************************************************************************)
(* The forks of NeFS catalogs (src/dev/ZKAKit/src/FS/NeFS.cc: CreateFork,  *)
(* WriteCatalog, ReadCatalog) on an ATA drive in PIO mode (HALKit/AMD64/   *)
(* Storage/ATA-PIO.cc), one disk access per step.                          *)
(*                                                                         *)
(* Addresses and sizes are in sectors; the sizes of forks are taken to be  *)
(* whole ones.  The driver moves one byte per 16-bit word, so a sector     *)
(* holds 256 bytes and a header of 512 bytes takes two sectors: the first  *)
(* has both names, the second has the numbers.  Catalog names are taken to *)
(* be shorter than 56 characters.  Memory is the heap's contract: buffers  *)
(* of one call are apart.                                                  *)
(***************************************************************************)
EXTENDS Naturals, FiniteSets

CONSTANTS
    CatalogCount,   \* catalogs 1..CatalogCount have been created
    ForkNames,
    NoFork,         \* an empty name
    DiskSectors,    \* SectorCount
    DataSizes       \* the DataSize of forks that callers use

Catalogs == 1..CatalogCount

\* kNeFSCatalogStartAddress, 2048 + 512 bytes, and the catalog in each slot.
StartCatalog     == 5
CatalogSector(c) == StartCatalog + 4 * (c - 1)

\* part_block->DiskSize - start_free: where the forks of a catalog begin.
DataFork(c) == DiskSectors - CatalogSector(c)

\* Format sets FreeCatalog to SectorCount / 512 and leaves room for a search.
ASSUME ForkAssumption ==
    /\ CatalogCount \in Nat \ {0}
    /\ NoFork \notin ForkNames
    /\ DataSizes \subseteq Nat
    /\ DiskSectors \in Nat
    /\ 512 * CatalogCount <= DiskSectors
    /\ \A k \in DataSizes : DataFork(CatalogCount) > CatalogSector(CatalogCount) + 8 + k

VARIABLES
    disk,     \* the sectors that have been written
    pc,       \* where the running call is
    call,     \* the running call and its arguments
    lba,      \* the fork it looks at
    input,    \* the header WriteCatalog has found
    res,      \* what the last call returned; none while one runs
    last,     \* for each catalog, the fork created last
    made,     \* the forks CreateFork has returned
    stored    \* the forks WriteCatalog has stored since they were created last

vars == <<disk, pc, call, lba, input, res, last, made, stored>>

kNeFSForkDataSz == 16777216

\* Without the extra sector the drivers ask for.
SectorCountExact(bytes) ==
    LET n == (bytes \div 512) % 256 IN IF n = 0 THEN 256 ELSE n

\* The sector count register has eight bits; 0 stands for 256.
SectorCount(bytes) ==
    LET n == ((bytes + 512) \div 512) % 256 IN IF n = 0 THEN 256 ELSE n

Zeroed    == [fork |-> NoFork, cat |-> 0, created |-> FALSE, size |-> 0, off |-> 0, next |-> 0]
ZeroParts == [part |-> "zero", hdr |-> Zeroed]

Sector(x) == IF x \in DOMAIN disk THEN disk[x] ELSE ZeroParts

(***************************************************************************)
(* What a read of 512 bytes finds: the names come from the first sector,   *)
(* the numbers from the second.  The tail of a header read as names is no  *)
(* name, the start of one read as numbers is zero.                         *)
(***************************************************************************)
HeaderAt(x) ==
    LET names   == IF Sector(x).part = "first" THEN Sector(x).hdr ELSE Zeroed
        numbers == IF Sector(x + 1).part = "second" THEN Sector(x + 1).hdr ELSE Zeroed
    IN  [fork |-> names.fork, cat |-> names.cat,
         created |-> numbers.created, size |-> numbers.size,
         off |-> numbers.off, next |-> numbers.next]

Written(parts) ==
    [x \in DOMAIN disk \cup DOMAIN parts |-> IF x \in DOMAIN parts THEN parts[x] ELSE disk[x]]

HeaderParts(x, h) ==
    [y \in {x, x + 1} |-> [part |-> IF y = x THEN "first" ELSE "second", hdr |-> h]]

WriteHeader(x, h) == disk' = Written(HeaderParts(x, h))

NoCall == [op |-> "none", cat |-> 0, fork |-> NoFork, size |-> 0]
NoRes  == [op |-> "none", cat |-> 0, fork |-> NoFork, ret |-> "none"]

Init ==
    /\ disk = [x \in {} |-> ZeroParts]
    /\ pc = "idle"
    /\ call = NoCall
    /\ lba = 0
    /\ input = Zeroed
    /\ res = NoRes
    /\ last = [c \in Catalogs |-> NoFork]
    /\ made = {}
    /\ stored = {}

Start(op, c, f, k) ==
    /\ pc = "idle"
    /\ pc' = op
    /\ call' = [op |-> op, cat |-> c, fork |-> f, size |-> k]
    /\ lba' = DataFork(c)
    /\ res' = NoRes
    /\ UNCHANGED <<disk, input, last, made, stored>>

Return(ret) ==
    /\ pc' = "idle"
    /\ res' = [op |-> call.op, cat |-> call.cat, fork |-> call.fork, ret |-> ret]
    /\ call' = NoCall
    /\ lba' = 0
    /\ input' = Zeroed

\* ForkName and CatalogName are the ones of the call.
Matches(h) == h.fork = call.fork /\ h.cat = call.cat

-----------------------------------------------------------------------------
(***************************************************************************)
(* CreateFork                                                              *)
(***************************************************************************)
CreateFork(c, f, k) == Start("create", c, f, k)

(***************************************************************************)
(* The loop.  A header that has a sibling ends it (kBadAddress is 0); so   *)
(* does one that is not in use, which is first linked to itself.  The rest *)
(* of the loop would need a fork in use without a sibling.                 *)
(***************************************************************************)
CreateRead ==
    LET h == HeaderAt(lba) IN
    /\ pc = "create"
    /\ IF h.next = 0 /\ h.created
         THEN IF Matches(h) THEN Return("null")
                            ELSE lba' = h.next /\ UNCHANGED <<pc, call, input, res>>
         ELSE /\ pc' = IF lba > StartCatalog /\ h.next = 0 THEN "link" ELSE "store"
              /\ UNCHANGED <<call, lba, input, res>>
    /\ UNCHANGED <<disk, last, made, stored>>

\* prevFork, which is empty, goes out with the new fork as its sibling.
LinkPrevious ==
    /\ pc = "link"
    /\ WriteHeader(lba, [Zeroed EXCEPT !.next = lba])
    /\ pc' = "store"
    /\ UNCHANGED <<call, lba, input, res, last, made, stored>>

\* The fork linked to itself, as prevFork is.
NewForkSelf(c, f, k, x) ==
    [fork |-> f, cat |-> c, created |-> TRUE, size |-> k, off |-> x - 1, next |-> x]

\* DataSize counted in sectors where bytes are meant.
NewForkSectors(c, f, k, x) ==
    [fork |-> f, cat |-> c, created |-> TRUE, size |-> k, off |-> x - 1, next |-> x - 2 - 512 * k]

NewFork(c, f, k, x) ==
    [fork |-> f, cat |-> c, created |-> TRUE, size |-> k, off |-> x - 1, next |-> x - 2 - k]

StoreFork ==
    /\ pc = "store"
    /\ WriteHeader(lba, NewFork(call.cat, call.fork, call.size, lba))
    /\ last' = [last EXCEPT ![call.cat] = call.fork]
    /\ made' = made \cup {<<call.cat, call.fork>>}
    /\ stored' = stored \ {<<call.cat, call.fork>>}
    /\ Return("fork")

-----------------------------------------------------------------------------
(***************************************************************************)
(* WriteCatalog                                                            *)
(***************************************************************************)
WriteCatalog(c, f, k) == k > 0 /\ Start("write", c, f, k)

WriteRead ==
    LET h == HeaderAt(lba) IN
    /\ pc = "write"
    /\ \/ /\ lba < StartCatalog \/ h.off <= StartCatalog
          /\ Return("false")
       \/ /\ lba >= StartCatalog /\ h.off > StartCatalog
          /\ IF h.created /\ Matches(h) /\ h.size = call.size
               THEN pc' = "data" /\ input' = h /\ UNCHANGED lba
               ELSE lba' = h.next /\ UNCHANGED <<pc, input>>
          /\ UNCHANGED <<call, res>>
    /\ UNCHANGED <<disk, last, made, stored>>

\* kNeFSForkDataSz bytes from DataOffset on, of which the drive takes as many
\* sectors as the register says.
WriteData ==
    LET off == input.off IN
    /\ pc = "data"
    /\ disk' = Written([x \in off..(off + SectorCount(kNeFSForkDataSz) - 1) |->
                          [part |-> "data", hdr |-> [Zeroed EXCEPT !.cat = call.cat]]])
    /\ pc' = "header"
    /\ UNCHANGED <<call, lba, input, res, last, made, stored>>

\* startFork - sizeof(NFS_FORK_STRUCT)
HeaderTarget(x) == x - 1

\* The header that was found goes out again.
WriteForkHeader ==
    /\ pc = "header"
    /\ WriteHeader(HeaderTarget(lba), input)
    /\ stored' = stored \cup {<<call.cat, call.fork>>}
    /\ Return("true")
    /\ UNCHANGED <<last, made>>

-----------------------------------------------------------------------------
(***************************************************************************)
(* ReadCatalog: returns the header of the fork.                            *)
(***************************************************************************)
ReadCatalog(c, f) == Start("read", c, f, 0)

ReadStep ==
    LET h == HeaderAt(lba) IN
    /\ pc = "read"
    /\ \/ /\ lba <= StartCatalog
          /\ Return(IF lba < StartCatalog THEN "null" ELSE "other")
       \/ /\ lba > StartCatalog /\ Matches(h)
          /\ Return("fork")
       \/ /\ lba > StartCatalog /\ ~Matches(h)
          /\ lba' = h.next
          /\ UNCHANGED <<pc, call, input, res>>
    /\ UNCHANGED <<disk, last, made, stored>>

\* The machine stops between two accesses.
Crash ==
    /\ pc # "idle"
    /\ pc' = "idle"
    /\ call' = NoCall
    /\ lba' = 0
    /\ input' = Zeroed
    /\ UNCHANGED <<disk, res, last, made, stored>>

Calls ==
    \E c \in Catalogs, f \in ForkNames :
      \/ ReadCatalog(c, f)
      \/ \E k \in DataSizes : CreateFork(c, f, k) \/ WriteCatalog(c, f, k)

Step ==
    \/ CreateRead \/ LinkPrevious \/ StoreFork
    \/ WriteRead \/ WriteData \/ WriteForkHeader
    \/ ReadStep

Next == Calls \/ Step

Spec == Init /\ [][Next \/ Crash]_vars

\* Without crashes; a call that has begun is carried on by its caller.
FairSpec == Init /\ [][Next]_vars /\ WF_vars(Step)

-----------------------------------------------------------------------------
(***************************************************************************)
(* Properties                                                              *)
(***************************************************************************)
Header ==
    [fork : ForkNames \cup {NoFork}, cat : 0..CatalogCount, created : BOOLEAN,
     size : Nat, off : Nat, next : Nat]

\* Every variable has its type.
TypeOK ==
    /\ \A x \in DOMAIN disk : /\ x \in Nat
                              /\ disk[x].part \in {"first", "second", "data"}
                              /\ disk[x].hdr \in Header
    /\ pc \in {"idle", "create", "link", "store", "write", "data", "header", "read"}
    /\ lba \in Nat
    /\ input \in Header
    /\ last \in [Catalogs -> ForkNames \cup {NoFork}]
    /\ made \subseteq Catalogs \X ForkNames
    /\ stored \subseteq made

\* The sectors around the forks of a catalog.
ForkZone(c) == (DataFork(c) - 1)..(DataFork(c) + 1)

\* What is written for a catalog stays in its own zone: forks run into no
\* other catalog's forks and not into the catalogs, which grow towards them,
\* for as many catalogs as Format allows.
ForksApart ==
    \A x \in DOMAIN disk :
      /\ x > CatalogSector(CatalogCount) + 3
      /\ x < DiskSectors
      /\ \E c \in Catalogs : x \in ForkZone(c) /\ disk[x].hdr.cat \in {0, c}

\* The siblings of a fork lie below it, so that searches come to an end.
SiblingsBelow ==
    pc = "idle" => \A y \in DOMAIN disk : y > 0 => HeaderAt(y - 1).next < y - 1

\* ReadCatalog finds the fork that was created last in a catalog, whatever
\* sizes its forks have and whenever the machine stopped, as long as
\* WriteCatalog has not been there.
LastForkFound ==
    res.op = "read" /\ last[res.cat] = res.fork /\ ~(\E f \in ForkNames : <<res.cat, f>> \in stored)
      => res.ret = "fork"

\* Every call returns.
CallsComplete == (pc # "idle") ~> (pc = "idle")

\* A search stays above the sector it looks at, and writes follow it.
StepsLeft ==
    CASE pc \in {"create", "write", "read"} -> lba + 3
      [] pc \in {"link", "data"}            -> 2
      [] pc \in {"store", "header"}         -> 1
      [] pc = "idle"                        -> 0

\* A search follows the siblings downwards only, whichever headers, copies of
\* headers and data it comes across, so calls end.
CallsDescend == [][pc # "idle" => StepsLeft' < StepsLeft]_vars

CallsEnd == CallsComplete /\ CallsDescend
=============================================================================
