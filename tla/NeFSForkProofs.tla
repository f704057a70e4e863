--------------------------- MODULE NeFSForkProofs ---------------------------
(***************************************************************************)
(* Proofs about NeFSFork, for every number of catalogs, set of names, set  *)
(* of fork sizes and disk that ForkAssumption allows.                      *)
(***************************************************************************)
EXTENDS NeFSFork, TLAPS

-----------------------------------------------------------------------------
(***************************************************************************)
(* The inductive invariant                                                 *)
(***************************************************************************)

\* The headers CreateFork makes for a catalog, and the empty one that
\* LinkPrevious writes in their place.
MadeFor(c)  == {NewFork(c, f, k, DataFork(c)) : f \in ForkNames, k \in DataSizes}
EmptyFor(c) == [Zeroed EXCEPT !.next = DataFork(c)]
DataFor(c)  == [Zeroed EXCEPT !.cat = c]

\* The three sectors of a catalog's zone and what each can hold: a header
\* from DataFork(c) on, and one sector below it the fork's data or the copy
\* of the header WriteCatalog leaves.
SectorOf(c, x, s) ==
    \/ x = DataFork(c) /\ s.part = "first" /\ s.hdr \in MadeFor(c) \cup {EmptyFor(c)}
    \/ x = DataFork(c) + 1 /\ s.part = "second" /\ s.hdr \in MadeFor(c) \cup {EmptyFor(c)}
    \/ x = DataFork(c) - 1 /\ s.part = "data" /\ s.hdr = DataFor(c)
    \/ x = DataFork(c) - 1 /\ s.part = "first" /\ s.hdr \in MadeFor(c)
    \/ x = DataFork(c) /\ s.part = "second" /\ s.hdr \in MadeFor(c)

DiskInv == \A x \in DOMAIN disk : \E c \in Catalogs : SectorOf(c, x, disk[x])

\* The call that runs and where it looks.  A search for a header to write
\* only ever leaves DataFork(c) downwards and past the copy of the header.
CallInv ==
    /\ pc = "idle" => call = NoCall
    /\ pc # "idle" => /\ call.cat \in Catalogs /\ call.fork \in ForkNames
                      /\ res = NoRes
    /\ pc \in {"create", "link", "store"} => /\ call.op = "create"
                                             /\ call.size \in DataSizes
                                             /\ lba = DataFork(call.cat)
    /\ pc \in {"write", "data", "header"} => call.op = "write"
    /\ pc = "write" => lba = DataFork(call.cat) \/ lba <= DataFork(call.cat) - 2
    /\ pc \in {"data", "header"} => /\ lba = DataFork(call.cat)
                                    /\ input \in MadeFor(call.cat)
    /\ pc = "read" => call.op = "read"

\* Where the fork created last in a catalog is found.
Unstored(c) == ~(\E f \in ForkNames : <<c, f>> \in stored)

LastInv ==
    /\ \A c \in Catalogs : last[c] # NoFork =>
         /\ DataFork(c) + 1 \in DOMAIN disk
         /\ disk[DataFork(c) + 1].part = "second"
         /\ disk[DataFork(c) + 1].hdr \in MadeFor(c)
    /\ \A c \in Catalogs : last[c] # NoFork /\ Unstored(c) =>
         /\ DataFork(c) \in DOMAIN disk
         /\ disk[DataFork(c)].part = "first"
         /\ disk[DataFork(c)].hdr.fork = last[c]
         /\ disk[DataFork(c)].hdr.cat = c
    /\ pc = "link" => last[call.cat] = NoFork
    /\ pc = "read" /\ last[call.cat] = call.fork /\ Unstored(call.cat) =>
         lba = DataFork(call.cat)

\* Names come onto the disk by CreateFork, and only those are stored.
MadeInv ==
    /\ \A x \in DOMAIN disk : disk[x].part = "first" /\ disk[x].hdr.cat # 0 =>
         <<disk[x].hdr.cat, disk[x].hdr.fork>> \in made
    /\ pc \in {"data", "header"} => /\ <<call.cat, call.fork>> \in made
                                    /\ input.fork = call.fork

IndInv == TypeOK /\ DiskInv /\ CallInv /\ LastInv /\ MadeInv /\ LastForkFound

\* Without crashes the empty header is on the disk only until StoreFork.
NoneEmpty ==
    \A x \in DOMAIN disk :
      disk[x].part = "second" => disk[x].hdr.created \/ (pc = "store" /\ x = lba + 1)

-----------------------------------------------------------------------------
(***************************************************************************)
(* The layout of the disk                                                  *)
(***************************************************************************)

\* The zones lie above the catalogs, four sectors apart, with room for any
\* fork below them.
LEMMA ZoneFacts ==
    ASSUME NEW c \in Catalogs
    PROVE  /\ c \in Nat /\ c >= 1 /\ c <= CatalogCount
           /\ DataFork(c) \in Nat
           /\ DataFork(c) > CatalogSector(CatalogCount) + 4
           /\ DataFork(c) > StartCatalog + 8
           /\ DataFork(c) + 1 < DiskSectors
           /\ \A k \in DataSizes : k \in Nat /\ DataFork(c) - 2 - k > StartCatalog
           /\ \A d \in Catalogs : d < c => DataFork(d) >= DataFork(c) + 4
           /\ \A d \in Catalogs : d > c => DataFork(c) >= DataFork(d) + 4
  BY ForkAssumption DEF Catalogs, DataFork, CatalogSector, StartCatalog

\* The same sector is in no two zones.
LEMMA ZonesApart ==
    ASSUME NEW c \in Catalogs, NEW d \in Catalogs, NEW x \in ForkZone(c), x \in ForkZone(d)
    PROVE  c = d
  <1>1. c \in Nat /\ d \in Nat /\ DataFork(c) \in Nat /\ DataFork(d) \in Nat
    BY ZoneFacts
  <1>2. c < d => DataFork(c) >= DataFork(d) + 4
    BY ZoneFacts
  <1>3. d < c => DataFork(d) >= DataFork(c) + 4
    BY ZoneFacts
  <1> QED
    BY <1>1, <1>2, <1>3 DEF ForkZone

LEMMA MadeFacts ==
    ASSUME NEW c \in Catalogs, NEW h \in MadeFor(c)
    PROVE  /\ h \in Header
           /\ h.fork \in ForkNames /\ h.cat = c /\ h.created = TRUE
           /\ h.size \in DataSizes /\ h.off = DataFork(c) - 1
           /\ h.next = DataFork(c) - 2 - h.size
           /\ h.next \in Nat /\ h.next > 0 /\ h.next <= DataFork(c) - 2
           /\ h = NewFork(c, h.fork, h.size, DataFork(c))
  <1>1. PICK f \in ForkNames, k \in DataSizes : h = NewFork(c, f, k, DataFork(c))
    BY DEF MadeFor
  <1>2. /\ c \in Nat /\ c <= CatalogCount /\ CatalogCount \in Nat
        /\ DataFork(c) \in Nat /\ DataFork(c) > StartCatalog + 8
        /\ k \in Nat /\ DataFork(c) - 2 - k > StartCatalog
    BY ZoneFacts, ForkAssumption
  <1> QED
    BY <1>1, <1>2 DEF NewFork, Header, StartCatalog

LEMMA EmptyFacts ==
    ASSUME NEW c \in Catalogs
    PROVE  /\ EmptyFor(c) \in Header /\ DataFor(c) \in Header /\ Zeroed \in Header
           /\ EmptyFor(c).fork = NoFork /\ EmptyFor(c).cat = 0
           /\ EmptyFor(c).created = FALSE /\ EmptyFor(c).size = 0
           /\ EmptyFor(c).off = 0 /\ EmptyFor(c).next = DataFork(c)
           /\ DataFor(c).cat = c
  <1>1. /\ DataFork(c) \in Nat /\ c \in 0..CatalogCount /\ 0 \in 0..CatalogCount
    BY ZoneFacts, ForkAssumption
  <1>2. Zeroed \in Header
    BY <1>1 DEF Zeroed, Header
  <1>3. EmptyFor(c) \in Header /\ DataFor(c) \in Header
    BY <1>1, <1>2 DEF EmptyFor, DataFor, Header
  <1>4. /\ Zeroed.fork = NoFork /\ Zeroed.cat = 0 /\ Zeroed.created = FALSE
        /\ Zeroed.size = 0 /\ Zeroed.off = 0
    BY DEF Zeroed
  <1>5. /\ EmptyFor(c).fork = NoFork /\ EmptyFor(c).cat = 0
        /\ EmptyFor(c).created = FALSE /\ EmptyFor(c).size = 0
        /\ EmptyFor(c).off = 0 /\ EmptyFor(c).next = DataFork(c)
        /\ DataFor(c).cat = c
    BY <1>2, <1>4 DEF EmptyFor, DataFor, Header
  <1> QED
    BY <1>2, <1>3, <1>5

\* What a sector that has been written can hold.
LEMMA SectorFacts ==
    ASSUME NEW c \in Catalogs, NEW x, NEW s, SectorOf(c, x, s)
    PROVE  /\ x \in Nat /\ x \in ForkZone(c)
           /\ s.part \in {"first", "second", "data"} /\ s.hdr \in Header
           /\ s.hdr.cat \in {0, c}
           /\ s.part = "first" => \/ x = DataFork(c)
                                  \/ x = DataFork(c) - 1 /\ s.hdr \in MadeFor(c)
           /\ s.part = "second" => \/ x = DataFork(c) + 1
                                   \/ x = DataFork(c) /\ s.hdr \in MadeFor(c)
           /\ s.part \in {"first", "second"} => s.hdr \in MadeFor(c) \cup {EmptyFor(c)}
  <1>1. DataFork(c) \in Nat /\ DataFork(c) > 8
    BY ZoneFacts DEF StartCatalog
  <1>2. x \in Nat /\ x \in ForkZone(c)
    BY <1>1 DEF SectorOf, ForkZone
  <1>3. s.part \in {"first", "second", "data"}
    BY DEF SectorOf
  <1>4. s.hdr \in MadeFor(c) \cup {EmptyFor(c), DataFor(c)}
    BY DEF SectorOf
  <1>5. s.hdr \in Header /\ s.hdr.cat \in {0, c}
    <2>1. CASE s.hdr \in MadeFor(c)
      BY <2>1, MadeFacts
    <2>2. CASE s.hdr \in {EmptyFor(c), DataFor(c)}
      BY <2>2, EmptyFacts
    <2> QED
      BY <1>4, <2>1, <2>2
  <1> QED
    BY <1>1, <1>2, <1>3, <1>5 DEF SectorOf

\* What a search reads: an empty name or the names of the header that starts
\* there, and numbers that lead nowhere or strictly downwards.
LEMMA ReadFacts ==
    ASSUME DiskInv, NEW x \in Nat
    PROVE  LET h == HeaderAt(x) IN
           /\ h \in Header
           /\ h.cat # 0 => /\ h.cat \in Catalogs
                           /\ x = DataFork(h.cat) \/ x = DataFork(h.cat) - 1
           /\ h.created => \E c \in Catalogs :
                 /\ x = DataFork(c) \/ x = DataFork(c) - 1
                 /\ h.off = DataFork(c) - 1 /\ h.size \in DataSizes
                 /\ h.next = DataFork(c) - 2 - h.size
                 /\ h.next # 0 /\ h.next <= DataFork(c) - 2
           /\ ~h.created => h.off = 0
  <1> DEFINE h == HeaderAt(x)
             names == IF Sector(x).part = "first" THEN Sector(x).hdr ELSE Zeroed
             numbers == IF Sector(x + 1).part = "second" THEN Sector(x + 1).hdr ELSE Zeroed
  <1>0. 1 \in Catalogs
    BY ForkAssumption DEF Catalogs
  <1>1. Zeroed \in Header
    BY <1>0, EmptyFacts
  <1>2. /\ names \in Header
        /\ names.cat # 0 => /\ names.cat \in Catalogs
                            /\ x = DataFork(names.cat) \/ x = DataFork(names.cat) - 1
    <2>1. CASE x \in DOMAIN disk /\ disk[x].part = "first"
      <3>1. PICK c \in Catalogs : SectorOf(c, x, disk[x])
        BY <2>1 DEF DiskInv
      <3>2. names = disk[x].hdr
        BY <2>1 DEF Sector
      <3> QED
        BY <2>1, <3>1, <3>2, SectorFacts
    <2>2. CASE ~(x \in DOMAIN disk /\ disk[x].part = "first")
      <3>1. names = Zeroed
        BY <2>2 DEF Sector, ZeroParts
      <3> QED
        BY <1>1, <3>1 DEF Zeroed
    <2> QED
      BY <2>1, <2>2
  <1>3. /\ numbers \in Header
        /\ numbers.created => \E c \in Catalogs : /\ x = DataFork(c) \/ x = DataFork(c) - 1
                                                /\ numbers \in MadeFor(c)
        /\ ~numbers.created => numbers.off = 0
    <2>1. CASE x + 1 \in DOMAIN disk /\ disk[x + 1].part = "second"
      <3>1. PICK c \in Catalogs : SectorOf(c, x + 1, disk[x + 1])
        BY <2>1 DEF DiskInv
      <3>2. numbers = disk[x + 1].hdr
        BY <2>1 DEF Sector
      <3>3. x + 1 = DataFork(c) \/ x + 1 = DataFork(c) + 1
        BY <2>1, <3>1, SectorFacts
      <3>4. x = DataFork(c) \/ x = DataFork(c) - 1
        BY <3>3, ZoneFacts
      <3>5. numbers \in Header /\ numbers \in MadeFor(c) \cup {EmptyFor(c)}
        BY <2>1, <3>1, <3>2, SectorFacts
      <3>6. CASE numbers \in MadeFor(c)
        BY <3>4, <3>5, <3>6, MadeFacts
      <3>7. CASE numbers = EmptyFor(c)
        BY <3>5, <3>7, EmptyFacts
      <3> QED
        BY <3>5, <3>6, <3>7
    <2>2. CASE ~(x + 1 \in DOMAIN disk /\ disk[x + 1].part = "second")
      <3>1. numbers = Zeroed
        BY <2>2 DEF Sector, ZeroParts
      <3> QED
        BY <1>1, <3>1 DEF Zeroed
    <2> QED
      BY <2>1, <2>2
  <1>4. h = [fork |-> names.fork, cat |-> names.cat, created |-> numbers.created,
             size |-> numbers.size, off |-> numbers.off, next |-> numbers.next]
    BY DEF HeaderAt
  <1> HIDE DEF names, numbers, h
  <1>5. h \in Header
    BY <1>2, <1>3, <1>4 DEF Header
  <1>6. h.cat # 0 => /\ h.cat \in Catalogs
                     /\ x = DataFork(h.cat) \/ x = DataFork(h.cat) - 1
    BY <1>2, <1>4
  <1>7. ASSUME h.created
        PROVE  \E c \in Catalogs :
                 /\ x = DataFork(c) \/ x = DataFork(c) - 1
                 /\ h.off = DataFork(c) - 1 /\ h.size \in DataSizes
                 /\ h.next = DataFork(c) - 2 - h.size
                 /\ h.next # 0 /\ h.next <= DataFork(c) - 2
    <2>1. PICK c \in Catalogs : /\ x = DataFork(c) \/ x = DataFork(c) - 1
                               /\ numbers \in MadeFor(c)
      BY <1>3, <1>4, <1>7
    <2>2. /\ numbers.off = DataFork(c) - 1 /\ numbers.size \in DataSizes
          /\ numbers.next = DataFork(c) - 2 - numbers.size
          /\ numbers.next \in Nat /\ numbers.next > 0 /\ numbers.next <= DataFork(c) - 2
      BY <2>1, MadeFacts
    <2>3. numbers.next # 0
      BY <2>2
    <2> QED
      BY <1>4, <2>1, <2>2, <2>3
  <1>8. ~h.created => h.off = 0
    BY <1>3, <1>4
  <1> QED
    BY <1>5, <1>6, <1>7, <1>8 DEF h

-----------------------------------------------------------------------------
(***************************************************************************)
(* Writes                                                                  *)
(***************************************************************************)

LEMMA HeaderWritten ==
    ASSUME NEW x \in Nat, NEW h, WriteHeader(x, h)
    PROVE  /\ DOMAIN disk' = DOMAIN disk \cup {x, x + 1}
           /\ disk'[x].part = "first" /\ disk'[x].hdr = h
           /\ disk'[x + 1].part = "second" /\ disk'[x + 1].hdr = h
           /\ \A y \in DOMAIN disk' : y # x /\ y # x + 1 =>
                y \in DOMAIN disk /\ disk'[y] = disk[y]
  <1> DEFINE parts == HeaderParts(x, h)
  <1>1. /\ DOMAIN parts = {x, x + 1} /\ x + 1 # x
        /\ parts[x] = [part |-> "first", hdr |-> h]
        /\ parts[x + 1] = [part |-> "second", hdr |-> h]
    BY DEF HeaderParts
  <1> HIDE DEF parts
  <1>2. disk' = [y \in DOMAIN disk \cup DOMAIN parts |->
                   IF y \in DOMAIN parts THEN parts[y] ELSE disk[y]]
    BY DEF WriteHeader, Written, parts
  <1> QED
    BY <1>1, <1>2

\* Headers go into the zone of the call's catalog.
LEMMA HeaderWriteKeeps ==
    ASSUME DiskInv, NEW c \in Catalogs, NEW x, NEW h, WriteHeader(x, h),
           \/ x = DataFork(c) /\ h \in MadeFor(c) \cup {EmptyFor(c)}
           \/ x = DataFork(c) - 1 /\ h \in MadeFor(c)
    PROVE  /\ DiskInv'
           /\ \A d \in Catalogs, y \in DOMAIN disk :
                d # c /\ y \in ForkZone(d) => y \in DOMAIN disk' /\ disk'[y] = disk[y]
  <1>1. DataFork(c) \in Nat /\ DataFork(c) > 8
    BY ZoneFacts DEF StartCatalog
  <1>2. x \in Nat /\ {x, x + 1} \subseteq ForkZone(c)
    BY <1>1 DEF ForkZone
  <1>3. /\ DOMAIN disk' = DOMAIN disk \cup {x, x + 1}
        /\ disk'[x].part = "first" /\ disk'[x].hdr = h
        /\ disk'[x + 1].part = "second" /\ disk'[x + 1].hdr = h
        /\ \A y \in DOMAIN disk' : y # x /\ y # x + 1 =>
             y \in DOMAIN disk /\ disk'[y] = disk[y]
    BY <1>2, HeaderWritten
  <1>4. SectorOf(c, x, disk'[x]) /\ SectorOf(c, x + 1, disk'[x + 1])
    BY <1>1, <1>3 DEF SectorOf
  <1>5. \A y \in DOMAIN disk' : \E d \in Catalogs : SectorOf(d, y, disk'[y])
    BY <1>3, <1>4 DEF DiskInv
  <1>6. DiskInv'
    BY <1>5 DEF DiskInv
  <1>7. ASSUME NEW d \in Catalogs, NEW y \in DOMAIN disk, d # c, y \in ForkZone(d)
        PROVE  y \in DOMAIN disk' /\ disk'[y] = disk[y]
    <2>1. y \notin ForkZone(c)
      BY <1>7, ZonesApart
    <2> QED
      BY <1>2, <1>3, <2>1
  <1> QED
    BY <1>6, <1>7

\* WriteData moves one sector, the one below the fork's header.
LEMMA DataWriteKeeps ==
    ASSUME DiskInv, NEW c \in Catalogs, call.cat = c, input.off = DataFork(c) - 1, WriteData
    PROVE  /\ DiskInv'
           /\ \A y \in DOMAIN disk : y # DataFork(c) - 1 =>
                y \in DOMAIN disk' /\ disk'[y] = disk[y]
           /\ \A y \in DOMAIN disk' : y # DataFork(c) - 1 =>
                y \in DOMAIN disk /\ disk'[y] = disk[y]
           /\ disk'[DataFork(c) - 1].part = "data"
  <1> DEFINE off == input.off
             parts == [x \in off..(off + SectorCount(kNeFSForkDataSz) - 1) |->
                          [part |-> "data", hdr |-> [Zeroed EXCEPT !.cat = call.cat]]]
  <1>1. DataFork(c) \in Nat /\ DataFork(c) > 8
    BY ZoneFacts DEF StartCatalog
  <1>2. SectorCount(kNeFSForkDataSz) = 1
    BY DEF SectorCount, kNeFSForkDataSz
  <1>3. off..(off + SectorCount(kNeFSForkDataSz) - 1) = {off}
    BY <1>1, <1>2
  <1>4. parts = [x \in {off} |-> [part |-> "data", hdr |-> DataFor(c)]]
    BY <1>3 DEF DataFor
  <1>5. disk' = [y \in DOMAIN disk \cup DOMAIN parts |->
                   IF y \in DOMAIN parts THEN parts[y] ELSE disk[y]]
    BY DEF WriteData, Written
  <1> HIDE DEF parts
  <1>6. /\ DOMAIN disk' = DOMAIN disk \cup {off}
        /\ disk'[off] = [part |-> "data", hdr |-> DataFor(c)]
        /\ \A y \in DOMAIN disk : y # off => disk'[y] = disk[y]
    BY <1>4, <1>5
  <1>7. SectorOf(c, off, disk'[off])
    BY <1>6 DEF SectorOf
  <1>8. \A y \in DOMAIN disk' : \E d \in Catalogs : SectorOf(d, y, disk'[y])
    BY <1>6, <1>7 DEF DiskInv
  <1>9. DiskInv'
    BY <1>8 DEF DiskInv
  <1> QED
    BY <1>6, <1>9

-----------------------------------------------------------------------------
(***************************************************************************)
(* Every step keeps the invariant                                          *)
(***************************************************************************)

LEMMA DiskTyped ==
    ASSUME DiskInv'
    PROVE  \A x \in DOMAIN disk' : /\ x \in Nat
                                   /\ disk'[x].part \in {"first", "second", "data"}
                                   /\ disk'[x].hdr \in Header
  BY SectorFacts DEF DiskInv

LEMMA InitInv == Init => IndInv
  <1> SUFFICES ASSUME Init PROVE IndInv
    OBVIOUS
  <1>0. 1 \in Catalogs
    BY ForkAssumption DEF Catalogs
  <1>1. Zeroed \in Header
    BY <1>0, EmptyFacts
  <1>2. TypeOK
    BY <1>1 DEF Init, TypeOK
  <1>3. DiskInv /\ CallInv
    BY DEF Init, DiskInv, CallInv
  <1>4. LastInv /\ MadeInv /\ LastForkFound
    BY DEF Init, LastInv, MadeInv, LastForkFound, NoRes
  <1> QED
    BY <1>2, <1>3, <1>4 DEF IndInv

LEMMA CallKeeps ==
    ASSUME IndInv, Calls
    PROVE  IndInv'
  <1>1. PICK c \in Catalogs, f \in ForkNames, k \in DataSizes \cup {0}, op \in {"create", "write", "read"} :
               /\ Start(op, c, f, k)
               /\ op = "create" => k \in DataSizes
    BY DEF Calls, ReadCatalog, CreateFork, WriteCatalog
  <1>2. DataFork(c) \in Nat
    BY ZoneFacts
  <1>3. call' = [op |-> op, cat |-> c, fork |-> f, size |-> k] /\ lba' = DataFork(c)
        /\ pc' = op /\ res' = NoRes /\ UNCHANGED <<disk, input, last, made, stored>>
    BY <1>1 DEF Start
  <1>4. TypeOK'
    BY <1>2, <1>3 DEF IndInv, TypeOK
  <1>5. DiskInv' /\ CallInv' /\ MadeInv'
    BY <1>1, <1>3 DEF IndInv, DiskInv, CallInv, MadeInv
  <1>6. LastInv'
    BY <1>3 DEF IndInv, LastInv, Unstored
  <1>7. LastForkFound'
    BY <1>3 DEF LastForkFound, NoRes
  <1> QED
    BY <1>4, <1>5, <1>6, <1>7 DEF IndInv

\* A call that ends without touching the disk or what is known of the forks.
LEMMA ReturnKeeps ==
    ASSUME IndInv, NEW ret, Return(ret), UNCHANGED <<disk, last, made, stored>>,
           pc # "idle", call.op = "read" /\ last[call.cat] = call.fork /\ Unstored(call.cat)
             => ret = "fork"
    PROVE  IndInv'
  <1>0. 1 \in Catalogs
    BY ForkAssumption DEF Catalogs
  <1>1. Zeroed \in Header
    BY <1>0, EmptyFacts
  <1>2. /\ pc' = "idle" /\ call' = NoCall /\ lba' = 0 /\ input' = Zeroed
        /\ res' = [op |-> call.op, cat |-> call.cat, fork |-> call.fork, ret |-> ret]
    BY DEF Return
  <1>3. TypeOK'
    BY <1>1, <1>2 DEF IndInv, TypeOK
  <1>4. DiskInv' /\ CallInv' /\ MadeInv'
    BY <1>2 DEF IndInv, DiskInv, CallInv, MadeInv
  <1>5. LastInv'
    BY <1>2 DEF IndInv, LastInv, Unstored
  <1>6. LastForkFound'
    BY <1>2 DEF LastForkFound, Unstored
  <1> QED
    BY <1>3, <1>4, <1>5, <1>6 DEF IndInv

LEMMA CreateReadKeeps ==
    ASSUME IndInv, CreateRead
    PROVE  IndInv'
  <1> DEFINE h == HeaderAt(lba)
             c == call.cat
  <1>1. /\ c \in Catalogs /\ lba = DataFork(c) /\ lba \in Nat
        /\ call.op = "create" /\ call.size \in DataSizes /\ call.fork \in ForkNames
        /\ res = NoRes
    BY DEF IndInv, CallInv, TypeOK, CreateRead
  <1>2. h \in Header /\ (h.created => h.next # 0)
    BY <1>1, ReadFacts DEF IndInv
  <1>3. /\ pc' = IF lba > StartCatalog /\ h.next = 0 THEN "link" ELSE "store"
        /\ UNCHANGED <<call, lba, input, res, disk, last, made, stored>>
    BY <1>2 DEF CreateRead
  <1>4. pc' = "link" => last[c] = NoFork
    <2>1. SUFFICES ASSUME last[c] # NoFork PROVE h.next # 0
      BY <1>3
    <2>2. /\ DataFork(c) + 1 \in DOMAIN disk
          /\ disk[DataFork(c) + 1].part = "second"
          /\ disk[DataFork(c) + 1].hdr \in MadeFor(c)
      BY <1>1, <2>1 DEF IndInv, LastInv
    <2>3. h.next = disk[DataFork(c) + 1].hdr.next
      BY <1>1, <2>2 DEF HeaderAt, Sector
    <2>4. disk[DataFork(c) + 1].hdr.next \in Nat /\ disk[DataFork(c) + 1].hdr.next > 0
      BY <1>1, <2>2, MadeFacts
    <2> QED
      BY <2>3, <2>4
  <1>5. TypeOK' /\ DiskInv' /\ MadeInv'
    BY <1>3 DEF IndInv, TypeOK, DiskInv, MadeInv
  <1>6. CallInv'
    BY <1>1, <1>3 DEF CallInv
  <1>7. LastInv'
    BY <1>3, <1>4 DEF IndInv, LastInv, Unstored
  <1>8. LastForkFound'
    BY <1>3 DEF IndInv, LastForkFound
  <1> QED
    BY <1>5, <1>6, <1>7, <1>8 DEF IndInv

LEMMA LinkPreviousKeeps ==
    ASSUME IndInv, LinkPrevious
    PROVE  IndInv'
  <1> DEFINE c == call.cat
  <1>1. /\ c \in Catalogs /\ lba = DataFork(c) /\ lba \in Nat
        /\ call.op = "create" /\ call.size \in DataSizes /\ call.fork \in ForkNames
        /\ res = NoRes /\ last[c] = NoFork
    BY DEF IndInv, CallInv, TypeOK, LastInv, LinkPrevious
  <1>2. WriteHeader(lba, EmptyFor(c))
    BY <1>1 DEF LinkPrevious, EmptyFor
  <1>3. /\ DiskInv'
        /\ \A d \in Catalogs, y \in DOMAIN disk :
              d # c /\ y \in ForkZone(d) => y \in DOMAIN disk' /\ disk'[y] = disk[y]
    BY <1>1, <1>2, HeaderWriteKeeps DEF IndInv
  <1>4. pc' = "store" /\ UNCHANGED <<call, lba, input, res, last, made, stored>>
    BY DEF LinkPrevious
  <1>5. TypeOK'
    BY <1>3, <1>4, DiskTyped DEF IndInv, TypeOK
  <1>6. CallInv'
    BY <1>1, <1>4 DEF CallInv
  <1>7. ASSUME NEW d \in Catalogs, last[d] # NoFork
        PROVE  /\ DataFork(d) + 1 \in DOMAIN disk => DataFork(d) + 1 \in DOMAIN disk'
                                           /\ disk'[DataFork(d) + 1] = disk[DataFork(d) + 1]
               /\ DataFork(d) \in DOMAIN disk => DataFork(d) \in DOMAIN disk'
                                           /\ disk'[DataFork(d)] = disk[DataFork(d)]
    <2>1. DataFork(d) \in ForkZone(d) /\ DataFork(d) + 1 \in ForkZone(d)
      BY ZoneFacts DEF ForkZone
    <2> QED
      BY <1>1, <1>3, <1>7, <2>1
  <1>8. LastInv'
    BY <1>1, <1>4, <1>7 DEF IndInv, LastInv, Unstored
  <1>9. LastForkFound'
    BY <1>4 DEF IndInv, LastForkFound
  <1>10. MadeInv'
    <2>1. /\ DOMAIN disk' = DOMAIN disk \cup {lba, lba + 1}
          /\ disk'[lba].hdr = EmptyFor(c) /\ disk'[lba + 1].part = "second"
          /\ \A y \in DOMAIN disk' : y # lba /\ y # lba + 1 =>
               y \in DOMAIN disk /\ disk'[y] = disk[y]
      BY <1>1, <1>2, HeaderWritten
    <2>2. EmptyFor(c).cat = 0
      BY <1>1, EmptyFacts
    <2> QED
      BY <1>4, <2>1, <2>2 DEF IndInv, MadeInv
  <1> QED
    BY <1>3, <1>5, <1>6, <1>8, <1>9, <1>10 DEF IndInv

LEMMA StoreForkKeeps ==
    ASSUME IndInv, StoreFork
    PROVE  IndInv'
  <1> DEFINE c == call.cat
             h == NewFork(c, call.fork, call.size, lba)
  <1>0. 1 \in Catalogs
    BY ForkAssumption DEF Catalogs
  <1>1. /\ c \in Catalogs /\ lba = DataFork(c) /\ lba \in Nat
        /\ call.op = "create" /\ call.size \in DataSizes /\ call.fork \in ForkNames
        /\ Zeroed \in Header
    BY <1>0, EmptyFacts DEF IndInv, CallInv, TypeOK, StoreFork
  <1>2. h \in MadeFor(c) /\ h.fork = call.fork /\ h.cat = c
    <2>1. h \in MadeFor(c)
      BY <1>1 DEF MadeFor
    <2> QED
      BY <2>1 DEF NewFork
  <1>3. WriteHeader(lba, h)
    BY DEF StoreFork
  <1> HIDE DEF h
  <1>4. /\ DiskInv'
        /\ \A d \in Catalogs, y \in DOMAIN disk :
              d # c /\ y \in ForkZone(d) => y \in DOMAIN disk' /\ disk'[y] = disk[y]
    BY <1>1, <1>2, <1>3, HeaderWriteKeeps DEF IndInv
  <1>5. /\ pc' = "idle" /\ call' = NoCall /\ lba' = 0 /\ input' = Zeroed
        /\ res' = [op |-> call.op, cat |-> call.cat, fork |-> call.fork, ret |-> "fork"]
        /\ last' = [last EXCEPT ![c] = call.fork]
        /\ made' = made \cup {<<c, call.fork>>}
        /\ stored' = stored \ {<<c, call.fork>>}
    BY DEF StoreFork, Return
  <1>6. TypeOK'
    <2>1. last' \in [Catalogs -> ForkNames \cup {NoFork}]
      BY <1>1, <1>5 DEF IndInv, TypeOK
    <2>2. made' \subseteq Catalogs \X ForkNames /\ stored' \subseteq made'
      BY <1>1, <1>5 DEF IndInv, TypeOK
    <2> QED
      BY <1>1, <1>4, <1>5, <2>1, <2>2, DiskTyped DEF TypeOK
  <1>7. CallInv'
    BY <1>5 DEF CallInv
  <1>8. LastInv'
    <2>1. /\ DataFork(c) \in DOMAIN disk' /\ DataFork(c) + 1 \in DOMAIN disk'
          /\ disk'[DataFork(c)].part = "first" /\ disk'[DataFork(c)].hdr = h
          /\ disk'[DataFork(c) + 1].part = "second" /\ disk'[DataFork(c) + 1].hdr = h
      BY <1>1, <1>3, HeaderWritten
    <2>2. last'[c] = call.fork
      BY <1>1, <1>5 DEF IndInv, TypeOK
    <2>3. ASSUME NEW d \in Catalogs, last'[d] # NoFork
          PROVE  /\ DataFork(d) + 1 \in DOMAIN disk'
                 /\ disk'[DataFork(d) + 1].part = "second"
                 /\ disk'[DataFork(d) + 1].hdr \in MadeFor(d)
                 /\ Unstored(d)' => /\ DataFork(d) \in DOMAIN disk'
                                    /\ disk'[DataFork(d)].part = "first"
                                    /\ disk'[DataFork(d)].hdr.fork = last'[d]
                                    /\ disk'[DataFork(d)].hdr.cat = d
      <3>1. CASE d = c
        BY <1>2, <2>1, <2>2, <3>1
      <3>2. CASE d # c
        <4>1. last'[d] = last[d]
          BY <1>5, <3>2 DEF IndInv, TypeOK
        <4>2. Unstored(d)' => Unstored(d)
          BY <1>5, <3>2 DEF Unstored
        <4>3. DataFork(d) \in ForkZone(d) /\ DataFork(d) + 1 \in ForkZone(d)
          BY ZoneFacts DEF ForkZone
        <4>4. /\ DataFork(d) + 1 \in DOMAIN disk
              /\ disk[DataFork(d) + 1].part = "second"
              /\ disk[DataFork(d) + 1].hdr \in MadeFor(d)
              /\ Unstored(d) => /\ DataFork(d) \in DOMAIN disk
                                /\ disk[DataFork(d)].part = "first"
                                /\ disk[DataFork(d)].hdr.fork = last[d]
                                /\ disk[DataFork(d)].hdr.cat = d
          BY <2>3, <4>1 DEF IndInv, LastInv
        <4>5. DataFork(d) + 1 \in DOMAIN disk' /\ disk'[DataFork(d) + 1] = disk[DataFork(d) + 1]
          BY <1>4, <3>2, <4>3, <4>4
        <4>6. Unstored(d) => /\ DataFork(d) \in DOMAIN disk'
                            /\ disk'[DataFork(d)] = disk[DataFork(d)]
          BY <1>4, <3>2, <4>3, <4>4
        <4> QED
          BY <4>1, <4>2, <4>4, <4>5, <4>6
      <3> QED
        BY <3>1, <3>2
    <2> QED
      BY <1>5, <2>3 DEF LastInv
  <1>9. LastForkFound'
    BY <1>1, <1>5 DEF LastForkFound
  <1>10. MadeInv'
    <2>1. /\ DOMAIN disk' = DOMAIN disk \cup {lba, lba + 1}
          /\ disk'[lba].hdr = h /\ disk'[lba + 1].part = "second"
          /\ \A y \in DOMAIN disk' : y # lba /\ y # lba + 1 =>
               y \in DOMAIN disk /\ disk'[y] = disk[y]
      BY <1>1, <1>3, HeaderWritten
    <2> QED
      BY <1>2, <1>5, <2>1 DEF IndInv, MadeInv
  <1> QED
    BY <1>4, <1>6, <1>7, <1>8, <1>9, <1>10 DEF IndInv

LEMMA WriteReadKeeps ==
    ASSUME IndInv, WriteRead
    PROVE  IndInv'
  <1> DEFINE c == call.cat
             h == HeaderAt(lba)
  <1>1. /\ c \in Catalogs /\ lba \in Nat /\ pc = "write"
        /\ lba = DataFork(c) \/ lba <= DataFork(c) - 2
        /\ call.op = "write" /\ call.fork \in ForkNames /\ res = NoRes
        /\ UNCHANGED <<disk, last, made, stored>>
    BY DEF IndInv, CallInv, TypeOK, WriteRead
  <1>2. /\ c \in Nat /\ c >= 1 /\ DataFork(c) \in Nat
        /\ \A d \in Catalogs : d \in Nat /\ DataFork(d) \in Nat
    BY <1>1, ZoneFacts
  <1>3. CASE Return("false")
    BY <1>1, <1>3, ReturnKeeps
  <1>4. ASSUME lba >= StartCatalog, h.off > StartCatalog, UNCHANGED <<call, res>>
        PROVE  IndInv'
    <2>1. h \in Header /\ h.created
      BY <1>1, <1>4, ReadFacts DEF IndInv, StartCatalog
    <2>2. PICK d \in Catalogs :
                 /\ lba = DataFork(d) \/ lba = DataFork(d) - 1
                 /\ h.off = DataFork(d) - 1 /\ h.size \in DataSizes
                 /\ h.next = DataFork(d) - 2 - h.size
                 /\ h.next <= DataFork(d) - 2
      BY <1>1, <2>1, ReadFacts DEF IndInv
    <2>3. ~(lba < StartCatalog \/ h.off <= StartCatalog)
      BY <1>1, <1>4, <2>1 DEF Header, StartCatalog
    <2>4. IF h.created /\ Matches(h) /\ h.size = call.size
            THEN pc' = "data" /\ input' = h /\ UNCHANGED lba
            ELSE lba' = h.next /\ UNCHANGED <<pc, input>>
      BY <2>3 DEF WriteRead
    <2>5. h.cat = c => lba = DataFork(c) \/ lba = DataFork(c) - 1
      <3>1. c # 0
        BY <1>2
      <3> QED
        BY <1>1, <3>1, ReadFacts DEF IndInv
    <2> HIDE DEF h
    <2>6. CASE h.created /\ Matches(h) /\ h.size = call.size
      <3>0. h.cat = c /\ h.fork = call.fork
        BY <2>6 DEF Matches
      <3>1. lba = DataFork(c) \/ lba = DataFork(c) - 1
        BY <2>5, <3>0
      <3>2. lba = DataFork(c)
        BY <1>1, <1>2, <3>0, <3>1
      <3>3. d = c
        <4>1. lba \in ForkZone(c) /\ lba \in ForkZone(d)
          BY <1>2, <2>2, <3>2 DEF ForkZone
        <4> QED
          BY <1>1, <4>1, ZonesApart
      <3>4. h = NewFork(c, h.fork, h.size, DataFork(c))
        BY <2>1, <2>2, <2>6, <3>0, <3>3 DEF NewFork, Header
      <3>5. h \in MadeFor(c)
        BY <1>1, <2>2, <3>0, <3>4 DEF MadeFor
      <3>6. pc' = "data" /\ input' = h /\ UNCHANGED lba
        BY <2>6, <2>4
      <3>7. TypeOK' /\ DiskInv'
        BY <1>1, <2>1, <3>6 DEF IndInv, TypeOK, DiskInv
      <3>8. CallInv'
        BY <1>1, <1>4, <3>2, <3>5, <3>6 DEF CallInv
      <3>9. LastInv'
        BY <1>1, <1>4, <3>6 DEF IndInv, LastInv, Unstored
      <3>10. LastForkFound'
        BY <1>1, <1>4 DEF IndInv, LastForkFound
      <3>11. MadeInv'
        <4>1. /\ lba \in DOMAIN disk /\ disk[lba].part = "first"
              /\ disk[lba].hdr.cat = c /\ disk[lba].hdr.fork = call.fork
          <5>1. Zeroed.cat # c
            BY <1>2 DEF Zeroed
          <5> QED
            BY <3>0, <5>1 DEF h, HeaderAt, Sector, ZeroParts
        <4>2. c # 0
          BY <1>2
        <4> QED
          BY <1>1, <1>4, <3>0, <3>6, <4>1, <4>2 DEF IndInv, MadeInv
      <3> QED
        BY <3>7, <3>8, <3>9, <3>10, <3>11 DEF IndInv
    <2>7. CASE ~(h.created /\ Matches(h) /\ h.size = call.size)
      <3>1. lba' = h.next /\ UNCHANGED <<pc, input>>
        BY <2>7, <2>4
      <3>2. h.next \in Nat
        BY <2>1 DEF Header
      <3>3. h.next <= DataFork(c) - 2
        <4>1. d \in Nat /\ (d < c => DataFork(d) >= DataFork(c) + 4)
          BY <1>1, ZoneFacts
        <4>2. c < d => DataFork(c) >= DataFork(d) + 4
          BY <1>1, ZoneFacts
        <4> QED
          BY <1>1, <1>2, <2>2, <3>2, <4>1, <4>2
      <3>4. TypeOK' /\ DiskInv' /\ MadeInv'
        BY <1>1, <1>4, <3>1, <3>2 DEF IndInv, TypeOK, DiskInv, MadeInv
      <3>5. CallInv'
        BY <1>1, <1>4, <3>1, <3>3 DEF CallInv
      <3>6. LastInv'
        BY <1>1, <1>4, <3>1 DEF IndInv, LastInv, Unstored
      <3>7. LastForkFound'
        BY <1>1, <1>4 DEF IndInv, LastForkFound
      <3> QED
        BY <3>4, <3>5, <3>6, <3>7 DEF IndInv
    <2> QED
      BY <2>6, <2>7
  <1> QED
    BY <1>3, <1>4 DEF WriteRead

LEMMA WriteDataKeeps ==
    ASSUME IndInv, WriteData
    PROVE  IndInv'
  <1> DEFINE c == call.cat
  <1>1. /\ c \in Catalogs /\ lba = DataFork(c) /\ lba \in Nat
        /\ call.op = "write" /\ call.fork \in ForkNames /\ res = NoRes
        /\ input \in MadeFor(c)
        /\ pc' = "header" /\ UNCHANGED <<call, lba, input, res, last, made, stored>>
    BY DEF IndInv, CallInv, TypeOK, WriteData
  <1>2. input.off = DataFork(c) - 1
    BY <1>1, MadeFacts
  <1>3. /\ DiskInv'
        /\ \A y \in DOMAIN disk : y # DataFork(c) - 1 =>
             y \in DOMAIN disk' /\ disk'[y] = disk[y]
    BY <1>1, <1>2, DataWriteKeeps DEF IndInv
  <1>4. TypeOK'
    BY <1>1, <1>3, DiskTyped DEF IndInv, TypeOK
  <1>5. CallInv'
    BY <1>1 DEF CallInv
  <1>6. LastInv'
    <2>1. \A d \in Catalogs : /\ DataFork(d) # DataFork(c) - 1
                              /\ DataFork(d) + 1 # DataFork(c) - 1
      <3> SUFFICES ASSUME NEW d \in Catalogs
                   PROVE  /\ DataFork(d) # DataFork(c) - 1
                          /\ DataFork(d) + 1 # DataFork(c) - 1
        OBVIOUS
      <3>1. c \in Nat /\ d \in Nat /\ DataFork(c) \in Nat /\ DataFork(d) \in Nat
        BY <1>1, ZoneFacts
      <3>2. d < c => DataFork(d) >= DataFork(c) + 4
        BY <1>1, ZoneFacts
      <3>3. d > c => DataFork(c) >= DataFork(d) + 4
        BY <1>1, ZoneFacts
      <3> QED
        BY <3>1, <3>2, <3>3
    <2> QED
      BY <1>1, <1>3, <2>1 DEF IndInv, LastInv, Unstored
  <1>7. LastForkFound'
    BY <1>1 DEF IndInv, LastForkFound
  <1>8. MadeInv'
    <2>1. /\ \A y \in DOMAIN disk' : y # DataFork(c) - 1 =>
               y \in DOMAIN disk /\ disk'[y] = disk[y]
          /\ disk'[DataFork(c) - 1].part = "data"
      BY <1>1, <1>2, DataWriteKeeps DEF IndInv
    <2> QED
      BY <1>1, <2>1 DEF IndInv, MadeInv, WriteData
  <1> QED
    BY <1>3, <1>4, <1>5, <1>6, <1>7, <1>8 DEF IndInv

LEMMA WriteForkHeaderKeeps ==
    ASSUME IndInv, WriteForkHeader
    PROVE  IndInv'
  <1> DEFINE c == call.cat
  <1>0. 1 \in Catalogs
    BY ForkAssumption DEF Catalogs
  <1>1. /\ c \in Catalogs /\ lba = DataFork(c) /\ lba \in Nat
        /\ call.op = "write" /\ call.fork \in ForkNames
        /\ input \in MadeFor(c) /\ Zeroed \in Header
    BY <1>0, EmptyFacts DEF IndInv, CallInv, TypeOK, WriteForkHeader
  <1>2. /\ pc' = "idle" /\ call' = NoCall /\ lba' = 0 /\ input' = Zeroed
        /\ res' = [op |-> call.op, cat |-> call.cat, fork |-> call.fork, ret |-> "true"]
        /\ stored' = stored \cup {<<c, call.fork>>} /\ UNCHANGED <<last, made>>
        /\ WriteHeader(DataFork(c) - 1, input)
    BY <1>1 DEF WriteForkHeader, Return, HeaderTarget
  <1>3. /\ DiskInv'
        /\ \A d \in Catalogs, y \in DOMAIN disk :
              d # c /\ y \in ForkZone(d) => y \in DOMAIN disk' /\ disk'[y] = disk[y]
    BY <1>1, <1>2, HeaderWriteKeeps DEF IndInv
  <1>4. <<c, call.fork>> \in made /\ input.fork = call.fork
    BY DEF IndInv, MadeInv, WriteForkHeader
  <1>5. TypeOK'
    BY <1>1, <1>2, <1>3, <1>4, DiskTyped DEF IndInv, TypeOK
  <1>6. CallInv'
    BY <1>2 DEF CallInv
  <1>7. LastInv'
    <2>1. ASSUME NEW d \in Catalogs, last'[d] # NoFork
          PROVE  /\ DataFork(d) + 1 \in DOMAIN disk'
                 /\ disk'[DataFork(d) + 1].part = "second"
                 /\ disk'[DataFork(d) + 1].hdr \in MadeFor(d)
                 /\ Unstored(d)' => /\ DataFork(d) \in DOMAIN disk'
                                    /\ disk'[DataFork(d)].part = "first"
                                    /\ disk'[DataFork(d)].hdr.fork = last'[d]
                                    /\ disk'[DataFork(d)].hdr.cat = d
      <3>1. /\ DataFork(d) + 1 \in DOMAIN disk
            /\ disk[DataFork(d) + 1].part = "second"
            /\ disk[DataFork(d) + 1].hdr \in MadeFor(d)
            /\ Unstored(d) => /\ DataFork(d) \in DOMAIN disk
                              /\ disk[DataFork(d)].part = "first"
                              /\ disk[DataFork(d)].hdr.fork = last[d]
                              /\ disk[DataFork(d)].hdr.cat = d
        BY <1>2, <2>1 DEF IndInv, LastInv
      <3>2. CASE d = c
        <4>1. ~Unstored(d)'
          BY <1>1, <1>2, <3>2 DEF Unstored
        <4>2. /\ DOMAIN disk' = DOMAIN disk \cup {DataFork(c) - 1, DataFork(c) - 1 + 1}
              /\ \A y \in DOMAIN disk' :
                   y # DataFork(c) - 1 /\ y # DataFork(c) - 1 + 1 => disk'[y] = disk[y]
          <5>1. DataFork(c) - 1 \in Nat
            BY <1>1, ZoneFacts DEF StartCatalog
          <5> QED
            BY <1>2, <5>1, HeaderWritten
        <4>3. DataFork(c) + 1 # DataFork(c) - 1 /\ DataFork(c) + 1 # DataFork(c) - 1 + 1
          BY <1>1
        <4> QED
          BY <3>1, <3>2, <4>1, <4>2, <4>3
      <3>3. CASE d # c
        <4>1. Unstored(d)' => Unstored(d)
          BY <1>2 DEF Unstored
        <4>2. DataFork(d) \in ForkZone(d) /\ DataFork(d) + 1 \in ForkZone(d)
          BY ZoneFacts DEF ForkZone
        <4>3. DataFork(d) + 1 \in DOMAIN disk' /\ disk'[DataFork(d) + 1] = disk[DataFork(d) + 1]
          BY <1>3, <3>1, <3>3, <4>2
        <4>4. Unstored(d) => /\ DataFork(d) \in DOMAIN disk'
                            /\ disk'[DataFork(d)] = disk[DataFork(d)]
          BY <1>3, <3>1, <3>3, <4>2
        <4> QED
          BY <1>2, <3>1, <4>1, <4>3, <4>4
      <3> QED
        BY <3>2, <3>3
    <2> QED
      BY <1>2, <2>1 DEF LastInv
  <1>8. MadeInv'
    <2>1. DataFork(c) - 1 \in Nat
      BY <1>1, ZoneFacts DEF StartCatalog
    <2>2. /\ disk'[DataFork(c) - 1].hdr = input
          /\ disk'[DataFork(c) - 1 + 1].part = "second"
          /\ \A y \in DOMAIN disk' : y # DataFork(c) - 1 /\ y # DataFork(c) - 1 + 1 =>
               y \in DOMAIN disk /\ disk'[y] = disk[y]
      BY <1>2, <2>1, HeaderWritten
    <2>3. input.cat = c
      BY <1>1, MadeFacts
    <2> QED
      BY <1>2, <1>4, <2>2, <2>3 DEF IndInv, MadeInv
  <1>9. LastForkFound'
    BY <1>1, <1>2 DEF LastForkFound
  <1> QED
    BY <1>3, <1>5, <1>6, <1>7, <1>8, <1>9 DEF IndInv

LEMMA ReadStepKeeps ==
    ASSUME IndInv, ReadStep
    PROVE  IndInv'
  <1> DEFINE c == call.cat
             h == HeaderAt(lba)
  <1>1. /\ c \in Catalogs /\ lba \in Nat /\ pc = "read"
        /\ call.op = "read" /\ call.fork \in ForkNames /\ res = NoRes
        /\ UNCHANGED <<disk, last, made, stored>>
    BY DEF IndInv, CallInv, TypeOK, ReadStep
  <1>2. h \in Header
    BY <1>1, ReadFacts DEF IndInv
  <1>3. ASSUME last[c] = call.fork, Unstored(c)
        PROVE  lba > StartCatalog /\ Matches(h)
    <2>1. lba = DataFork(c) /\ last[c] # NoFork
      BY <1>1, <1>3, ForkAssumption DEF IndInv, LastInv
    <2>2. /\ DataFork(c) \in DOMAIN disk
          /\ disk[DataFork(c)].part = "first"
          /\ disk[DataFork(c)].hdr.fork = last[c]
          /\ disk[DataFork(c)].hdr.cat = c
      BY <1>1, <1>3, <2>1 DEF IndInv, LastInv
    <2>3. h.fork = call.fork /\ h.cat = c
      BY <1>3, <2>1, <2>2 DEF HeaderAt, Sector
    <2> QED
      BY <1>1, <2>1, <2>3, ZoneFacts DEF Matches, StartCatalog
  <1>4. CASE lba <= StartCatalog
    <2>1. ~(lba > StartCatalog)
      BY <1>1, <1>4 DEF StartCatalog
    <2>2. Return(IF lba < StartCatalog THEN "null" ELSE "other")
      BY <2>1 DEF ReadStep
    <2> QED
      BY <1>1, <1>3, <2>1, <2>2, ReturnKeeps
  <1>5. CASE lba > StartCatalog /\ Matches(h)
    <2>1. Return("fork")
      BY <1>1, <1>5 DEF ReadStep, StartCatalog
    <2> QED
      BY <1>1, <2>1, ReturnKeeps
  <1>6. CASE lba > StartCatalog /\ ~Matches(h)
    <2>1. lba' = h.next /\ UNCHANGED <<pc, call, input, res>>
      BY <1>1, <1>6 DEF ReadStep, StartCatalog
    <2>2. ~(last[c] = call.fork /\ Unstored(c))
      BY <1>3, <1>6
    <2>3. h.next \in Nat
      BY <1>2 DEF Header
    <2>4. TypeOK' /\ DiskInv' /\ MadeInv'
      BY <1>1, <2>1, <2>3 DEF IndInv, TypeOK, DiskInv, MadeInv
    <2>5. CallInv'
      BY <1>1, <2>1 DEF CallInv
    <2>6. LastInv'
      BY <1>1, <2>1, <2>2 DEF IndInv, LastInv, Unstored
    <2>7. LastForkFound'
      BY <1>1, <2>1 DEF IndInv, LastForkFound
    <2> QED
      BY <2>4, <2>5, <2>6, <2>7 DEF IndInv
  <1> QED
    BY <1>1, <1>4, <1>5, <1>6 DEF StartCatalog

LEMMA CrashKeeps ==
    ASSUME IndInv, Crash
    PROVE  IndInv'
  <1>0. 1 \in Catalogs
    BY ForkAssumption DEF Catalogs
  <1>1. Zeroed \in Header
    BY <1>0, EmptyFacts
  <1>2. TypeOK' /\ DiskInv' /\ CallInv' /\ MadeInv'
    BY <1>1 DEF Crash, IndInv, TypeOK, DiskInv, CallInv, MadeInv
  <1>3. LastInv' /\ LastForkFound'
    BY DEF Crash, IndInv, LastInv, Unstored, LastForkFound
  <1> QED
    BY <1>2, <1>3 DEF IndInv

LEMMA StepKeeps == IndInv /\ [Next \/ Crash]_vars => IndInv'
  <1> SUFFICES ASSUME IndInv, [Next \/ Crash]_vars PROVE IndInv'
    OBVIOUS
  <1>1. CASE Calls
    BY <1>1, CallKeeps
  <1>2. CASE CreateRead \/ LinkPrevious \/ StoreFork
    BY <1>2, CreateReadKeeps, LinkPreviousKeeps, StoreForkKeeps
  <1>3. CASE WriteRead \/ WriteData \/ WriteForkHeader
    BY <1>3, WriteReadKeeps, WriteDataKeeps, WriteForkHeaderKeeps
  <1>4. CASE ReadStep \/ Crash
    BY <1>4, ReadStepKeeps, CrashKeeps
  <1>5. CASE UNCHANGED vars
    BY <1>5 DEF vars, IndInv, TypeOK, DiskInv, CallInv, LastInv, Unstored, MadeInv,
                LastForkFound
  <1> QED
    BY <1>1, <1>2, <1>3, <1>4, <1>5 DEF Next, Step

\* The invariant holds in every state, whenever the machine stops.
THEOREM Invariance == Spec => []IndInv
  BY InitInv, StepKeeps, PTL DEF Spec

-----------------------------------------------------------------------------
(***************************************************************************)
(* What the invariant says of the forks                                    *)
(***************************************************************************)

\* NeFS forks: every variable of CreateFork, WriteCatalog and ReadCatalog
\* keeps its type, and only forks that were made are stored.
THEOREM ForkTypes == Spec => []TypeOK
  BY Invariance, PTL DEF IndInv

LEMMA ZonesHold == IndInv => ForksApart
  <1> SUFFICES ASSUME IndInv, NEW x \in DOMAIN disk
               PROVE  /\ x > CatalogSector(CatalogCount) + 3
                      /\ x < DiskSectors
                      /\ \E c \in Catalogs : x \in ForkZone(c) /\ disk[x].hdr.cat \in {0, c}
    BY DEF ForksApart
  <1>1. PICK c \in Catalogs : SectorOf(c, x, disk[x])
    BY DEF IndInv, DiskInv
  <1>2. x \in Nat /\ x \in ForkZone(c) /\ disk[x].hdr.cat \in {0, c}
    BY <1>1, SectorFacts
  <1>3. /\ DataFork(c) \in Nat /\ CatalogSector(CatalogCount) \in Nat /\ DiskSectors \in Nat
        /\ DataFork(c) > CatalogSector(CatalogCount) + 4 /\ DataFork(c) + 1 < DiskSectors
    BY ZoneFacts, ForkAssumption DEF CatalogSector, StartCatalog
  <1> QED
    BY <1>2, <1>3 DEF ForkZone

\* Whatever CreateFork and WriteCatalog write for a catalog stays in its own
\* zone, above the catalogs and below the end of the disk.
THEOREM ForksStayApart == Spec => []ForksApart
  BY Invariance, ZonesHold, PTL

\* ReadCatalog finds the fork CreateFork made last, for every sequence of
\* calls and crashes, as long as WriteCatalog has not replaced its header.
THEOREM LastForkIsFound == Spec => []LastForkFound
  BY Invariance, PTL DEF IndInv

-----------------------------------------------------------------------------
(***************************************************************************)
(* Without crashes                                                         *)
(***************************************************************************)
LEMMA NoneEmptyInit == Init => NoneEmpty
  BY DEF Init, NoneEmpty

LEMMA NoneEmptyStep == IndInv /\ NoneEmpty /\ [Next]_vars => NoneEmpty'
  <1> SUFFICES ASSUME IndInv, NoneEmpty, [Next]_vars PROVE NoneEmpty'
    OBVIOUS
  <1>1. CASE LinkPrevious
    <2>1. lba \in Nat /\ pc' = "store" /\ lba' = lba /\ pc = "link"
      BY <1>1 DEF LinkPrevious, IndInv, TypeOK
    <2>2. /\ disk'[lba].part = "first"
          /\ \A y \in DOMAIN disk' : y # lba /\ y # lba + 1 =>
               y \in DOMAIN disk /\ disk'[y] = disk[y]
      BY <1>1, <2>1, HeaderWritten DEF LinkPrevious
    <2> QED
      BY <2>1, <2>2 DEF NoneEmpty
  <1>2. CASE StoreFork
    <2>1. lba \in Nat
      BY DEF IndInv, TypeOK
    <2>2. /\ disk'[lba].part = "first"
          /\ disk'[lba + 1].hdr = NewFork(call.cat, call.fork, call.size, lba)
          /\ \A y \in DOMAIN disk' : y # lba /\ y # lba + 1 =>
               y \in DOMAIN disk /\ disk'[y] = disk[y]
      BY <1>2, <2>1, HeaderWritten DEF StoreFork
    <2>3. NewFork(call.cat, call.fork, call.size, lba).created
      BY DEF NewFork
    <2> QED
      BY <2>2, <2>3 DEF NoneEmpty
  <1>3. CASE WriteData
    <2> DEFINE c == call.cat
    <2>1. c \in Catalogs /\ input \in MadeFor(c) /\ pc = "data" /\ pc' = "header"
      BY <1>3 DEF IndInv, CallInv, WriteData
    <2>2. input.off = DataFork(c) - 1
      BY <2>1, MadeFacts
    <2>3. /\ \A y \in DOMAIN disk' : y # DataFork(c) - 1 =>
               y \in DOMAIN disk /\ disk'[y] = disk[y]
          /\ disk'[DataFork(c) - 1].part = "data"
      BY <1>3, <2>1, <2>2, DataWriteKeeps DEF IndInv
    <2> QED
      BY <2>1, <2>3 DEF NoneEmpty
  <1>4. CASE WriteForkHeader
    <2> DEFINE c == call.cat
               x == HeaderTarget(lba)
    <2>1. /\ c \in Catalogs /\ input \in MadeFor(c) /\ pc = "header"
          /\ x = DataFork(c) - 1
      BY <1>4 DEF IndInv, CallInv, WriteForkHeader, HeaderTarget
    <2>2. x \in Nat /\ input.created = TRUE
      <3>1. DataFork(c) \in Nat /\ DataFork(c) > 8
        BY <2>1, ZoneFacts DEF StartCatalog
      <3>2. input.created = TRUE
        BY <2>1, MadeFacts
      <3> QED
        BY <2>1, <3>1, <3>2
    <2>3. /\ disk'[x].part = "first" /\ disk'[x + 1].hdr = input
          /\ \A y \in DOMAIN disk' : y # x /\ y # x + 1 =>
               y \in DOMAIN disk /\ disk'[y] = disk[y]
      BY <1>4, <2>2, HeaderWritten DEF WriteForkHeader
    <2> QED
      BY <2>1, <2>2, <2>3 DEF NoneEmpty
  <1>5. CASE Calls \/ CreateRead \/ WriteRead \/ ReadStep \/ UNCHANGED vars
    <2>1. disk' = disk /\ (pc = "store" => pc' = "store" /\ lba' = lba)
      BY <1>5 DEF Calls, ReadCatalog, CreateFork, WriteCatalog, Start, CreateRead, WriteRead,
                  ReadStep, vars
    <2> QED
      BY <2>1 DEF NoneEmpty
  <1> QED
    BY <1>1, <1>2, <1>3, <1>4, <1>5 DEF Next, Step

LEMMA SiblingsFall == IndInv /\ NoneEmpty => SiblingsBelow
  <1> SUFFICES ASSUME IndInv, NoneEmpty, pc = "idle", NEW y \in DOMAIN disk, y > 0
               PROVE  HeaderAt(y - 1).next < y - 1
    BY DEF SiblingsBelow
  <1>1. PICK c \in Catalogs : SectorOf(c, y, disk[y])
    BY DEF IndInv, DiskInv
  <1>2. DataFork(c) \in Nat /\ DataFork(c) > 8
    BY ZoneFacts DEF StartCatalog
  <1>3. y \in Nat /\ y \in ForkZone(c)
    BY <1>1, SectorFacts
  <1>4. y - 1 + 1 = y /\ y - 1 >= DataFork(c) - 2
    BY <1>2, <1>3 DEF ForkZone
  <1>5. HeaderAt(y - 1).next = IF disk[y].part = "second" THEN disk[y].hdr.next ELSE 0
    BY <1>4 DEF HeaderAt, Sector, Zeroed
  <1>6. CASE disk[y].part = "second"
    <2>1. y = DataFork(c) \/ y = DataFork(c) + 1
      BY <1>1, <1>6, SectorFacts
    <2>2. disk[y].hdr \in MadeFor(c)
      <3>1. disk[y].hdr.created
        BY <1>6 DEF NoneEmpty
      <3>2. disk[y].hdr \in MadeFor(c) \cup {EmptyFor(c)}
        BY <1>1, <1>6, SectorFacts
      <3> QED
        BY <3>1, <3>2, EmptyFacts
    <2>3. disk[y].hdr.next \in Nat /\ disk[y].hdr.next <= DataFork(c) - 2
      BY <2>2, MadeFacts
    <2> QED
      BY <1>2, <1>3, <1>5, <1>6, <2>1, <2>3
  <1>7. CASE disk[y].part # "second"
    BY <1>2, <1>3, <1>4, <1>5, <1>7
  <1> QED
    BY <1>6, <1>7

\* While no crash leaves an empty header behind, the sibling of every fork
\* on the disk lies below it, so that no search of a chain goes in circles.
THEOREM SiblingsLieBelow == FairSpec => []SiblingsBelow
  <1>1. Init => IndInv /\ NoneEmpty
    BY InitInv, NoneEmptyInit
  <1>2. IndInv /\ NoneEmpty /\ [Next]_vars => (IndInv /\ NoneEmpty)'
    BY StepKeeps, NoneEmptyStep
  <1> QED
    BY <1>1, <1>2, SiblingsFall, PTL DEF FairSpec

\* Wherever a search looks, what it finds there leads below.
LEMMA NextFalls ==
    ASSUME IndInv, NoneEmpty, pc # "store", NEW x \in Nat, x > 0
    PROVE  HeaderAt(x).next < x
  <1> DEFINE h == HeaderAt(x)
  <1>1. CASE h.created
    <2>1. PICK c \in Catalogs : /\ x = DataFork(c) \/ x = DataFork(c) - 1
                               /\ h.next <= DataFork(c) - 2
      BY <1>1, ReadFacts DEF IndInv
    <2>2. DataFork(c) \in Nat /\ h.next \in Nat
      BY <2>1, ZoneFacts, ReadFacts DEF IndInv, Header
    <2> QED
      BY <2>1, <2>2
  <1>2. CASE ~h.created
    <2>1. h.created = IF Sector(x + 1).part = "second" THEN Sector(x + 1).hdr.created ELSE FALSE
      BY DEF HeaderAt, Zeroed
    <2>2. x + 1 \in DOMAIN disk /\ disk[x + 1].part = "second" => disk[x + 1].hdr.created
      BY DEF NoneEmpty
    <2>3. Sector(x + 1).part # "second"
      BY <1>2, <2>1, <2>2 DEF Sector, ZeroParts
    <2>4. h.next = 0
      BY <2>3 DEF HeaderAt, Zeroed
    <2> QED
      BY <2>4
  <1> QED
    BY <1>1, <1>2

\* A call that has not come to its writes has at least three steps left, one
\* between the two writes has one.
RankOfPhase ==
    /\ pc \in {"create", "write", "read"} => StepsLeft = lba + 3
    /\ pc \in {"link", "data"} => StepsLeft = 2
    /\ pc \in {"store", "header"} => StepsLeft = 1
    /\ pc = "idle" => StepsLeft = 0

LEMMA PhaseRank == RankOfPhase
  BY DEF RankOfPhase, StepsLeft

LEMMA PhaseRankNext == RankOfPhase'
  BY PhaseRank, PTL

\* The steps that end a call or take it on to a write.
LEMMA PhaseDescends ==
    ASSUME lba \in Nat,
           \/ pc # "idle" /\ pc' = "idle"
           \/ pc = "create" /\ pc' \in {"link", "store"}
           \/ pc = "link" /\ pc' = "store"
           \/ pc = "write" /\ pc' = "data"
           \/ pc = "data" /\ pc' = "header",
           pc \in {"idle", "create", "link", "store", "write", "data", "header", "read"}
    PROVE  StepsLeft' < StepsLeft
  BY PhaseRank, PhaseRankNext DEF RankOfPhase

LEMMA SearchDescends ==
    ASSUME pc \in {"create", "write", "read"}, pc' = pc, lba \in Nat, lba' \in Nat, lba' < lba
    PROVE  StepsLeft' < StepsLeft
  BY PhaseRank, PhaseRankNext DEF RankOfPhase

LEMMA StepDescends ==
    ASSUME IndInv, IndInv', NoneEmpty, pc # "idle", Next
    PROVE  StepsLeft' < StepsLeft
  <1>1. /\ pc \in {"idle", "create", "link", "store", "write", "data", "header", "read"}
        /\ lba \in Nat /\ lba' \in Nat
    BY DEF IndInv, TypeOK
  <1>2. ~Calls
    BY DEF Calls, ReadCatalog, CreateFork, WriteCatalog, Start
  <1>3. CASE CreateRead
    <2>1. pc = "create"
      BY <1>3 DEF CreateRead
    <2>2. lba = DataFork(call.cat) /\ call.cat \in Catalogs
      BY <2>1 DEF IndInv, CallInv
    <2>3. lba > 0
      BY <2>2, ZoneFacts DEF StartCatalog
    <2>4. \/ pc' \in {"idle", "link", "store"}
          \/ pc' = pc /\ lba' = HeaderAt(lba).next
      BY <1>3 DEF CreateRead, Return
    <2> QED
      BY <1>1, <2>1, <2>3, <2>4, NextFalls, PhaseDescends, SearchDescends
  <1>4. CASE WriteRead
    <2>1. pc = "write"
      BY <1>4 DEF WriteRead
    <2>2. \/ pc' \in {"idle", "data"}
          \/ pc' = pc /\ lba >= StartCatalog /\ lba' = HeaderAt(lba).next
      BY <1>4 DEF WriteRead, Return
    <2>3. lba >= StartCatalog => lba > 0
      BY <1>1 DEF StartCatalog
    <2> QED
      BY <1>1, <2>1, <2>2, <2>3, NextFalls, PhaseDescends, SearchDescends
  <1>5. CASE ReadStep
    <2>1. pc = "read"
      BY <1>5 DEF ReadStep
    <2>2. \/ pc' = "idle"
          \/ pc' = pc /\ lba > StartCatalog /\ lba' = HeaderAt(lba).next
      BY <1>5 DEF ReadStep, Return
    <2>3. lba > StartCatalog => lba > 0
      BY <1>1 DEF StartCatalog
    <2> QED
      BY <1>1, <2>1, <2>2, <2>3, NextFalls, PhaseDescends, SearchDescends
  <1>6. CASE LinkPrevious \/ StoreFork \/ WriteData \/ WriteForkHeader
    BY <1>1, <1>6, PhaseDescends DEF LinkPrevious, StoreFork, WriteData, WriteForkHeader, Return
  <1> QED
    BY <1>2, <1>3, <1>4, <1>5, <1>6 DEF Next, Step

\* Every disk access of CreateFork, WriteCatalog and ReadCatalog brings the
\* call nearer to its return, for every disk and history of calls, as long as
\* the machine does not stop between the two writes of CreateFork.
THEOREM CallsAlwaysDescend == FairSpec => CallsDescend
  <1>1. Init => IndInv /\ NoneEmpty
    BY InitInv, NoneEmptyInit
  <1>2. IndInv /\ NoneEmpty /\ [Next]_vars => (IndInv /\ NoneEmpty)'
    BY StepKeeps, NoneEmptyStep
  <1>3. IndInv /\ IndInv' /\ NoneEmpty /\ [Next]_vars => [pc # "idle" => StepsLeft' < StepsLeft]_vars
    BY StepDescends
  <1> QED
    BY <1>1, <1>2, <1>3, PTL DEF FairSpec, CallsDescend
=============================================================================
