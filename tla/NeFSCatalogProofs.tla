------------------------- MODULE NeFSCatalogProofs --------------------------
(***************************************************************************)
(* Proofs about NeFSCatalog, for every set of names, disk size and number  *)
(* of crashes.                                                             *)
(***************************************************************************)
EXTENDS NeFSCatalog, SequenceTheorems, FiniteSetTheorems, TLAPS

-----------------------------------------------------------------------------
(***************************************************************************)
(* Names                                                                   *)
(***************************************************************************)

\* What the parent-name loop yields: the levels of a name run from the root
\* to the name itself and each of them is a name.
LEMMA LevelFacts ==
    ASSUME NEW p \in Paths
    PROVE  /\ Len(p) \in Nat /\ ParentLevel(p) \in Int
           /\ ParentLevel(p) < Len(p)
           /\ p # Root => ParentLevel(p) >= 0
           /\ Levels(p) \subseteq 0..Len(p)
           /\ 0 \in Levels(p) /\ Len(p) \in Levels(p)
           /\ p # Root => ParentLevel(p) \in Levels(p)
           /\ \A k \in Levels(p) : k = Len(p) \/ k <= ParentLevel(p)
  <1>1. p \in Seq(Comps) /\ (IsShort(p) => Len(p) >= 2)
    BY PathsAssumption
  <1>2. Len(p) \in Nat /\ (p # Root => Len(p) >= 1)
    BY <1>1, EmptySeq DEF Root
  <1>3. p = Root => Len(p) = 0
    BY EmptySeq DEF Root
  <1>4. ParentLevel(p) \in Int /\ ParentLevel(p) < Len(p)
    BY <1>2 DEF ParentLevel
  <1>5. p # Root => ParentLevel(p) >= 0
    BY <1>1, <1>2 DEF ParentLevel
  <1>6. Levels(p) \subseteq 0..Len(p) /\ Len(p) \in Levels(p)
    BY <1>2, <1>4 DEF Levels
  <1>7. 0 \in Levels(p)
    BY <1>2, <1>3, <1>4, <1>5 DEF Levels
  <1>8. p # Root => ParentLevel(p) \in Levels(p)
    BY <1>4, <1>5 DEF Levels
  <1>9. \A k \in Levels(p) : k = Len(p) \/ k <= ParentLevel(p)
    BY <1>4 DEF Levels
  <1> QED
    BY <1>2, <1>4, <1>5, <1>6, <1>7, <1>8, <1>9

LEMMA AncestorFacts ==
    ASSUME NEW p \in Paths
    PROVE  /\ \A k \in Levels(p) : Ancestor(p, k) \in Paths
           /\ Ancestor(p, Len(p)) = p
           /\ Ancestor(p, 0) = Root
  <1>1. p \in Seq(Comps) /\ \A k \in 0..Len(p) : Ancestor(p, k) \in Paths
    BY PathsAssumption
  <1>2. Ancestor(p, Len(p)) = p
    BY <1>1, SubSeqFull DEF Ancestor
  <1>3. Ancestor(p, 0) = Root
    BY <1>1, SubSeqEmpty DEF Ancestor, Root
  <1> QED
    BY <1>1, <1>2, <1>3, LevelFacts

\* The recursion of FindCatalog skips no level.
LEMMA NextLevelFacts ==
    ASSUME NEW p \in Paths, NEW k \in Levels(p), k # Len(p)
    PROVE  /\ NextLevel(p, k) \in Levels(p)
           /\ \A j \in Levels(p) : j < NextLevel(p, k) => j <= k
           /\ k # ParentLevel(p) => NextLevel(p, k) <= ParentLevel(p)
  <1>1. Len(p) \in Nat /\ ParentLevel(p) \in Int /\ ParentLevel(p) < Len(p)
    BY LevelFacts
  <1>2. k \in 0..ParentLevel(p)
    BY DEF Levels
  <1> QED
    BY <1>1, <1>2 DEF NextLevel, Levels

\* The parent name ends in the separator.
LEMMA ParentIsDirectory ==
    ASSUME NEW p \in Paths, p # Root
    PROVE  EndsInSeparator(Ancestor(p, ParentLevel(p)))
  <1> DEFINE k == ParentLevel(p)
  <1>1. /\ p \in Seq(Comps) /\ Len(p) \in Nat
        /\ \A i \in 1..Len(p) : i < Len(p) => p[i] \in DirComp
    BY PathsAssumption, LenProperties
  <1>2. k \in Int /\ k >= 0 /\ k < Len(p)
    BY LevelFacts
  <1>3. CASE k = 0
    BY <1>3, AncestorFacts DEF EndsInSeparator
  <1>4. CASE k > 0
    <2>1. \A i \in 1..k : p[i] \in DirComp
      BY <1>1, <1>2
    <2>2. Len(Ancestor(p, k)) = k /\ Ancestor(p, k)[k] = p[k]
      BY <1>2, <1>4, <2>1, SubSeqProperties DEF Ancestor
    <2> QED
      BY <1>2, <1>4, <2>1, <2>2 DEF EndsInSeparator, Last
  <1> QED
    BY <1>2, <1>3, <1>4

-----------------------------------------------------------------------------
(***************************************************************************)
(* The catalog list                                                        *)
(***************************************************************************)

LEMMA ListFacts ==
    ASSUME TypeOK, NEW n \in 1..Slots, DenseTo(n), NEW s \in 1..Slots
    PROVE  /\ s \in Used <=> s <= n
           /\ IsCreated(disk[s]) <=> s <= n
           /\ s <= n => disk[s].next = s + 1
           /\ s > n => disk[s] = Zeroed /\ disk[s].next = 0
  <1>1. s \in 1..n <=> s <= n
    BY SlotsAssumption
  <1>2. s \in Used <=> IsCreated(disk[s])
    BY DEF Used
  <1> QED
    BY <1>1, <1>2 DEF DenseTo, Zeroed

\* Types of the constants the proofs compute with.
LEMMA ConstantFacts ==
    /\ Slots \in Nat /\ FreeCatalog0 \in Nat /\ MaxLeaks \in Nat
    /\ Word \in Nat /\ Word >= 2 /\ FreeSectors0 \in 0..(Word - 1)
    /\ Slots >= FreeCatalog0 + MaxLeaks + 2
    /\ Root \in Paths /\ NoName \notin Paths
    /\ "dir" \in Kinds /\ "file" \in Kinds
  BY SlotsAssumption, PathsAssumption DEF Kinds

LEMMA CounterTypes ==
    ASSUME NEW x \in 0..(Word - 1)
    PROVE  Inc(x) \in 0..(Word - 1) /\ Dec(x) \in 0..(Word - 1)
  BY ConstantFacts DEF Inc, Dec

LEMMA InitInv == Init => IndInv
  <1> SUFFICES ASSUME Init PROVE IndInv
    OBVIOUS
  <1> USE ConstantFacts
  <1>1. TypeOK
    BY DEF Init, TypeOK, CatalogType, Zeroed, NoCall, NoCursor, NoRes,
           kNeFSFlagCreated, kNeFSFlagUnallocated, Calls, Returns
  <1>2. disk \in [1..Slots -> CatalogType]
    BY <1>1 DEF TypeOK
  <1>3. Used = {1}
    BY DEF Init, Used, IsCreated, Zeroed, kNeFSFlagCreated, kNeFSFlagUnallocated
  <1>4. DenseTo(1)
    BY <1>3 DEF Init, DenseTo
  <1>5. StoreInv
    BY <1>4 DEF Init, StoreInv, NoCursor
  <1>6. NamesUnique /\ KindInv
    BY <1>3 DEF NamesUnique, KindInv, Init, EndsInSeparator
  <1>7. SearchInv /\ GetExact /\ CreateVerdict
    BY DEF Init, SearchInv, GetExact, CreateVerdict, Searching, NoCall, NoRes
  <1> QED
    BY <1>1, <1>5, <1>6, <1>7 DEF IndInv

\* The cursor of a call stays on the list: what the next read yields.
LEMMA CursorFacts ==
    ASSUME IndInv
    PROVE  \E n \in 1..Slots :
              /\ DenseTo(n) /\ n < Slots /\ n \in Nat
              /\ disk[1].name = Root
              /\ block.freeCatalog + n
                   = FreeCatalog0 + 1 + leaked + (IF pc = "createBlock" THEN 1 ELSE 0)
              /\ pc = "createBlock" => block.freeCatalog >= 1
              /\ cur.at \in 1..(n + 1) /\ cur.at \in 1..Slots
              /\ pc = "scan" => cur.at >= 2
              /\ cur.at <= n => disk[cur.at].next = cur.at + 1
              /\ cur.at > n => disk[cur.at] = Zeroed /\ disk[cur.at].next = 0
              /\ IsCreated(disk[cur.at]) <=> cur.at <= n
  <1>1. PICK n \in 1..Slots :
              /\ DenseTo(n) /\ n < Slots
              /\ disk[1].name = Root
              /\ block.freeCatalog + n
                   = FreeCatalog0 + 1 + leaked + (IF pc = "createBlock" THEN 1 ELSE 0)
              /\ pc = "createBlock" => block.freeCatalog >= 1
              /\ cur.at <= n + 1
              /\ pc = "scan" => cur.at >= 2
    BY DEF IndInv, StoreInv
  <1>2. TypeOK /\ cur.at \in 1..Slots
    BY DEF IndInv, TypeOK
  <1>3. n \in Nat
    BY ConstantFacts
  <1>4. cur.at \in 1..(n + 1)
    BY <1>1, <1>2, <1>3
  <1>5. /\ cur.at <= n => disk[cur.at].next = cur.at + 1
        /\ cur.at > n => disk[cur.at] = Zeroed /\ disk[cur.at].next = 0
        /\ IsCreated(disk[cur.at]) <=> cur.at <= n
    BY <1>1, <1>2, ListFacts
  <1> QED
    BY <1>1, <1>2, <1>3, <1>4, <1>5

LEMMA SameDisk ==
    ASSUME UNCHANGED disk
    PROVE  /\ Used' = Used /\ CatalogNames' = CatalogNames
           /\ \A p : Findable(p)' <=> Findable(p)
           /\ \A n : DenseTo(n)' <=> DenseTo(n)
           /\ NamesUnique' <=> NamesUnique
           /\ KindInv' <=> KindInv
  <1>1. Used' = Used
    BY DEF Used, IsCreated
  <1>2. CatalogNames' = CatalogNames
    BY <1>1 DEF CatalogNames
  <1> QED
    BY <1>1, <1>2 DEF Findable, DenseTo, NamesUnique, KindInv, IsCreated

\* A call that ends, by its return or by a crash, leaves the store as it is.
LEMMA EndKeepsStore ==
    ASSUME IndInv, UNCHANGED <<disk, block>>, pc' = "idle", call' = NoCall, cur' = NoCursor,
           leaked' = leaked + (IF pc = "createBlock" THEN 1 ELSE 0)
    PROVE  StoreInv' /\ SearchInv' /\ NamesUnique' /\ KindInv'
  <1> USE ConstantFacts
  <1>1. PICK n \in 1..Slots :
              /\ DenseTo(n) /\ n < Slots /\ n \in Nat
              /\ disk[1].name = Root
              /\ block.freeCatalog + n
                   = FreeCatalog0 + 1 + leaked + (IF pc = "createBlock" THEN 1 ELSE 0)
    BY CursorFacts
  <1>2. DenseTo(n)' /\ NamesUnique' /\ KindInv'
    BY <1>1, SameDisk DEF IndInv
  <1>3. leaked \in Nat /\ block.freeCatalog \in Nat
    BY DEF IndInv, TypeOK
  <1>4. block'.freeCatalog + n = FreeCatalog0 + 1 + leaked'
    BY <1>1, <1>3
  <1>5. StoreInv'
    BY <1>1, <1>2, <1>4 DEF StoreInv, NoCursor
  <1>6. SearchInv'
    BY DEF SearchInv, Searching, NoCall
  <1> QED
    BY <1>2, <1>5, <1>6

\* So does a return that writes nothing.
LEMMA ReturnKeepsStore ==
    ASSUME IndInv, NEW ret \in Returns, Return(ret), pc # "createBlock", call.op \in Calls,
           UNCHANGED <<disk, block, leaked>>
    PROVE  TypeOK' /\ StoreInv' /\ SearchInv' /\ NamesUnique' /\ KindInv'
  <1> USE ConstantFacts
  <1>1. leaked \in Nat
    BY DEF IndInv, TypeOK
  <1>2. StoreInv' /\ SearchInv' /\ NamesUnique' /\ KindInv'
    BY <1>1, EndKeepsStore DEF Return
  <1>3. TypeOK'
    BY DEF IndInv, TypeOK, Return, NoCall, NoCursor
  <1> QED
    BY <1>2, <1>3

-----------------------------------------------------------------------------
(***************************************************************************)
(* Calls                                                                   *)
(***************************************************************************)

LEMMA StartFindInv ==
    ASSUME IndInv, pc = "idle", NEW n \in Paths, NEW k \in Kinds, NEW op \in Calls,
           op = "create" => ((k = "dir") <=> EndsInSeparator(n)),
           StartFind([op |-> op, name |-> n, kind |-> k]),
           UNCHANGED <<disk, block, leaked>>
    PROVE  IndInv'
  <1> USE ConstantFacts
  <1> DEFINE c == [op |-> op, name |-> n, kind |-> k]
  <1>1. /\ pc' = "find" /\ call' = c /\ res' = NoRes
        /\ cur' = [top |-> Len(n), lvl |-> 0, at |-> 1, local |-> FALSE, lba |-> 1]
    BY DEF StartFind, FindFrom
  <1>2. /\ Len(n) \in Nat /\ 0 \in Levels(n)
        /\ \A j \in Levels(n) : j >= 0
    BY LevelFacts
  <1>3. TypeOK'
    BY <1>1, <1>2 DEF IndInv, TypeOK, NoRes
  <1>4. StoreInv'
    <2>1. PICK m \in 1..Slots :
              /\ DenseTo(m) /\ m < Slots /\ m \in Nat
              /\ disk[1].name = Root
              /\ block.freeCatalog + m
                   = FreeCatalog0 + 1 + leaked + (IF pc = "createBlock" THEN 1 ELSE 0)
      BY CursorFacts
    <2> QED
      BY <1>1, <2>1, SameDisk DEF StoreInv
  <1>5. SearchInv'
    <2>1. \A s \in Used' : ~(s < 1)
      BY DEF Used
    <2>2. \A j \in Levels(n) : ~(j < 0)
      BY <1>2, LevelFacts
    <2>3. call'.op = op /\ call'.name = n /\ call'.kind = k
      BY <1>1
    <2>4. cur'.top = Len(n) /\ cur'.lvl = 0 /\ cur'.at = 1
      BY <1>1
    <2> QED
      BY <1>1, <1>2, <2>1, <2>2, <2>3, <2>4 DEF SearchInv
  <1>6. GetExact' /\ CreateVerdict'
    BY <1>1 DEF GetExact, CreateVerdict, NoRes
  <1> QED
    BY <1>3, <1>4, <1>5, <1>6, SameDisk DEF IndInv

\* A call refused at once only sets the answer.
LEMMA RefusedInv ==
    ASSUME IndInv, pc = "idle", UNCHANGED <<disk, block, pc, call, cur, leaked>>,
           res' \in [op : {"create", "remove"}, name : Paths, kind : Kinds, ret : {"null", "false"}],
           res'.op = "create" => res'.ret = "null"
                                 /\ ((res'.kind = "dir") # EndsInSeparator(res'.name))
    PROVE  IndInv'
  <1>1. TypeOK'
    BY DEF IndInv, TypeOK, Calls, Returns
  <1>2. StoreInv' /\ SearchInv'
    BY SameDisk DEF IndInv, StoreInv, SearchInv, Searching
  <1>3. GetExact' /\ CreateVerdict'
    BY DEF GetExact, CreateVerdict
  <1> QED
    BY <1>1, <1>2, <1>3, SameDisk DEF IndInv

LEMMA CallInv == IndInv /\ Call => IndInv'
  <1> SUFFICES ASSUME IndInv, Call PROVE IndInv'
    OBVIOUS
  <1> USE ConstantFacts
  <1>1. ASSUME NEW n \in Paths, NEW k \in Kinds, CreateCatalog(n, k)
        PROVE  IndInv'
    <2>1. CASE (k = "dir") = EndsInSeparator(n)
      BY <1>1, <2>1, StartFindInv DEF CreateCatalog, Calls
    <2>2. CASE (k = "dir") # EndsInSeparator(n)
      BY <1>1, <2>2, RefusedInv DEF CreateCatalog
    <2> QED
      BY <2>1, <2>2
  <1>2. ASSUME NEW n \in Paths, GetCatalog(n)
        PROVE  IndInv'
    BY <1>2, StartFindInv DEF GetCatalog, Calls
  <1>3. ASSUME NEW n \in Paths, RemoveCatalog(n)
        PROVE  IndInv'
    <2>1. CASE n = Root
      BY <1>3, <2>1, RefusedInv DEF RemoveCatalog
    <2>2. CASE n # Root
      BY <1>3, <2>2, StartFindInv DEF RemoveCatalog, Calls
    <2> QED
      BY <2>1, <2>2
  <1> QED
    BY <1>1, <1>2, <1>3 DEF Call

-----------------------------------------------------------------------------
(***************************************************************************)
(* FindCatalog                                                             *)
(***************************************************************************)

\* What a running search knows.
LEMMA SearchFacts ==
    ASSUME IndInv, Searching
    PROVE  /\ call.name \in Paths /\ call.op \in Calls
           /\ pc \in {"find", "parent"}
           /\ Wanted \in Paths
           /\ cur.lvl \in Levels(call.name) /\ cur.lvl <= cur.top
           /\ cur.lvl \in Nat /\ cur.top \in Int
           /\ pc = "find" => cur.top = Len(call.name)
           /\ pc = "parent" => /\ call.op = "create" /\ call.name # Root
                               /\ cur.top = ParentLevel(call.name)
                               /\ ~Findable(call.name)
           /\ \A j \in Levels(call.name) : j < cur.lvl => Ancestor(call.name, j) \in CatalogNames
           /\ ~cur.local => \A s \in Used : s < cur.at => disk[s].name # Wanted
  <1>1. call.name \in Paths /\ cur.lvl \in Nat /\ cur.top \in Int
    BY DEF IndInv, TypeOK
  <1>2. SearchInv
    BY DEF IndInv
  <1>3. cur.lvl \in Levels(call.name)
    BY <1>2 DEF SearchInv
  <1>4. Wanted \in Paths
    BY <1>1, <1>3, AncestorFacts DEF Wanted
  <1> QED
    BY <1>1, <1>2, <1>3, <1>4 DEF SearchInv, Searching

\* A move of the search cursor keeps the invariant when it stays on the list
\* and passes only what the search has looked at.
LEMMA MoveInv ==
    ASSUME IndInv, Searching, UNCHANGED <<disk, block, pc, call, res, leaked>>,
           NEW lvl \in Levels(call.name), NEW at \in 1..Slots, NEW local \in BOOLEAN,
           cur' = [cur EXCEPT !.lvl = lvl, !.at = at, !.local = local],
           \A n \in 1..Slots : DenseTo(n) => at <= n + 1,
           lvl <= cur.top,
           \A j \in Levels(call.name) : j < lvl => Ancestor(call.name, j) \in CatalogNames,
           ~local => \A s \in Used : s < at => disk[s].name # Ancestor(call.name, lvl)
    PROVE  IndInv'
  <1> USE ConstantFacts
  <1>1. /\ cur'.lvl = lvl /\ cur'.at = at /\ cur'.local = local /\ cur'.top = cur.top
        /\ cur' \in [top : Int, lvl : Nat, at : 1..Slots, local : BOOLEAN, lba : 1..Slots]
    <2>1. lvl \in Nat
      <3>1. call.name \in Paths
        BY SearchFacts
      <3>2. Levels(call.name) \subseteq 0..Len(call.name) /\ Len(call.name) \in Nat
        BY <3>1, LevelFacts
      <3> QED
        BY <3>2
    <2> DEFINE T == [top : Int, lvl : Nat, at : 1..Slots, local : BOOLEAN, lba : 1..Slots]
    <2>2. cur \in T
      BY DEF IndInv, TypeOK
    <2>3. cur'.lvl = lvl /\ cur'.at = at /\ cur'.top = cur.top
      BY <2>2
    <2>4. cur'.local = local
      BY <2>2
    <2>5. cur' \in T
      BY <2>1, <2>2
    <2> QED
      BY <2>3, <2>4, <2>5
  <1>2. TypeOK'
    BY <1>1 DEF IndInv, TypeOK
  <1>3. StoreInv'
    <2>1. PICK n \in 1..Slots :
              /\ DenseTo(n) /\ n < Slots
              /\ disk[1].name = Root
              /\ block.freeCatalog + n
                   = FreeCatalog0 + 1 + leaked + (IF pc = "createBlock" THEN 1 ELSE 0)
              /\ pc = "createBlock" => block.freeCatalog >= 1
      BY CursorFacts
    <2>2. pc' # "scan"
      BY DEF Searching
    <2> QED
      BY <1>1, <2>1, <2>2, SameDisk DEF StoreInv
  <1>4. SearchInv'
    <2>1. Used' = Used /\ CatalogNames' = CatalogNames /\ (Findable(call.name)' <=> Findable(call.name))
      BY SameDisk DEF Findable
    <2>2. Wanted' = Ancestor(call.name, lvl)
      BY <1>1 DEF Wanted
    <2>3. Searching' /\ pc' # "scan" /\ pc' # "createBlock" /\ pc' # "removeBlock"
      BY DEF Searching
    <2>4. /\ call.op = "create" => ((call.kind = "dir") <=> EndsInSeparator(call.name))
          /\ pc # "idle" => res = NoRes
      BY DEF IndInv, SearchInv
    <2>5. ~cur'.local => \A s \in Used' : s < cur'.at => disk'[s].name # Wanted'
      BY <1>1, <2>1, <2>2
    <2>6. \A j \in Levels(call'.name) : j < cur'.lvl => Ancestor(call'.name, j) \in CatalogNames'
      BY <1>1, <2>1
    <2>7. pc' = "parent" => /\ call'.op = "create" /\ call'.name # Root
                            /\ cur'.top = ParentLevel(call'.name)
                            /\ ~Findable(call.name)'
      BY <1>1, <2>1, SearchFacts
    <2>8. /\ call'.op \in Calls /\ (pc' = "find" => cur'.top = Len(call'.name))
          /\ cur'.lvl \in Levels(call'.name) /\ cur'.lvl <= cur'.top
      BY <1>1, SearchFacts
    <2> QED
      BY <2>3, <2>4, <2>5, <2>6, <2>7, <2>8 DEF SearchInv, Findable
  <1>5. GetExact' /\ CreateVerdict'
    BY SameDisk DEF IndInv, GetExact, CreateVerdict
  <1> QED
    BY <1>2, <1>3, <1>4, <1>5, SameDisk DEF IndInv

\* A hit is a catalog of the list that has the wanted name.
LEMMA HitFacts ==
    ASSUME IndInv, Searching, Hit
    PROVE  cur.at \in Used /\ disk[cur.at].name = Wanted /\ Wanted \in CatalogNames
  <1>1. cur.at \in 1..Slots
    BY DEF IndInv, TypeOK
  <1> QED
    BY <1>1 DEF Hit, Used, CatalogNames

LEMMA FindAncestorInv == IndInv /\ FindAncestor => IndInv'
  <1> SUFFICES ASSUME IndInv, FindAncestor PROVE IndInv'
    OBVIOUS
  <1> USE ConstantFacts
  <1> DEFINE lvl   == NextLevel(call.name, cur.lvl)
             at    == IF cur.lvl = 0 THEN 1 ELSE disk[cur.at].next
             local == cur.lvl # 0
  <1>1. Searching /\ Hit /\ cur.lvl # cur.top
    BY DEF FindAncestor
  <1>2. cur.lvl # Len(call.name) /\ (pc = "parent" => cur.lvl # ParentLevel(call.name))
    BY <1>1, SearchFacts, LevelFacts
  <1>3. /\ lvl \in Levels(call.name)
        /\ \A j \in Levels(call.name) : j < lvl => j <= cur.lvl
        /\ cur.lvl # ParentLevel(call.name) => lvl <= ParentLevel(call.name)
    BY <1>1, <1>2, SearchFacts, NextLevelFacts
  <1>4. lvl <= cur.top
    BY <1>1, <1>2, <1>3, SearchFacts, LevelFacts
  <1>5. \A j \in Levels(call.name) : j < lvl => Ancestor(call.name, j) \in CatalogNames
    <2> SUFFICES ASSUME NEW j \in Levels(call.name), j < lvl
                 PROVE  Ancestor(call.name, j) \in CatalogNames
      OBVIOUS
    <2>1. j = cur.lvl \/ j < cur.lvl
      BY <1>1, <1>3, SearchFacts, LevelFacts
    <2>2. Ancestor(call.name, cur.lvl) \in CatalogNames
      BY <1>1, HitFacts DEF Wanted
    <2> QED
      BY <1>1, <2>1, <2>2, SearchFacts
  <1>6. at \in 1..Slots /\ \A n \in 1..Slots : DenseTo(n) => at <= n + 1
    <2>1. PICK m \in 1..Slots : DenseTo(m) /\ m < Slots /\ m \in Nat
                                /\ (IsCreated(disk[cur.at]) <=> cur.at <= m)
                                /\ (cur.at <= m => disk[cur.at].next = cur.at + 1)
                                /\ cur.at \in 1..Slots
      BY CursorFacts
    <2>2. disk[cur.at].next = cur.at + 1 /\ cur.at <= m
      BY <1>1, <2>1 DEF Hit
    <2>3. \A n \in 1..Slots : DenseTo(n) => cur.at <= n
      BY <1>1, <2>1, HitFacts, ListFacts DEF IndInv
    <2> QED
      BY <2>1, <2>2, <2>3
  <1>7. ~local => \A s \in Used : s < at => disk[s].name # Ancestor(call.name, lvl)
    BY DEF Used
  <1>8. local \in BOOLEAN
    OBVIOUS
  <1> HIDE DEF lvl, at, local
  <1>9. /\ cur' = [cur EXCEPT !.lvl = lvl, !.at = at, !.local = local]
        /\ UNCHANGED <<disk, block, pc, call, res, leaked>>
    BY DEF FindAncestor, lvl, at, local
  <1> QED
    BY <1>1, <1>3, <1>4, <1>5, <1>6, <1>7, <1>8, <1>9, MoveInv

LEMMA FindNextInv == IndInv /\ FindNext => IndInv'
  <1> SUFFICES ASSUME IndInv, FindNext PROVE IndInv'
    OBVIOUS
  <1> USE ConstantFacts
  <1>1. Searching /\ ~Hit /\ disk[cur.at].next # 0
    BY DEF FindNext
  <1>2. PICK m \in 1..Slots : DenseTo(m) /\ m < Slots /\ m \in Nat
                              /\ cur.at \in 1..Slots
                              /\ (IsCreated(disk[cur.at]) <=> cur.at <= m)
                              /\ (cur.at <= m => disk[cur.at].next = cur.at + 1)
                              /\ (cur.at > m => disk[cur.at].next = 0)
    BY CursorFacts
  <1>3. cur.at <= m /\ disk[cur.at].next = cur.at + 1 /\ IsCreated(disk[cur.at])
    BY <1>1, <1>2
  <1>4. cur.at + 1 \in 1..Slots /\ \A n \in 1..Slots : DenseTo(n) => cur.at + 1 <= n + 1
    <2>1. \A n \in 1..Slots : DenseTo(n) => cur.at <= n
      BY <1>2, <1>3, ListFacts DEF IndInv
    <2> QED
      BY <1>2, <1>3, <2>1
  <1>5. ~cur.local => \A s \in Used : s < cur.at + 1 => disk[s].name # Wanted
    <2>1. disk[cur.at].name # Wanted
      BY <1>1, <1>3 DEF Hit
    <2>2. \A s \in Used : s \in Int /\ (s < cur.at + 1 => s < cur.at \/ s = cur.at)
      BY <1>2 DEF Used
    <2> QED
      BY <1>1, <2>1, <2>2, SearchFacts
  <1>6. cur.local \in BOOLEAN
    BY DEF IndInv, TypeOK
  <1>7. /\ cur' = [cur EXCEPT !.lvl = cur.lvl, !.at = cur.at + 1, !.local = cur.local]
        /\ UNCHANGED <<disk, block, pc, call, res, leaked>>
    BY <1>3 DEF FindNext, IndInv, TypeOK
  <1>8. /\ cur.lvl \in Levels(call.name) /\ cur.lvl <= cur.top
        /\ \A j \in Levels(call.name) : j < cur.lvl => Ancestor(call.name, j) \in CatalogNames
    BY <1>1, SearchFacts
  <1> QED
    BY <1>1, <1>4, <1>5, <1>6, <1>7, <1>8, MoveInv DEF Wanted

LEMMA FindFallbackInv == IndInv /\ FindFallback => IndInv'
  <1> SUFFICES ASSUME IndInv, FindFallback PROVE IndInv'
    OBVIOUS
  <1> USE ConstantFacts
  <1>1. Searching
    BY DEF FindFallback
  <1>2. 1 \in 1..Slots /\ \A n \in 1..Slots : DenseTo(n) => 1 <= n + 1
    OBVIOUS
  <1>3. \A s \in Used : s < 1 => disk[s].name # Ancestor(call.name, cur.lvl)
    BY DEF Used
  <1>4. /\ cur' = [cur EXCEPT !.lvl = cur.lvl, !.at = 1, !.local = FALSE]
        /\ UNCHANGED <<disk, block, pc, call, res, leaked>>
    BY DEF FindFallback, IndInv, TypeOK
  <1>5. /\ cur.lvl \in Levels(call.name) /\ cur.lvl <= cur.top
        /\ \A j \in Levels(call.name) : j < cur.lvl => Ancestor(call.name, j) \in CatalogNames
    BY <1>1, SearchFacts
  <1> QED
    BY <1>1, <1>2, <1>3, <1>4, <1>5, MoveInv

\* The search ends at a catalog: the name asked for is visible.
LEMMA FoundFacts ==
    ASSUME IndInv, Found
    PROVE  /\ \A j \in Levels(call.name) : j <= cur.top => Ancestor(call.name, j) \in CatalogNames
           /\ pc = "find" => Findable(call.name)
  <1>1. Searching /\ Hit /\ cur.lvl = cur.top
    BY DEF Found
  <1>2. Ancestor(call.name, cur.lvl) \in CatalogNames
    BY <1>1, HitFacts DEF Wanted
  <1>3. call.name \in Paths /\ Len(call.name) \in Nat
        /\ \A j \in Levels(call.name) : j \in 0..Len(call.name)
    BY <1>1, SearchFacts, LevelFacts
  <1>4. ASSUME NEW j \in Levels(call.name), j <= cur.top
        PROVE  Ancestor(call.name, j) \in CatalogNames
    <2>1. j < cur.lvl \/ j = cur.lvl
      BY <1>1, <1>3, <1>4, SearchFacts
    <2> QED
      BY <1>1, <1>2, <2>1, SearchFacts
  <1>5. pc = "find" => cur.top = Len(call.name)
    BY <1>1, SearchFacts
  <1> QED
    BY <1>3, <1>4, <1>5 DEF Findable

\* The search ends without one: an ancestor or the name itself is missing.
LEMMA NotFoundFacts ==
    ASSUME IndInv, NotFound
    PROVE  Searching /\ ~Findable(call.name)
  <1>1. Searching /\ ~Hit /\ disk[cur.at].next = 0 /\ ~cur.local
    BY DEF NotFound
  <1>2. PICK m \in 1..Slots : DenseTo(m) /\ m \in Nat
                              /\ cur.at \in 1..Slots
                              /\ (cur.at <= m => disk[cur.at].next = cur.at + 1)
    BY CursorFacts
  <1>3. cur.at > m
    BY <1>1, <1>2
  <1>4. \A s \in Used : s < cur.at
    BY <1>2, <1>3 DEF DenseTo
  <1>5. Wanted \notin CatalogNames
    BY <1>1, <1>4, SearchFacts DEF CatalogNames
  <1> QED
    BY <1>1, <1>5, SearchFacts DEF Findable, Wanted

LEMMA FindReturnInv == IndInv /\ FindReturn => IndInv'
  <1> SUFFICES ASSUME IndInv, FindReturn PROVE IndInv'
    OBVIOUS
  <1>1. CASE Found /\ call.op = "get" /\ Return("found")
    <2>1. pc = "find"
      BY <1>1, SearchFacts DEF Found, Searching
    <2>2. res' = [op |-> "get", name |-> call.name, kind |-> call.kind, ret |-> "found"]
      BY <1>1 DEF Return
    <2>3. GetExact' /\ CreateVerdict'
      BY <1>1, <2>1, <2>2, FoundFacts, SameDisk DEF GetExact, CreateVerdict, FindReturn
    <2> QED
      BY <1>1, <2>1, <2>3, ReturnKeepsStore DEF IndInv, FindReturn, Calls, Returns
  <1>2. CASE NotFound /\ call.op = "get" /\ Return("null")
    <2>1. pc = "find"
      BY <1>2, SearchFacts DEF NotFound, Searching
    <2>2. res' = [op |-> "get", name |-> call.name, kind |-> call.kind, ret |-> "null"]
      BY <1>2 DEF Return
    <2>3. GetExact' /\ CreateVerdict'
      BY <1>2, <2>1, <2>2, NotFoundFacts, SameDisk DEF GetExact, CreateVerdict, FindReturn
    <2> QED
      BY <1>2, <2>1, <2>3, ReturnKeepsStore DEF IndInv, FindReturn, Calls, Returns
  <1>3. CASE Found /\ call.op = "create" /\ pc = "find" /\ Return("exists")
    <2>2. res' = [op |-> "create", name |-> call.name, kind |-> call.kind, ret |-> "exists"]
      BY <1>3 DEF Return
    <2>3. GetExact' /\ CreateVerdict'
      BY <1>3, <2>2, FoundFacts, SameDisk DEF GetExact, CreateVerdict, FindReturn
    <2> QED
      BY <1>3, <2>3, ReturnKeepsStore DEF IndInv, FindReturn, Calls, Returns
  <1> QED
    BY <1>1, <1>2, <1>3 DEF FindReturn

\* The root catalog is always there, so a name that was not found has a parent.
LEMMA RootFindable == IndInv => Findable(Root)
  <1> SUFFICES ASSUME IndInv PROVE Findable(Root)
    OBVIOUS
  <1> USE ConstantFacts
  <1>1. PICK m \in 1..Slots : DenseTo(m) /\ disk[1].name = Root
    BY CursorFacts
  <1>2. 1 \in Used
    BY <1>1, ListFacts DEF IndInv
  <1>3. Root \in CatalogNames
    BY <1>1, <1>2 DEF CatalogNames
  <1>4. Len(Root) = 0
    BY EmptySeq DEF Root
  <1>5. \A k \in Levels(Root) : k = 0
    BY <1>4, LevelFacts
  <1> QED
    BY <1>3, <1>5, AncestorFacts DEF Findable

LEMMA FindParentInv == IndInv /\ FindParent => IndInv'
  <1> SUFFICES ASSUME IndInv, FindParent PROVE IndInv'
    OBVIOUS
  <1> USE ConstantFacts
  <1>1. NotFound /\ call.op = "create" /\ pc = "find" /\ pc' = "parent"
        /\ UNCHANGED <<disk, block, call, res, leaked>>
    BY DEF FindParent
  <1>2. cur' = [top |-> ParentLevel(call.name), lvl |-> 0, at |-> 1, local |-> FALSE, lba |-> 1]
    BY DEF FindParent, FindFrom
  <1>3. ~Findable(call.name) /\ call.name # Root /\ call.name \in Paths
    BY <1>1, NotFoundFacts, RootFindable, SearchFacts
  <1>4. /\ ParentLevel(call.name) \in Int /\ ParentLevel(call.name) >= 0
        /\ 0 \in Levels(call.name) /\ \A j \in Levels(call.name) : ~(j < 0)
    BY <1>3, LevelFacts
  <1>5. TypeOK'
    BY <1>1, <1>2, <1>4 DEF IndInv, TypeOK
  <1>6. StoreInv'
    <2>1. PICK m \in 1..Slots :
              /\ DenseTo(m) /\ m < Slots /\ m \in Nat
              /\ disk[1].name = Root
              /\ block.freeCatalog + m
                   = FreeCatalog0 + 1 + leaked + (IF pc = "createBlock" THEN 1 ELSE 0)
      BY CursorFacts
    <2> QED
      BY <1>1, <1>2, <2>1, SameDisk DEF StoreInv
  <1>7. SearchInv'
    <2>1. \A s \in Used' : ~(s < 1)
      BY DEF Used
    <2>2. ~Findable(call.name)' /\ res' = NoRes
          /\ (call.op = "create" => ((call.kind = "dir") <=> EndsInSeparator(call.name)))
      BY <1>1, <1>3, SameDisk DEF IndInv, SearchInv, Findable
    <2> QED
      BY <1>1, <1>2, <1>3, <1>4, <2>1, <2>2 DEF SearchInv, Calls
  <1>8. GetExact' /\ CreateVerdict'
    BY <1>1, SameDisk DEF IndInv, GetExact, CreateVerdict
  <1> QED
    BY <1>1, <1>5, <1>6, <1>7, <1>8, SameDisk DEF IndInv

-----------------------------------------------------------------------------
(***************************************************************************)
(* The scan of CreateCatalog                                               *)
(***************************************************************************)

\* The scan starts behind a catalog of the list, with the new name absent
\* from every catalog it will not read.
LEMMA ScanFromInv ==
    ASSUME IndInv, pc = "parent", NEW lba \in Used, ScanFrom(lba),
           UNCHANGED <<disk, block, leaked>>,
           lba = 1 \/ call.name \notin CatalogNames
    PROVE  IndInv'
  <1> USE ConstantFacts
  <1>1. PICK m \in 1..Slots :
              /\ DenseTo(m) /\ m < Slots /\ m \in Nat
              /\ disk[1].name = Root
              /\ block.freeCatalog + m
                   = FreeCatalog0 + 1 + leaked + (IF pc = "createBlock" THEN 1 ELSE 0)
    BY CursorFacts
  <1>2. lba \in 1..Slots /\ lba <= m /\ disk[lba].next = lba + 1
    BY <1>1, ListFacts DEF IndInv, Used
  <1>3. /\ pc' = "scan" /\ UNCHANGED <<call, res>>
        /\ cur' = [top |-> 0, lvl |-> 0, at |-> lba + 1, local |-> FALSE, lba |-> lba]
    BY <1>2 DEF ScanFrom, NoCursor
  <1>4. TypeOK'
    BY <1>1, <1>2, <1>3 DEF IndInv, TypeOK
  <1>5. StoreInv'
    BY <1>1, <1>2, <1>3, SameDisk DEF StoreInv
  <1>6. SearchInv'
    <2>1. Searching
      BY DEF Searching
    <2>2. call.op = "create" /\ call.name # Root /\ ~Findable(call.name)
      BY <2>1, SearchFacts
    <2>3. ~Findable(call.name)' /\ res' = NoRes
          /\ (call.op = "create" => ((call.kind = "dir") <=> EndsInSeparator(call.name)))
      BY <1>3, <2>2, SameDisk DEF IndInv, SearchInv, Findable
    <2>4. \A s \in Used : s < lba + 1 => disk[s].name # call.name
      <3>1. CASE lba = 1
        BY <1>1, <2>2, <3>1 DEF Used
      <3>2. CASE call.name \notin CatalogNames
        BY <3>2 DEF CatalogNames
      <3> QED
        BY <3>1, <3>2
    <2>5. \A s \in Used' : s < cur'.at => disk'[s].name # call'.name
      BY <1>3, <2>4, SameDisk
    <2> QED
      BY <1>3, <2>2, <2>3, <2>5 DEF SearchInv, Searching
  <1>7. GetExact' /\ CreateVerdict'
    BY <1>3, SameDisk DEF IndInv, GetExact, CreateVerdict
  <1> QED
    BY <1>4, <1>5, <1>6, <1>7, SameDisk DEF IndInv

LEMMA ParentReturnInv == IndInv /\ ParentReturn => IndInv'
  <1> SUFFICES ASSUME IndInv, ParentReturn PROVE IndInv'
    OBVIOUS
  <1> USE ConstantFacts
  <1>1. pc = "parent" /\ Searching /\ UNCHANGED <<disk, block, leaked>>
    BY DEF ParentReturn, Searching
  <1>2. CASE Found
    <2>1. cur.at \in Used /\ disk[cur.at].name = Ancestor(call.name, ParentLevel(call.name))
      BY <1>1, <1>2, HitFacts, SearchFacts DEF Found, Wanted
    <2>2. disk[cur.at].kind = "dir"
      <3>1. EndsInSeparator(disk[cur.at].name)
        BY <1>1, <2>1, SearchFacts, ParentIsDirectory
      <3> QED
        BY <2>1, <3>1 DEF IndInv, KindInv
    <2>3. ScanFrom(cur.at)
      <3>1. ~NotFound
        BY <1>2 DEF Found, NotFound
      <3> QED
        BY <2>2, <3>1 DEF ParentReturn
    <2>4. call.name \notin CatalogNames
      <3>1. PICK k \in Levels(call.name) : Ancestor(call.name, k) \notin CatalogNames
        BY <1>1, SearchFacts DEF Findable
      <3>2. ~(k <= ParentLevel(call.name))
        BY <1>1, <1>2, <3>1, FoundFacts, SearchFacts
      <3>3. k = Len(call.name)
        BY <1>1, <3>2, SearchFacts, LevelFacts
      <3> QED
        BY <1>1, <3>1, <3>3, SearchFacts, AncestorFacts
    <2> QED
      BY <1>1, <2>1, <2>3, <2>4, ScanFromInv
  <1>3. CASE NotFound
    <2>1. ScanFrom(1)
      BY <1>3 DEF ParentReturn, Found, NotFound
    <2>2. PICK m \in 1..Slots : DenseTo(m)
      BY CursorFacts
    <2>3. 1 \in Used
      BY <2>2, ListFacts DEF IndInv
    <2> QED
      BY <1>1, <2>1, <2>3, ScanFromInv
  <1> QED
    BY <1>2, <1>3 DEF ParentReturn

\* What a running scan knows.
LEMMA ScanFacts ==
    ASSUME IndInv, pc = "scan"
    PROVE  /\ call.name \in Paths /\ call.op = "create" /\ ~Findable(call.name)
           /\ call.name # Root /\ call.kind \in Kinds
           /\ cur.at \in 1..Slots /\ cur.at # 0
           /\ \A s \in Used : s < cur.at => disk[s].name # call.name
           /\ res = NoRes
           /\ (call.kind = "dir") <=> EndsInSeparator(call.name)
  <1>1. call.name \in Paths /\ call.kind \in Kinds /\ cur.at \in 1..Slots
    BY DEF IndInv, TypeOK
  <1>2. /\ call.op = "create" /\ ~Findable(call.name) /\ res = NoRes
        /\ \A s \in Used : s < cur.at => disk[s].name # call.name
        /\ (call.kind = "dir") <=> EndsInSeparator(call.name)
    BY DEF IndInv, SearchInv
  <1>3. call.name # Root
    BY <1>2, RootFindable
  <1> QED
    BY <1>1, <1>2, <1>3

LEMMA ScanReturnInv == IndInv /\ ScanReturn => IndInv'
  <1> SUFFICES ASSUME IndInv, ScanReturn PROVE IndInv'
    OBVIOUS
  <1>1. pc = "scan" /\ UNCHANGED <<disk, block, leaked>>
    BY DEF ScanReturn
  <1>2. CASE Refused /\ Return("null")
    <2>1. block.freeCatalog \in Nat /\ ~(block.freeCatalog > 0)
      BY <1>1, <1>2, ScanFacts DEF Refused, Room, IndInv, TypeOK
    <2>2. res' = [op |-> "create", name |-> call.name, kind |-> call.kind, ret |-> "null"]
      BY <1>1, <1>2, ScanFacts DEF Return
    <2>3. GetExact' /\ CreateVerdict'
      BY <1>1, <2>1, <2>2 DEF GetExact, CreateVerdict
    <2> QED
      BY <1>1, <1>2, <2>3, ScanFacts, ReturnKeepsStore DEF IndInv, Calls, Returns
  <1>3. CASE cur.at # 0 /\ IsCreated(Candidate) /\ Candidate.name = call.name
             /\ Return("existsInScan")
    <2>1. call.name \in CatalogNames
      BY <1>1, <1>3, ScanFacts DEF CatalogNames, Used, Candidate
    <2>2. res' = [op |-> "create", name |-> call.name, kind |-> call.kind, ret |-> "existsInScan"]
      BY <1>1, <1>3, ScanFacts DEF Return
    <2>3. GetExact' /\ CreateVerdict'
      BY <1>1, <2>1, <2>2, ScanFacts, SameDisk DEF GetExact, CreateVerdict
    <2> QED
      BY <1>1, <1>3, <2>3, ScanFacts, ReturnKeepsStore DEF IndInv, Calls, Returns
  <1> QED
    BY <1>2, <1>3 DEF ScanReturn

LEMMA ScanNextInv == IndInv /\ ScanNext => IndInv'
  <1> SUFFICES ASSUME IndInv, ScanNext PROVE IndInv'
    OBVIOUS
  <1> USE ConstantFacts
  <1>1. /\ pc = "scan" /\ IsCreated(disk[cur.at]) /\ disk[cur.at].name # call.name
        /\ cur' = [cur EXCEPT !.at = cur.at + 1]
        /\ UNCHANGED <<disk, block, pc, call, res, leaked>>
    BY DEF ScanNext, Candidate
  <1>2. PICK m \in 1..Slots :
              /\ DenseTo(m) /\ m < Slots /\ m \in Nat
              /\ disk[1].name = Root
              /\ block.freeCatalog + m
                   = FreeCatalog0 + 1 + leaked + (IF pc = "createBlock" THEN 1 ELSE 0)
              /\ cur.at \in 1..Slots
              /\ cur.at >= 2 /\ cur.at <= m
    BY <1>1, CursorFacts
  <1>3. cur'.at = cur.at + 1 /\ cur'.at \in 1..Slots
    <2>1. cur \in [top : Int, lvl : Nat, at : 1..Slots, local : BOOLEAN, lba : 1..Slots]
      BY DEF IndInv, TypeOK
    <2>2. cur'.at = cur.at + 1
      BY <1>1, <2>1
    <2> QED
      BY <1>2, <2>2
  <1>4. TypeOK'
    BY <1>1, <1>3 DEF IndInv, TypeOK
  <1>5. StoreInv'
    BY <1>1, <1>2, <1>3, SameDisk DEF StoreInv
  <1>6. SearchInv'
    <2>1. \A s \in Used : s < cur.at + 1 => disk[s].name # call.name
      <3>1. \A s \in Used : s \in Int /\ (s < cur.at + 1 => s < cur.at \/ s = cur.at)
        BY <1>2 DEF Used
      <3> QED
        BY <1>1, <3>1, ScanFacts
    <2>2. ~Findable(call.name)'
      BY <1>1, ScanFacts, SameDisk DEF Findable
    <2>3. \A s \in Used' : s < cur'.at => disk'[s].name # call'.name
      BY <1>1, <1>3, <2>1, SameDisk
    <2> QED
      BY <1>1, <2>2, <2>3, ScanFacts DEF SearchInv, Searching
  <1>7. GetExact' /\ CreateVerdict'
    BY <1>1, SameDisk DEF IndInv, GetExact, CreateVerdict
  <1> QED
    BY <1>1, <1>4, <1>5, <1>6, <1>7, SameDisk DEF IndInv

LEMMA WriteNewCatalogInv == IndInv /\ WriteNewCatalog => IndInv'
  <1> SUFFICES ASSUME IndInv, WriteNewCatalog PROVE IndInv'
    OBVIOUS
  <1> USE ConstantFacts
  <1>1. /\ pc = "scan" /\ ~IsCreated(disk[cur.at]) /\ block.freeCatalog >= 1
        /\ disk' = [disk EXCEPT ![cur.at] = NewCatalog]
        /\ pc' = "createBlock"
        /\ UNCHANGED <<block, call, cur, res, leaked>>
    BY DEF WriteNewCatalog, Candidate, Room
  <1>2. PICK m \in 1..Slots :
              /\ DenseTo(m) /\ m < Slots /\ m \in Nat
              /\ disk[1].name = Root
              /\ block.freeCatalog + m = FreeCatalog0 + 1 + leaked
              /\ cur.at \in 1..(m + 1) /\ cur.at \in 1..Slots
              /\ cur.at >= 2 /\ cur.at > m
              /\ disk[cur.at] = Zeroed
    <2>1. PICK m \in 1..Slots :
              /\ DenseTo(m) /\ m < Slots /\ m \in Nat
              /\ disk[1].name = Root
              /\ block.freeCatalog + m
                   = FreeCatalog0 + 1 + leaked + (IF pc = "createBlock" THEN 1 ELSE 0)
              /\ cur.at \in 1..(m + 1) /\ cur.at \in 1..Slots
              /\ cur.at >= 2
              /\ cur.at > m => disk[cur.at] = Zeroed
              /\ IsCreated(disk[cur.at]) <=> cur.at <= m
      BY <1>1, CursorFacts
    <2>2. leaked \in Nat
      BY DEF IndInv, TypeOK
    <2>3. block.freeCatalog + m = FreeCatalog0 + 1 + leaked
      BY <1>1, <2>1, <2>2
    <2>4. cur.at > m
      BY <1>1, <2>1
    <2> QED
      BY <2>1, <2>3, <2>4
  <1>3. leaked \in 0..MaxLeaks /\ block.freeCatalog \in Nat
        /\ disk \in [1..Slots -> CatalogType]
    BY DEF IndInv, TypeOK
  <1>4. cur.at = m + 1 /\ m + 1 < Slots
    BY <1>1, <1>2, <1>3
  <1>5. NewCatalog = [name |-> call.name, flags |-> 71, kind |-> call.kind, next |-> m + 2]
    <2>1. Ancestor(call.name, ParentLevel(call.name)) \in Paths
      BY <1>1, ScanFacts, LevelFacts, AncestorFacts
    <2>2. Candidate.name = NoName
      BY <1>2 DEF Candidate, Zeroed
    <2> QED
      BY <1>4, <2>1, <2>2 DEF NewCatalog, kNeFSFlagCreated
  <1> DEFINE c == [name |-> call.name, flags |-> 71, kind |-> call.kind, next |-> m + 2]
  <1>6. c \in CatalogType
    BY <1>1, <1>4, ScanFacts DEF CatalogType
  <1>7. disk' = [disk EXCEPT ![m + 1] = c]
    BY <1>1, <1>4, <1>5
  <1>8. /\ disk'[m + 1] = c
        /\ \A s \in 1..Slots : s # m + 1 => disk'[s] = disk[s]
    BY <1>3, <1>4, <1>7
  <1>9. TypeOK'
    <2>1. disk' \in [1..Slots -> CatalogType]
      BY <1>3, <1>6, <1>7
    <2> QED
      BY <1>1, <2>1 DEF IndInv, TypeOK
  <1>10. Used' = 1..(m + 1)
    <2>1. \A s \in 1..Slots : IsCreated(disk'[s]) <=> s <= m + 1
      <3>1. \A s \in 1..Slots : IsCreated(disk[s]) <=> s <= m
        BY <1>2, ListFacts DEF IndInv
      <3>2. IsCreated(c)
        BY DEF IsCreated, kNeFSFlagUnallocated
      <3>3. \A s \in 1..Slots : s # m + 1 => (IsCreated(disk'[s]) <=> s <= m + 1)
        BY <1>2, <1>8, <3>1
      <3> QED
        BY <1>2, <1>8, <3>2, <3>3
    <2> QED
      BY <1>2, <1>4, <2>1 DEF Used
  <1>11. Used = 1..m
    BY <1>2 DEF DenseTo
  <1>12. DenseTo(m + 1)'
    <2>1. \A s \in 1..(m + 1) : disk'[s].next = s + 1
      BY <1>2, <1>4, <1>8 DEF DenseTo
    <2>2. \A s \in 1..Slots : s > m + 1 => disk'[s] = Zeroed
      BY <1>2, <1>8 DEF DenseTo
    <2> QED
      BY <1>10, <2>1, <2>2 DEF DenseTo
  <1>13. StoreInv'
    <2>1. disk'[1].name = Root
      BY <1>2, <1>4, <1>8
    <2>2. m + 1 \in 1..Slots
      BY <1>4, <1>2
    <2>3. block'.freeCatalog + (m + 1) = FreeCatalog0 + 1 + leaked' + 1
      BY <1>1, <1>2, <1>3
    <2> QED
      BY <1>1, <1>2, <1>4, <1>12, <2>1, <2>2, <2>3 DEF StoreInv
  <1>14. \A s \in Used : disk'[s] = disk[s] /\ disk[s].name # call.name
    <2>1. \A s \in Used : s \in 1..Slots /\ s < m + 1
      BY <1>2, <1>11
    <2>2. \A s \in Used : s < cur.at => disk[s].name # call.name
      BY <1>1, ScanFacts
    <2> QED
      BY <1>2, <1>4, <1>8, <2>1, <2>2
  <1>15. \A s \in Used' : s \in Used \/ s = m + 1
    BY <1>2, <1>10, <1>11
  <1>16. NamesUnique'
    <2> SUFFICES ASSUME NEW s \in Used', NEW t \in Used', disk'[s].name = disk'[t].name
                 PROVE  s = t
      BY DEF NamesUnique
    <2>1. CASE s \in Used /\ t \in Used
      BY <1>14, <2>1 DEF IndInv, NamesUnique
    <2>2. CASE s = m + 1 /\ t \in Used
      BY <1>8, <1>14, <2>2
    <2>3. CASE s \in Used /\ t = m + 1
      BY <1>8, <1>14, <2>3
    <2> QED
      BY <1>15, <2>1, <2>2, <2>3
  <1>17. KindInv'
    <2> SUFFICES ASSUME NEW s \in Used'
                 PROVE  disk'[s].kind = "dir" <=> EndsInSeparator(disk'[s].name)
      BY DEF KindInv
    <2>1. CASE s \in Used
      BY <1>14, <2>1 DEF IndInv, KindInv
    <2>2. CASE s = m + 1
      BY <1>1, <1>8, <2>2, ScanFacts
    <2> QED
      BY <1>15, <2>1, <2>2
  <1>18. SearchInv'
    <2>1. call.name \in CatalogNames'
      BY <1>2, <1>8, <1>10 DEF CatalogNames
    <2> QED
      BY <1>1, <2>1, ScanFacts DEF SearchInv, Searching
  <1>19. GetExact' /\ CreateVerdict'
    BY <1>1, ScanFacts DEF GetExact, CreateVerdict, NoRes
  <1> QED
    BY <1>9, <1>13, <1>16, <1>17, <1>18, <1>19 DEF IndInv

-----------------------------------------------------------------------------
(***************************************************************************)
(* The remaining writes, and crashes                                       *)
(***************************************************************************)

LEMMA CreateBlockInv == IndInv /\ CreateBlock => IndInv'
  <1> SUFFICES ASSUME IndInv, CreateBlock PROVE IndInv'
    OBVIOUS
  <1> USE ConstantFacts
  <1>1. /\ pc = "createBlock" /\ Return("created") /\ UNCHANGED <<disk, leaked>>
        /\ block' = [freeCatalog  |-> block.freeCatalog - 1,
                     catalogCount |-> Inc(block.catalogCount),
                     freeSectors  |-> Dec(block.freeSectors)]
    BY DEF CreateBlock
  <1>2. PICK m \in 1..Slots :
              /\ DenseTo(m) /\ m < Slots /\ m \in Nat
              /\ disk[1].name = Root
              /\ block.freeCatalog + m = FreeCatalog0 + 1 + leaked + 1
              /\ block.freeCatalog >= 1
    BY <1>1, CursorFacts
  <1>3. leaked \in Nat /\ block.freeCatalog \in 0..FreeCatalog0
        /\ block.catalogCount \in 0..(Word - 1) /\ block.freeSectors \in 0..(Word - 1)
        /\ call.name \in Paths /\ call.kind \in Kinds
    BY DEF IndInv, TypeOK
  <1>4. call.op = "create" /\ call.name \in CatalogNames
    BY <1>1 DEF IndInv, SearchInv
  <1>5. /\ pc' = "idle" /\ call' = NoCall /\ cur' = NoCursor
        /\ res' = [op |-> "create", name |-> call.name, kind |-> call.kind, ret |-> "created"]
    BY <1>1, <1>4 DEF Return
  <1>6. TypeOK'
    <2>1. block' \in [freeCatalog : 0..FreeCatalog0,
                      catalogCount : 0..(Word - 1), freeSectors : 0..(Word - 1)]
      BY <1>1, <1>2, <1>3, CounterTypes
    <2> QED
      BY <1>1, <1>3, <1>5, <2>1 DEF IndInv, TypeOK, NoCall, NoCursor, Calls, Returns
  <1>7. StoreInv'
    <2>1. block'.freeCatalog + m = FreeCatalog0 + 1 + leaked'
      BY <1>1, <1>2, <1>3
    <2> QED
      BY <1>1, <1>2, <1>3, <1>5, <2>1, SameDisk DEF StoreInv, NoCursor
  <1>8. SearchInv'
    BY <1>5 DEF SearchInv, Searching, NoCall
  <1>9. GetExact' /\ CreateVerdict'
    BY <1>1, <1>4, <1>5, SameDisk DEF GetExact, CreateVerdict
  <1> QED
    BY <1>1, <1>6, <1>7, <1>8, <1>9, SameDisk DEF IndInv

LEMMA MarkDeletedInv == IndInv /\ MarkDeleted => IndInv'
  <1> SUFFICES ASSUME IndInv, MarkDeleted PROVE IndInv'
    OBVIOUS
  <1> USE ConstantFacts
  <1>1. /\ Found /\ Searching /\ call.op = "remove" /\ pc' = "removeBlock"
        /\ disk' = [disk EXCEPT ![cur.at].flags = FlagOr(@, 70)]
        /\ UNCHANGED <<block, call, cur, res, leaked>>
    BY DEF MarkDeleted, Found, kNeFSFlagDeleted
  <1>2. cur.at \in Used /\ cur.at \in 1..Slots /\ disk \in [1..Slots -> CatalogType]
    BY <1>1, HitFacts DEF Found, IndInv, TypeOK
  <1>3. disk[cur.at].flags \in {70, 71}
    BY <1>2 DEF Used, IsCreated, kNeFSFlagUnallocated, CatalogType
  <1> DEFINE c == [disk[cur.at] EXCEPT !.flags = FlagOr(@, 70)]
  <1>4. /\ c \in CatalogType /\ c.flags # 0
        /\ c.name = disk[cur.at].name /\ c.kind = disk[cur.at].kind
        /\ c.next = disk[cur.at].next
    <2> DEFINE d == disk[cur.at]
    <2>1. d \in CatalogType
      BY <1>2
    <2>2. FlagOr(d.flags, 70) \in {70, 71}
      BY <1>3 DEF FlagOr
    <2>3. c = [name |-> d.name, flags |-> FlagOr(d.flags, 70), kind |-> d.kind, next |-> d.next]
      BY <2>1 DEF CatalogType
    <2> HIDE DEF c
    <2>4. /\ c.name = d.name /\ c.kind = d.kind /\ c.next = d.next
          /\ c.flags = FlagOr(d.flags, 70)
      BY <2>3
    <2>5. c \in CatalogType
      BY <2>1, <2>2, <2>3 DEF CatalogType
    <2> QED
      BY <2>2, <2>4, <2>5
  <1>5. disk' = [disk EXCEPT ![cur.at] = c]
    BY <1>1, <1>2
  <1>6. /\ disk' \in [1..Slots -> CatalogType]
        /\ \A s \in 1..Slots : s # cur.at => disk'[s] = disk[s]
        /\ disk'[cur.at] = c
    BY <1>2, <1>4, <1>5
  <1>7. \A s \in 1..Slots : /\ IsCreated(disk'[s]) <=> IsCreated(disk[s])
                            /\ disk'[s].name = disk[s].name /\ disk'[s].kind = disk[s].kind
                            /\ disk'[s].next = disk[s].next
    <2> HIDE DEF c
    <2> SUFFICES ASSUME NEW s \in 1..Slots
                 PROVE  /\ IsCreated(disk'[s]) <=> IsCreated(disk[s])
                        /\ disk'[s].name = disk[s].name /\ disk'[s].kind = disk[s].kind
                        /\ disk'[s].next = disk[s].next
      OBVIOUS
    <2>1. CASE s = cur.at
      BY <1>3, <1>4, <1>6, <2>1 DEF IsCreated, kNeFSFlagUnallocated
    <2>2. CASE s # cur.at
      BY <1>6, <2>2
    <2> QED
      BY <2>1, <2>2
  <1>8. Used' = Used
    BY <1>7 DEF Used
  <1>9. CatalogNames' = CatalogNames
    BY <1>7, <1>8 DEF CatalogNames, Used
  <1>10. TypeOK'
    BY <1>1, <1>6 DEF IndInv, TypeOK
  <1>11. NamesUnique' /\ KindInv'
    BY <1>7, <1>8 DEF IndInv, NamesUnique, KindInv, Used
  <1>12. StoreInv'
    <2>1. PICK m \in 1..Slots :
              /\ DenseTo(m) /\ m < Slots /\ m \in Nat
              /\ disk[1].name = Root
              /\ block.freeCatalog + m
                   = FreeCatalog0 + 1 + leaked + (IF pc = "createBlock" THEN 1 ELSE 0)
              /\ cur.at \in 1..(m + 1)
      BY CursorFacts
    <2>2. DenseTo(m)'
      <3>1. \A s \in 1..Slots : s > m => s # cur.at
        BY <1>2, <2>1 DEF DenseTo
      <3>2. Used' = 1..m
        BY <1>8, <2>1 DEF DenseTo
      <3>3. \A s \in 1..m : disk'[s].next = s + 1
        <4>1. \A s \in 1..m : s \in 1..Slots /\ disk[s].next = s + 1
          BY <2>1 DEF DenseTo
        <4> QED
          BY <1>7, <4>1
      <3>4. \A s \in 1..Slots : s > m => disk'[s] = Zeroed
        <4>1. \A s \in 1..Slots : s > m => disk[s] = Zeroed
          BY <2>1 DEF DenseTo
        <4> QED
          BY <1>6, <3>1, <4>1
      <3> QED
        BY <3>2, <3>3, <3>4 DEF DenseTo
    <2>3. pc # "createBlock"
      BY <1>1 DEF Searching
    <2> QED
      BY <1>1, <1>7, <2>1, <2>2, <2>3 DEF StoreInv
  <1>13. res = NoRes
    BY <1>1 DEF IndInv, SearchInv, Searching
  <1>14. SearchInv'
    BY <1>1, <1>13 DEF SearchInv, Searching
  <1>15. GetExact' /\ CreateVerdict'
    BY <1>1, <1>13 DEF GetExact, CreateVerdict, NoRes
  <1> QED
    BY <1>10, <1>11, <1>12, <1>14, <1>15 DEF IndInv

LEMMA RemoveMissingInv == IndInv /\ RemoveMissing => IndInv'
  <1> SUFFICES ASSUME IndInv, RemoveMissing PROVE IndInv'
    OBVIOUS
  <1> USE ConstantFacts
  <1>1. NotFound /\ Searching /\ call.op = "remove" /\ UNCHANGED <<disk, block, leaked>>
    BY DEF RemoveMissing, NotFound
  <1>2. CASE Return("false")
    <2>1. res'.op = "remove" /\ pc # "createBlock"
      BY <1>1, <1>2 DEF Return, Searching
    <2>2. GetExact' /\ CreateVerdict'
      BY <2>1 DEF GetExact, CreateVerdict
    <2> QED
      BY <1>1, <1>2, <2>1, <2>2, ReturnKeepsStore DEF IndInv, Calls, Returns
  <1>3. CASE pc' = "removeBlock" /\ UNCHANGED <<call, cur, res>>
    <2>1. TypeOK'
      BY <1>1, <1>3 DEF IndInv, TypeOK
    <2>2. StoreInv'
      BY <1>1, <1>3, SameDisk DEF IndInv, StoreInv, Searching
    <2>3. SearchInv'
      BY <1>1, <1>3 DEF IndInv, SearchInv, Searching
    <2>4. GetExact' /\ CreateVerdict'
      BY <1>1, <1>3, SameDisk DEF IndInv, GetExact, CreateVerdict
    <2> QED
      BY <1>1, <2>1, <2>2, <2>3, <2>4, SameDisk DEF IndInv
  <1> QED
    BY <1>2, <1>3 DEF RemoveMissing

LEMMA RemoveBlockInv == IndInv /\ RemoveBlock => IndInv'
  <1> SUFFICES ASSUME IndInv, RemoveBlock PROVE IndInv'
    OBVIOUS
  <1> USE ConstantFacts
  <1>1. /\ pc = "removeBlock" /\ Return("true") /\ UNCHANGED <<disk, leaked>>
        /\ block' = [block EXCEPT !.catalogCount = Dec(block.catalogCount),
                                  !.freeSectors = Inc(block.freeSectors)]
    BY DEF RemoveBlock
  <1>2. /\ call.op = "remove" /\ pc' = "idle" /\ call' = NoCall /\ cur' = NoCursor
        /\ res' = [op |-> "remove", name |-> call.name, kind |-> call.kind, ret |-> "true"]
    BY <1>1 DEF IndInv, SearchInv, Return
  <1>3. /\ block.catalogCount \in 0..(Word - 1) /\ block.freeSectors \in 0..(Word - 1)
        /\ leaked \in Nat
        /\ block \in [freeCatalog : 0..FreeCatalog0,
                      catalogCount : 0..(Word - 1), freeSectors : 0..(Word - 1)]
    BY DEF IndInv, TypeOK
  <1>4. block'.freeCatalog = block.freeCatalog
        /\ block' \in [freeCatalog : 0..FreeCatalog0,
                       catalogCount : 0..(Word - 1), freeSectors : 0..(Word - 1)]
    BY <1>1, <1>3, CounterTypes
  <1>5. TypeOK'
    <2>1. call'.op = "none" /\ call' \in [op : Calls \cup {"none"}, name : Paths, kind : Kinds]
      BY <1>2 DEF NoCall, Kinds
    <2>2. cur' \in [top : Int, lvl : Nat, at : 1..Slots, local : BOOLEAN, lba : 1..Slots]
      BY <1>2 DEF NoCursor
    <2>3. call.name \in Paths /\ call.kind \in Kinds
      BY DEF IndInv, TypeOK
    <2>4. res' \in [op : Calls \cup {"none"}, name : Paths, kind : Kinds,
                    ret : Returns \cup {"none"}]
      BY <1>2, <2>3 DEF Calls, Returns
    <2> QED
      BY <1>1, <1>2, <1>4, <2>1, <2>2, <2>4 DEF IndInv, TypeOK
  <1>6. StoreInv'
    <2>1. PICK m \in 1..Slots :
              /\ DenseTo(m) /\ m < Slots /\ m \in Nat
              /\ disk[1].name = Root
              /\ block.freeCatalog + m
                   = FreeCatalog0 + 1 + leaked + (IF pc = "createBlock" THEN 1 ELSE 0)
      BY CursorFacts
    <2>2. block'.freeCatalog + m = FreeCatalog0 + 1 + leaked'
      BY <1>1, <1>3, <1>4, <2>1
    <2> QED
      BY <1>1, <1>2, <1>3, <2>1, <2>2, SameDisk DEF StoreInv, NoCursor
  <1>7. SearchInv'
    BY <1>2 DEF SearchInv, Searching, NoCall
  <1>8. GetExact' /\ CreateVerdict'
    BY <1>2 DEF GetExact, CreateVerdict
  <1> QED
    BY <1>1, <1>5, <1>6, <1>7, <1>8, SameDisk DEF IndInv

LEMMA CrashInv == IndInv /\ Crash => IndInv'
  <1> SUFFICES ASSUME IndInv, Crash PROVE IndInv'
    OBVIOUS
  <1> USE ConstantFacts
  <1>1. /\ pc' = "idle" /\ call' = NoCall /\ cur' = NoCursor /\ res' = NoRes
        /\ UNCHANGED <<disk, block>>
    BY DEF Crash
  <1>2. leaked \in 0..MaxLeaks
    BY DEF IndInv, TypeOK
  <1>3. leaked' = leaked + (IF pc = "createBlock" THEN 1 ELSE 0) /\ leaked' \in 0..MaxLeaks
    BY <1>2 DEF Crash
  <1>4. StoreInv' /\ SearchInv' /\ NamesUnique' /\ KindInv'
    BY <1>1, <1>3, EndKeepsStore
  <1>5. TypeOK'
    BY <1>1, <1>3 DEF IndInv, TypeOK, NoCall, NoCursor, NoRes
  <1>6. GetExact' /\ CreateVerdict'
    BY <1>1 DEF GetExact, CreateVerdict, NoRes
  <1> QED
    BY <1>4, <1>5, <1>6 DEF IndInv

LEMMA StutterInv == IndInv /\ UNCHANGED vars => IndInv'
  <1> SUFFICES ASSUME IndInv, UNCHANGED vars PROVE IndInv'
    OBVIOUS
  <1>1. UNCHANGED disk
    BY DEF vars
  <1> QED
    BY <1>1, SameDisk DEF vars, IndInv, TypeOK, StoreInv, SearchInv, GetExact, CreateVerdict,
          Searching, Wanted, Findable

LEMMA NextInv == IndInv /\ [Next]_vars => IndInv'
  BY CallInv, FindAncestorInv, FindNextInv, FindFallbackInv, FindReturnInv, FindParentInv,
     ParentReturnInv, ScanReturnInv, ScanNextInv, WriteNewCatalogInv, CreateBlockInv,
     MarkDeletedInv, RemoveMissingInv, RemoveBlockInv, CrashInv, StutterInv
  DEF Next, Step

-----------------------------------------------------------------------------
(***************************************************************************)
(* Theorems                                                                *)
(***************************************************************************)

\* The inductive invariant of the catalog store: the list of NeFS.cc stays
\* dense, the counters follow it, and a running call has looked at every
\* catalog it has passed.
THEOREM Invariance == Spec => []IndInv
  <1>1. Init => IndInv
    BY InitInv
  <1>2. IndInv /\ [Next]_vars => IndInv'
    BY NextInv
  <1> QED
    BY <1>1, <1>2, PTL DEF Spec

\* No call of the parser reads or writes outside the catalog slots.
THEOREM TypeCorrect == Spec => []TypeOK
  <1>1. IndInv => TypeOK
    BY DEF IndInv
  <1> QED
    BY <1>1, Invariance, PTL

\* CreateCatalog, RemoveCatalog and crashes keep the list of catalogs dense.
THEOREM Dense == Spec => []CatalogsDense
  <1>1. IndInv => CatalogsDense
    BY DEF IndInv, StoreInv, CatalogsDense
  <1> QED
    BY <1>1, Invariance, PTL

\* CreateCatalog never allocates a name twice.
THEOREM Unique == Spec => []NamesUnique
  <1>1. IndInv => NamesUnique
    BY DEF IndInv
  <1> QED
    BY <1>1, Invariance, PTL

\* GetCatalog finds exactly the visible catalogs.
THEOREM LookupExact == Spec => []GetExact
  <1>1. IndInv => GetExact
    BY DEF IndInv
  <1> QED
    BY <1>1, Invariance, PTL

\* The answers of CreateCatalog are true of the disk.
THEOREM VerdictTrue == Spec => []CreateVerdict
  <1>1. IndInv => CreateVerdict
    BY DEF IndInv
  <1> QED
    BY <1>1, Invariance, PTL

\* FreeCatalog is exact up to the crashes between the two writes of a create.
THEOREM Accounting == Spec => []FreeCatalogExact
  <1>1. IndInv => FreeCatalogExact
    <2> SUFFICES ASSUME IndInv PROVE FreeCatalogExact
      OBVIOUS
    <2>1. PICK n \in 1..Slots :
              /\ DenseTo(n) /\ n \in Nat
              /\ block.freeCatalog + n
                   = FreeCatalog0 + 1 + leaked + (IF pc = "createBlock" THEN 1 ELSE 0)
      BY CursorFacts
    <2>2. Cardinality(Used) = n
      BY <2>1, FS_Interval, ConstantFacts DEF DenseTo
    <2> QED
      BY <2>1, <2>2 DEF FreeCatalogExact
  <1> QED
    BY <1>1, Invariance, PTL

(***************************************************************************)
(* The action property: what a step leaves of the allocated catalogs.      *)
(***************************************************************************)
KeepsCatalogs ==
    \A s \in Used : /\ IsCreated(disk'[s])
                    /\ disk'[s].name = disk[s].name
                    /\ disk'[s].kind = disk[s].kind
                    /\ disk'[s].next = disk[s].next

LEMMA WriteKeeps == IndInv /\ WriteNewCatalog => KeepsCatalogs
  <1> SUFFICES ASSUME IndInv, WriteNewCatalog, NEW s \in Used
               PROVE  disk'[s] = disk[s] /\ IsCreated(disk[s])
    BY DEF KeepsCatalogs
  <1>1. cur.at \notin Used /\ disk' = [disk EXCEPT ![cur.at] = NewCatalog]
    BY DEF WriteNewCatalog, Candidate, Used
  <1>2. disk \in [1..Slots -> CatalogType] /\ s \in 1..Slots /\ IsCreated(disk[s])
    BY DEF IndInv, TypeOK, Used
  <1> QED
    BY <1>1, <1>2

LEMMA MarkKeeps == IndInv /\ MarkDeleted => KeepsCatalogs
  <1> SUFFICES ASSUME IndInv, MarkDeleted, NEW s \in Used
               PROVE  /\ IsCreated(disk'[s]) /\ disk'[s].name = disk[s].name
                      /\ disk'[s].kind = disk[s].kind /\ disk'[s].next = disk[s].next
    BY DEF KeepsCatalogs
  <1>1. disk' = [disk EXCEPT ![cur.at] = [disk[cur.at] EXCEPT !.flags = FlagOr(@, 70)]]
    BY DEF MarkDeleted, kNeFSFlagDeleted
  <1>2. disk \in [1..Slots -> CatalogType] /\ s \in 1..Slots /\ IsCreated(disk[s])
    BY DEF IndInv, TypeOK, Used
  <1>3. disk[s] \in CatalogType /\ disk[s].flags \in {70, 71}
    BY <1>2 DEF IsCreated, kNeFSFlagUnallocated, CatalogType
  <1>4. CASE s = cur.at
    <2>1. disk'[s] = [disk[s] EXCEPT !.flags = FlagOr(disk[s].flags, 70)]
      BY <1>1, <1>2, <1>4
    <2>2. FlagOr(disk[s].flags, 70) # 0
      BY <1>3 DEF FlagOr
    <2>3. /\ disk'[s].flags = FlagOr(disk[s].flags, 70)
          /\ disk'[s].name = disk[s].name
          /\ disk'[s].kind = disk[s].kind /\ disk'[s].next = disk[s].next
      BY <1>3, <2>1 DEF CatalogType
    <2> QED
      BY <2>2, <2>3 DEF IsCreated, kNeFSFlagUnallocated
  <1>5. CASE s # cur.at
    BY <1>1, <1>2, <1>5
  <1> QED
    BY <1>4, <1>5

LEMMA SameKeeps == ASSUME UNCHANGED disk PROVE KeepsCatalogs
  BY DEF KeepsCatalogs, Used

LEMMA StepKeeps == IndInv /\ [Next]_vars => KeepsCatalogs
  <1> SUFFICES ASSUME IndInv, [Next]_vars PROVE KeepsCatalogs
    OBVIOUS
  <1>1. CASE Call
    BY <1>1, SameKeeps DEF Call, CreateCatalog, GetCatalog, RemoveCatalog
  <1>2. CASE FindAncestor \/ FindNext \/ FindFallback \/ FindReturn \/ FindParent
    BY <1>2, SameKeeps DEF FindAncestor, FindNext, FindFallback, FindReturn, FindParent
  <1>3. CASE ParentReturn \/ ScanReturn \/ ScanNext \/ CreateBlock
    BY <1>3, SameKeeps DEF ParentReturn, ScanReturn, ScanNext, CreateBlock
  <1>4. CASE RemoveMissing \/ RemoveBlock \/ Crash \/ UNCHANGED vars
    BY <1>4, SameKeeps DEF RemoveMissing, RemoveBlock, Crash, vars
  <1>5. CASE WriteNewCatalog
    BY <1>5, WriteKeeps
  <1>6. CASE MarkDeleted
    BY <1>6, MarkKeeps
  <1> QED
    BY <1>1, <1>2, <1>3, <1>4, <1>5, <1>6 DEF Next, Step

\* CreateCatalog, RemoveCatalog and crashes never take an allocated catalog
\* off the list and never rename it.
THEOREM Durable == Spec => CatalogsDurable
  <1>1. IndInv /\ [Next]_vars => [KeepsCatalogs]_vars
    BY StepKeeps
  <1> QED
    BY <1>1, Invariance, PTL DEF Spec, CatalogsDurable, KeepsCatalogs

-----------------------------------------------------------------------------
(***************************************************************************)
(* The refinement: the parser, pointer by pointer, implements the set of   *)
(* names.  CreateCatalog takes effect with its first disk write, the other *)
(* calls when they answer, and the steps of the searches are stutters.     *)
(***************************************************************************)
Pend == IF pc = "createBlock" THEN [call EXCEPT !.op = "added"] ELSE call

IdleInv == pc = "idle" => call = NoCall

LEMMA IdleHolds == IndInv /\ IdleInv /\ [Next]_vars => IdleInv'
  <1> SUFFICES ASSUME IndInv, IdleInv, [Next]_vars PROVE IdleInv'
    OBVIOUS
  <1>1. CASE Call
    BY <1>1 DEF Call, CreateCatalog, GetCatalog, RemoveCatalog, StartFind, IdleInv
  <1>2. CASE FindAncestor \/ FindNext \/ FindFallback \/ FindReturn \/ FindParent
    BY <1>2 DEF FindAncestor, FindNext, FindFallback, FindReturn, FindParent, Return, IdleInv
  <1>3. CASE ParentReturn \/ ScanReturn \/ ScanNext \/ CreateBlock
    BY <1>3 DEF ParentReturn, ScanReturn, ScanNext, CreateBlock, ScanFrom, Return, IdleInv
  <1>4. CASE WriteNewCatalog \/ MarkDeleted \/ RemoveMissing \/ RemoveBlock
    BY <1>4 DEF WriteNewCatalog, MarkDeleted, RemoveMissing, RemoveBlock, Return, IdleInv
  <1>5. CASE Crash \/ UNCHANGED vars
    BY <1>5 DEF Crash, vars, IdleInv
  <1> QED
    BY <1>1, <1>2, <1>3, <1>4, <1>5 DEF Next, Step

\* The abstract specification speaks of the same names, seen the same way.
LEMMA NamespaceFacts ==
    /\ Namespace!Root = Root /\ Namespace!NoReply = NoRes /\ Namespace!NoPend = NoCall
    /\ \A p : Namespace!EndsInSeparator(p) <=> EndsInSeparator(p)
    /\ \A p : Namespace!Visible(p) <=> Findable(p)
  <1>1. Namespace!Root = Root
    BY DEF Namespace!Root, Root
  <1>2. Namespace!NoReply = NoRes /\ Namespace!NoPend = NoCall
    BY <1>1 DEF Namespace!NoReply, NoRes, Namespace!NoPend, NoCall
  <1>3. \A p : Namespace!EndsInSeparator(p) <=> EndsInSeparator(p)
    BY <1>1 DEF Namespace!EndsInSeparator, EndsInSeparator, Namespace!Last, Last
  <1>4. \A p : Namespace!IsShort(p) <=> IsShort(p)
    BY <1>1 DEF Namespace!IsShort, IsShort, Namespace!Last, Last
  <1>5. \A p : Namespace!ParentLevel(p) = ParentLevel(p)
    BY <1>4 DEF Namespace!ParentLevel, ParentLevel
  <1>6. \A p : Namespace!Levels(p) = Levels(p)
    BY <1>5 DEF Namespace!Levels, Levels
  <1>7. \A p, k : Namespace!Ancestor(p, k) = Ancestor(p, k)
    BY DEF Namespace!Ancestor, Ancestor
  <1>8. \A p : Namespace!Visible(p) <=> Findable(p)
    BY <1>6, <1>7 DEF Namespace!Visible, Findable
  <1> QED
    BY <1>1, <1>2, <1>3, <1>8

LEMMA CallTypes ==
    ASSUME IndInv
    PROVE  /\ call \in [op : Calls \cup {"none"}, name : Paths, kind : Kinds]
           /\ call.name \in Paths /\ call.kind \in Kinds
           /\ Pend.name = call.name /\ Pend.kind = call.kind
           /\ Pend.op = IF pc = "createBlock" THEN "added" ELSE call.op
  <1>1. call \in [op : Calls \cup {"none"}, name : Paths, kind : Kinds]
    BY DEF IndInv, TypeOK
  <1> QED
    BY <1>1 DEF Pend

\* A call is accepted, or refused without a look at the disk.
LEMMA CallMaps ==
    ASSUME IndInv, IdleInv, Call
    PROVE  Namespace!Next
  <1>1. UNCHANGED disk /\ pc = "idle" /\ CatalogNames' = CatalogNames
    BY SameDisk DEF Call, CreateCatalog, GetCatalog, RemoveCatalog
  <1>2. Pend = NoCall
    BY <1>1 DEF Pend, IdleInv
  <1>3. ASSUME NEW op \in Calls, NEW n \in Paths, NEW k \in Kinds,
               StartFind([op |-> op, name |-> n, kind |-> k])
        PROVE  Namespace!Next
    <2>1. Pend' = [op |-> op, name |-> n, kind |-> k] /\ res' = NoRes
      BY <1>3 DEF StartFind, Pend
    <2>2. Namespace!Accept([op |-> op, name |-> n, kind |-> k])
      BY <1>1, <1>2, <2>1, NamespaceFacts DEF Namespace!Accept, Pend
    <2> QED
      BY <2>2 DEF Namespace!Next, Kinds, Calls
  <1>4. ASSUME UNCHANGED <<pc, call>> PROVE Pend' = Pend
    BY <1>4 DEF Pend
  <1>5. ASSUME NEW n \in Paths, NEW k \in Kinds, UNCHANGED <<pc, call>>,
               \/ /\ (k = "dir") # EndsInSeparator(n)
                  /\ res' = [op |-> "create", name |-> n, kind |-> k, ret |-> "null"]
               \/ n = Root /\ res' = [op |-> "remove", name |-> n, kind |-> k, ret |-> "false"]
        PROVE  Namespace!Next
    <2>1. (k = "dir") # EndsInSeparator(n) => (k = "dir") # Namespace!EndsInSeparator(n)
      BY DEF Namespace!EndsInSeparator, EndsInSeparator, Namespace!Last, Last, Namespace!Root, Root
    <2>2. Pend = Namespace!NoPend /\ Pend' = Pend /\ CatalogNames' = CatalogNames
      BY <1>1, <1>2, <1>4, <1>5, NamespaceFacts
    <2>3. Namespace!Refuse(n, k)
      BY <1>5, <2>1, <2>2, NamespaceFacts DEF Namespace!Refuse, Pend
    <2> QED
      BY <2>3 DEF Namespace!Next, Kinds
  <1>6. PICK n \in Paths : (\E k \in Kinds : CreateCatalog(n, k)) \/ GetCatalog(n) \/ RemoveCatalog(n)
    BY DEF Call
  <1>7. ASSUME NEW k \in Kinds, CreateCatalog(n, k) PROVE Namespace!Next
    <2>1. CASE (k = "dir") = EndsInSeparator(n)
      BY <1>3, <1>7, <2>1 DEF CreateCatalog, Calls
    <2>2. CASE (k = "dir") # EndsInSeparator(n)
      BY <1>5, <1>7, <2>2 DEF CreateCatalog
    <2> QED
      BY <2>1, <2>2
  <1>8. CASE GetCatalog(n)
    BY <1>3, <1>8, ConstantFacts DEF GetCatalog, Calls
  <1>9. CASE RemoveCatalog(n)
    <2>1. CASE n = Root
      BY <1>5, <1>9, <2>1, ConstantFacts DEF RemoveCatalog
    <2>2. CASE n # Root
      BY <1>3, <1>9, <2>2, ConstantFacts DEF RemoveCatalog, Calls
    <2> QED
      BY <2>1, <2>2
  <1> QED
    BY <1>6, <1>7, <1>8, <1>9

\* A return answers the pending call.
LEMMA ReturnMaps ==
    ASSUME IndInv, NEW ret, Return(ret), UNCHANGED disk, pc # "idle", NEW op,
           op = call.op
    PROVE  Namespace!Answer(op, ret)
  <1>1. /\ res' = [op |-> op, name |-> Pend.name, kind |-> Pend.kind, ret |-> ret]
        /\ Pend' = NoCall /\ CatalogNames' = CatalogNames
    BY CallTypes, SameDisk DEF Return, Pend
  <1> QED
    BY <1>1, NamespaceFacts DEF Namespace!Answer, Pend

\* Steps of a search and of a scan: the abstract state does not change.
LEMMA SilentMaps ==
    ASSUME UNCHANGED <<disk, call, res>>, pc # "createBlock", pc' # "createBlock"
    PROVE  UNCHANGED Namespace!vars
  <1>1. CatalogNames' = CatalogNames /\ Pend' = Pend
    BY SameDisk DEF Pend
  <1> QED
    BY <1>1 DEF Namespace!vars, Pend

\* The first disk write of CreateCatalog adds its name.
LEMMA WriteMaps ==
    ASSUME IndInv, WriteNewCatalog
    PROVE  Namespace!Add
  <1>1. /\ pc = "scan" /\ ~IsCreated(disk[cur.at])
        /\ disk' = [disk EXCEPT ![cur.at] = NewCatalog]
        /\ pc' = "createBlock" /\ UNCHANGED <<call, res>>
    BY DEF WriteNewCatalog, Candidate
  <1>2. /\ call.op = "create" /\ call.name \in Paths /\ cur.at \in 1..Slots
        /\ \A s \in Used : s < cur.at => disk[s].name # call.name
    BY <1>1, ScanFacts
  <1>3. disk \in [1..Slots -> CatalogType]
    BY DEF IndInv, TypeOK
  <1>4. NewCatalog.name = call.name /\ IsCreated(NewCatalog)
    BY DEF NewCatalog, IsCreated, kNeFSFlagCreated, kNeFSFlagUnallocated
  <1>5. call.name \notin CatalogNames
    <2>1. PICK m \in 1..Slots : /\ DenseTo(m) /\ m \in Nat
                                /\ IsCreated(disk[cur.at]) <=> cur.at <= m
      BY CursorFacts
    <2>2. \A s \in Used : s < cur.at
      BY <1>1, <1>2, <2>1 DEF DenseTo
    <2> QED
      BY <1>2, <2>2 DEF CatalogNames
  <1>6. CatalogNames' = CatalogNames \cup {call.name}
    <2>1. disk'[cur.at] = NewCatalog /\ \A s \in 1..Slots : s # cur.at => disk'[s] = disk[s]
      BY <1>1, <1>2, <1>3
    <2>2. Used' = Used \cup {cur.at} /\ cur.at \notin Used
      BY <1>1, <1>2, <1>4, <2>1 DEF Used
    <2>3. \A s \in Used : disk'[s].name = disk[s].name
      BY <2>1, <2>2 DEF Used
    <2>4. disk'[cur.at].name = call.name
      BY <1>4, <2>1
    <2> QED
      BY <2>2, <2>3, <2>4 DEF CatalogNames
  <1>7. Pend.op = "create" /\ Pend.name = call.name /\ Pend = call
    BY <1>1, <1>2 DEF Pend
  <1>8. Pend' = [Pend EXCEPT !.op = "added"]
    BY <1>1, <1>7 DEF Pend
  <1> QED
    BY <1>1, <1>5, <1>6, <1>7, <1>8 DEF Namespace!Add, Pend

LEMMA MarkMaps ==
    ASSUME IndInv, MarkDeleted
    PROVE  UNCHANGED Namespace!vars
  <1>1. /\ pc # "createBlock" /\ pc' = "removeBlock" /\ UNCHANGED <<call, res>>
    BY DEF MarkDeleted, Found, Searching
  <1>2. KeepsCatalogs
    BY MarkKeeps
  <1>3. cur.at \in Used /\ disk \in [1..Slots -> CatalogType] /\ cur.at \in 1..Slots
    BY HitFacts DEF MarkDeleted, Found, IndInv, TypeOK
  <1>4. \A s \in 1..Slots : s # cur.at => disk'[s] = disk[s]
    BY <1>3 DEF MarkDeleted
  <1>5. Used' = Used
    BY <1>2, <1>3, <1>4 DEF Used, KeepsCatalogs
  <1>6. CatalogNames' = CatalogNames
    BY <1>2, <1>5 DEF CatalogNames, KeepsCatalogs
  <1> QED
    BY <1>1, <1>6 DEF Namespace!vars

LEMMA StepMaps ==
    ASSUME IndInv, Step
    PROVE  Namespace!Next \/ UNCHANGED Namespace!vars
  <1>1. CASE FindAncestor \/ FindNext \/ FindFallback \/ FindParent
    <2>1. UNCHANGED <<disk, call, res>> /\ pc # "createBlock" /\ pc' # "createBlock"
      BY <1>1 DEF FindAncestor, FindNext, FindFallback, FindParent, Searching, NotFound
    <2> QED
      BY <2>1, SilentMaps
  <1>2. CASE FindReturn
    <2>1. UNCHANGED disk /\ Searching /\ pc # "idle" /\ pc # "createBlock"
      BY <1>2 DEF FindReturn, Found, NotFound, Searching
    <2>2. pc = "find" \/ call.op = "create"
      BY <2>1, SearchFacts DEF Searching
    <2>3. Pend.op = call.op /\ Pend.name = call.name
      BY <2>1, CallTypes
    <2>4. CASE Found /\ call.op = "get" /\ Return("found")
      <3>1. Findable(call.name)
        BY <2>2, <2>4, FoundFacts
      <3>2. Namespace!Answer("get", "found")
        BY <2>1, <2>4, ReturnMaps
      <3>3. Namespace!AnswerGet
        BY <2>3, <2>4, <3>1, <3>2, NamespaceFacts DEF Namespace!AnswerGet, Pend
      <3> QED
        BY <3>3 DEF Namespace!Next
    <2>5. CASE NotFound /\ call.op = "get" /\ Return("null")
      <3>1. ~Findable(call.name)
        BY <2>5, NotFoundFacts
      <3>2. Namespace!Answer("get", "null")
        BY <2>1, <2>5, ReturnMaps
      <3>3. Namespace!AnswerGet
        BY <2>3, <2>5, <3>1, <3>2, NamespaceFacts DEF Namespace!AnswerGet, Pend
      <3> QED
        BY <3>3 DEF Namespace!Next
    <2>6. CASE Found /\ call.op = "create" /\ pc = "find" /\ Return("exists")
      <3>1. Findable(call.name)
        BY <2>6, FoundFacts
      <3>2. Namespace!Answer("create", "exists")
        BY <2>1, <2>6, ReturnMaps
      <3>3. Namespace!AnswerCreate
        BY <2>3, <2>6, <3>1, <3>2, NamespaceFacts DEF Namespace!AnswerCreate, Pend
      <3> QED
        BY <3>3 DEF Namespace!Next
    <2> QED
      BY <1>2, <2>4, <2>5, <2>6 DEF FindReturn
  <1>3. CASE ParentReturn
    <2>1. pc = "parent" /\ UNCHANGED disk /\ Searching
      BY <1>3 DEF ParentReturn, Searching
    <2>2. \E lba \in 1..Slots : ScanFrom(lba)
      <3>1. CASE Found
        <4>1. cur.at \in Used /\ disk[cur.at].name = Ancestor(call.name, ParentLevel(call.name))
          BY <2>1, <3>1, HitFacts, SearchFacts DEF Found, Wanted
        <4>2. EndsInSeparator(disk[cur.at].name)
          BY <2>1, <4>1, SearchFacts, ParentIsDirectory
        <4>3. disk[cur.at].kind = "dir"
          BY <4>1, <4>2 DEF IndInv, KindInv
        <4>4. ~NotFound /\ cur.at \in 1..Slots
          BY <3>1, <4>1 DEF Found, NotFound, Used
        <4> QED
          BY <1>3, <4>3, <4>4 DEF ParentReturn
      <3>2. CASE ~Found
        BY <1>3, <3>2, ConstantFacts DEF ParentReturn
      <3> QED
        BY <3>1, <3>2
    <2> QED
      BY <2>1, <2>2, SilentMaps DEF ScanFrom
  <1>4. CASE ScanReturn
    <2>1. pc = "scan" /\ UNCHANGED disk
      BY <1>4 DEF ScanReturn
    <2>2. /\ call.op = "create" /\ ~Findable(call.name) /\ cur.at \in 1..Slots /\ cur.at # 0
          /\ \A s \in Used : s < cur.at => disk[s].name # call.name
      BY <2>1, ScanFacts
    <2>3. Pend.op = "create" /\ Pend.name = call.name
      BY <2>1, <2>2, CallTypes
    <2>4. CASE Refused /\ Return("null")
      <3>1. ~IsCreated(disk[cur.at])
        BY <2>2, <2>4 DEF Refused, Candidate
      <3>2. PICK m \in 1..Slots : /\ DenseTo(m) /\ m \in Nat
                                  /\ IsCreated(disk[cur.at]) <=> cur.at <= m
        BY CursorFacts
      <3>3. \A s \in Used : s < cur.at
        BY <2>2, <3>1, <3>2 DEF DenseTo
      <3>4. call.name \notin CatalogNames
        BY <2>2, <3>3 DEF CatalogNames
      <3>5. Namespace!Answer("create", "null")
        BY <2>1, <2>2, <2>4, ReturnMaps
      <3>6. Namespace!AnswerCreate
        BY <2>3, <3>4, <3>5 DEF Namespace!AnswerCreate, Pend
      <3> QED
        BY <3>6 DEF Namespace!Next
    <2>5. CASE IsCreated(Candidate) /\ Candidate.name = call.name /\ Return("existsInScan")
      <3>1. call.name \in CatalogNames
        BY <2>2, <2>5 DEF CatalogNames, Used, Candidate
      <3>2. Namespace!Answer("create", "existsInScan")
        BY <2>1, <2>2, <2>5, ReturnMaps
      <3>3. Namespace!AnswerCreate
        BY <2>2, <2>3, <3>1, <3>2, NamespaceFacts DEF Namespace!AnswerCreate, Pend
      <3> QED
        BY <3>3 DEF Namespace!Next
    <2> QED
      BY <1>4, <2>4, <2>5 DEF ScanReturn
  <1>5. CASE ScanNext
    BY <1>5, SilentMaps DEF ScanNext
  <1>6. CASE WriteNewCatalog
    BY <1>6, WriteMaps DEF Namespace!Next
  <1>7. CASE CreateBlock
    <2>1. pc = "createBlock" /\ UNCHANGED disk /\ Return("created")
      BY <1>7 DEF CreateBlock
    <2>2. call.op = "create" /\ Pend.op = "added"
      BY <2>1, CallTypes DEF IndInv, SearchInv
    <2>3. Namespace!Answer("create", "created")
      BY <2>1, <2>2, ReturnMaps
    <2>4. Namespace!AnswerCreate
      BY <2>2, <2>3 DEF Namespace!AnswerCreate, Pend
    <2> QED
      BY <2>4 DEF Namespace!Next
  <1>8. CASE MarkDeleted
    BY <1>8, MarkMaps
  <1>9. CASE RemoveMissing
    <2>1. NotFound /\ Searching /\ call.op = "remove" /\ UNCHANGED disk /\ ~Findable(call.name)
      BY <1>9, NotFoundFacts DEF RemoveMissing
    <2>2. pc # "idle" /\ pc # "createBlock" /\ Pend.op = "remove" /\ Pend.name = call.name
      BY <2>1, CallTypes DEF Searching
    <2>3. CASE Return("false")
      <3>1. Namespace!Answer("remove", "false")
        BY <2>1, <2>2, <2>3, ReturnMaps
      <3>2. Namespace!AnswerRemove
        BY <2>1, <2>2, <3>1, NamespaceFacts DEF Namespace!AnswerRemove, Pend
      <3> QED
        BY <3>2 DEF Namespace!Next
    <2>4. CASE pc' = "removeBlock" /\ UNCHANGED <<call, cur, res>>
      BY <2>1, <2>2, <2>4, SilentMaps
    <2> QED
      BY <1>9, <2>3, <2>4 DEF RemoveMissing
  <1>10. CASE RemoveBlock
    <2>1. pc = "removeBlock" /\ UNCHANGED disk /\ Return("true")
      BY <1>10 DEF RemoveBlock
    <2>2. call.op = "remove" /\ Pend.op = "remove"
      BY <2>1, CallTypes DEF IndInv, SearchInv
    <2>3. Namespace!Answer("remove", "true")
      BY <2>1, <2>2, ReturnMaps
    <2>4. Namespace!AnswerRemove
      BY <2>2, <2>3 DEF Namespace!AnswerRemove, Pend
    <2> QED
      BY <2>4 DEF Namespace!Next
  <1> QED
    BY <1>1, <1>2, <1>3, <1>4, <1>5, <1>6, <1>7, <1>8, <1>9, <1>10 DEF Step

\* A crash inside a call loses it.
LEMMA CrashMaps ==
    ASSUME IndInv, Crash
    PROVE  Namespace!Next
  <1>1. pc # "idle" /\ pc' = "idle" /\ call' = NoCall /\ res' = NoRes /\ UNCHANGED disk
    BY DEF Crash
  <1>2. Pend.op # "none"
    BY <1>1, CallTypes DEF IndInv, TypeOK, SearchInv, Searching, Calls
  <1>3. Pend # NoCall /\ Pend' = NoCall /\ CatalogNames' = CatalogNames
    BY <1>1, <1>2, SameDisk DEF Pend, NoCall
  <1>4. Namespace!Lose
    BY <1>1, <1>3, NamespaceFacts DEF Namespace!Lose, Pend
  <1> QED
    BY <1>4 DEF Namespace!Next

\* The catalog store implements the set of names, for every set of names, disk
\* size and number of crashes: each call of NeFSParser takes effect at one
\* instant and answers from the names at that instant.
THEOREM Refines == Spec => ImplementsNamespace
  <1>1. Init => Namespace!Init /\ IdleInv
    <2> SUFFICES ASSUME Init PROVE Namespace!Init /\ IdleInv
      OBVIOUS
    <2>1. Used = {1} /\ disk[1].name = Root
      BY ConstantFacts DEF Init, Used, IsCreated, Zeroed, kNeFSFlagCreated, kNeFSFlagUnallocated
    <2>2. CatalogNames = {Root}
      BY <2>1 DEF CatalogNames
    <2>3. pc = "idle" /\ call = NoCall /\ res = NoRes
      BY DEF Init
    <2> QED
      BY <2>2, <2>3, NamespaceFacts DEF Namespace!Init, IdleInv
  <1>2. IndInv /\ IdleInv /\ [Next]_vars => [Namespace!Next]_(Namespace!vars)
    <2> SUFFICES ASSUME IndInv, IdleInv, [Next]_vars
                 PROVE  Namespace!Next \/ UNCHANGED Namespace!vars
      OBVIOUS
    <2>1. CASE UNCHANGED vars
      <3>1. UNCHANGED <<disk, pc, call, res>>
        BY <2>1 DEF vars
      <3>2. CatalogNames' = CatalogNames
        BY <3>1, SameDisk
      <3> QED
        BY <3>1, <3>2 DEF Namespace!vars
    <2> QED
      BY <2>1, CallMaps, StepMaps, CrashMaps DEF Next
  <1> QED
    BY <1>1, <1>2, IdleHolds, Invariance, PTL DEF Spec, ImplementsNamespace, Namespace!Spec
-----------------------------------------------------------------------------
(***************************************************************************)
(* Termination: every disk access of a call lowers its rank StepsLeft, and *)
(* the rank starts at a number fixed by the name and the disk.             *)
(***************************************************************************)

\* One level of the recursion outweighs all that its search may read.
LEMMA Weights ==
    ASSUME NEW a \in Int, NEW b \in Int, a < b, NEW w \in Nat
    PROVE  a * w \in Int /\ b * w \in Int /\ a * w + w <= b * w
  <1>1. PICK d \in Nat : b = a + 1 + d
    <2>1. b - a - 1 \in Nat /\ b = a + 1 + (b - a - 1)
      OBVIOUS
    <2> QED
      BY <2>1
  <1>2. b * w = a * w + w + d * w
    BY <1>1
  <1>3. d * w \in Nat
    BY <1>1
  <1> QED
    BY <1>2, <1>3

LEMMA Shifted ==
    ASSUME NEW a \in Int, NEW b \in Int, NEW c \in Int, b < a
    PROVE  b + c < a + c
  OBVIOUS

LEMMA Products ==
    ASSUME NEW a \in Nat, NEW w \in Nat
    PROVE  a * w \in Nat
  OBVIOUS

RankTyped ==
    /\ Slots \in Nat /\ 2 * Slots \in Nat
    /\ cur.at \in 1..Slots /\ cur.at \in Nat
    /\ cur.lvl \in Nat /\ cur.top \in Int
    /\ call.name \in Paths /\ Len(call.name) \in Nat

LEMMA RankTypes == IndInv => RankTyped
  <1> SUFFICES ASSUME IndInv PROVE RankTyped
    OBVIOUS
  <1>1. /\ cur.at \in 1..Slots /\ cur.lvl \in Nat /\ cur.top \in Int
        /\ call.name \in Paths
    BY DEF IndInv, TypeOK
  <1>2. Slots \in Nat /\ 2 * Slots \in Nat
    BY ConstantFacts
  <1>3. Len(call.name) \in Nat
    BY <1>1, LevelFacts
  <1>4. cur.at \in Nat
    BY <1>1, <1>2
  <1> QED
    BY <1>1, <1>2, <1>3, <1>4 DEF RankTyped

NameRanked == Len(call.name) * (2 * Slots) \in Nat

LEMMA NameRank == IndInv => NameRanked
  <1> SUFFICES ASSUME IndInv PROVE NameRanked
    OBVIOUS
  <1>1. Len(call.name) \in Nat /\ 2 * Slots \in Nat
    BY RankTypes DEF RankTyped
  <1> QED
    BY <1>1, Products DEF NameRanked

SearchRanked ==
    Searching =>
      /\ cur.top - cur.lvl \in Nat
      /\ (cur.top - cur.lvl) * (2 * Slots) \in Nat
      /\ SearchLeft \in Nat

LEMMA SearchRank == IndInv => SearchRanked
  <1> SUFFICES ASSUME IndInv, Searching
               PROVE  /\ cur.top - cur.lvl \in Nat
                      /\ (cur.top - cur.lvl) * (2 * Slots) \in Nat
                      /\ SearchLeft \in Nat
    BY DEF SearchRanked
  <1>1. cur.top - cur.lvl \in Nat
    <2>1. cur.lvl <= cur.top /\ cur.lvl \in Nat /\ cur.top \in Int
      BY SearchFacts
    <2> QED
      BY <2>1
  <1>2. 2 * Slots \in Nat /\ Slots \in Nat /\ cur.at \in 1..Slots
    BY RankTypes DEF RankTyped
  <1>3. (cur.top - cur.lvl) * (2 * Slots) \in Nat
    BY <1>1, <1>2, Products
  <1>4. (IF cur.local THEN Slots ELSE 0) \in Nat /\ Slots - cur.at \in Nat
    BY <1>2
  <1> DEFINE W == (cur.top - cur.lvl) * (2 * Slots)
             B == IF cur.local THEN Slots ELSE 0
             C == Slots - cur.at
  <1>5. SearchLeft = W + B + C
    BY DEF SearchLeft
  <1>6. W \in Nat /\ B \in Nat /\ C \in Nat
    BY <1>3, <1>4
  <1> HIDE DEF W, B, C
  <1>7. SearchLeft \in Nat
    BY <1>5, <1>6
  <1> QED
    BY <1>1, <1>3, <1>7

\* The rank in each phase of a call.
PhaseRanked ==
    /\ pc = "find" => StepsLeft = SearchLeft + Len(call.name) * (2 * Slots) + 2 * Slots + 2
    /\ pc = "parent" => StepsLeft = SearchLeft + Slots + 2
    /\ pc = "scan" => StepsLeft = Slots - cur.at + 2
    /\ pc \in {"createBlock", "removeBlock"} => StepsLeft = 1
    /\ pc = "idle" => StepsLeft = 0

LEMMA RankOfPhase == PhaseRanked
  BY DEF StepsLeft, PhaseRanked

RankedPositive ==
    /\ StepsLeft \in Nat
    /\ pc # "idle" => StepsLeft >= 1
    /\ pc \notin {"idle", "createBlock", "removeBlock"} => StepsLeft >= 2

LEMMA RankPositive == IndInv => RankedPositive
  <1> SUFFICES ASSUME IndInv PROVE RankedPositive
    OBVIOUS
  <1>1. pc \in {"idle", "find", "parent", "scan", "createBlock", "removeBlock"}
    BY DEF IndInv, TypeOK
  <1>2. RankTyped
    BY RankTypes
  <1>3. CASE pc \in {"find", "parent"}
    <2>1. SearchLeft \in Nat
      BY <1>3, SearchRank DEF SearchRanked, Searching
    <2> DEFINE L == Len(call.name) * (2 * Slots)
    <2>2. L \in Nat /\ Slots \in Nat
      BY NameRank, ConstantFacts DEF NameRanked
    <2>3. \/ StepsLeft = SearchLeft + L + 2 * Slots + 2
          \/ StepsLeft = SearchLeft + Slots + 2
      BY <1>3, RankOfPhase DEF PhaseRanked
    <2> HIDE DEF L
    <2>4. StepsLeft \in Nat /\ StepsLeft >= 2
      BY <2>1, <2>2, <2>3
    <2> QED
      BY <2>4 DEF RankedPositive
  <1>4. CASE pc = "scan"
    <2>1. StepsLeft = Slots - cur.at + 2 /\ Slots \in Nat /\ cur.at \in 1..Slots
      BY <1>2, <1>4, RankOfPhase DEF PhaseRanked, RankTyped
    <2> QED
      BY <2>1 DEF RankedPositive
  <1>5. CASE pc \in {"createBlock", "removeBlock"}
    BY <1>5, RankOfPhase DEF PhaseRanked, RankedPositive
  <1>6. CASE pc = "idle"
    BY <1>6, RankOfPhase DEF PhaseRanked, RankedPositive
  <1> QED
    BY <1>1, <1>3, <1>4, <1>5, <1>6

\* The same of the state after a step.
LEMMA RankNext ==
    IndInv' => RankTyped' /\ NameRanked' /\ SearchRanked' /\ PhaseRanked' /\ RankedPositive'
  BY RankTypes, NameRank, SearchRank, RankOfPhase, RankPositive, PTL

\* A move of the search that lowers what is left of it lowers the rank.
LEMMA SearchMoveDescends ==
    ASSUME IndInv, IndInv', Searching, UNCHANGED <<pc, call>>, SearchLeft' < SearchLeft
    PROVE  StepsLeft' < StepsLeft
  <1>1. Searching' /\ pc' \in {"find", "parent"} /\ pc \in {"find", "parent"}
    BY DEF Searching
  <1>2. SearchLeft \in Nat
    BY SearchRank DEF SearchRanked
  <1>3. SearchLeft' \in Nat
    BY <1>1, RankNext DEF SearchRanked
  <1>4. /\ pc = "find" =>
             StepsLeft' = SearchLeft' + Len(call.name) * (2 * Slots) + 2 * Slots + 2
        /\ pc = "parent" => StepsLeft' = SearchLeft' + Slots + 2
    BY RankNext DEF PhaseRanked
  <1>5. CASE pc = "find"
    <2>1. StepsLeft = SearchLeft + Len(call.name) * (2 * Slots) + 2 * Slots + 2
      BY <1>5, RankOfPhase DEF PhaseRanked
    <2> DEFINE L == Len(call.name) * (2 * Slots)
    <2>2. L \in Nat /\ Slots \in Nat
      BY NameRank, ConstantFacts DEF NameRanked
    <2>3. /\ StepsLeft = SearchLeft + (L + 2 * Slots + 2)
          /\ StepsLeft' = SearchLeft' + (L + 2 * Slots + 2)
      <3>1. /\ StepsLeft = SearchLeft + L + 2 * Slots + 2
            /\ StepsLeft' = SearchLeft' + L + 2 * Slots + 2
        BY <1>4, <1>5, <2>1
      <3> HIDE DEF L
      <3> QED
        BY <1>2, <1>3, <2>2, <3>1
    <2> HIDE DEF L
    <2>4. L + 2 * Slots + 2 \in Int
      BY <2>2
    <2> QED
      BY <1>2, <1>3, <2>3, <2>4, Shifted
  <1>6. CASE pc = "parent"
    <2>1. StepsLeft = SearchLeft + (Slots + 2) /\ StepsLeft' = SearchLeft' + (Slots + 2)
      BY <1>2, <1>3, <1>4, <1>6, ConstantFacts, RankOfPhase DEF PhaseRanked
    <2>2. Slots + 2 \in Int
      BY ConstantFacts
    <2> QED
      BY <1>2, <1>3, <2>1, <2>2, Shifted
  <1> QED
    BY <1>1, <1>5, <1>6

LEMMA FindNextDescends == IndInv /\ IndInv' /\ FindNext => StepsLeft' < StepsLeft
  <1> SUFFICES ASSUME IndInv, IndInv', FindNext PROVE StepsLeft' < StepsLeft
    OBVIOUS
  <1>1. /\ Searching /\ UNCHANGED <<disk, pc, call>>
        /\ cur' = [cur EXCEPT !.at = disk[cur.at].next] /\ disk[cur.at].next # 0
    BY DEF FindNext
  <1>2. disk[cur.at].next = cur.at + 1
    BY <1>1, CursorFacts
  <1>3. /\ cur'.at = cur.at + 1 /\ cur'.lvl = cur.lvl /\ cur'.top = cur.top
        /\ cur'.local = cur.local
    BY <1>1, <1>2 DEF IndInv, TypeOK
  <1> DEFINE W == (cur.top - cur.lvl) * (2 * Slots)
             B == IF cur.local THEN Slots ELSE 0
  <1>4. W \in Nat /\ B \in Nat /\ SearchLeft = W + B + (Slots - cur.at)
    <2>1. SearchLeft = W + B + (Slots - cur.at)
      BY DEF SearchLeft
    <2>2. B \in Nat
      BY ConstantFacts
    <2> QED
      BY <1>1, <2>1, <2>2, SearchRank DEF SearchRanked
  <1>5. SearchLeft' = W + B + (Slots - (cur.at + 1))
    BY <1>3 DEF SearchLeft
  <1> HIDE DEF W, B
  <1>6. SearchLeft' < SearchLeft
    BY <1>4, <1>5, RankTypes DEF RankTyped
  <1> QED
    BY <1>1, <1>6, SearchMoveDescends

LEMMA FindFallbackDescends == IndInv /\ IndInv' /\ FindFallback => StepsLeft' < StepsLeft
  <1> SUFFICES ASSUME IndInv, IndInv', FindFallback PROVE StepsLeft' < StepsLeft
    OBVIOUS
  <1>1. /\ Searching /\ UNCHANGED <<disk, pc, call>> /\ cur.local
        /\ cur' = [cur EXCEPT !.at = 1, !.local = FALSE]
    BY DEF FindFallback
  <1>2. /\ cur'.at = 1 /\ cur'.lvl = cur.lvl /\ cur'.top = cur.top
        /\ ~cur'.local
    BY <1>1 DEF IndInv, TypeOK
  <1> DEFINE W == (cur.top - cur.lvl) * (2 * Slots)
  <1>3. W \in Nat /\ SearchLeft = W + Slots + (Slots - cur.at)
    BY <1>1, SearchRank DEF SearchRanked, SearchLeft
  <1>4. SearchLeft' = W + 0 + (Slots - 1)
    BY <1>2 DEF SearchLeft
  <1> HIDE DEF W
  <1>5. SearchLeft' < SearchLeft
    BY <1>3, <1>4, RankTypes DEF RankTyped
  <1> QED
    BY <1>1, <1>5, SearchMoveDescends

\* The search for the next ancestor begins behind the one just found or, after
\* the root, at the start; either costs less than the level that was done.
LEMMA FindAncestorDescends == IndInv /\ IndInv' /\ FindAncestor => StepsLeft' < StepsLeft
  <1> SUFFICES ASSUME IndInv, IndInv', FindAncestor PROVE StepsLeft' < StepsLeft
    OBVIOUS
  <1>1. Searching /\ cur.lvl # cur.top /\ UNCHANGED <<disk, pc, call>>
    BY DEF FindAncestor
  <1>2. /\ cur'.lvl = NextLevel(call.name, cur.lvl) /\ cur'.top = cur.top
        /\ cur'.at \in 1..Slots /\ cur'.local \in BOOLEAN
    <2>1. cur'.lvl = NextLevel(call.name, cur.lvl) /\ cur'.top = cur.top
      BY DEF FindAncestor, IndInv, TypeOK
    <2> QED
      BY <2>1 DEF IndInv, TypeOK
  <1>3. cur.lvl # Len(call.name)
    BY <1>1, SearchFacts, LevelFacts
  <1>4. NextLevel(call.name, cur.lvl) > cur.lvl
    BY <1>3, <1>1, SearchFacts, LevelFacts DEF NextLevel, Levels
  <1>5. cur'.lvl \in Nat /\ cur'.lvl > cur.lvl
    BY <1>2, <1>4 DEF IndInv, TypeOK
  <1> DEFINE V == (cur.top - cur.lvl) * (2 * Slots)
             W == (cur.top - cur'.lvl) * (2 * Slots)
             C == IF cur'.local THEN Slots ELSE 0
  <1>6. V \in Int /\ W \in Int /\ W + 2 * Slots <= V
    <2>1. cur.top - cur'.lvl \in Int /\ cur.top - cur.lvl \in Int
          /\ cur.top - cur'.lvl < cur.top - cur.lvl
      BY <1>5, RankTypes DEF RankTyped
    <2> QED
      BY <2>1, RankTypes, Weights DEF RankTyped
  <1>7. SearchLeft >= V + (Slots - cur.at) /\ SearchLeft \in Int
    <2> DEFINE B == IF cur.local THEN Slots ELSE 0
    <2>1. SearchLeft = V + B + (Slots - cur.at)
      BY DEF SearchLeft
    <2>2. B \in Nat
      BY ConstantFacts
    <2>3. Slots \in Nat /\ cur.at \in Nat
      BY RankTypes DEF RankTyped
    <2> HIDE DEF B, V
    <2> QED
      BY <1>6, <2>1, <2>2, <2>3
  <1>8. SearchLeft' = W + C + (Slots - cur'.at) /\ C \in 0..Slots
    <2>1. C \in 0..Slots
      BY ConstantFacts
    <2>2. SearchLeft' = W + C + (Slots - cur'.at)
      BY <1>2 DEF SearchLeft
    <2> QED
      BY <2>1, <2>2
  <1> HIDE DEF V, W, C
  <1>9. SearchLeft' < SearchLeft
    <2>1. cur'.at \in Nat /\ cur'.at >= 1 /\ cur.at \in Nat /\ cur.at <= Slots /\ Slots \in Nat
      BY <1>2, RankTypes DEF RankTyped
    <2> QED
      BY <1>6, <1>7, <1>8, <2>1
  <1> QED
    BY <1>1, <1>9, SearchMoveDescends

\* The search for the parent is shorter than that for the name.
LEMMA FindParentDescends == IndInv /\ IndInv' /\ FindParent => StepsLeft' < StepsLeft
  <1> SUFFICES ASSUME IndInv, IndInv', FindParent PROVE StepsLeft' < StepsLeft
    OBVIOUS
  <1>1. /\ pc = "find" /\ pc' = "parent" /\ Searching
        /\ cur' = [top |-> ParentLevel(call.name), lvl |-> 0, at |-> 1, local |-> FALSE, lba |-> 1]
    BY DEF FindParent, FindFrom, Searching
  <1>2. ParentLevel(call.name) \in Int /\ ParentLevel(call.name) < Len(call.name)
    BY RankTypes, LevelFacts DEF RankTyped
  <1> DEFINE L == Len(call.name) * (2 * Slots)
             P == ParentLevel(call.name) * (2 * Slots)
  <1>3. L \in Int /\ P \in Int /\ P + 2 * Slots <= L
    <2>1. Len(call.name) \in Int /\ 2 * Slots \in Nat
      BY RankTypes DEF RankTyped
    <2> QED
      BY <1>2, <2>1, Weights
  <1>4. StepsLeft = SearchLeft + L + 2 * Slots + 2 /\ SearchLeft \in Nat
    BY <1>1, RankOfPhase, SearchRank DEF PhaseRanked, SearchRanked
  <1>5. StepsLeft' = SearchLeft' + Slots + 2
    BY <1>1, RankNext DEF PhaseRanked
  <1>6. SearchLeft' = P + 0 + (Slots - 1)
    <2>1. SearchLeft' = (ParentLevel(call.name) - 0) * (2 * Slots) + 0 + (Slots - 1)
      BY <1>1 DEF SearchLeft
    <2>2. ParentLevel(call.name) - 0 = ParentLevel(call.name)
      BY <1>2
    <2> QED
      BY <2>1, <2>2
  <1> HIDE DEF L, P
  <1> QED
    BY <1>3, <1>4, <1>5, <1>6, ConstantFacts

LEMMA ScanDescends ==
    ASSUME IndInv, IndInv', pc' = "scan",
           (pc = "scan" /\ cur'.at = cur.at + 1) \/ pc = "parent"
    PROVE  StepsLeft' < StepsLeft
  <1>1. StepsLeft' = Slots - cur'.at + 2 /\ cur'.at \in 1..Slots
    BY RankNext DEF PhaseRanked, RankTyped
  <1>2. CASE pc = "scan"
    BY <1>1, <1>2, RankTypes, RankOfPhase DEF RankTyped, PhaseRanked
  <1>3. CASE pc = "parent"
    <2>1. StepsLeft = SearchLeft + Slots + 2 /\ SearchLeft \in Nat
      BY <1>3, RankOfPhase, SearchRank DEF Searching, PhaseRanked, SearchRanked
    <2> QED
      BY <1>1, <2>1, ConstantFacts
  <1> QED
    BY <1>2, <1>3

\* A step that ends the call, or leaves it one write.
LEMMA EndDescends ==
    ASSUME IndInv, IndInv', pc # "idle",
           \/ pc' = "idle"
           \/ /\ pc \notin {"createBlock", "removeBlock"}
              /\ pc' \in {"createBlock", "removeBlock"}
    PROVE  StepsLeft' < StepsLeft
  <1>1. CASE pc' = "idle"
    <2>1. StepsLeft' = 0
      BY <1>1, RankNext DEF PhaseRanked
    <2> QED
      BY <2>1, RankPositive DEF RankedPositive
  <1>2. CASE pc \notin {"createBlock", "removeBlock"} /\ pc' \in {"createBlock", "removeBlock"}
    <2>1. StepsLeft' = 1
      BY <1>2, RankNext DEF PhaseRanked
    <2> QED
      BY <1>2, <2>1, RankPositive DEF RankedPositive
  <1> QED
    BY <1>1, <1>2

LEMMA StepDescends ==
    ASSUME IndInv, IndInv', pc # "idle", Next
    PROVE  StepsLeft' < StepsLeft
  <1>1. ~Call
    BY DEF Call, CreateCatalog, GetCatalog, RemoveCatalog
  <1>2. CASE FindAncestor \/ FindNext \/ FindFallback \/ FindParent
    BY <1>2, FindAncestorDescends, FindNextDescends, FindFallbackDescends, FindParentDescends
  <1>3. CASE FindReturn \/ ScanReturn \/ CreateBlock \/ RemoveBlock \/ Crash
    BY <1>3, EndDescends DEF FindReturn, ScanReturn, CreateBlock, RemoveBlock, Crash, Return
  <1>4. CASE ParentReturn
    <2>1. pc = "parent" /\ pc' \in {"idle", "scan"}
      BY <1>4 DEF ParentReturn, ScanFrom, Return
    <2> QED
      BY <2>1, EndDescends, ScanDescends
  <1>5. CASE ScanNext
    <2>1. pc = "scan" /\ pc' = "scan" /\ cur'.at = cur.at + 1
      BY <1>5 DEF ScanNext, IndInv, TypeOK
    <2> QED
      BY <2>1, ScanDescends
  <1>6. CASE WriteNewCatalog
    BY <1>6, EndDescends DEF WriteNewCatalog
  <1>7. CASE MarkDeleted \/ RemoveMissing
    <2>1. pc \in {"find", "parent"} /\ pc' \in {"idle", "removeBlock"}
      BY <1>7 DEF MarkDeleted, RemoveMissing, Found, NotFound, Searching, Return
    <2> QED
      BY <2>1, EndDescends
  <1> QED
    BY <1>1, <1>2, <1>3, <1>4, <1>5, <1>6, <1>7 DEF Next, Step

\* Every disk access brings CreateCatalog, GetCatalog and RemoveCatalog nearer
\* to their return: no walk of the list, no fallback and no level of the
\* recursion ever repeats.
THEOREM CallsAlwaysDescend == Spec => CallsDescend
  <1>1. IndInv /\ [Next]_vars => IndInv'
    BY NextInv
  <1>2. IndInv /\ IndInv' /\ [Next]_vars => [pc # "idle" => StepsLeft' < StepsLeft]_vars
    BY StepDescends
  <1> QED
    BY <1>1, <1>2, Invariance, PTL DEF Spec, CallsDescend

Budgeted ==
    /\ CallBudget \in Nat
    /\ CallBudget = 2 * (Len(call.name) * (2 * Slots)) + 3 * Slots + 1

LEMMA BudgetTypes == IndInv => Budgeted
  <1> SUFFICES ASSUME IndInv PROVE Budgeted
    OBVIOUS
  <1> DEFINE l == Len(call.name)
             L == l * (2 * Slots)
  <1>1. l \in Nat /\ Slots \in Nat /\ L \in Nat
    BY RankTypes, NameRank DEF RankTyped, NameRanked
  <1>2. CallBudget = l * (4 * Slots) + 3 * Slots + 1
    BY DEF CallBudget
  <1> HIDE DEF l
  <1>3. l * (4 * Slots) = 2 * L
    BY <1>1
  <1> HIDE DEF L
  <1>4. CallBudget = 2 * L + 3 * Slots + 1 /\ CallBudget \in Nat
    BY <1>1, <1>2, <1>3
  <1> QED
    BY <1>4 DEF L, l, Budgeted

LEMMA BudgetNext == IndInv' => Budgeted'
  BY BudgetTypes, PTL

\* A call begins with its whole budget.
LEMMA CallBudgets ==
    ASSUME IndInv', pc' = "find", cur' = FindFrom(Len(call'.name))
    PROVE  StepsLeft' = CallBudget'
  <1> DEFINE L == Len(call'.name) * (2 * Slots)
  <1>1. L \in Nat /\ Slots \in Nat /\ Len(call'.name) \in Nat
    BY RankNext DEF RankTyped, NameRanked
  <1>2. StepsLeft' = SearchLeft' + L + 2 * Slots + 2
    BY RankNext DEF PhaseRanked
  <1>3. SearchLeft' = L + 0 + (Slots - 1)
    <2>1. SearchLeft' = (Len(call'.name) - 0) * (2 * Slots) + 0 + (Slots - 1)
      BY DEF SearchLeft, FindFrom
    <2>2. Len(call'.name) - 0 = Len(call'.name)
      BY <1>1
    <2> QED
      BY <2>1, <2>2
  <1>4. CallBudget' = 2 * L + 3 * Slots + 1
    BY BudgetNext DEF Budgeted
  <1> HIDE DEF L
  <1> QED
    BY <1>1, <1>2, <1>3, <1>4

LEMMA StepBounded ==
    ASSUME IndInv, IndInv', CallsBounded, [Next]_vars
    PROVE  CallsBounded'
  <1>1. StepsLeft \in Nat /\ StepsLeft <= CallBudget /\ CallBudget \in Nat
    BY RankPositive, BudgetTypes DEF CallsBounded, RankedPositive, Budgeted
  <1>2. StepsLeft' \in Nat /\ CallBudget' \in Nat
    BY RankNext, BudgetNext DEF RankedPositive, Budgeted
  <1> SUFFICES StepsLeft' <= CallBudget'
    BY <1>2 DEF CallsBounded
  <1>3. CASE pc' = "idle"
    BY <1>2, <1>3, RankNext DEF PhaseRanked
  <1>4. CASE pc' # "idle" /\ pc = "idle" /\ Next
    <2>1. pc' = "find" /\ cur' = FindFrom(Len(call'.name))
      BY <1>4 DEF Next, Call, CreateCatalog, GetCatalog, RemoveCatalog, StartFind, Step, Crash,
         FindAncestor, FindNext, FindFallback, FindReturn, FindParent, ParentReturn, ScanReturn,
         ScanNext, WriteNewCatalog, CreateBlock, MarkDeleted, RemoveMissing, RemoveBlock,
         Found, NotFound, Searching
    <2> QED
      BY <1>2, <2>1, CallBudgets
  <1>5. CASE pc' # "idle" /\ pc # "idle" /\ Next
    <2>1. call' = call
      BY <1>5 DEF Next, Call, CreateCatalog, GetCatalog, RemoveCatalog, Step, Crash, Return,
         FindAncestor, FindNext, FindFallback, FindReturn, FindParent, ParentReturn, ScanReturn,
         ScanNext, WriteNewCatalog, CreateBlock, MarkDeleted, RemoveMissing, RemoveBlock, ScanFrom
    <2>2. CallBudget' = CallBudget
      BY <2>1 DEF CallBudget
    <2>3. StepsLeft' < StepsLeft
      BY <1>5, StepDescends
    <2> QED
      BY <1>1, <1>2, <2>2, <2>3
  <1>6. CASE UNCHANGED vars
    BY <1>1, <1>6 DEF vars, StepsLeft, SearchLeft, CallBudget
  <1> QED
    BY <1>3, <1>4, <1>5, <1>6

\* A call on a name of l components returns after at most 4 l + 3 passes over
\* the catalog slots and one more access, whatever is on the disk.
THEOREM CallsStayBounded == Spec => []CallsBounded
  <1>1. Init => CallsBounded
    <2> SUFFICES ASSUME Init PROVE CallsBounded
      OBVIOUS
    <2>1. IndInv /\ pc = "idle"
      BY InitInv DEF Init
    <2>2. StepsLeft = 0 /\ CallBudget \in Nat
      BY <2>1, RankOfPhase, BudgetTypes DEF PhaseRanked, Budgeted
    <2> QED
      BY <2>2 DEF CallsBounded
  <1>2. IndInv /\ IndInv' /\ CallsBounded /\ [Next]_vars => CallsBounded'
    BY StepBounded
  <1> QED
    BY <1>1, <1>2, Invariance, PTL DEF Spec

=============================================================================
