-------------------------- MODULE KernelHeapProofs --------------------------
(***************************************************************************)
(* Proofs about KernelHeap, for any callers, contents and checksum.        *)
(***************************************************************************)
EXTENDS KernelHeap, TLAPS

\* As long as no header is written above the start, the start is found.
LEMMA StartFound == ~bitmap[1].magic => \A size \in Sizes : FindBitMap(size) = {0}
  BY DEF FindBitMap

\* The same after a step.
LEMMA StartFoundNext == ~bitmap'[1].magic => (\A size \in Sizes : FindBitMap(size) # {})'
  BY DEF FindBitMap

\* The information block at the start has its type.
LEMMA HibTyped == TypeOK => hib[0] \in Hib
  BY DEF TypeOK, Pages

\* So has the one of a new block,
LEMMA NewHibTyped == \A h \in Hib, user \in BOOLEAN : NewHib(h, user) \in Hib
  BY DEF NewHib, Hib

\* and that of a freed one.
LEMMA FreedHibTyped == \A h \in Hib : FreedHib(h) \in Hib /\ ~FreedHib(h).fMagic
  BY DEF FreedHib, Hib

\* The heap before the first allocation.
LEMMA HeapInit == Init => HeapInv
  <1> SUFFICES ASSUME Init PROVE HeapInv
    OBVIOUS
  <1>1. ~bitmap[1].magic /\ ~hib[1].fMagic /\ ~hib[0].fMagic /\ guard[1] = {} /\ guard[0] = {}
    BY DEF Init, NoHib, Pages
  <1>2. hib \in [Pages -> Hib]
    BY DEF Init, NoHib, Hib
  <1>3. bitmap \in [Pages -> [magic : BOOLEAN, size : Sizes, used : BOOLEAN]]
    BY HeapAssumption DEF Init, Sizes
  <1>4. ret \in [op : {"none", "new", "delete", "protect", "isvalid", "make"},
                 by : SUBSET Callers,
                 code : {"none", "null", "block", "stopped", "yes", "no", "kErrorSuccess",
                         "kErrorInternal", "kErrorHeapNotPresent"}]
    BY DEF Init
  <1>5. \A size \in Sizes : FindBitMap(size) # {}
    BY <1>1, StartFound
  <1>6. /\ data \in [Pages -> Contents]
        /\ ptr \in [Callers -> Pages \cup {NoPtr, NullPtr}]
        /\ owns \subseteq {a \in Callers : ptr[a] \in Pages}
        /\ guard \in [Pages -> {{c} : c \in Contents} \cup {{}}]
        /\ halted \in BOOLEAN
    BY DEF Init
  <1>7. news \in 0..MaxNews /\ frees \in 0..MaxNews /\ news = 0 /\ frees = 0
    BY HeapAssumption DEF Init
  <1>8. TypeOK
    BY <1>2, <1>3, <1>4, <1>5, <1>6, <1>7 DEF TypeOK
  <1>9. FreesWithinNews
    BY <1>1, <1>7 DEF FreesWithinNews, Present, Pages
  <1>10. \A a \in Callers : ptr[a] # 1
    BY HeapAssumption DEF Init
  <1> QED
    BY <1>1, <1>8, <1>9, <1>10 DEF HeapInv

\* An allocation takes the block at the start, whoever owns it.
LEMMA NewStep ==
  ASSUME HeapInv, NEW a \in Callers, NEW size \in Sizes, NEW user \in BOOLEAN,
         New(a, size, user)
  PROVE  HeapInv'
  <1>1. CASE /\ size = 0
             /\ ptr' = [ptr EXCEPT ![a] = NullPtr]
             /\ Returns(a, "new", "null")
             /\ UNCHANGED <<bitmap, hib, owns, guard, news, halted, data, frees>>
             /\ a \notin owns
    BY <1>1, HeapAssumption
       DEF HeapInv, TypeOK, Returns, FreesWithinNews, Present, Pages, FindBitMap
  <1>2. CASE /\ halted' = TRUE
             /\ Returns(a, "new", "stopped")
             /\ UNCHANGED <<bitmap, hib, ptr, owns, guard, news, data, frees>>
    BY <1>2 DEF HeapInv, TypeOK, Returns, FreesWithinNews, Present, FindBitMap
  <1>3. CASE /\ size > 0
             /\ \E b \in FindBitMap(size) :
                  /\ bitmap' = [bitmap EXCEPT ![b] = [magic |-> TRUE, size |-> size, used |-> TRUE]]
                  /\ hib' = [hib EXCEPT ![b] = NewHib(@, user)]
                  /\ ptr' = [ptr EXCEPT ![a] = b]
                  /\ guard' = [guard EXCEPT ![b] = {}]
             /\ owns' = owns \cup {a}
             /\ news < MaxNews
             /\ news' = news + 1
             /\ Returns(a, "new", "block")
             /\ UNCHANGED <<halted, data, frees>>
    <2>1. /\ bitmap' = [bitmap EXCEPT ![0] = [magic |-> TRUE, size |-> size, used |-> TRUE]]
          /\ hib' = [hib EXCEPT ![0] = NewHib(hib[0], user)]
          /\ ptr' = [ptr EXCEPT ![a] = 0]
          /\ guard' = [guard EXCEPT ![0] = {}]
      <3>1. FindBitMap(size) = {0}
        BY StartFound DEF HeapInv
      <3>2. PICK b \in FindBitMap(size) :
                 /\ bitmap' = [bitmap EXCEPT ![b] = [magic |-> TRUE, size |-> size, used |-> TRUE]]
                 /\ hib' = [hib EXCEPT ![b] = NewHib(hib[b], user)]
                 /\ ptr' = [ptr EXCEPT ![a] = b]
                 /\ guard' = [guard EXCEPT ![b] = {}]
        BY <1>3
      <3>3. b = 0
        BY <3>1
      <3> QED
        BY <3>2, <3>3
    <2>2. NewHib(hib[0], user) \in Hib
      BY HibTyped, NewHibTyped DEF HeapInv
    <2>3. hib' \in [Pages -> Hib] /\ hib'[1] = hib[1]
      BY <2>1, <2>2 DEF HeapInv, TypeOK, Pages
    <2>4. /\ bitmap' \in [Pages -> [magic : BOOLEAN, size : Sizes, used : BOOLEAN]]
          /\ ~bitmap'[1].magic
      BY <2>1 DEF HeapInv, TypeOK, Pages
    <2>5. /\ ptr' \in [Callers -> Pages \cup {NoPtr, NullPtr}]
          /\ owns' \subseteq {c \in Callers : ptr'[c] \in Pages}
          /\ \A c \in Callers : ptr'[c] # 1
      BY <1>3, <2>1 DEF HeapInv, TypeOK, Pages
    <2>6. /\ guard' \in [Pages -> {{c} : c \in Contents} \cup {{}}]
          /\ guard'[0] = {} /\ guard'[1] = {}
      BY <2>1 DEF HeapInv, TypeOK, Pages
    <2>7. /\ news' \in 0..MaxNews /\ frees' \in 0..MaxNews
          /\ frees' <= news' /\ frees' < news'
      BY <1>3, HeapAssumption DEF HeapInv, TypeOK, FreesWithinNews
    <2>8. /\ halted' \in BOOLEAN /\ data' \in [Pages -> Contents]
          /\ ret' \in [op : {"none", "new", "delete", "protect", "isvalid", "make"},
                       by : SUBSET Callers,
                       code : {"none", "null", "block", "stopped", "yes", "no", "kErrorSuccess",
                               "kErrorInternal", "kErrorHeapNotPresent"}]
      BY <1>3 DEF HeapInv, TypeOK, Returns
    <2>9. (\A s \in Sizes : FindBitMap(s) # {})'
      BY <2>4, StartFoundNext
    <2>10. TypeOK'
      BY <2>3, <2>4, <2>5, <2>6, <2>7, <2>8, <2>9 DEF TypeOK
    <2>11. FreesWithinNews'
      BY <2>7 DEF FreesWithinNews
    <2>12. ~hib'[1].fMagic
      BY <2>3 DEF HeapInv
    <2> QED
      BY <2>4, <2>5, <2>6, <2>10, <2>11, <2>12 DEF HeapInv
  <1> QED
    BY <1>1, <1>2, <1>3 DEF New

\* A delete is refused, stops the kernel, or clears the block at the start.
LEMMA DeleteStep ==
  ASSUME HeapInv, NEW a \in Callers, Delete(a)
  PROVE  HeapInv'
  <1>1. \A b \in Pages : Holds(a, b) => b = 0
    BY DEF Holds, HeapInv, Pages
  <1>2. ASSUME NEW code \in {"kErrorHeapNotPresent", "kErrorInternal"}, Refuse(a, code),
               owns' = owns \ {a}, UNCHANGED <<data, ptr, news>>
        PROVE  HeapInv'
    BY <1>2 DEF HeapInv, TypeOK, Refuse, Returns, FreesWithinNews, Present, FindBitMap
  <1>3. CASE /\ halted' = TRUE
             /\ Returns(a, "delete", "stopped")
             /\ owns' = owns \ {a}
             /\ UNCHANGED <<bitmap, hib, guard, frees, data, ptr, news>>
    BY <1>3 DEF HeapInv, TypeOK, Returns, FreesWithinNews, Present, FindBitMap
  <1>4. ASSUME NEW b \in Pages, Holds(a, b), Present(b),
               hib' = [hib EXCEPT ![b] = FreedHib(@)],
               \E used \in {FALSE, bitmap[b].used} : bitmap' = [bitmap EXCEPT ![b].used = used],
               guard' = [guard EXCEPT ![b] = {}],
               frees' = frees + 1,
               Returns(a, "delete", "kErrorSuccess"),
               owns' = owns \ {a},
               UNCHANGED <<halted, data, ptr, news>>
        PROVE  HeapInv'
    <2>1. b = 0
      BY <1>1, <1>4
    <2>2. FreedHib(hib[0]) \in Hib /\ ~FreedHib(hib[0]).fMagic
      BY HibTyped, FreedHibTyped DEF HeapInv
    <2>3. hib' \in [Pages -> Hib] /\ hib'[1] = hib[1] /\ ~hib'[0].fMagic /\ ~hib'[1].fMagic
      BY <1>4, <2>1, <2>2 DEF HeapInv, TypeOK, Pages
    <2>4. PICK used \in {FALSE, bitmap[0].used} : bitmap' = [bitmap EXCEPT ![0].used = used]
      BY <1>4, <2>1
    <2>5. used \in BOOLEAN
      <3>1. bitmap[0] \in [magic : BOOLEAN, size : Sizes, used : BOOLEAN]
        BY DEF HeapInv, TypeOK, Pages
      <3>2. bitmap[0].used \in BOOLEAN
        BY <3>1
      <3> QED
        BY <2>4, <3>2
    <2>6. /\ bitmap' \in [Pages -> [magic : BOOLEAN, size : Sizes, used : BOOLEAN]]
          /\ ~bitmap'[1].magic
      BY <2>4, <2>5 DEF HeapInv, TypeOK, Pages
    <2>7. /\ guard' \in [Pages -> {{c} : c \in Contents} \cup {{}}]
          /\ guard'[0] = {} /\ guard'[1] = {}
      BY <1>4, <2>1 DEF HeapInv, TypeOK, Pages
    <2>8. frees' \in 0..MaxNews /\ frees' <= news' /\ news' \in 0..MaxNews
      BY <1>4, <2>1, HeapAssumption DEF HeapInv, TypeOK, FreesWithinNews
    <2>9. (\A s \in Sizes : FindBitMap(s) # {})'
      BY <2>6, StartFoundNext
    <2>10. /\ halted' \in BOOLEAN /\ data' \in [Pages -> Contents]
           /\ ptr' \in [Callers -> Pages \cup {NoPtr, NullPtr}]
           /\ owns' \subseteq {c \in Callers : ptr'[c] \in Pages}
           /\ \A c \in Callers : ptr'[c] # 1
           /\ ret' \in [op : {"none", "new", "delete", "protect", "isvalid", "make"},
                        by : SUBSET Callers,
                        code : {"none", "null", "block", "stopped", "yes", "no", "kErrorSuccess",
                                "kErrorInternal", "kErrorHeapNotPresent"}]
      BY <1>4 DEF HeapInv, TypeOK, Returns
    <2>11. TypeOK'
      BY <2>3, <2>6, <2>7, <2>8, <2>9, <2>10 DEF TypeOK
    <2>12. FreesWithinNews'
      BY <2>3, <2>8 DEF FreesWithinNews, Present, Pages
    <2> QED
      BY <2>3, <2>6, <2>7, <2>10, <2>11, <2>12 DEF HeapInv
  <1> QED
    BY <1>2, <1>3, <1>4 DEF Delete

\* A checksum goes with the contents it was computed from.
LEMMA ProtectStep ==
  ASSUME HeapInv, NEW a \in Callers, Protect(a)
  PROVE  HeapInv'
  BY HeapAssumption
     DEF HeapInv, TypeOK, Protect, Holds, Returns, FreesWithinNews, Present, Pages, Sizes, Hib, FindBitMap

\* A query changes nothing.
LEMMA IsValidStep ==
  ASSUME HeapInv, NEW a \in Callers, IsValid(a)
  PROVE  HeapInv'
  BY DEF HeapInv, TypeOK, IsValid, Returns, FreesWithinNews, Present, FindBitMap

\* mm_make_page and mm_make_flags touch neither magic nor checksum.
LEMMA MakeStep ==
  ASSUME HeapInv, NEW a \in Callers, NEW page \in BOOLEAN, NEW flags \in 0..1,
         Make(a, page, flags)
  PROVE  HeapInv'
  <1>1. \A h \in Hib : /\ Made(h, page, flags) \in Hib
                       /\ Made(h, page, flags).fMagic = h.fMagic
                       /\ Made(h, page, flags).fPresent = h.fPresent
                       /\ Made(h, page, flags).fCRC32 = h.fCRC32
    BY DEF Made, Hib
  <1>2. hib' = [b \in Pages |-> IF Holds(a, b) THEN Made(hib[b], page, flags) ELSE hib[b]]
    BY DEF Make
  <1>3. /\ hib' \in [Pages -> Hib]
        /\ \A b \in Pages : /\ hib'[b].fMagic = hib[b].fMagic
                            /\ hib'[b].fPresent = hib[b].fPresent
                            /\ hib'[b].fCRC32 = hib[b].fCRC32
    BY <1>1, <1>2 DEF HeapInv, TypeOK
  <1>4. ret' \in [op : {"none", "new", "delete", "protect", "isvalid", "make"},
                  by : SUBSET Callers,
                  code : {"none", "null", "block", "stopped", "yes", "no", "kErrorSuccess",
                          "kErrorInternal", "kErrorHeapNotPresent"}]
    BY DEF Make, Returns
  <1>5. UNCHANGED <<bitmap, data, ptr, owns, guard, news, frees, halted>>
    BY DEF Make
  <1>6. TypeOK'
    BY <1>3, <1>4, <1>5 DEF HeapInv, TypeOK, FindBitMap
  <1>7. FreesWithinNews'
    BY <1>3, <1>5 DEF HeapInv, FreesWithinNews, Present
  <1> QED
    BY <1>3, <1>5, <1>6, <1>7 DEF HeapInv, Pages

\* Writing to the block leaves what is kept about it.
LEMMA WriteStep ==
  ASSUME HeapInv, NEW a \in Callers, NEW c \in Contents, Write(a, c)
  PROVE  HeapInv'
  BY HeapAssumption
     DEF HeapInv, TypeOK, Write, FreesWithinNews, Present, Pages, FindBitMap

\* Every call keeps the invariant.
LEMMA HeapNext == HeapInv /\ [Next]_vars => HeapInv'
  <1> SUFFICES ASSUME HeapInv, [Next]_vars PROVE HeapInv'
    OBVIOUS
  <1>1. CASE UNCHANGED vars
    BY <1>1 DEF vars, HeapInv, TypeOK, FreesWithinNews, Present, FindBitMap
  <1>2. CASE Next
    BY <1>2, NewStep, DeleteStep, ProtectStep, IsValidStep, MakeStep, WriteStep DEF Next
  <1> QED
    BY <1>1, <1>2

\* The inductive invariant of the heap.
THEOREM HeapInvariant == Spec => []HeapInv
  BY HeapInit, HeapNext, PTL DEF Spec

\* Every variable of the heap keeps its type, and FindBitMap always finds a page.
THEOREM HeapTyped == Spec => []TypeOK
  <1>1. HeapInv => TypeOK
    BY DEF HeapInv
  <1> QED
    BY <1>1, HeapInvariant, PTL

\* Whatever callers free, twice or for one another, successful deletes never
\* exceed the allocations.
THEOREM FreesBounded == Spec => []FreesWithinNews
  <1>1. HeapInv => FreesWithinNews
    BY DEF HeapInv
  <1> QED
    BY <1>1, HeapInvariant, PTL

\* However many callers allocate, mm_new_heap gives all of them one block.
THEOREM AllocationsAlias == Spec => []OneBlock
  <1>1. HeapInv => OneBlock
    BY DEF HeapInv, TypeOK, OneBlock, Pages
  <1> QED
    BY <1>1, HeapInvariant, PTL

\* mm_delete_heap frees no protected kernel block whose contents have changed.
THEOREM ProtectionHolds == Spec => GuardedUnchanged
  <1>1. ASSUME HeapInv, [Next]_vars, NEW b \in Pages, NEW c \in guard[b],
               frees' > frees, hib'[b] # hib[b], ~hib[b].fUser, Crc[c] # 0
        PROVE  Crc[data[b]] = Crc[c]
    <2>1. b = 0 /\ hib[0].fCRC32 = Crc[c]
      BY <1>1 DEF HeapInv, Pages
    <2>2. frees' # frees
      BY <1>1 DEF HeapInv, TypeOK
    <2>3. \E a \in Callers : Delete(a)
      BY <1>1, <2>2 DEF Next, vars, New, Protect, IsValid, Make, Write
    <2>4. PICK a \in Callers : Delete(a)
      BY <2>3
    <2>5. PICK d \in Pages : Holds(a, d) /\ ~Corrupted(d)
      BY <2>2, <2>4 DEF Delete, Refuse
    <2>6. d = 0
      BY <1>1, <2>5 DEF Holds, HeapInv, Pages
    <2>7. ~Corrupted(0)
      BY <2>5, <2>6
    <2> QED
      BY <1>1, <2>1, <2>7 DEF Corrupted
  <1>2. HeapInv /\ [Next]_vars
          => [\A b \in Pages : \A c \in guard[b] :
                frees' > frees /\ hib'[b] # hib[b] /\ ~hib[b].fUser /\ Crc[c] # 0
                  => Crc[data[b]] = Crc[c]]_vars
    BY <1>1
  <1> QED
    BY <1>2, HeapInvariant, PTL DEF Spec, GuardedUnchanged
=============================================================================
