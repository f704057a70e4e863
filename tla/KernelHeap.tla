----------------------------- MODULE KernelHeap -----------------------------
(***************************************************************************)
(* The kernel heap (src/dev/ZKAKit/src/Heap.cc) on the bitmap allocator    *)
(* (BitMapMgr.cc): what callers get from it, free and protect.  A block    *)
(* is named by its page in the zone.  No caller is assumed to store the    *)
(* magic word of a bitmap into its memory.                                 *)
(***************************************************************************)
EXTENDS Naturals

CONSTANTS
    NoPtr,      \* no pointer yet
    NullPtr,    \* nullptr
    Callers,    \* each holds at most one pointer of the heap
    Contents,   \* what the memory of a block may hold
    Crc,        \* ke_calculate_crc32 of each content
    MaxSize,    \* kKernelHeapMaxSize; a size is a number of units
    MaxNews     \* bound: allocations in a run

ASSUME HeapAssumption ==
    /\ NoPtr # NullPtr
    /\ {NoPtr, NullPtr} \cap {0, 1} = {}
    /\ Crc \in [Contents -> Nat]
    /\ MaxSize \in Nat /\ MaxNews \in Nat

VARIABLES
    bitmap,   \* the bitmap headers
    hib,      \* the heap information blocks
    data,     \* the contents of the blocks
    ptr,      \* the pointer each caller holds
    owns,     \* the callers that have allocated and not yet freed
    guard,    \* per block: its contents when it was protected, if it is
    news,     \* how many allocations have succeeded
    frees,    \* how many deletes have succeeded
    halted,   \* ke_stop was called
    ret       \* what the last call returned

vars == <<bitmap, hib, data, ptr, owns, guard, news, frees, halted, ret>>

\* The two pages of the zone that FindBitMap looks at.
Pages == 0..1
Sizes == 0..MaxSize

Hib == [fMagic : BOOLEAN, fPresent : BOOLEAN, fUser : BOOLEAN, fPage : BOOLEAN,
        fFlags : 0..1, fCRC32 : {Crc[c] : c \in Contents} \cup {0}]

NoHib == [fMagic |-> FALSE, fPresent |-> FALSE, fUser |-> FALSE, fPage |-> FALSE,
          fFlags |-> 0, fCRC32 |-> 0]

Init ==
    /\ bitmap = [b \in Pages |-> [magic |-> FALSE, size |-> 0, used |-> FALSE]]
    /\ hib = [b \in Pages |-> NoHib]
    /\ data \in [Pages -> Contents]
    /\ ptr = [a \in Callers |-> NoPtr]
    /\ owns = {}
    /\ guard = [b \in Pages |-> {}]
    /\ news = 0
    /\ frees = 0
    /\ halted = FALSE
    /\ ret = [op |-> "none", by |-> {}, code |-> "none"]

Returns(a, op, code) == ret' = [op |-> op, by |-> {a}, code |-> code]

-----------------------------------------------------------------------------
FindBitMapFree(size) == IF bitmap[0].used THEN {} ELSE {0}

(***************************************************************************)
(* FindBitMap: the header one page above the start decides.  A free header *)
(* that is not too large there is taken; if there is none, the block at    *)
(* the start is; after any other header the loop ends with null.           *)
(***************************************************************************)
FindBitMap(size) ==
    CASE ~bitmap[1].magic                                                 -> {0}
      [] bitmap[1].magic /\ bitmap[1].size <= size /\ ~bitmap[1].used     -> {1}
      [] OTHER                                                            -> {}

\* The fields mm_new_heap sets; fFlags is not one of them.
NewHib(h, user) ==
    [h EXCEPT !.fMagic = TRUE, !.fPresent = TRUE, !.fCRC32 = 0, !.fUser = user, !.fPage = FALSE]

\* mm_new_heap; a size of 0 gives a null pointer.  At kKernelHeapMaxSize the
\* debug build stops, the release build does not check.
New(a, size, user) ==
    /\ ~halted
    /\ a \notin owns
    /\ news < MaxNews
    /\ \/ /\ size = 0
          /\ ptr' = [ptr EXCEPT ![a] = NullPtr]
          /\ Returns(a, "new", "null")
          /\ UNCHANGED <<bitmap, hib, owns, guard, news, halted>>
       \/ /\ size > 0
          /\ \E b \in FindBitMap(size) :
               /\ bitmap' = [bitmap EXCEPT ![b] = [magic |-> TRUE, size |-> size, used |-> TRUE]]
               /\ hib' = [hib EXCEPT ![b] = NewHib(@, user)]
               /\ ptr' = [ptr EXCEPT ![a] = b]
               /\ guard' = [guard EXCEPT ![b] = {}]
          /\ owns' = owns \cup {a}
          /\ news' = news + 1
          /\ Returns(a, "new", "block")
          /\ UNCHANGED halted
       \/ /\ size = MaxSize
          /\ halted' = TRUE
          /\ Returns(a, "new", "stopped")
          /\ UNCHANGED <<bitmap, hib, ptr, owns, guard, news>>
    /\ UNCHANGED <<data, frees>>

-----------------------------------------------------------------------------
Present(b) == hib[b].fMagic /\ hib[b].fPresent

CorruptedUser(b) == hib[b].fCRC32 # 0 /\ hib[b].fCRC32 # Crc[data[b]] /\ hib[b].fUser

\* The block has a checksum that its contents do not have, and is the kernel's.
Corrupted(b) == hib[b].fCRC32 # 0 /\ hib[b].fCRC32 # Crc[data[b]] /\ ~hib[b].fUser

FreedHibPresent(h) == [h EXCEPT !.fCRC32 = 0, !.fUser = FALSE]

\* The fields mm_delete_heap resets.
FreedHib(h) ==
    [h EXCEPT !.fMagic = FALSE, !.fPresent = FALSE, !.fCRC32 = 0, !.fUser = FALSE]

Holds(a, b) == b \in Pages /\ ptr[a] = b

Refuse(a, code) ==
    /\ Returns(a, "delete", code)
    /\ UNCHANGED <<bitmap, hib, guard, frees, halted>>

(***************************************************************************)
(* mm_delete_heap, with a pointer that the caller or another one may have  *)
(* freed before.  PageMgr::Free gets a reference to a temporary that is    *)
(* gone and may miss the header of the bitmap.                             *)
(***************************************************************************)
Delete(a) ==
    /\ ~halted
    /\ ptr[a] # NoPtr
    /\ owns' = owns \ {a}
    /\ \/ ptr[a] = NullPtr /\ Refuse(a, "kErrorHeapNotPresent")
       \/ \E b \in Pages :
            /\ Holds(a, b) /\ ~Present(b)
            /\ Refuse(a, IF hib[b].fMagic THEN "kErrorHeapNotPresent" ELSE "kErrorInternal")
       \/ \E b \in Pages :
            /\ Holds(a, b) /\ Present(b) /\ Corrupted(b)
            /\ halted' = TRUE
            /\ Returns(a, "delete", "stopped")
            /\ UNCHANGED <<bitmap, hib, guard, frees>>
       \/ \E b \in Pages :
            /\ Holds(a, b) /\ Present(b) /\ ~Corrupted(b)
            /\ hib' = [hib EXCEPT ![b] = FreedHib(@)]
            /\ \E used \in {FALSE, bitmap[b].used} : bitmap' = [bitmap EXCEPT ![b].used = used]
            /\ guard' = [guard EXCEPT ![b] = {}]
            /\ frees' = frees + 1
            /\ Returns(a, "delete", "kErrorSuccess")
            /\ UNCHANGED halted
    /\ UNCHANGED <<data, ptr, news>>

\* mm_protect_heap
Protect(a) ==
    /\ ~halted
    /\ ptr[a] # NoPtr
    /\ \/ \E b \in Pages :
            /\ Holds(a, b) /\ Present(b)
            /\ hib' = [hib EXCEPT ![b].fCRC32 = Crc[data[b]]]
            /\ guard' = [guard EXCEPT ![b] = {data[b]}]
            /\ Returns(a, "protect", "yes")
       \/ /\ ~\E b \in Pages : Holds(a, b) /\ Present(b)
          /\ Returns(a, "protect", "no")
          /\ UNCHANGED <<hib, guard>>
    /\ UNCHANGED <<bitmap, data, ptr, owns, news, frees, halted>>

\* mm_is_valid_heap asks for the magic word of a bitmap at the pointer itself,
\* which is the memory of the caller.
IsValid(a) ==
    /\ ~halted
    /\ ptr[a] # NoPtr
    /\ Returns(a, "isvalid", "no")
    /\ UNCHANGED <<bitmap, hib, data, ptr, owns, guard, news, frees, halted>>

Made(h, page, flags) ==
    IF page THEN [h EXCEPT !.fPage = TRUE] ELSE [h EXCEPT !.fFlags = flags]

\* mm_make_page and mm_make_flags look at the pointer, not at the block.
Make(a, page, flags) ==
    /\ ~halted
    /\ ptr[a] # NoPtr
    /\ Returns(a, "make", IF ptr[a] = NullPtr THEN "kErrorHeapNotPresent" ELSE "kErrorSuccess")
    /\ hib' = [b \in Pages |-> IF Holds(a, b) THEN Made(hib[b], page, flags) ELSE hib[b]]
    /\ UNCHANGED <<bitmap, data, ptr, owns, guard, news, frees, halted>>

\* A caller writes to the memory it has allocated.
Write(a, c) ==
    /\ ~halted
    /\ a \in owns
    /\ data' = [data EXCEPT ![ptr[a]] = c]
    /\ UNCHANGED <<bitmap, hib, ptr, owns, guard, news, frees, halted, ret>>

Next ==
    \E a \in Callers :
      \/ \E size \in Sizes, user \in BOOLEAN : New(a, size, user)
      \/ Delete(a) \/ Protect(a) \/ IsValid(a)
      \/ \E page \in BOOLEAN, flags \in 0..1 : Make(a, page, flags)
      \/ \E c \in Contents : Write(a, c)

Spec == Init /\ [][Next]_vars

-----------------------------------------------------------------------------
(***************************************************************************)
(* Properties                                                              *)
(***************************************************************************)

\* Every variable has its type; no allocation gets a null page.
TypeOK ==
    /\ bitmap \in [Pages -> [magic : BOOLEAN, size : Sizes, used : BOOLEAN]]
    /\ hib \in [Pages -> Hib]
    /\ data \in [Pages -> Contents]
    /\ ptr \in [Callers -> Pages \cup {NoPtr, NullPtr}]
    /\ owns \subseteq {a \in Callers : ptr[a] \in Pages}
    /\ guard \in [Pages -> {{c} : c \in Contents} \cup {{}}]
    /\ news \in 0..MaxNews
    /\ frees \in 0..MaxNews
    /\ halted \in BOOLEAN
    /\ ret \in [op : {"none", "new", "delete", "protect", "isvalid", "make"},
                by : SUBSET Callers,
                code : {"none", "null", "block", "stopped", "yes", "no", "kErrorSuccess",
                        "kErrorInternal", "kErrorHeapNotPresent"}]
    /\ \A size \in Sizes : FindBitMap(size) # {}

\* However often pointers are freed, and by whom, a mm_delete_heap that
\* succeeds uses up an allocation: deletes of an already freed block fail.
FreesWithinNews ==
    /\ frees <= news
    /\ \A b \in Pages : Present(b) => frees < news

\* A kernel block that mm_protect_heap has given a checksum, and that has not
\* been allocated again, is not freed with other contents: mm_delete_heap
\* stops.  (A checksum of 0 counts as none.)
GuardedUnchanged ==
    [][\A b \in Pages : \A c \in guard[b] :
         frees' > frees /\ hib'[b] # hib[b] /\ ~hib[b].fUser /\ Crc[c] # 0
           => Crc[data[b]] = Crc[c]]_vars

\* "@return The newly allocated pointer." (mm_new_heap) and "Iterate over
\* availables pages for a free one." (FindBitMap): two callers do not own the
\* same memory.
OwnersDisjoint == \A a, b \in owns : a # b => ptr[a] # ptr[b]

-----------------------------------------------------------------------------
\* The inductive invariant: the header above the start is never written, so
\* the block at the start is the only one there is.
HeapInv ==
    /\ TypeOK
    /\ ~bitmap[1].magic
    /\ ~hib[1].fMagic
    /\ \A a \in Callers : ptr[a] # 1
    /\ FreesWithinNews
    /\ guard[1] = {}
    /\ \A c \in guard[0] : hib[0].fCRC32 = Crc[c]

\* Whatever mm_new_heap returned is the one block at the start of the zone.
OneBlock == \A a \in owns : ptr[a] = 0
=============================================================================
