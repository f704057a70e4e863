------------------------------- MODULE Paging -------------------------------
(***************************************************************************)
(* mm_map_page (HALKit/AMD64/HalPagingMgrAMD64.cc), the places of the      *)
(* kernel that switch CR3 around a call of it (UserProcess::New, Delete    *)
(* and Exit), and the page managers above (src/PageMgr.cc, src/Pmm.cc).    *)
(*                                                                         *)
(* mm_map_page adds indices to the base in CR3 and masks them off again,   *)
(* so the pointer it takes for a table entry is the word at               *)
(* 9 * base + 64 * pt_index: what memory holds there is given (words).     *)
(***************************************************************************)
EXTENDS Naturals, FiniteSets

CONSTANTS
    Processes, Kernel,   \* whose directory CR3 may hold
    Pages, Indices,      \* an address is a page number and its lowest table index
    Entries, NoEntry     \* what may be pointed at, and the null pointer
ASSUME PagingNames == Kernel \notin Processes /\ NoEntry \notin Entries

Spaces == Processes \cup {Kernel}
Addresses == [page : Pages, pt : Indices]
Null == [page |-> "null", pt |-> "null"]
kMMFlags == {"Present", "Wr", "User", "NX"}

VARIABLES
    words,     \* the pointer found for an index under a directory
    pte,       \* the bits of every entry
    store,     \* ZKA_PAGE_STORE: the last address mapped and its entry
    cr3,       \* the directory in use
    process,   \* "none", "live", "exited"; a process with memory is "holding"
    asked,     \* the last call: its flags and the entry it worked on
    pmm        \* pages RequestPage has handed out, and bitmaps it has allocated

pagingVars == <<words, pte, store, cr3, process, asked, pmm>>

PagingInit ==
    /\ words \in [Spaces \X Indices -> Entries \cup {NoEntry}]
    /\ pte = [e \in Entries |-> {}]
    /\ store = [va |-> Null, pte |-> NoEntry]
    /\ cr3 = Kernel
    /\ process = [p \in Processes |-> "none"]
    /\ asked = [flags |-> {}, pte |-> NoEntry]
    /\ pmm = [given |-> 0, taken |-> 0]

-----------------------------------------------------------------------------
MakeMMFlags(wr, user) ==
    {"Present"} \cup (IF wr THEN {"Wr"} ELSE {}) \cup (IF user THEN {"User"} ELSE {})

\* The bits of an entry after mmi_map_page_table_entry.
Marked(bits, flags) == {"Present"} \cup (flags \cap {"Wr", "NX", "User"})

\* The entry a call works on: the one of the last call for the same address,
\* whatever CR3 holds now.
Target(space, va) == IF store.va = va THEN store.pte ELSE words[<<space, va.pt>>]

StoreAlways(va, e) == [va |-> va, pte |-> e]

\* mmi_map_page_table_entry: a null entry ends the call before the store is updated.
StoreAfter(va, e) == IF e = NoEntry THEN store ELSE [va |-> va, pte |-> e]

\* mm_map_page(va, flags) while CR3 holds the directory of space.
MapPage(space, va, flags) ==
    IF va = Null \/ flags = {} THEN UNCHANGED <<pte, store, asked>>
    ELSE LET e == Target(space, va) IN
         /\ pte' = [x \in Entries |-> IF x = e THEN Marked(pte[x], flags) ELSE pte[x]]
         /\ store' = StoreAfter(va, e)
         /\ asked' = [flags |-> flags, pte |-> e]

\* FindBitMap maps each bitmap it hands out, in the directory that CR3 holds.
AllocBitmap(wr, user) ==
    /\ \E va \in Addresses : MapPage(cr3, va, MakeMMFlags(wr, user))
    /\ UNCHANGED <<words, cr3, process, pmm>>

\* The stack of a new process, which may be null, in the directory CR3 holds.
Spawn(p) ==
    /\ process[p] = "none"
    /\ \E va \in Addresses \cup {Null} : MapPage(cr3, va, MakeMMFlags(TRUE, TRUE))
    /\ process' = [process EXCEPT ![p] = "live"]
    /\ UNCHANGED <<words, cr3, pmm>>

\* What CR3 holds when New or Delete returns: what it held before.
Restored(p) == cr3

\* UserProcess::New allocates under the directory of the process.
PagedNew(p) ==
    /\ process[p] \in {"live", "holding"}
    /\ \E va \in Addresses : MapPage(p, va, MakeMMFlags(TRUE, TRUE))
    /\ cr3' = Restored(p)
    /\ process' = [process EXCEPT ![p] = "holding"]
    /\ UNCHANGED <<words, pmm>>

\* UserProcess::Delete: mm_delete_heap maps nothing.
PagedDelete(p) ==
    /\ process[p] = "holding"
    /\ cr3' = Restored(p)
    /\ UNCHANGED <<words, pte, store, process, asked, pmm>>

\* Exit writes the old value back inside the loop over the memory of the
\* process, so only when its list has an entry.  (An entry that is still
\* allocated stops the kernel there: see ProcessMemory.)
PagedExit(p) ==
    /\ \/ process[p] = "live" /\ cr3' = p
       \/ process[p] = "holding" /\ cr3' = Restored(p)
    /\ process' = [process EXCEPT ![p] = "exited"]
    /\ UNCHANGED <<words, pte, store, asked, pmm>>

\* PTEWrapper: a wrapper is born present, whatever its address.
Present == TRUE

\* Pmm::RequestPage takes a bitmap and returns nothing when the page is present.
RequestPage(user, rw) ==
    /\ pmm.taken < 2
    /\ \E va \in Addresses : MapPage(cr3, va, MakeMMFlags(user, rw))   \* the two are swapped
    /\ pmm' = [given |-> pmm.given + (IF Present THEN 0 ELSE 1), taken |-> pmm.taken + 1]
    /\ UNCHANGED <<words, cr3, process>>

PagingNext ==
    \/ \E wr, user \in BOOLEAN : AllocBitmap(wr, user) \/ RequestPage(user, wr)
    \/ \E p \in Processes : Spawn(p) \/ PagedNew(p) \/ PagedDelete(p) \/ PagedExit(p)
-----------------------------------------------------------------------------
PagingTypeOK ==
    /\ pte \in [Entries -> SUBSET kMMFlags]
    /\ store.va \in Addresses \cup {Null} /\ store.pte \in Entries \cup {NoEntry}
    /\ cr3 \in Spaces

\* The entry of the last call has the flags that call asked for and no other
\* (HalPagingMgrAMD64.cc:135-150), also when it was mapped before with more.
FlagsAsAsked == asked.pte # NoEntry => pte[asked.pte] = asked.flags

\* The store (:160) only ever holds an entry that some directory has for its
\* address: a call that finds no entry, or a change of CR3, leaves no pair in
\* it that was never mapped.
StoreHonest ==
    store.va # Null => /\ store.pte # NoEntry
                       /\ \E s \in Spaces : store.pte = words[<<s, store.va.pt>>]

\* CR3 holds the directory of the kernel or that of a process that has exited:
\* New, Delete and the scheduler come back, and the one switch that does not
\* is the exit of a process without memory (UserProcessScheduler.cc:214).
Cr3Back == cr3 = Kernel \/ process[cr3] = "exited"

\* RequestPage never gives a page (Pmm.cc:40) and keeps the bitmaps it took.
PmmGivesNothing == pmm.given = 0
=============================================================================
