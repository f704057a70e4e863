---------------------------- MODULE ProcessMemory ---------------------------
(***************************************************************************)
(* The memory a process allocates (UserProcess::New, Delete and Exit in    *)
(* src/dev/ZKAKit/src/UserProcessScheduler.cc and .inl), the templates of  *)
(* KernelKit/ThreadLocalStorage.inl over it, and the library object of a   *)
(* DLL process (src/IPEFDLLObject.cc), which is allocated there.           *)
(*                                                                         *)
(* A pointer that goes through ErrorOr comes out as itself or as another   *)
(* word (see CodeLoader).  The kernel is built with __DEBUG__, so MUST_PASS*)
(* of zero stops it, and kErrorSuccess is zero.  The templates work on the *)
(* current process, which is null until the team's table has overflowed    *)
(* (see ProcessTeam); the process of this module is the one it is then.    *)
(***************************************************************************)
EXTENDS Naturals, Sequences, SequencesExt

CONSTANTS Pointers   \* addresses in the heap

VARIABLES
    current,    \* GetCurrentProcess() is this process, and not null
    heapList,   \* ProcessMemoryHeap: the entries of the nodes that can be reached
    parts,      \* the blocks the kernel has allocated for the process
    owner,      \* who has allocated an address
    own,        \* the addresses the process has allocated and not freed
    life,       \* the process, and with "stopped" and "fault" the kernel
    dll,        \* PefDLLDelegate: none, a question under way, or null
    exitFreed,  \* what Exit has freed
    harmed      \* memory of others was freed

memVars == <<current, heapList, parts, owner, own, life, dll, exitFreed, harmed>>

\* What Exit is to free: the nodes of the list that can be reached and those
\* that were lost, the stack, the object, the stack frame, the page directory,
\* and the image of a process the loader made.
Parts == {"first", "second", "lost", "reserve", "object", "frame", "directory", "image"}

Spawned == {"reserve", "object", "frame", "directory"}

MemoryInit ==
    /\ current \in BOOLEAN
    /\ heapList = <<>>
    /\ parts \in {Spawned, Spawned \cup {"image"}}
    /\ owner = [p \in Pointers |-> "free"]
    /\ own = {}
    /\ life = "running"
    /\ dll \in {"none", "asked"}   \* an executable, or a DLL that Spawn prepares
    /\ exitFreed = {} /\ harmed = FALSE

Free == {p \in Pointers : owner[p] = "free"}

\* The first node; later ones all become the first one's next, because the loop
\* that would walk the list tests !entry.
Listed(p) == IF heapList = <<>> THEN <<p>> ELSE <<Head(heapList), p>>

\* UserProcess::New(size).  The node a third allocation takes the place of
\* cannot be reached any more.
New(p) ==
    /\ heapList' = Listed(p)
    /\ parts' = parts \cup (IF heapList = <<>> THEN {"first"} ELSE {"second"})
                     \cup (IF Len(heapList) = 2 THEN {"lost"} ELSE {})
    /\ owner' = [owner EXCEPT ![p] = "process"]
    /\ own' = own \cup {p}

\* After the first time New returns an ErrorOr without a value, whose Ref is
\* null: Leak reads through it, a fault or a word.
AfterLeak == IF heapList = <<>> THEN {"running"} ELSE {"running", "fault"}

\* tls_new_ptr: MUST_PASS(ref_process) stops the kernel when there is no current
\* process, and New is the current one's.
Allocate ==
    /\ life = "running" /\ dll = "none"
    /\ IF ~current
         THEN life' = "stopped" /\ UNCHANGED <<heapList, parts, owner, own>>
         ELSE \E p \in Free : New(p) /\ life' \in AfterLeak
    /\ UNCHANGED <<current, dll, exitFreed, harmed>>

\* tls_delete_ptr and UserProcess::Delete(p): the entry is compared with a word
\* that should be p.  The memory is freed, the entry stays in the list.
Delete(p) ==
    /\ life = "running" /\ current /\ p \in own
    /\ \/ /\ p \in ToSet(heapList)
          /\ owner' = [owner EXCEPT ![p] = "free"] /\ own' = own \ {p}
       \/ UNCHANGED <<owner, own>>
    /\ UNCHANGED <<current, heapList, parts, life, dll, exitFreed, harmed>>

\* Other parts of the kernel.
Others(p) ==
    /\ life = "running"
    /\ \/ owner[p] = "free"   /\ owner' = [owner EXCEPT ![p] = "others"]
       \/ owner[p] = "others" /\ owner' = [owner EXCEPT ![p] = "free"]
    /\ UNCHANGED <<current, heapList, parts, own, life, dll, exitFreed, harmed>>

-----------------------------------------------------------------------------
(***************************************************************************)
(* Exit                                                                    *)
(***************************************************************************)

\* MUST_PASS(mm_delete_heap(entry)).
MustPass(ret) == ret # 0

\* mm_delete_heap: kErrorSuccess for an allocated address, an error otherwise.
Result(p) == IF owner[p] = "free" THEN 1 ELSE 0

\* mm_is_valid_heap and mm_free_bitmap look for the word of a bitmap at the
\* address itself (see KernelHeap), where the process has its own data.
LooksLikeBitmap == FALSE

\* The loop over the list ends at the entry whose result does not pass; behind a
\* node that passes the node itself is freed.  Past the list go the directory,
\* the image and the frame, if they look like a bitmap, the stack and the object.
Exit ==
    /\ life = "running" /\ dll = "none"
    /\ LET visited == {i \in DOMAIN heapList :
                         \A j \in 1..(i - 1) : MustPass(Result(heapList[j]))}
           freed   == {heapList[i] : i \in visited} \ Free
           through == \A i \in visited : MustPass(Result(heapList[i]))
       IN  /\ owner' = [p \in Pointers |-> IF p \in freed THEN "free" ELSE owner[p]]
           /\ own' = own \ freed
           /\ exitFreed' = freed
           /\ harmed' = (harmed \/ \E p \in freed : owner[p] = "others")
           /\ IF through
                THEN /\ life' = "gone"
                     /\ parts' = parts \ ({"first", "second", "reserve", "object"} \cup
                          IF LooksLikeBitmap THEN {"directory", "image", "frame"} ELSE {})
                ELSE /\ life' = "stopped"
                     /\ parts' = IF 2 \in visited THEN parts \ {"first"} ELSE parts
    /\ UNCHANGED <<current, heapList, dll>>

-----------------------------------------------------------------------------
(***************************************************************************)
(* The library object of a DLL process                                     *)
(***************************************************************************)

\* DLL_TRAITS has no image yet when it is mounted, so Mount returns early.
Mounted == FALSE

\* rtl_init_dll: the object and its traits are allocated with tls_new_class from
\* the current process, which is not the one that is spawned; the object has
\* nothing mounted and is deleted, if its entry is recognised.  Crash does nothing
\* to a process that does not run yet.  Spawn's MUST_PASS then stops the kernel.
InitDll ==
    /\ life = "running" /\ dll = "asked"
    /\ \/ /\ ~current /\ life' = "stopped"
          /\ UNCHANGED <<heapList, parts, owner, own, dll>>
       \/ /\ current
          /\ \E p \in Free : \E q \in Free \ {p}, K \in SUBSET {p} :
               /\ heapList' = <<p, q>>
               /\ parts' = parts \cup {"first", "second"}
               /\ own' = own \cup {q} \cup K
               /\ owner' = [a \in Pointers |-> IF a \in {q} \cup K THEN "process" ELSE owner[a]]
          /\ IF Mounted THEN dll' = "ready" /\ UNCHANGED life
                        ELSE dll' = "null" /\ life' = "stopped"
       \/ /\ current /\ life' = "fault"
          /\ UNCHANGED <<heapList, parts, owner, own, dll>>
    /\ UNCHANGED <<current, exitFreed, harmed>>

MemoryNext ==
    \/ Allocate \/ Exit \/ InitDll
    \/ \E p \in Pointers : Delete(p) \/ Others(p)

-----------------------------------------------------------------------------
(***************************************************************************)
(* Properties                                                              *)
(***************************************************************************)

\* Every variable of a process's memory has its type; the list never has more
\* than two nodes.
MemoryTypeOK ==
    /\ current \in BOOLEAN
    /\ heapList \in Seq(Pointers) /\ Len(heapList) <= 2
    /\ parts \subseteq Parts
    /\ owner \in [Pointers -> {"free", "process", "others"}]
    /\ own \subseteq Pointers
    /\ life \in {"running", "gone", "stopped", "fault"}
    /\ dll \in {"none", "asked", "null", "ready"}

\* Freed entries stay in the list and may be allocated by others: Exit frees
\* them again.  Memory of others is freed by no process that then exits: the
\* kernel has stopped.
HarmStops == harmed => life = "stopped"

\* What becomes of a process that is gone.  Of its allocations the loop has freed
\* none: one that was still allocated in the list would have stopped the kernel,
\* since mm_delete_heap returns zero for success (UserProcessScheduler.cc:222),
\* so what is left is in no node of the list.  Freed are the nodes that could be
\* reached, the stack and the object; the frame, the directory and the image stay.
ExitLeaves ==
    life = "gone" =>
      /\ exitFreed = {} /\ \A p \in own : p \notin ToSet(heapList)
      /\ {"frame", "directory"} \subseteq parts
      /\ parts \subseteq {"frame", "directory", "image", "lost"}

\* No process gets a library object.
NoLibrary == dll # "ready"

=============================================================================
