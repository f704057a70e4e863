------------------------------ MODULE NeFSPath ------------------------------
(***************************************************************************)
(* Catalog names of the New File System (FSKit/NeFS.h, FS/NeFS.cc).        *)
(*                                                                         *)
(* A name is the sequence of its components: <<>> is kNeFSRoot ("/"),      *)
(* <<d, f>> is "/d/f".  A component of DirComp carries its trailing        *)
(* separator.  The characters of a component are abstracted away; the only *)
(* thing the code's character loops can tell apart is whether a file's     *)
(* last component is one character long, which decides where the parent-   *)
(* name loop stops.                                                        *)
(***************************************************************************)
EXTENDS Integers, Sequences

CONSTANTS
    Comps,      \* path components
    Paths,      \* the names the callers use
    DirComp,    \* components that end in the separator
    ShortComp   \* file components of one character

Root == <<>>

\* The name of a zeroed catalog.
NoName == <<"">>

Last(p) == p[Len(p)]

(***************************************************************************)
(* name[rt_string_len(name) - 1] == Separator()                            *)
(***************************************************************************)
EndsInSeparator(p) == p = Root \/ Last(p) \in DirComp

IsShort(p) == p # Root /\ Last(p) \in ShortComp

(***************************************************************************)
(* The loop that computes parentName zeroes the last character, then one   *)
(* more ("mandatory '/' character"), then every character back to a        *)
(* separator.  For a one-character file the second zeroing removes the     *)
(* separator itself, so the loop stops one directory higher.               *)
(***************************************************************************)
ParentLevel(p) == IF IsShort(p) THEN Len(p) - 2 ELSE Len(p) - 1

Ancestor(p, k) == SubSeq(p, 1, k)

(***************************************************************************)
(* The names FindCatalog(p) looks up, by length: it calls itself on the    *)
(* parent name down to the root.                                           *)
(***************************************************************************)
Levels(p) == (0..ParentLevel(p)) \cup {Len(p)}

\* Where the recursion of FindCatalog(p) resumes once level k was found.
NextLevel(p, k) == IF k = ParentLevel(p) THEN Len(p) ELSE k + 1

(***************************************************************************)
(* Only directories have children, and the parent loop of a one-character  *)
(* name directly under the root would run off the front of the buffer:     *)
(* such names are outside the parser's precondition.                       *)
(***************************************************************************)
ASSUME PathsAssumption ==
    /\ Root \in Paths
    /\ \A p \in Paths :
         /\ p \in Seq(Comps)
         /\ \A i \in 1..Len(p) : i < Len(p) => p[i] \in DirComp
         /\ \A k \in 0..Len(p) : Ancestor(p, k) \in Paths
         /\ IsShort(p) => Len(p) >= 2
    /\ NoName \notin Paths
    /\ DirComp \cap ShortComp = {}
=============================================================================
