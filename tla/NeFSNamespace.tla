--------------------------- MODULE NeFSNamespace ----------------------------
(***************************************************************************)
(* What the catalog store of NeFSParser promises: a set of names that only *)
(* grows, one name per CreateCatalog, and calls that answer from the set   *)
(* at one instant.  A call may be lost to a crash before it answers.       *)
(***************************************************************************)
EXTENDS NeFSPath

CONSTANTS OtherKinds

VARIABLES
    names,   \* the names of the catalogs on the disk
    pend,    \* the call being served
    reply    \* the answer of the last call

vars == <<names, pend, reply>>

NoReply == [op |-> "none", name |-> Root, kind |-> "dir", ret |-> "none"]
NoPend  == [op |-> "none", name |-> Root, kind |-> "dir"]

\* A name is visible when every ancestor that is looked up is there too.
Visible(p) == \A k \in Levels(p) : Ancestor(p, k) \in names

Init ==
    /\ names = {Root}
    /\ pend = NoPend
    /\ reply = NoReply

Accept(c) ==
    /\ pend = NoPend
    /\ pend' = c
    /\ reply' = NoReply
    /\ UNCHANGED names

\* Refused without a look at the disk: a name that does not fit the kind, or
\* the removal of the root.
Refuse(n, k) ==
    /\ pend = NoPend
    /\ \/ /\ (k = "dir") # EndsInSeparator(n)
          /\ reply' = [op |-> "create", name |-> n, kind |-> k, ret |-> "null"]
       \/ /\ n = Root
          /\ reply' = [op |-> "remove", name |-> n, kind |-> k, ret |-> "false"]
    /\ UNCHANGED <<names, pend>>

\* The instant at which CreateCatalog takes effect.
Add ==
    /\ pend.op = "create"
    /\ pend.name \notin names
    /\ names' = names \cup {pend.name}
    /\ pend' = [pend EXCEPT !.op = "added"]
    /\ UNCHANGED reply

Answer(op, ret) ==
    /\ reply' = [op |-> op, name |-> pend.name, kind |-> pend.kind, ret |-> ret]
    /\ pend' = NoPend
    /\ UNCHANGED names

AnswerGet ==
    /\ pend.op = "get"
    /\ Answer("get", IF Visible(pend.name) THEN "found" ELSE "null")

AnswerCreate ==
    \/ pend.op = "added" /\ Answer("create", "created")
    \/ pend.op = "create" /\ Visible(pend.name) /\ Answer("create", "exists")
    \/ /\ pend.op = "create" /\ ~Visible(pend.name)
       /\ pend.name \in names /\ Answer("create", "existsInScan")
    \/ pend.op = "create" /\ pend.name \notin names /\ Answer("create", "null")

\* A missing name may be reported either way: the code reads a null catalog.
AnswerRemove ==
    /\ pend.op = "remove"
    /\ \/ Answer("remove", "true")
       \/ ~Visible(pend.name) /\ Answer("remove", "false")

Lose ==
    /\ pend # NoPend
    /\ pend' = NoPend
    /\ reply' = NoReply
    /\ UNCHANGED names

Next ==
    \/ \E n \in Paths, k \in {"file", "dir"} \cup OtherKinds :
         \/ Refuse(n, k)
         \/ \E op \in {"create", "get", "remove"} :
              Accept([op |-> op, name |-> n, kind |-> k])
    \/ Add \/ AnswerGet \/ AnswerCreate \/ AnswerRemove \/ Lose

Spec == Init /\ [][Next]_vars
=============================================================================
