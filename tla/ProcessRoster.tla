---------------------------- MODULE ProcessRoster ----------------------------
(***************************************************************************)
(* What a process team promises as long as nothing calls Remove: a roster  *)
(* of processes, each of which has the id of its place.  A process is      *)
(* admitted at the end, until the roster is one longer than the table; the *)
(* last place of a full roster is the only one that is ever left, by a     *)
(* crash of the process while it runs.                                     *)
(***************************************************************************)
EXTENDS Integers, Sequences

CONSTANTS
    Procs,   \* the processes
    Limit    \* places of the table

VARIABLES
    roster,    \* the processes in the order of their ids, which start at 0
    running,   \* those that were woken up
    stopped,   \* the kernel has stopped
    answer     \* of the last call

vars == <<roster, running, stopped, answer>>

Members == {roster[i] : i \in 1 .. Len(roster)}
Full    == Len(roster) = Limit + 1

Init ==
    /\ roster = <<>> /\ running = {} /\ ~stopped
    /\ answer = [op |-> "none", id |-> 0, ok |-> FALSE]

Answers(op, id, ok) == ~stopped /\ answer' = [op |-> op, id |-> id, ok |-> ok]

Admit(p) ==
    /\ p \notin Members /\ ~Full
    /\ roster' = Append(roster, p)
    /\ Answers("spawn", Len(roster), TRUE)
    /\ UNCHANGED <<running, stopped>>

Refuse ==
    /\ Full
    /\ Answers("spawn", -1, FALSE)
    /\ UNCHANGED <<roster, running, stopped>>

Wake(i, should_wakeup) ==
    /\ running' = IF should_wakeup THEN running \cup {roster[i]} ELSE running \ {roster[i]}
    /\ Answers("wake", i - 1, TRUE)
    /\ UNCHANGED <<roster, stopped>>

\* A crash is one of the last process of a full roster, or of nobody; a roster
\* that is not full may have no current process, and the kernel may stop.
Crash ==
    /\ Answers("crash", 0, TRUE)
    /\ IF Full /\ roster[Limit + 1] \in running
         THEN roster' = SubSeq(roster, 1, Limit) /\ running' = running \ {roster[Limit + 1]}
         ELSE UNCHANGED <<roster, running>>
    /\ IF Full THEN UNCHANGED stopped ELSE stopped' \in BOOLEAN

Freeze ==
    /\ running' = IF Full THEN running \ {roster[Limit + 1]} ELSE running
    /\ UNCHANGED roster

Fault == Freeze /\ stopped' = TRUE /\ Answers("fault", 0, FALSE)

\* With a current process the kernel goes on; there is none before the roster
\* has once been longer than the table.
Breakpoint ==
    /\ Freeze
    /\ Answers("breakpoint", 0, TRUE)
    /\ stopped' \in BOOLEAN
    /\ Full => ~stopped'
    /\ Len(roster) < Limit => stopped'

\* The tick leaves a team with processes alone.
Run ==
    /\ IF roster # <<>>
         THEN Answers("run", 0, FALSE) /\ UNCHANGED stopped
         ELSE Answers("run", Limit, TRUE) /\ stopped' \in BOOLEAN
    /\ UNCHANGED <<roster, running>>

Next ==
    \/ \E p \in Procs : Admit(p)
    \/ \E i \in 1 .. Len(roster), w \in BOOLEAN : Wake(i, w)
    \/ Refuse \/ Crash \/ Fault \/ Breakpoint \/ Run

Spec == Init /\ [][Next]_vars
=============================================================================
