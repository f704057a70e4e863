---------------------------- MODULE LockDelegate ----------------------------
(***************************************************************************)
(* LockDelegate<N> (KernelKit/LockDelegate.h) polls a flag that somebody   *)
(* else sets, at most N times, and keeps in an Atom what it saw.           *)
(***************************************************************************)
EXTENDS Naturals

CONSTANT N   \* the template argument: how many polls
ASSUME NIsNat == N \in Nat \ {0}

\* The bits of kLockDone (200), and the one that kLockTimedOut (201) adds.
kLockDone == {"done"}
kLockTimedOut == {"done", "low"}

VARIABLES
    expr,          \* the flag
    kept,          \* the flag is read once, before the loop: it is not volatile
    spin,          \* the polls so far
    saw,           \* the flag was seen set
    fLockStatus,   \* the bits of the Atom
    built          \* the constructor has ended

lockVars == <<expr, kept, spin, saw, fLockStatus, built>>

\* Atom leaves its word uninitialised; a hoisted read is one of the builds.
LockInit ==
    /\ fLockStatus \in SUBSET kLockTimedOut
    /\ expr \in BOOLEAN
    /\ kept \in {"read", "set", "clear"} /\ (kept # "read" => kept = IF expr THEN "set" ELSE "clear")
    /\ spin = 0 /\ saw = FALSE /\ built = FALSE

\* The other side sets the flag or clears it.
Signal ==
    /\ expr' = ~expr
    /\ UNCHANGED <<kept, spin, saw, fLockStatus, built>>

Seen == IF kept = "read" THEN expr ELSE kept = "set"

\* Atom::operator|
Or(bits) == fLockStatus \cup bits

Poll ==
    /\ ~built /\ spin < N
    /\ IF Seen
         THEN saw' = TRUE /\ built' = TRUE /\ fLockStatus' = Or(kLockDone) /\ UNCHANGED spin
         ELSE spin' = spin + 1 /\ UNCHANGED <<saw, built, fLockStatus>>
    /\ UNCHANGED <<expr, kept>>

\* Behind the loop spin is N, never more: kLockTimedOut is not set.
GiveUp ==
    /\ ~built /\ spin >= N
    /\ fLockStatus' = IF spin > N THEN Or(kLockTimedOut) ELSE fLockStatus
    /\ built' = TRUE
    /\ UNCHANGED <<expr, kept, spin, saw>>

\* Atom::operator[] against the code.
Done == kLockDone \subseteq fLockStatus

LockNext == Signal \/ Poll \/ GiveUp
----------------------------------------------------------------------------
LockTypeOK ==
    /\ expr \in BOOLEAN /\ kept \in {"read", "set", "clear"} /\ spin \in 0 .. N
    /\ saw \in BOOLEAN /\ built \in BOOLEAN /\ fLockStatus \subseteq kLockTimedOut

\* A delegate that saw the flag says Done (LockDelegate.h:56), wherever the
\* flag went afterwards and whatever the uninitialised word held.
DoneIfSeen == built /\ saw => Done

\* The words "hangs until limit" (LockDelegate.h:23): the constructor returns
\* however the other side plays with the flag.
DelegateEnds == <>built
=============================================================================
