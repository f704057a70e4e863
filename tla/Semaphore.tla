----------------------------- MODULE Semaphore -----------------------------
(***************************************************************************)
(* The kernel's semaphore (src/Semaphore.cc) as its callers meet it.  The  *)
(* kernel runs them on one core and switches between none of its own       *)
(* calls, so Lock and Unlock are one step each; LockOrWait waits on a      *)
(* timer between its two attempts, and the others act meanwhile.           *)
(*                                                                         *)
(* A caller unlocks when, and only when, it was told that it has the lock. *)
(***************************************************************************)
CONSTANTS Callers, NoCaller
ASSUME NoCallerOutside == NoCaller \notin Callers

VARIABLES
    fLockingProcess,   \* the process that locks, or NoCaller
    at,                \* where every caller is in its call
    told,              \* what its last call answered
    refused            \* whether the first attempt of its LockOrWait failed

semVars == <<fLockingProcess, at, told, refused>>

SemInit ==
    /\ fLockingProcess = NoCaller
    /\ at = [c \in Callers |-> "idle"]
    /\ told = [c \in Callers |-> "nothing"]
    /\ refused = [c \in Callers |-> FALSE]
----------------------------------------------------------------------------

CanLock(c) == fLockingProcess = NoCaller

\* What Semaphore::Lock leaves behind; it answers Yes when CanLock(c).
LockBy(c) == fLockingProcess' = IF CanLock(c) THEN c ELSE fLockingProcess

Answer(c) == told' = [told EXCEPT ![c] = IF CanLock(c) THEN "Yes" ELSE "No"]

Lock(c) ==
    /\ at[c] = "idle" /\ told[c] # "Yes"
    /\ LockBy(c) /\ Answer(c)
    /\ UNCHANGED <<at, refused>>

\* IsLocked, and Unlock, which asks for no owner.
Unlock(c) ==
    /\ at[c] = "idle" /\ told[c] = "Yes"
    /\ fLockingProcess' = NoCaller
    /\ told' = [told EXCEPT ![c] = IF fLockingProcess # NoCaller THEN "nothing" ELSE "No"]
    /\ UNCHANGED <<at, refused>>

\* LockOrWait up to the wait: the answer of the first Lock is dropped.  With
\* a null timer the call returns No before it.
TryFirst(c) ==
    /\ at[c] = "idle" /\ told[c] # "Yes"
    /\ \/ /\ LockBy(c)
          /\ refused' = [refused EXCEPT ![c] = ~CanLock(c)]
          /\ at' = [at EXCEPT ![c] = "wait"]
          /\ UNCHANGED told
       \/ /\ told' = [told EXCEPT ![c] = "No"]
          /\ UNCHANGED <<fLockingProcess, at, refused>>

\* The wait has ended, after some time if it does end, and Lock is called again.
TryAgain(c) ==
    /\ at[c] = "wait"
    /\ LockBy(c) /\ Answer(c)
    /\ at' = [at EXCEPT ![c] = "idle"]
    /\ UNCHANGED refused

\* WaitForProcess: entered at any time, left when the lock is seen free.
SpinOn(c) ==
    /\ at[c] = "idle"
    /\ at' = [at EXCEPT ![c] = "spin"]
    /\ UNCHANGED <<fLockingProcess, told, refused>>

SpinOff(c) ==
    /\ at[c] = "spin" /\ CanLock(c)
    /\ at' = [at EXCEPT ![c] = "idle"]
    /\ UNCHANGED <<fLockingProcess, told, refused>>

SemNext == \E c \in Callers :
    Lock(c) \/ Unlock(c) \/ TryFirst(c) \/ TryAgain(c) \/ SpinOn(c) \/ SpinOff(c)
----------------------------------------------------------------------------
\* Every caller is in one call and has one answer.
SemTypeOK ==
    /\ fLockingProcess \in Callers \cup {NoCaller}
    /\ at \in [Callers -> {"idle", "wait", "spin"}]
    /\ told \in [Callers -> {"nothing", "Yes", "No"}]
    /\ refused \in [Callers -> BOOLEAN]

\* Two callers never both believe they have the lock, and the one that does
\* is the process Lock (Semaphore.cc:28) put into the semaphore, whatever the
\* others lock, wait for and unlock in between.
OneHolder ==
    /\ \A c, d \in Callers : told[c] = "Yes" /\ told[d] = "Yes" => c = d
    /\ \A c \in Callers : told[c] = "Yes" => fLockingProcess = c

\* LockOrWait (:49) tells a caller Yes only when its first attempt was refused
\* and the holder left during the wait: a caller that finds the semaphore free
\* takes it at the first attempt and is told No by its own lock.
YesAfterRefusal == [][\A c \in Callers : at[c] = "wait" /\ told'[c] = "Yes" => refused[c]]_semVars

\* A caller that was told No by its own lock holds the semaphore: nobody takes
\* it off again, and WaitForProcess (:67) of every other caller never ends.
SilentHolderStays ==
    [][\A c \in Callers : fLockingProcess = c /\ told[c] # "Yes" => fLockingProcess' = c]_semVars
=============================================================================
