---------------------------- MODULE MCKernelHeap ----------------------------
(***************************************************************************)
(* KernelHeap with three contents, the first of which has the checksum 0.  *)
(***************************************************************************)
EXTENDS KernelHeap, TLC

MCContents == 0..2
MCCrc      == [c \in MCContents |-> c]

\* Callers differ in their name only.
CallerSymmetry == Permutations(Callers)
=============================================================================
