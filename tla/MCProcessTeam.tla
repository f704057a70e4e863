--------------------------- MODULE MCProcessTeam ----------------------------
(***************************************************************************)
(* ProcessTeam with a table of a few entries.                              *)
(***************************************************************************)
EXTENDS ProcessTeam, TLC

\* UserProcess objects differ in their address only.
ProcSymmetry == Permutations(Procs)
=============================================================================
