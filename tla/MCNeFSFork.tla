----------------------------- MODULE MCNeFSFork -----------------------------
(***************************************************************************)
(* NeFSFork with a few catalogs and fork names and small forks.            *)
(***************************************************************************)
EXTENDS NeFSFork, TLC

MCDataSizes == 0..3

\* Fork names are only compared.
NameSymmetry == Permutations(ForkNames)
=============================================================================
