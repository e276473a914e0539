---------------------------- MODULE MCWatcherCache ----------------------------
(* WatcherCache on one or two repositories.                                  *)
EXTENDS WatcherCache, TLC

\* Sound for the safety runs: digests are only compared with each other.
Symmetry == Permutations(Digests)
=============================================================================
