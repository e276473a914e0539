----------------------------- MODULE MCChartCache -----------------------------
(* ChartCache on one or two chart versions of a repository.                  *)
EXTENDS ChartCache, TLC

\* Sound for the safety runs: neither keys nor workers are told apart.
Symmetry == Permutations(Keys) \cup Permutations(Workers)
=============================================================================
