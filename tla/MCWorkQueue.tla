----------------------------- MODULE MCWorkQueue -----------------------------
(* WorkQueue on small sets of keys, workers and waiters.                    *)
EXTENDS WorkQueue, TLC

\* Keys, workers and waiters are interchangeable: sound for the safety runs.
Symmetry == Permutations(Items) \cup Permutations(Workers) \cup Permutations(Waiters)
=============================================================================
