---------------------------- MODULE MCThreadPool ----------------------------
(* Instances of ThreadPool for TLC: see the .cfg files.                      *)
EXTENDS ThreadPool, TLC

Symmetry == Permutations(Clients) \cup Permutations(Tasks) \cup Permutations(Jobs)
=============================================================================
