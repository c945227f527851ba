----------------------------- MODULE MCHeapHelp -----------------------------
(* Instances of HeapHelp for TLC: see the .cfg files.                        *)
EXTENDS HeapHelp

Symmetry == Permutations(Addrs) \cup Permutations(Sizes)
=============================================================================
