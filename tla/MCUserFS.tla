------------------------------ MODULE MCUserFS ------------------------------
(* Instances of UserFS for TLC: see the .cfg files.                          *)
EXTENDS UserFS

\* Names, addresses and bytes are interchangeable: the code compares them only
\* for equality.
Symmetry == Permutations(Names) \cup Permutations(Files) \cup Permutations(Bytes)
=============================================================================
