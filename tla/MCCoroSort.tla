----------------------------- MODULE MCCoroSort -----------------------------
(* Instances of CoroSort for TLC: see the .cfg files.                        *)
EXTENDS CoroSort
=============================================================================
