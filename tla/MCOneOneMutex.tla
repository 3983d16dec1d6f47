--------------------------- MODULE MCOneOneMutex ---------------------------
(* Threads of the one-one mutex as model values that TLC may permute.      *)
EXTENDS OneOneMutex, TLC

Symmetry == Permutations(Thread)
=============================================================================
