--------------------------- MODULE MCFreeSpList ----------------------------
(* Instances of FreeSpList for TLC.                                        *)
EXTENDS FreeSpList, TLC
Symmetry == Permutations(Thread) \cup Permutations(Superpage)
=============================================================================
