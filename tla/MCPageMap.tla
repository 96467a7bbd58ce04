----------------------------- MODULE MCPageMap -----------------------------
EXTENDS PageMap, TLC
Symmetry == Permutations(Thread)
=============================================================================
