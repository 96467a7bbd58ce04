--------------------------- MODULE MCPageBlocks ----------------------------
EXTENDS PageBlocks, TLC

\* Threads are interchangeable, and so are superpages.
Symmetry == Permutations(Thread) \cup Permutations(Superpage)
=============================================================================
