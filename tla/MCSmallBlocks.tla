--------------------------- MODULE MCSmallBlocks ---------------------------
(* Two page blocks: small ones of one superpage, cut for the same class or *)
(* for two, or in two superpages, where one block is left of a chunk, or a *)
(* whole cache line is taken of it.                                        *)
EXTENDS SmallBlocks, TLC
CONSTANTS s1, s2
MCLayouts == {<<s1, s1>>, <<s1, s2>>}
MCMaxBlocks == [f \in MCLayouts |-> IF f[1] = f[2] THEN 3 ELSE 4]
MCBlocksPerPbh ==
  [f \in MCLayouts |-> IF f[1] = f[2] THEN <<1, 2>> ELSE <<3, 2>>]
MCBlocksPerLine == <<1, 2>>
Symmetry == Permutations(Thread)
=============================================================================
