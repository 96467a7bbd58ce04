----------------------------- MODULE MCPBCache -----------------------------
(* Eight ways, so that nothing is evicted before nine lengths are in play. *)
(* Only whether two lengths are equal matters, so states that differ by a  *)
(* permutation of the lengths are one: the view names a length by the way  *)
(* that has it as tag, or by the page blocks that have it.                 *)
EXTENDS PBCache, TLC

MCPageLen == 9 .. 17

\* Bound: the page blocks that the program has at once.
MaxOut == 2
MCNext == Next /\ Cardinality(out') <= MaxOut
MCSpec == Init /\ [][MCNext]_vars

Symmetry == Permutations(PageBlock)

LengthOf(b) ==
  LET h == {w \in Way : tag[w] = len[b]}
  IN IF len[b] = 0 THEN {} ELSE IF h # {} THEN h
     ELSE {c \in PageBlock : len[c] = len[b]}

\* The last part follows from the one before; it makes TLC put len in its
\* normal form, which it must have before page blocks are permuted in it.
View ==
  <<data, length, {w \in Way : tag[w] = 0}, state, out,
    [b \in PageBlock |-> LengthOf(b)], len \in [PageBlock -> {0}]>>
=============================================================================
