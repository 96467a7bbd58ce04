---------------------------- MODULE MCOwnerMark ----------------------------
(* Instances of OwnerMark for TLC: every superpage has PbPerSp page blocks *)
(* of BlockPerPb blocks each.                                              *)
EXTENDS OwnerMark, TLC
CONSTANTS PbPerSp, BlockPerPb
MCPb    == Superpage \X (1..PbPerSp)
MCBlock == MCPb \X (1..BlockPerPb)
MCSpOf  == [p \in MCPb |-> p[1]]
MCPbOf  == [b \in MCBlock |-> b[1]]
Symmetry == Permutations(Thread) \cup Permutations(Superpage)
=============================================================================
