SPECIFICATION Spec
CONSTANTS
  Thread = {t1, t2}
  Superpage = {s1}
  Pb <- MCPb
  Block <- MCBlock
  SpOf <- MCSpOf
  PbOf <- MCPbOf
  DEAD_OWNER = dead
  NoSp = nosp
  StoreBuffers = TRUE
  FREE_SP_LIST_THRESHOLD = 2
  PbPerSp = 1
  BlockPerPb = 2
SYMMETRY Symmetry
INVARIANTS NoStranded
