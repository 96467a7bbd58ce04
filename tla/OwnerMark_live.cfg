SPECIFICATION FairSpec
CONSTANTS
  Thread = {t1, t2}
  Superpage = {s1}
  Pb <- MCPb
  Block <- MCBlock
  SpOf <- MCSpOf
  PbOf <- MCPbOf
  DEAD_OWNER = dead
  NoSp = nosp
  StoreBuffers = FALSE
  FREE_SP_LIST_THRESHOLD = 2
  PbPerSp = 2
  BlockPerPb = 2
PROPERTIES ExitTerminates OrphanAdopted
INVARIANTS NoStranded SCInv
