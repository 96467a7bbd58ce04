SPECIFICATION Spec
CONSTANTS
  t1 = t1
  t2 = t2
  s1 = s1
  s2 = s2
  Thread = {t1, t2}
  Superpage = {s1, s2}
  NULL = NULL
  DEAD_OWNER = DEAD_OWNER
  Pb = {1, 2}
  Layouts <- MCLayouts
  NUM_CLASSES = 2
  BLOCKS_PER_PBH <- MCBlocksPerPbh
  BlocksPerLine <- MCBlocksPerLine
  Against = {1}
  MAX_BLOCKS <- MCMaxBlocks
SYMMETRY Symmetry
CHECK_DEADLOCK FALSE
INVARIANTS TypeOK BlocksExact CountersExact ChunksApart PbhListExact
PROPERTY KeepsPromise
