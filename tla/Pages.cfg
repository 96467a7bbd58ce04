SPECIFICATION MCSpec
CONSTANTS
  t1 = t1
  t2 = t2
  s0 = s0
  s1 = s1
  s2 = s2
  NULL = NULL
  Thread = {t1, t2}
  One = {s0}
  Two = {s1, s2}
  SUPERPAGE_LEN = 2
  SmallLen = 1
  LargeLens = {2}
  RemotePhases = {"exit"}
  LargeAtExit = FALSE
  Counts = {0, 1, 3}
  Sizes <- AllSizes
  Resized <- SomeSizes
  Alignments <- SomeAlignments
  Page = {1, 2, 3, 4, 5}
  Obj = {1, 2, 3, 4, 5, 6}
  LEN = 2
  HugeLens = {3}
  REUSE = FALSE
SYMMETRY Symmetry
CHECK_DEADLOCK FALSE
INVARIANTS
  LongHeapOK LongRunsIntact BothListsExact BothSuperpagesListed
  BlockFits ReallocKeeps SmallestClass MemalignAligned
  TreeSound EntriesExact
PROPERTIES TreeGrows
