SPECIFICATION MCSpec
CONSTANTS
  Thread = {t1, t2, t3}
  Superpage = {s1, s2, s3, s4}
  NULL = null
  FREE_SP_LIST_THRESHOLD = 2
  HazardSp = {h1}
  HPS_PER_PAGE = 2
  MAX_NUM_THREADS = 4
SYMMETRY Symmetry
CHECK_DEADLOCK FALSE
INVARIANTS
  IInv ListIntact LenExact
  OneThreadEach ListComplete FreeCounted NoneMissed
PROPERTIES KeepsPromise
