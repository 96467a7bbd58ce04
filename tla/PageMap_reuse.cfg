SPECIFICATION Spec
CONSTANTS
  Thread = {t1, t2}
  NULL = null
  Page = {2, 3, 4, 5}
  Obj = {1, 2, 3, 4, 5, 6}
  LEN = 2
  HugeLens = {1, 2}
  SUPERPAGE_LEN = 2
  REUSE = TRUE
SYMMETRY Symmetry
CHECK_DEADLOCK FALSE
INVARIANTS ValFound
