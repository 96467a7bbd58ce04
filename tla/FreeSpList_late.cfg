SPECIFICATION Spec
CONSTANTS
  Thread = {t1, t2}
  Superpage = {s1, s2}
  NULL = null
  FREE_SP_LIST_THRESHOLD = 2
CHECK_DEADLOCK FALSE
INVARIANTS HeaderFound
