SPECIFICATION Spec
CONSTANTS
  t1 = t1
  t2 = t2
  s1 = s1
  NULL = NULL
  Thread = {t1, t2}
  Superpage = {s1}
  SUPERPAGE_LEN = 3
  SmallLen = 1
  LargeLens = {1, 2}
  RemotePhases = {"exit"}
  LargeAtExit = TRUE
SYMMETRY Symmetry
CHECK_DEADLOCK FALSE
INVARIANTS RunsIntact
