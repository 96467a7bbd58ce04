SPECIFICATION Spec
CONSTANTS
  t1 = t1
  t2 = t2
  s1 = s1
  s2 = s2
  NULL = NULL
  Thread = {t1, t2}
  Superpage = {s1, s2}
  SUPERPAGE_LEN = 3
  SmallLen = 1
  LargeLens = {1, 2}
  RemotePhases = {"live", "exit"}
  LargeAtExit = FALSE
SYMMETRY Symmetry
CHECK_DEADLOCK FALSE
INVARIANTS PoppedLength
