SPECIFICATION Spec
CONSTANTS
  t1 = t1
  t2 = t2
  Thread = {t1, t2}
  Dso = {1, 2, 3}
  Missing = {3}
  FileSize = 3
  CacheSize = 2
  Request <- MCRequest
  Limits <- MCLimits
SYMMETRY Threads
INVARIANTS OpenFiles FdStaysOpen PagesDisjoint ReadsFile
CHECK_DEADLOCK FALSE
