\* Five dumps at distinct times, the latest two are kept.
SPECIFICATION FilesSpec
CONSTANTS
  MaxClock = 6
  MaxDumps = 5
  NumFiles = 2
  DistinctTimes = TRUE
  RenameFails = FALSE
CHECK_DEADLOCK FALSE
INVARIANTS KeepsNewest PerfDataIsCurrent
