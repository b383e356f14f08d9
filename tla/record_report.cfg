\* Two forward buffers and an overwritable one, two timestamps, three events: the reader follows the writer.
SPECIFICATION FairReportSpec
CONSTANTS
  NrMmaps = 2
  NrOverwrite = 1
  MaxTime = 2
  MaxSamples = 3
CHECK_DEADLOCK FALSE
INVARIANTS PassInv TwoRoundsApart
PROPERTIES ImplementsTimeMerge AllProcessed
