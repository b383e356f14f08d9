\* A forward and an overwritable buffer with two control blocks each, and one
\* request that fails.
SPECIFICATION FairSpec
CONSTANTS
  NrMmaps = 1
  NrOverwrite = 1
  NrCblocks = 2
  MaxUnits = 3
  MaxErrors = 1
  Aux = FALSE
  Faults = {"queue"}
CHECK_DEADLOCK FALSE
INVARIANTS NothingMisplaced OneReferencePerRequest
PROPERTIES SyncEnds
