SPECIFICATION FairSpec
CONSTANTS
  Key <- MCKey
  Group <- MCGroup
  KeysOf <- MCKeysOf
  None = None
  Event = {1, 2}
  Unparsable = {1}
  MaxPeriod = 2
INVARIANTS OneUser
PROPERTIES PeriodsKept Processed QuitEnds
CHECK_DEADLOCK FALSE
