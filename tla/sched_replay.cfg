SPECIFICATION FairSpec
CONSTANTS
  Pid = {1, 2, 3}
  MaxTrace = 4
  replay_repeat = 2
INVARIANTS RoundsApart WakeupsFirst
PROPERTIES ReplayEnds
CHECK_DEADLOCK FALSE
