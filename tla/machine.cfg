SPECIFICATION MachineSpec
CONSTANTS
  Tid = {1, 2, 3}
  CommName = {10}
  Initial <- MCInitial
  MmapEvent <- MCMmapEvent
  Addr = {0, 1, 2}
  Obj = {1, 2, 3, 4, 5, 6, 7}
  MaxEvents = 5
INVARIANTS ThreadRefs CommStrs MapsDisjoint ThreadsFaithful
CHECK_DEADLOCK FALSE
