\* An overwritable buffer: two laps, snapshots at every point.
SPECIFICATION BackwardSpec
CONSTANTS
  Size = 4
  EventSizes = {1, 3}
  MaxUnits = 8
INVARIANTS SnapshotIsWholeEvents SnapshotsDisjoint
