\* perf record pushes the buffer to its output; perf top, trace, kvm read events.
SPECIFICATION FairSpec
CONSTANTS
  Size = 4
  EventSizes = {1, 3}
  MaxHead = 7
  NrFds = 2
  Readers = {"push", "read"}
CHECK_DEADLOCK FALSE
INVARIANTS KeptUntilOutput
PROPERTIES ReadsIntact EventuallyWritten
