\* Events are copied, the size limit is reached, allocations and callbacks fail,
\* and the user interrupts.
SPECIFICATION Spec
CONSTANTS
  U64 = 6
  Timestamps = {0, 1, 2, 3}
  MaxQueued = 5
  MAX_SAMPLE_BUFFER = 2
  HeaderSize = 2
  BufferSize = 3
  MaxAlloc = 15
  CopyOnQueue = TRUE
  Hows = {"ROUND", "TOP", "TIME"}
  StopOnError = TRUE
  Faults = {"deliver", "done", "nomem"}
INVARIANTS TimeOrdered MaxTimestampIsTail LinkedOnce AllDelivered
PROPERTIES AllocAccounting ImplementsEventQueue
