\* Batches of two, a queue that is full with one event, under fairness.
SPECIFICATION FairSpec
CONSTANTS
  MaxEvents = 3
  FlushSize = 2
  MaxQueueSize = 1
INVARIANTS TypeOK Accounted InOrder StorageCovers SizeBound
PROPERTIES EverySettles
CHECK_DEADLOCK FALSE
