\* shutdown() while the batch of an earlier flush is in flight.
SPECIFICATION FairSpec
CONSTANTS
  MaxEvents = 2
  FlushSize = 2
  MaxQueueSize = 2
PROPERTIES ShutdownFlushesAll
CHECK_DEADLOCK FALSE
