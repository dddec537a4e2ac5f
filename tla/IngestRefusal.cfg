\* Two batches, the first of which brings the stream to its threshold. No fault.
SPECIFICATION FairSpec
CONSTANTS
  Replicas = {p1}
  Batches = {b1, b2}
  BatchLen = 2
  Threshold = 2
  MaxLen = 3
  MaxFaults = 0
PROPERTIES RefusalIsTemporary
CHECK_DEADLOCK FALSE
