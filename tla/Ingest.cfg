\* Two replicas, two batches of two events and one fault. A batch and half of a
\* repeated one meet the threshold; the limit is one entry above it.
SPECIFICATION FairSpec
CONSTANTS
  Replicas = {p1, p2}
  Batches = {b1, b2}
  BatchLen = 2
  Threshold = 3
  MaxLen = 4
  MaxFaults = 1
INVARIANTS TypeOK Complete
PROPERTIES RefusalNotStale TrimNeedsBurst FinallyAccepted
CHECK_DEADLOCK FALSE
