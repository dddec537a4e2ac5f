\* One replica, three events of which the second is malformed, two faults.
\* Both streams can overflow.
SPECIFICATION Spec
CONSTANTS
  ReadCount = 2
  BatchSize = 2
  Backpressure = 3
  MaxErrors = 1
  DlqMaxLen = 2
  ReplayBatch = 1
  Threshold = 1
  Loop = Loop
  Free = Free
  Lost = Lost
  Procs = {p1}
  Claimers = {c1}
  MaxMsgs = 3
  Invalid = {2}
  StreamMaxLen = 2
  MaxFaults = 2
INVARIANTS TypeOK
PROPERTIES DlqKeepsUnstored ImplementsDelivery
