\* Two replicas and two faults of any kind around one event.
SPECIFICATION Spec
CONSTANTS
  ReadCount = 2
  BatchSize = 1
  Backpressure = 1
  MaxErrors = 2
  DlqMaxLen = 2
  ReplayBatch = 1
  Threshold = 2
  Loop = Loop
  Free = Free
  Lost = Lost
  Procs = {p1, p2}
  Claimers = {c1}
  MaxMsgs = 1
  Invalid = {}
  StreamMaxLen = 1
  MaxFaults = 2
SYMMETRY Symmetry
INVARIANTS NoLoss ReplayExclusive
