\* One replica, two events of which the second is malformed, two faults. Any
\* buffered event is too many for the loop to poll on.
SPECIFICATION FairSpec
CONSTANTS
  ReadCount = 2
  BatchSize = 1
  Backpressure = 0
  MaxErrors = 2
  DlqMaxLen = 2
  ReplayBatch = 1
  Threshold = 1
  Loop = Loop
  Free = Free
  Lost = Lost
  Procs = {p1}
  Claimers = {c1}
  MaxMsgs = 2
  Invalid = {2}
  StreamMaxLen = 2
  MaxFaults = 2
PROPERTIES EverySettles
