SPECIFICATION Spec
CONSTANTS
  a = a
  A = A
  U = U
  None = None
  Dids <- TheDids
  Persons <- ThePersons
  Ways <- TheWays
  Links <- TheLinks
  Replicas = {p1, p2}
  Events = {e1, e2}
  ReplayBatch = 1
  MaxFailed = 1
  MaxFaults = 2
SYMMETRY Symmetry
INVARIANTS TypeOK UpdatesKept MergesKept FlushCovers
CHECK_DEADLOCK FALSE
