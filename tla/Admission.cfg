SPECIFICATION FairSpec
CONSTANTS
  None = None
  Gone = Gone
  NoLimit = NoLimit
  First = First
  Second = Second
  Third = Third
  Secret = Secret
  Projects = {p1}
  Tokens <- MCTokens
  Hash <- MCHash
  Stored <- MCStored
  Slots = {s1}
  Callers = {c1, c2}
  Limits = {1}
  MaxEvents = 1
  Months = 2
  MaxChanges = 2
  MaxFaults = 1
INVARIANTS TypeOK CacheFollowsRow LimitedAtLimit
PROPERTIES RefusedUnowned RetiredFinally LimitTakesEffect ReleasedFinally
CHECK_DEADLOCK FALSE
