\* One replica, two cohorts with any references, one change by the API and one fault.
SPECIFICATION FairSpec
CONSTANTS
  None = None
  New = New
  Gone = Gone
  Cohorts = {c1, c2}
  Replicas = {p1}
  MaxErrors = 2
  GcEvery = 1
  MaxChanges = 1
  MaxFaults = 1
INVARIANTS TypeOK RecomputedUnlessOvertaken MembersKept DependenciesFirst OldRowsAwaitDeletion
PROPERTIES StaleComputed OrphansCollected
CHECK_DEADLOCK FALSE
