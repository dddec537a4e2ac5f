\* Two replicas, two pages of up to two events, no fault.
SPECIFICATION Spec
CONSTANTS
  Anons = {a}
  Users = {u}
  Replicas = {p1, p2}
  Slots = 2
  MaxPages = 2
  MaxFaults = 0
  None = None
SYMMETRY Symmetry
INVARIANTS SamePerson
CHECK_DEADLOCK FALSE
