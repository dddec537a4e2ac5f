\* Two replicas, one device that two users share, pages of one event.
SPECIFICATION Spec
CONSTANTS
  Anons = {a}
  Users = {u, v}
  Replicas = {p1, p2}
  Slots = 1
  MaxPages = 4
  MaxFaults = 1
  None = None
SYMMETRY Symmetry
INVARIANTS TypeOK ReadsAgree LinkSticks
CHECK_DEADLOCK FALSE
