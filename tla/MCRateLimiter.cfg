SPECIFICATION Spec
CONSTANTS
  NameplateMax = 1
  TTL = 1
  Window = 3
  c1 = c1
  c2 = c2
  Clients <- MCClients
  Limit = 2
  MaxTime = 7
  MaxAdmitted = 5
SYMMETRY ClientSymmetry
INVARIANT NoBurst
INVARIANT RejectionJustified
CHECK_DEADLOCK FALSE
