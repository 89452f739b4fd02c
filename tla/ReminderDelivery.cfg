SPECIFICATION Spec
CONSTANTS
  None = None
  Lost = Lost
  Ids = {i1, i2, i3}
  Workers = {w1, w2}
  Requests = {q1, q2}
  BatchLimit = 2
  PendingLimit = 2
  MaxAttempts = 1
  LeaseCoversRow = TRUE
  MaxFaults = 1
  MaxSaves = 3
SYMMETRY Symmetry
INVARIANTS
  TypeOK HandledIsOwned PendingWithinLimit
