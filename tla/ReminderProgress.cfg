SPECIFICATION FairSpec
CONSTANTS
  None = None
  Lost = Lost
  Ids = {i1}
  Workers = {w1, w2}
  Requests = {q1}
  BatchLimit = 1
  PendingLimit = 1
  MaxAttempts = 2
  LeaseCoversRow = FALSE
  MaxFaults = 2
  MaxSaves = 2
INVARIANTS SettledIsTruthful
PROPERTY EventuallySettled
