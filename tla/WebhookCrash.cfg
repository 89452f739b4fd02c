SPECIFICATION Spec
CONSTANTS
  NoRow = NoRow
  Deliveries = {d1}
  Attempts = {a1}
  MaxAttempts = 2
  DisableAfter = 3
  MaxCrashes = 1
  MaxChanges = 0
  MaxOvertaken = 0
INVARIANT AtMostMaxAttempts
\* Deliveries are settled and nobody changes anything any more.
CHECK_DEADLOCK FALSE
