SPECIFICATION FairSpec
CONSTANTS
  NoRow = NoRow
  Deliveries = {d1}
  Attempts = {a1, a2}
  MaxAttempts = 2
  DisableAfter = 2
  MaxCrashes = 1
  MaxChanges = 2
  MaxOvertaken = 1
INVARIANTS
  TypeOK OneAttemptAtATime StatusIsTruthful BoundedByCrashes
PROPERTIES DeliveredStays EventuallySettled
\* Deliveries are settled and nobody changes anything any more.
CHECK_DEADLOCK FALSE
