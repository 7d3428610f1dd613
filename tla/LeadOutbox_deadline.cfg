SPECIFICATION Spec
CONSTANTS
  Leads = {1, 2, 3}
  Poison = {}
  BatchSize = 2
  MaxAttempts = 8
  MaxCrashes = 1
INVARIANTS FinishedIsDrained
CHECK_DEADLOCK FALSE
