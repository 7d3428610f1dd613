SPECIFICATION Spec
CONSTANTS
  Leads = {1, 2}
  Poison = {}
  BatchSize = 2
  MaxAttempts = 8
  MaxCrashes = 1
INVARIANTS OutageLosesNothing
CHECK_DEADLOCK FALSE
