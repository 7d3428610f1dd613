SPECIFICATION Spec
CONSTANTS
  Leads = {1, 2, 3}
  Poison = {2}
  BatchSize = 2
  MaxAttempts = 8
  MaxCrashes = 1
INVARIANTS PoisonIsKept
CHECK_DEADLOCK FALSE
