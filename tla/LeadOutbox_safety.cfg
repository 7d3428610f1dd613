SPECIFICATION FairSpec
CONSTANTS
  Leads = {1, 2}
  Poison = {2}
  BatchSize = 2
  MaxAttempts = 3
  MaxCrashes = 1
INVARIANTS NothingVanishes GivenUpWasRetried
PROPERTIES OldestFirst ImplementsDelivery QueueNeverWedges
CHECK_DEADLOCK FALSE
