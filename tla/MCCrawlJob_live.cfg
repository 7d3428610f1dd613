SPECIFICATION FairSpec
CONSTANTS
  Agents = {a1}
  Runs = {r1}
  Starters = {s1}
  Cancellers = {c1}
  None = None
  MaxResumes = 2
  MaxCancels = 1
  MaxCrashes = 1
PROPERTIES NeverPhantom EngineIsShown CancelStops
CHECK_DEADLOCK FALSE
