SPECIFICATION Spec
CONSTANTS
  Agents = {a1}
  Runs = {r1}
  Starters = {s1}
  Cancellers = {c1}
  None = None
  MaxResumes = 0
  MaxCancels = 1
  MaxCrashes = 0
INVARIANT StoppedIsReported
CHECK_DEADLOCK FALSE
