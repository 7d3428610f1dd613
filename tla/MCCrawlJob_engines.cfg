SPECIFICATION Spec
CONSTANTS
  Agents = {a1}
  Runs = {r1, r2}
  Starters = {s1, s2}
  Cancellers = {c1}
  None = None
  MaxResumes = 2
  MaxCancels = 1
  MaxCrashes = 1
INVARIANT OneEngine
CHECK_DEADLOCK FALSE
SYMMETRY Symmetry
