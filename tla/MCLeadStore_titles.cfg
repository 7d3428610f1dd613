CONSTANTS
  None = None
  Emails = {"a", "b"}
  Jobs = {"j1"}
  ManualJob = "uploads"
  Names = {"n1", "n2"}
  Hosts = {"min", "other"}
  Up <- MCUp
  Public = {"gov"}
  Files <- MCFiles
  Finds <- MCFinds
  Sheets <- MCSheets
  MaxRows = 2
  WeightSets <- MCWeights
  Recomputes = {1, 2}
  ReuseIds = FALSE
  MaxOps = 4
SPECIFICATION Spec
INVARIANT OneRowPerCategory
CHECK_DEADLOCK FALSE
