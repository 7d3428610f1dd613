CONSTANTS
  None = None
  Recipients = {"x"}
  Domain <- OwnDomains
  Incomplete = {}
  MaxOps = 6
  MaxCamps = 1
  MaxMails = 0
  MaxCreds = 2
  MaxFlows = 2
SPECIFICATION Spec
INVARIANTS ConnectSticks
CHECK_DEADLOCK FALSE
