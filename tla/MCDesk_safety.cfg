CONSTANTS
  None = None
  Recipients = {"x", "y"}
  Domain <- OwnDomains
  Incomplete = {"y"}
  MaxOps = 5
  MaxCamps = 2
  MaxMails = 3
  MaxCreds = 2
  MaxFlows = 2
SPECIFICATION Spec
INVARIANTS OncePerRecipient FlowUsedOnce
PROPERTIES PoolNeverWidens
CHECK_DEADLOCK FALSE
