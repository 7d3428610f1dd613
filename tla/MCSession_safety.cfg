CONSTANTS
  None = None
  Users = {"a", "b", "c"}
  Admins = {"a", "b"}
  Operators = {"b", "c"}
  SystemRole = "Operator"
  Roles = {"r"}
  Perms = {"crawl.run"}
  Manage = "users.manage"
  Coroutines = {"crawl", "proxy"}
  Launcher = "launcher"
  Tabs = {1, 2}
  Threshold = 1
  MaxOps = 4
  MaxToks = 4
SPECIFICATION Spec
INVARIANTS LastAdmin EndedStaysEnded KeyringLive
CHECK_DEADLOCK FALSE
