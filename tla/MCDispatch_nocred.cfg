SPECIFICATION Spec
CONSTANTS
  Campaigns = {c1}
  Emails = {1, 2}
  Credentials = {k1}
  Tasks = {t1, t2}
  None = None
  CampaignOf <- OneCampaign
  DomainOf <- OneDomain
  InitialDrafts <- FirstDrafted
  Owned = {}
  DailyLimit = 0
  Mode = "embedded"
  MaxOps = 1
  MaxRestarts = 1
  MaxAgain = 0
INVARIANTS SendingIsHeld
CHECK_DEADLOCK FALSE
