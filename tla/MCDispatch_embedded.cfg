SPECIFICATION Spec
CONSTANTS
  Campaigns = {c1}
  Emails = {1, 2, 3}
  Credentials = {k1}
  Tasks = {t1, t2}
  None = None
  CampaignOf <- OneCampaign
  DomainOf <- OneDomain
  InitialDrafts = {1, 2, 3}
  Owned = {}
  DailyLimit = 1
  Mode = "embedded"
  MaxOps = 3
  MaxRestarts = 1
  MaxAgain = 1
INVARIANTS DailyLimitOvershoot ClaimExclusive DuplicatesHaveACause
PROPERTIES KillSwitch ImplementsDelivery
CHECK_DEADLOCK FALSE
