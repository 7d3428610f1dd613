SPECIFICATION FairSpec
CONSTANTS
  Campaigns = {c1}
  Emails = {1, 2}
  Credentials = {k1}
  Tasks = {t1}
  None = None
  CampaignOf <- OneCampaign
  DomainOf <- OneDomain
  InitialDrafts = {1, 2}
  Owned = {c1}
  DailyLimit = 0
  Mode = "external"
  MaxOps = 1
  MaxRestarts = 1
  MaxAgain = 0
PROPERTIES RunningMakesProgress
CHECK_DEADLOCK FALSE
