SPECIFICATION FairSpec
CONSTANTS
  Campaigns = {c1, c2}
  Emails = {1, 2}
  Credentials = {k1}
  Tasks = {t1, t2}
  None = None
  CampaignOf <- OneEach
  DomainOf <- OneDomain
  InitialDrafts = {1}
  Owned = {}
  DailyLimit = 1
  Mode = "external"
  MaxOps = 2
  MaxRestarts = 1
  MaxAgain = 1
INVARIANTS QueuedIsSelected OneTaskPerCampaign
PROPERTIES NeverStuckSending RunningMakesProgress
CHECK_DEADLOCK FALSE
