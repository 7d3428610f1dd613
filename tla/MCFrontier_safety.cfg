CONSTANTS
  None = None
  Workers = {w1, w2}
  Urls <- MCUrls
  Links <- MCLinks
  Seeds <- MCSeeds
  SeedSites = {"list", "page2", "page3", "boss", "chief", "www.boss"}
  Aliases <- MCAliases
  Skippable = {"pdf"}
  Gov = {"list", "page2", "page3", "boss", "chief", "off", "pdf", "www.boss"}
  Hot = {"boss", "chief", "www.boss"}
  Loud = {"off"}
  MaxDepth = 3
  MaxLinks = 1
  Pagination = TRUE
  MaxHops = 2
  MaxChain = 1
  History0 = {}
  Backpressure = TRUE
  MaxFaults = 1
  MaxSaves = 1
SPECIFICATION FairSpec
INVARIANTS JoinIsExact NothingForgotten ChainBounded ClearedStaysCleared
PROPERTIES CrawlEnds
CHECK_DEADLOCK FALSE
