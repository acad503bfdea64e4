SPECIFICATION DiscoverySpec
CONSTANTS
  Institutions = {i1, i2}
  Templates = {t1, t2}
  Instances = {p1, p2}
  Deployer = deployer
INVARIANTS
  FoundIsOnChain
  CompleteSinceStart
PROPERTIES
  CrawlEnds
CHECK_DEADLOCK FALSE
