SPECIFICATION FairSpec
CONSTANTS
  WatchL2 = 2
  MaxHeight = 4
  MaxFailures = 2
INVARIANTS
  EventsAreTrue
  MilestonesOnceThenExit
PROPERTIES
  ProofIsReported
CHECK_DEADLOCK FALSE
