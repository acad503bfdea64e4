SPECIFICATION Spec
CONSTANTS
  WatchL2 = 2
  MaxHeight = 4
  MaxFailures = 2
INVARIANTS
  EachMilestoneIsReported
CHECK_DEADLOCK FALSE
