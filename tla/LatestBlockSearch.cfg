SPECIFICATION FairSearchSpec
CONSTANTS
  FirstLow = 3
  FirstHigh = 5
  MaxTip = 24
INVARIANTS
  ResultIsCurrent
PROPERTIES
  IntervalShrinks
  SearchEnds
CHECK_DEADLOCK FALSE
