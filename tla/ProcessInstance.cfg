SPECIFICATION FairInstanceSpec
CONSTANTS
  Instances = {p1}
  Templates = {t1}
  Accounts = {a1, a2}
  ZeroAddress = zero
  MaxSteps = 3
  MaxValue = 1
  MaxTime = 2
INVARIANTS
  InstanceTypeOK
  ProgressMatchesRecords
  TimesFollowSteps
PROPERTIES
  CompletedStepsAreFinal
  PaidValueStays
  ImplementsStepLog
  EveryProcessCanFinish
CHECK_DEADLOCK FALSE
