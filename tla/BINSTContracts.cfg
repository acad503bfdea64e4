SPECIFICATION ContractsSpec
CONSTANTS
  Institutions = {i1, i2}
  Templates = {t1, t2}
  Instances = {p1, p2}
  Accounts = {a1, a2}
  Deployer = deployer
  Owners = {i1, i2, deployer}
  ZeroAddress = zero
  InscriptionIds = {}
  RuneIds = {rune1}
  PubKeys = {}
  Unset = unset
  MaxSteps = 1
  MaxValue = 0
  MaxTime = 0
SYMMETRY Symmetry
INVARIANTS
  EveryContractListedOnce
  RecordsOfInstancesAgree
PROPERTIES
  ImplementsForest
CHECK_DEADLOCK FALSE
