SPECIFICATION ScannedSpec
CONSTANTS
  Institutions = {i1}
  Instances = {p1}
  Accounts = {a1, a2, a3}
  Templates = {t1}
  ZeroAddress = zero
  InscriptionIds = {}
  RuneIds = {}
  PubKeys = {key1, key2}
  Unset = unset
  MaxSteps = 3
  MaxValue = 0
  MaxTime = 0
  TableElements = 2
  TableSteps = 2
  ArrayLimit = 4
  DecodeRaw <- Decoded
  From = 1
  To = 2
  MaxBlocks = 2
  MaxBatches = 2
  Registries <- MCRegistries
SYMMETRY Symmetry
ACTION_CONSTRAINT Focus
INVARIANTS
  TypeOK
  MembersMatchFlags
  AdminIsMember
  PrintedInChainOrder
  ReaderFollowsContract
  ReaderFollowsProcess
  PrintedCompletionsHold
PROPERTIES
  IdentityIsPermanent
  ImplementsRoster
CHECK_DEADLOCK FALSE
