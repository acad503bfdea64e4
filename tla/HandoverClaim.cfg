SPECIFICATION ClaimSpec
CONSTANTS
  o = o
  n = n
  c1 = c1
  c2 = c2
  c3 = c3
  Keys = {o, n, c1, c2, c3}
  Signers <- MCSigners
  Policies <- MCPolicies
  Wallet = wallet
  Inscriptions = {x}
  Nobody = nobody
  WalletFunds <- MCFunds
  FeeRates = {1}
  LeafZeroSequence = 2
  MaxHeight = 3
  MaxTransfers = 1
  Institutions = {i1}
  Accounts = {o, n}
  ZeroAddress = zero
  Templates = {}
  InscriptionIds = {x}
  RuneIds = {}
  PubKeys = {}
  Unset = unset
  Account <- MCAccount
PROPERTIES
  NewOwnerTakesOver
CHECK_DEADLOCK FALSE
