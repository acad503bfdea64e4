SPECIFICATION VaultSpec
CONSTANTS
  o = o
  n = n
  c1 = c1
  c2 = c2
  c3 = c3
  Keys = {o, n, c1, c2, c3}
  Signers <- MCSigners
  Policies <- MCPolicies
  Wallet = wallet
  Inscriptions = {x, y}
  Nobody = nobody
  WalletFunds <- MCFunds
  FeeRates = {1, 10}
  LeafZeroSequence = 2
  MaxHeight = 4
  MaxTransfers = 3
INVARIANTS
  VaultTypeOK
  InscriptionsStayIsolated
  AdministratorWaits
PROPERTIES
  ImplementsCustody
CHECK_DEADLOCK FALSE
