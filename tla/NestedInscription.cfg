SPECIFICATION WrittenSpec
CONSTANTS
  Scripts <- MCScripts
  Magic <- MCMagic
  None = None
  Writings <- MCOpenWritings
  Tails <- MCTails
INVARIANTS
  EveryInscriptionIsExtracted
CHECK_DEADLOCK FALSE
