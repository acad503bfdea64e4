SPECIFICATION WrittenSpec
CONSTANTS
  Scripts <- MCScripts
  Magic <- MCMagic
  None = None
  Writings <- MCWritings
  Tails <- MCTails
INVARIANTS
  EnvelopesAreGenuine
  WrittenIsRead
PROPERTIES
  EveryTurnAdvances
CHECK_DEADLOCK FALSE
