CONSTANTS
  Registries <- Peers
  Hints <- Payers
  Alike <- Names
  MaxDown = 2
SPECIFICATION IdSpec
INVARIANTS OutageNeverMisroutes
