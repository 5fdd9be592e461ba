SPECIFICATION Spec
CONSTANTS
  QMax = 16
  MaxBmcReset = 2
  MaxTimeout = 0
  MaxFault = 0
  MaxCorrupt = 1
  MaxReset = 1
  MaxCmd = 0
  Damaged <- BmcRegions
  Requested <- AllFlags
  Intents <- NoIntents
INVARIANTS
  TypeOK
PROPERTIES
  ReleasesIntactBmc
