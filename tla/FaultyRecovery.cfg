SPECIFICATION Spec
CONSTANTS
  QMax = 16
  MaxBmcReset = 0
  MaxTimeout = 0
  MaxFault = 1
  MaxCorrupt = 0
  MaxReset = 0
  MaxCmd = 0
  Damaged <- BmcRegions
  Requested <- NoFlags
  Intents <- NoIntents
PROPERTIES
  ReleasesIntactBmc
