SPECIFICATION FairSpec
CONSTANTS
  QMax = 16
  MaxBmcReset = 0
  MaxTimeout = 1
  MaxFault = 0
  MaxCorrupt = 0
  MaxReset = 0
  MaxCmd = 0
  Damaged <- BmcRegions
  Requested <- NoFlags
  Intents <- NoIntents
PROPERTIES
  BmcDecided
