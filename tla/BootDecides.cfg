SPECIFICATION FairSpec
CONSTANTS
  QMax = 16
  MaxBmcReset = 0
  MaxTimeout = 0
  MaxFault = 1
  MaxCorrupt = 1
  MaxReset = 1
  MaxCmd = 1
  Damaged <- BmcRegions
  Requested <- BmcFlag
  Intents <- SingleIntents
PROPERTIES
  CommandServed
  BmcDecided
  LocksBrokenBmc
