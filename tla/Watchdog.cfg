SPECIFICATION Spec
CONSTANTS
  QMax = 16
  MaxBmcReset = 0
  MaxTimeout = 3
  MaxFault = 0
  MaxCorrupt = 2
  MaxReset = 1
  MaxCmd = 0
  Damaged <- BmcRegions
  Requested <- AllFlags
  Intents <- NoIntents
INVARIANTS
  LockdownHoldsBmc
  RewriteHoldsBmc
PROPERTIES
  ReleasesIntactBmc
  PlatformSpec
