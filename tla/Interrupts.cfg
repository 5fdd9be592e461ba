SPECIFICATION Spec
CONSTANTS
  QMax = 16
  MaxBmcReset = 1
  MaxTimeout = 1
  MaxFault = 1
  MaxCorrupt = 0
  MaxReset = 1
  MaxCmd = 1
  Damaged <- BmcRegions
  Requested <- NoFlags
  Intents <- BmcAndMixedIntents
INVARIANTS
  NoNullDereference
  Monitored
  QueueBounded
  UpdateNotStranded
PROPERTIES
  LockdownFinal
