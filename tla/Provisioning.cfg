SPECIFICATION Spec
CONSTANTS
  Values = {v1,v2}
  Keys = {k1}
  MaxSvn = 1
  MaxCmd = 6
  MaxReset = 2
  MaxFail = 0
  Faulty <- SoundFlash
  Allowed <- AllCommands
INVARIANTS
  TypeOK
  EnabledIsProvisioned
PROPERTIES
  ProvisionedAsSent
  StoreSpec
CHECK_DEADLOCK FALSE
SYMMETRY ValueSymmetry
