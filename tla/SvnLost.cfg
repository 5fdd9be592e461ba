SPECIFICATION Spec
CONSTANTS
  Values = {v1}
  Keys = {k1}
  MaxSvn = 1
  MaxCmd = 1
  MaxReset = 1
  MaxFail = 0
  Faulty <- SoundFlash
  Allowed <- AllCommands
PROPERTIES
  NoRollback
CHECK_DEADLOCK FALSE
