SPECIFICATION FairSpec
CONSTANTS
  Values = {v1}
  Keys = {k1}
  MaxSvn = 1
  MaxCmd = 3
  MaxReset = 1
  MaxFail = 2
  Faulty <- AnyFault
  Allowed <- AllCommands
PROPERTIES
  BusyEnds
CHECK_DEADLOCK FALSE
