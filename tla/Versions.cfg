SPECIFICATION FairSpec
CONSTANTS
  Capsules <- Three
  Image <- ThreeImages
  Cancels <- TwoCancels
  Cancelled <- TwoCancelled
  PageCount = 2
  MaxStage = 2
  MaxReset = 2
  MaxCorrupt = 1
INVARIANTS
  TypeOK
  ReleasedIsRecorded
  UpdateNotOlder
  CancelledNotWritten
  RewritingHasBackup
  LockdownIsHopeless
  CutUpdateRepeats
CHECK_DEADLOCK FALSE
PROPERTIES
  Decides
  PolicyOnlyTightens
