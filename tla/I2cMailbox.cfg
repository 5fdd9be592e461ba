SPECIFICATION FairSpec
CONSTANTS
  Writes <- ItemWrites
  Reads <- StatusAndFifo
  Size <- RootKeyOnly
  FifoSize = 2
  IndexSize = 3
  QMax = 2
INVARIANTS
  TypeOK
  ServedAsSent
  AnswersWhatWasAsked
  InStep
  ItemAsSent
PROPERTIES
  Served
