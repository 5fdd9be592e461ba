SPECIFICATION Spec
CONSTANTS
  Blobs <- TwoWrong
  PcTypes <- Expected
INVARIANTS
  TypeOK
  AcceptedIsAuthentic
  AuthenticIsAccepted
  HrotOnlyNewer
PROPERTIES
  PolicyGuarded
