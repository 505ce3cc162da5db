CONSTANTS
  Issuer <- MCIssuer
  MaxCalls = 4
SPECIFICATION Spec
CHECK_DEADLOCK FALSE
INVARIANTS
  TypeOK
  OkMeansDone
  VerifiedFirst
  KeysInOrder
PROPERTIES
  CustodyKept
