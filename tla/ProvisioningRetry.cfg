CONSTANTS
  Issuer <- MCIssuer
  MaxCalls = 3
SPECIFICATION Spec
CHECK_DEADLOCK FALSE
PROPERTIES
  RetryAccepted
