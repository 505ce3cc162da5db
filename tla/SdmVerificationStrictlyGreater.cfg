CONSTANTS
  w1 = w1
  w2 = w2
  Uid <- MCUid
  Silent <- MCSilent
  Worker <- MCWorker
  MaxCtr = 2
  MaxCalls = 3
  Exclusive = FALSE
SPECIFICATION Spec
CHECK_DEADLOCK FALSE
PROPERTIES
  StrictlyGreater
