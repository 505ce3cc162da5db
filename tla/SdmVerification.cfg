CONSTANTS
  w1 = w1
  w2 = w2
  Uid <- MCUid
  Silent <- MCSilent
  Worker <- MCWorker
  MaxCtr = 2
  MaxCalls = 4
  Exclusive = TRUE
SPECIFICATION Spec
SYMMETRY MCSymmetry
CHECK_DEADLOCK FALSE
INVARIANTS
  TypeOK
  StoreNotAhead
  RejectionJustified
PROPERTIES
  AcceptsOnce
