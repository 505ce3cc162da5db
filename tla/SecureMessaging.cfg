CONSTANTS
  Command <- MCCommand
  CtrMod = 16
  MaxApdu = 8
  MaxChunks = 2
  ReaderRepeats = FALSE
SPECIFICATION FairSpec
CHECK_DEADLOCK FALSE
INVARIANTS
  TypeOK
  CountersAgree
  NoSpuriousRejection
  InStepInv
PROPERTIES
  CallReturns
  NoIvReuse
  ConfirmedInStep
