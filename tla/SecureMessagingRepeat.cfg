CONSTANTS
  Command <- MCCommand
  CtrMod = 16
  MaxApdu = 7
  MaxChunks = 2
  ReaderRepeats = TRUE
SPECIFICATION Spec
CHECK_DEADLOCK FALSE
PROPERTIES
  ConfirmedAnswerIsOwn
