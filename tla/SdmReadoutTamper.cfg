CONSTANTS
  Sources = {"direct"}
  UidLen = 1
  CtrLen = 2
  MacLen = 1
  TtLen = 2
  PiccLen <- MCPiccLen
  EncUnit = 4
  MaxOffset = 99
  UriAt = 1
  FileLen = 9
  Offsets <- MCOffsets
  Inputs <- MCInputs
  EncLens <- MCEncLens
  Base = 2
  Ctrs <- MCCtrs
  Prefixes <- MCPrefixes
SPECIFICATION Spec
CHECK_DEADLOCK FALSE
INVARIANT
  TamperInPlainHalf
