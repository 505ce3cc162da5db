CONSTANTS
  Sources = {"direct","url"}
  UidLen = 1
  CtrLen = 2
  MacLen = 1
  TtLen = 2
  PiccLen <- MCPiccLen
  EncUnit = 2
  MaxOffset = 99
  UriAt = 1
  FileLen = 8
  Offsets <- MCOffsets
  Inputs <- MCInputs
  EncLens <- MCEncLens
  Base = 2
  Ctrs <- MCCtrs
  Prefixes <- MCPrefixes
SPECIFICATION Spec
CHECK_DEADLOCK FALSE
INVARIANTS
  TypeOK
  Recovered
  OkIsTrue
  RereadSame
CONSTRAINT
  Promising
