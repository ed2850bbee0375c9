SPECIFICATION ScanSpec
CONSTANTS
  NBlocks = 6
  BlockSize = 2
  Width = 8
  MaxLen = 6
INVARIANT
  ScanAgrees
PROPERTY
  Returns
CHECK_DEADLOCK FALSE
