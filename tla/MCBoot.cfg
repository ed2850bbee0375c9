SPECIFICATION BootSpec
CONSTANTS
  NBlocks = 34
  BlockSize = 2
  Width = 64
  SizeOf <- MCSizeOf
INVARIANTS
  FreesOnlyLive
  MemoryAccounted
PROPERTY
  BootsWithSpareMemory
