SPECIFICATION BootSpec
CONSTANTS
  NBlocks = 29
  BlockSize = 2
  Width = 64
  SizeOf <- MCSizeOf
PROPERTY
  RetrySucceeds
