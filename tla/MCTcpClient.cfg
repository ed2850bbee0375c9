SPECIFICATION FairSpec
CONSTANTS
  NPcbs = 3
  Period = 2
  NEs = 2
INVARIANTS
  PoolAccounted
  FlagMeansConnected
  OneConnection
  PcbAvailable
PROPERTY
  KeepsConnecting
