SPECIFICATION Spec
CONSTANTS
  NDesc = 5
  NFrames = 7
  MaxLate = 1
INVARIANTS
  InOrder
  RingInStep
  SuspendedOnlyWhenFull
PROPERTY
  EveryFrameHandled
