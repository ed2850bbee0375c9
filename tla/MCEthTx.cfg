SPECIFICATION Spec
CONSTANTS
  Contexts = {0, 1}
  NDesc = 3
  NSerials = 4
  Rereads = TRUE
INVARIANTS
  RingInStep
  OnlyHeadDamaged
PROPERTY
  AcceptedAreSent
