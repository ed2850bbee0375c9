SPECIFICATION Spec
CONSTANTS
  NPcbs = 3
  Period = 2
  NEs = 2
INVARIANTS
  MempSane
