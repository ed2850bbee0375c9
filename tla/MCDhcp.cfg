SPECIFICATION Spec
CONSTANTS
  l1 = l1
  l2 = l2
  Leases <- MCLeases
  Renew <- MCRenew
  Rebind <- MCRebind
  Static = Static
  None = None
  U8 = 10
  U16 = 3
  MaxFail = 1
INVARIANTS
  ShownWhole
  TimerKept
  DeclinedNotUsed
PROPERTY
  FallBackUp
  WaitEnds
  LeaseEnds
CHECK_DEADLOCK FALSE
