SPECIFICATION Spec
CONSTANTS
  NPbufs = 3
  RefMod = 3
  Long = 2
  NSamples = 2
  chosen = chosen
  default = default
  Hosts <- MCHosts
  Chosen = chosen
  Default = default
  DemoPort = demoport
  OtherPort = otherport
  None = none
INVARIANT PoolSound
INVARIANT SentToTarget
PROPERTY SendsForEver
