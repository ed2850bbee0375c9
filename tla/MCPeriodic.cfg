SPECIFICATION Spec
CONSTANTS
  Timers = 2
  Interval <- MCInterval
  W = 32
  Step = 3
  Pace = 6
  Boot = 12
  U8 = 5
  Flash = 3
INVARIANTS
  NeverLate
PROPERTY
  NeverEarly
  ServedForEver
  Blinks
