SPECIFICATION Spec
CONSTANTS
  Chunk = 1
  LoadMod = 2
  RecLen = 2
  CR = CR
  LF = LF
  Nothing = Nothing
  a = a
  z = z
  Char <- MCChar
  Texts <- MCTexts
  Command <- MCCommand
  NKeys = 1
  Debounce = 1
  Pause = 1
INVARIANT TypeOK
INVARIANT DelaysLast
INVARIANT LineWhole
PROPERTY OneReport
PROPERTY HeldIsReported
PROPERTY MainReturns
