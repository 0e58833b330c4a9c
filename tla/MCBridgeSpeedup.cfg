SPECIFICATION Spec
CONSTANTS
  NumNodes = 2
  NumVCs = 1
  VcBufSize = 2
  Speedup = 2
  DestTableSize = 32
  CreditWidth = 1
  Traffic <- MCConverging
  MayQuit = FALSE
  MaxFlits = 3
  None = None
INVARIANT CreditsReadEveryCycle
