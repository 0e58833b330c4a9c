SPECIFICATION Spec
CONSTANTS
  NumNodes = 2
  NumVCs = 2
  VcBufSize = 1
  Speedup = 1
  DestTableSize = 32
  CreditWidth = 2
  Traffic <- MCConverging
  MayQuit = FALSE
  MaxFlits = 3
  None = None
INVARIANT EjectCredits
