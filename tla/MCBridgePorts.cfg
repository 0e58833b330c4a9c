SPECIFICATION Spec
CONSTANTS
  NumNodes = 3
  NumVCs = 1
  VcBufSize = 1
  Speedup = 1
  DestTableSize = 2
  CreditWidth = 1
  Traffic <- MCToLast
  MayQuit = FALSE
  MaxFlits = 2
  None = None
PROPERTY ImplementsService
