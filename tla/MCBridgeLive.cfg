SPECIFICATION FairSpec
CONSTANTS
  NumNodes = 2
  NumVCs = 1
  VcBufSize = 1
  Speedup = 1
  DestTableSize = 32
  CreditWidth = 1
  Traffic <- MCConverging
  MayQuit = TRUE
  MaxFlits = 3
  None = None
PROPERTIES
  EveryFlitArrives
CHECK_DEADLOCK FALSE
