SPECIFICATION Spec
CONSTANTS
  NumNodes = 2
  NumVCs = 2
  VcBufSize = 2
  Speedup = 1
  DestTableSize = 32
  CreditWidth = 1
  Traffic <- MCConverging
  MayQuit = FALSE
  MaxFlits = 3
  None = None
INVARIANTS
  TypeOK
  NoAssertionFails
  SenderCredits
  EjectCredits
PROPERTIES
  ImplementsService
