SPECIFICATION FairSpec
CONSTANTS
  NumVCs = 2
  BufSize = 3
  NumPrivate = 2
  PrivateSize = 1
  HeldSlots = 2
  MinLatency = 3
  AgingScale = 0
  Offset = 0
  MaxAge = 5
  FlitDelay = 2
  CreditDelay = 1
  TestedPolicies = {"private", "shared"}
  NoItem = NoItem
PROPERTIES
  ImplementsVCFifo
  CreditsReturn
