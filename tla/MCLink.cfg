SPECIFICATION Spec
CONSTANTS
  NumVCs = 2
  BufSize = 3
  NumPrivate = 1
  PrivateSize = 1
  HeldSlots = 2
  MinLatency = 3
  AgingScale = 0
  Offset = 0
  MaxAge = 5
  FlitDelay = 1
  CreditDelay = 1
  TestedPolicies = {"private", "shared", "limited", "dynamic", "shifting", "feedback", "simplefeedback"}
  NoItem = NoItem
INVARIANTS
  TypeOK
  CreditConservation
  NoVCError
  NoBufferError
  PacketsContiguous
  SharedAccounting
  StartedPacketNeverShutOut
  ProbesOutstanding
