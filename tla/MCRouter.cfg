SPECIFICATION Spec
CONSTANTS
  Configs <- MCSafe
  InSize = 2
  OutSize = 1
  MaxLength = 3
INVARIANTS
  TypeOK
  NoAssertionFails
  VCOwned
  NoOverflow
  InItsQueues
  HoldsAgree
  SleepsOnlyWhenIdle
