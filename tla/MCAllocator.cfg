SPECIFICATION Spec
CONSTANTS
  Patient = FALSE
  Configs <- MCSafe
INVARIANTS
  TypeOK
  Matching
  WastesNothing
  MaximumSize
  ArbitersDecide
