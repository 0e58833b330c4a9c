SPECIFICATION Spec
CONSTANTS
  Patient = FALSE
  Configs <- MCSelectTwice
INVARIANTS
  Matching
