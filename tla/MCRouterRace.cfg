SPECIFICATION Spec
CONSTANTS
  Configs <- MCRace
  InSize = 2
  OutSize = 1
  MaxLength = 2
INVARIANTS
  NoAssertionFails
CHECK_DEADLOCK FALSE
