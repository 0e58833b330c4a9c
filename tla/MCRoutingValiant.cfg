SPECIFICATION Spec
CONSTANT Configs <- MCValiant
INVARIANTS
  NoCyclicWait
CHECK_DEADLOCK FALSE
