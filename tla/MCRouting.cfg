SPECIFICATION Spec
CONSTANT Configs <- MCConfigs
INVARIANTS
  TypeOK
  Wired
  PermutationTraffic
  AlwaysRouted
  NoCyclicWait
PROPERTIES
  Arrives
CHECK_DEADLOCK FALSE
