SPECIFICATION Spec
CONSTANTS
  Patient = FALSE
  Configs <- MCMoreOutputs
INVARIANTS
  MaximumSize
