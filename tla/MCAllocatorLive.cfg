SPECIFICATION FairSpec
CONSTANTS
  Patient = TRUE
  Configs <- MCFair
PROPERTIES
  NoStarvation
