SPECIFICATION FairSpec
CONSTANTS
  Configs <- MCFair
  InSize = 2
  OutSize = 1
  MaxLength = 2
PROPERTIES
  FlitsLeave
