SPECIFICATION Spec
CONSTANTS
  None = None
  Configs <- MCConfigs
  MaxBehind = 1
  MaxInside = 1
  MaxPending = 1
INVARIANTS TypeOK BooksAgree
PROPERTIES StartsClean LoopsEnd
