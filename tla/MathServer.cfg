SPECIFICATION FairSpec
CONSTANTS
  CONTEXTS = 3
  WORD = 8
  OPS <- MCOps
  SIZE = 1
  MAX_LINES = 3
INVARIANT TypeOK
PROPERTIES Sequential Terminates
