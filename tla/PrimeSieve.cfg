SPECIFICATION Spec
CONSTANTS
  WORD = 132
  MAX_N = 120
INVARIANTS SieveCorrect SieveProgress
PROPERTIES SieveEnds
CHECK_DEADLOCK FALSE
