SPECIFICATION Spec
CONSTANTS
  FILES <- MCFiles
  CAPACITY = 2
  MAX_NUMBERS = 5
INVARIANTS TypeOK RowsExact
