SPECIFICATION Spec
CONSTANTS
  HDR = 2
  PAGE_SIZE = 4
  MAX_ARENA_SIZE = 7
  INIT_SIZES <- MCInitSizes
  REQUESTS <- MCRequests
PROPERTIES FailedInitUninitialized
