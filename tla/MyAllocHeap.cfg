SPECIFICATION SearchSpec
CONSTANTS
  HDR = 2
  PAGE_SIZE = 6
  MAX_ARENA_SIZE = 12
  INIT_SIZES <- MCInitSizes
  REQUESTS <- MCRequests
INVARIANTS TypeOK Tiled Coalesced LiveBlocks
PROPERTIES SearchEnds Contract
