SPECIFICATION Spec
CONSTANTS
  NUM_PROCESSES = 2
  NUM_VPNS = 2
  NUM_PFNS = 2
  PAGE_SIZE = 1
  WORD_SIZE = 1
  TLB_SIZE = 2
  STRATEGIES = {"LRU", "FIFO"}
  TS_MOD = 3
  MAX_TIMESTAMP = 3
INVARIANTS TypeOK TlbCoherent TlbUnique
CHECK_DEADLOCK FALSE
