SPECIFICATION Spec
CONSTANTS
  NUM_PROCESSES = 2
  NUM_VPNS = 2
  NUM_PFNS = 2
  PAGE_SIZE = 1
  WORD_SIZE = 2
  TLB_SIZE = 2
  STRATEGIES = {"LRU", "FIFO"}
  TS_MOD = 8
  MAX_TIMESTAMP = 6
PROPERTIES Transparent ReplacesOldest
CHECK_DEADLOCK FALSE
