SPECIFICATION FairSpec
CONSTANTS
  NUM_FILES = {0, 1, 3}
  NUM_PROCESSES = {0, 1, 2, 4}
  UNREADABLE = {1}
  DECODER_CRASHES = TRUE
  FORK_FAILS = TRUE
  MAX_KILLS = 1
INVARIANTS TypeOK DistinctIndices NothingSkipped OutputComplete
PROPERTIES RunEnds
CHECK_DEADLOCK FALSE
