SPECIFICATION FairSpec
CONSTANTS
  NUM_FILES = {1}
  NUM_PROCESSES = {1, 2}
  UNREADABLE = {1}
  DECODER_CRASHES = FALSE
  FORK_FAILS = FALSE
  MAX_KILLS = 1
PROPERTIES RerunEnds
CHECK_DEADLOCK FALSE
