SPECIFICATION FairSpec
CONSTANTS
  POLICIES = {"FIFO", "SJF", "STCF", "RR", "LT"}
  SLICES = {1, 2, 3}
  TICKETS = 1
  MAX_JOBS = 3
  MAX_ARRIVAL = 4
  MAX_LENGTH = 3
INVARIANTS TypeOK TraceExact WorkConserving AnalysisExact ShortestNext NoOvertaking LotteryFair Optimal LongSliceIsFifo
PROPERTIES Finishes
