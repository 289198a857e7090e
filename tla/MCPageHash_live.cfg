SPECIFICATION FairSpec
CONSTANTS
  MaxRuns = 2
  MaxReads = 1
  QueueCap = 2
  MaxDword = 255
  MaxUlonglong = 511
PROPERTIES
  FreedUnlessLateCall
  RunReported
CHECK_DEADLOCK FALSE
