SPECIFICATION Spec
CONSTANTS
  MaxRuns = 2
  MaxReads = 3
  QueueCap = 3
  MaxDword = 255
  MaxUlonglong = 511
INVARIANTS
  TypeOK
  RefCountExact
  CompleteIsFinal
  StartNeverRefused
  HandlesAccounted
  CopyMatchesShown
PROPERTIES
  RefinesRefCounted
  RefinesSession
CHECK_DEADLOCK FALSE
