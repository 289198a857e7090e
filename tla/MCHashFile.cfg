SPECIFICATION HashFileSpec
CONSTANTS
  Selections <- MCSelections
  Buffers <- MCBuffers
  MaxBytes = 4
CHECK_DEADLOCK FALSE
INVARIANTS
  ReleasedOnce
  DigestsExact
