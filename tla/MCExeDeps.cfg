SPECIFICATION DepsSpec
CONSTANTS
  a = a
  b = b
  api = api
  ext = ext
  NoName = none
  Names <- MCNames
  ApiSets <- MCApiSets
  Spelling <- MCSpelling
  Maps <- MCMaps
  Hyphen = 3
  HashModulus = 16
  Capacity = 2
  Places = 2
  Disks <- MCDisks
  MaxCalls = 1
CHECK_DEADLOCK FALSE
INVARIANTS
  TableSound
  CountsExact
  RowsTruthful
