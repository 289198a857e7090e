SPECIFICATION DllFairSpec
CONSTANTS
  Objects = {o1, o2}
  Pages = {p1, p2}
  MaxRefs = 2
  MaxLocks = 1
  MaxCalls = 2
INVARIANTS
  DllRefsExact
  NeverUnloadedInUse
  AnswerIsOwn
  LibraryUsable
PROPERTIES
  DescribeEnds
  ImplementsFileType
