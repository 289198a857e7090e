SPECIFICATION PeSpec
CONSTANTS
  DosSize = 1
  NtSize = 1
  MagicSize = 1
  HeadersEnd = 1
  CountEnd <- MCCountEnd
  DirStart <- MCDirStart
  DirSize = 1
  SectionSize = 2
  SizeMax = 9
  Dwords <- MCDwords
  Files <- MCFiles
INVARIANTS
  ParsedInside
  AnswersInside
  Contiguous
