SPECIFICATION ViewersSpec
CONSTANTS
  Names <- MCNames
  Fold <- MCFold
  MaxEntries = 3
  MaxDword = 7
  Files <- MCFiles
  EfiMaxSize = 6
  IntMax = 6
  EfiBaseEnd <- MCEfiBaseEnd
  EfiFiles <- MCEfiFiles
  IcoMaxImages = 3
  IcoMaxSize = 90
  IcoFiles <- MCIcoFiles
  IsoMaxDword = 15
  SectorSize = 4
  FirstDescriptor = 1
  MaxDescriptors = 3
  AnchorSector = 5
  MaxDirs = 3
  MaxDepth = 2
  MinRecord = 2
  MaxSequence = 2
  CatalogEntries = 6
  MaxImages = 3
  Images <- MCImages
CHECK_DEADLOCK FALSE
INVARIANTS
  ChainsSound
  RowsExact
  EfiSound
  IconsSound
  QueueSound
  DirectoriesComplete
  BootExact
  UdfExact
PROPERTIES
  LoadEnds
