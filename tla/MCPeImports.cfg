SPECIFICATION ImportsSpec
CONSTANTS
  MaxDword = 19
  MaxDlls = 2
  MaxThunks = 4
  DescriptorSize <- MCDescriptorSize
  ThunkSize <- MCThunkSize
  ByNameSize = 2
  NameOffset = 1
  Files <- MCFiles
CHECK_DEADLOCK FALSE
INVARIANTS
  ReadsInside
  CallsExact
