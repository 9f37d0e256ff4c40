CONSTANTS
  FlatSize = 3
  FileSizes <- MCFileSizes
  SkipLengths <- MCSkipLengths
  SkipModes <- MCSkipModes
  U32 = 65536
SPECIFICATION Spec
INVARIANT FillMemorySafe
