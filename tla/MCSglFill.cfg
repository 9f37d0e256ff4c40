CONSTANTS
  FlatSize = 3
  FileSizes <- MCFileSizes
  SkipLengths <- MCSkipLengths
  SkipModes <- MCSkipModes
  U32 = 65536
SPECIFICATION FairSpec
INVARIANTS TypeOK Layout
PROPERTY FillReturns
