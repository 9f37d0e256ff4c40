CONSTANTS
  FileSize <- MCFileSize
  PageSize = 2
  NumInter = 2
  CtxSize = TRUE
  ParamsValid = TRUE
  Faults <- MCAllFaults
SPECIFICATION Spec
INVARIANT FuncMemorySound
