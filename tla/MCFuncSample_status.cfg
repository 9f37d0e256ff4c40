CONSTANTS
  FileSize <- MCFileSize
  PageSize = 2
  NumInter = 2
  CtxSize = TRUE
  ParamsValid = FALSE
  Faults = {}
SPECIFICATION Spec
INVARIANT FailureReported
