CONSTANTS
  FileSize <- MCFileSize
  PageSize = 2
  NumInter = 2
  CtxSize = TRUE
  ParamsValid = TRUE
  Faults = {}
SPECIFICATION Spec
INVARIANT OutputHoldsProduced
