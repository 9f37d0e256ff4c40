CONSTANTS
  FlatSize = 2
  NumJobs = 3
  JobSize <- MCJobSize
  ResetSessionOnJobn = 0
  NumLoops = 2
  MaxRetries = 3
  HwModes = {"zeroed", "stale", "independent"}
  OverflowMayConsumeAll = TRUE
  AllowSubmitFailure = TRUE
  AllowJobError = TRUE
  AllowResubmitAllocFailure = FALSE

SPECIFICATION Spec
INVARIANT NoLossNoDuplication
