CONSTANTS
  FlatSize = 1
  NumJobs = 3
  JobSize <- MCJobSize
  ResetSessionOnJobn = 0
  NumLoops = 2
  MaxRetries = 3
  HwModes = {"zeroed"}
  OverflowMayConsumeAll = FALSE
  AllowSubmitFailure = TRUE
  AllowJobError = TRUE
  AllowResubmitAllocFailure = TRUE

SPECIFICATION FairSpec
INVARIANT TypeOK
INVARIANT NoLossNoDuplication
INVARIANT ConsumedAccounting
INVARIANT ResumedJobNotReset
INVARIANT SubmittedListsLive
INVARIANT OnlyOriginalsBetweenLoops
INVARIANT ResubmissionTruncatesFront
PROPERTY BnpCompressSafety
PROPERTY Termination
