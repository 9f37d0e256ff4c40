CONSTANTS
  NumJobs = 2
  Faults <- MCAllFaults

SPECIFICATION Spec

INVARIANT SetupUnwinds
