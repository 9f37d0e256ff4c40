CONSTANTS
  NumHpt = 2
  MaxAllocs = 3
  Failures <- MCFailures
SPECIFICATION Spec
INVARIANT DescriptorsOwned
