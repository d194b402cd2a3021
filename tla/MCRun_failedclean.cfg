SPECIFICATION Spec
CONSTANTS
  RetrySteps = 2
  MaxFaults = 1
INVARIANTS FailedRunCleaned
CHECK_DEADLOCK FALSE
