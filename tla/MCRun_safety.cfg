SPECIFICATION FairSpec
CONSTANTS
  RetrySteps = 2
  MaxFaults = 2
INVARIANTS TypeOK VerdictIsEarned LeftBehind OneCapabilityPod CommandsAnswered
PROPERTIES RunEnds
CHECK_DEADLOCK FALSE
