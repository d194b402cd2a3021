SPECIFICATION Spec
CONSTANTS
  Input <- MCInput
  Unset = Unset
INVARIANT FileInClusterUsed
CHECK_DEADLOCK FALSE
