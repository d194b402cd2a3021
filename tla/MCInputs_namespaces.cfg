SPECIFICATION Spec
CONSTANTS
  Input <- MCInput
  Unset = Unset
INVARIANT FileNamespacesUsed
CHECK_DEADLOCK FALSE
