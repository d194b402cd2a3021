SPECIFICATION Spec
CONSTANTS
  Input <- MCInput
  Unset = Unset
INVARIANTS Precedence ScopeDecided TargetAsked KindsGetVersions
CHECK_DEADLOCK FALSE
