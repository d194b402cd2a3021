SPECIFICATION Spec
CONSTANTS
  Object <- Workloads
  Preexisting <- OldWorkloads
  Finalizer = {"f1"}
  Namespaces <- MCNamespaces
  Uid <- MCUid
  NoUid = "none"
  Meta <- MCMeta
  SnapVersions = 0
  CleanupNs = "default"
  CleanupUid = "u1"
  MaxFaults = 1
INVARIANTS FailureHasCause
PROPERTIES OnlyInScopeTouched LiveKeepFinalizers
CHECK_DEADLOCK FALSE
