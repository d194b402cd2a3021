SPECIFICATION RetrySpec
CONSTANTS
  Object <- RetrySet
  Preexisting <- RetrySet
  Finalizer = {"f1", "f2"}
  Namespaces <- MCNamespaces
  Uid <- MCUid
  NoUid = "none"
  Meta <- MCMeta
  SnapVersions = 2
  CleanupNs = "default"
  CleanupUid = "u1"
  MaxFaults = 1
INVARIANTS TypeOK SuccessMeansCondemned SuccessMeansStripped
PROPERTIES PromiseKept RetryConverges StrippedVanish
CHECK_DEADLOCK FALSE
