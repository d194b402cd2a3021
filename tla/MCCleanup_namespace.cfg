SPECIFICATION RetrySpec
CONSTANTS
  Object <- JustBackupNs
  Preexisting <- JustBackupNs
  Finalizer = {"f1"}
  Namespaces <- MCNamespaces
  Uid <- MCUid
  NoUid = "none"
  Meta <- MCMeta
  SnapVersions = 0
  CleanupNs = "default"
  CleanupUid = "u1"
  MaxFaults = 1
PROPERTIES BackupNamespaceDeleted
CHECK_DEADLOCK FALSE
