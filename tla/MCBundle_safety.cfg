SPECIFICATION Spec
CONSTANTS
  PodCount = 2
  Plane = {1, 2}
  BaseCount = 2
  Captures <- Anything
  Absent = Absent
  MaxFaults = 2
INVARIANTS TypeOK LossExplained NoTarInArchive ArchivedBeforeRemoved
CHECK_DEADLOCK FALSE
