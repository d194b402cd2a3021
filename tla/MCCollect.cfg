SPECIFICATION Spec
CONSTANTS
  Resources <- MCResources
  Object <- MCObject
  Event <- MCEvent
  Settings <- MCSettings
  Clusters <- MCClusters
  MaxTrouble = 1
INVARIANTS TypeOK CollectedComplete OnlyPromised SpecsBare EventsExplained
PROPERTY DirectoryFills
CHECK_DEADLOCK FALSE
