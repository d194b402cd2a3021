SPECIFICATION Spec
CONSTANTS
  Slot = {p1, p2}
  ClassCount = 2
  Driver = {"csi", "other"}
  NoDriver = "none"
  Provisioner <- SameProvisioner
  OwnVersions = {"v1", "v1beta1"}
  CrdStates <- Various
  Asks <- Perhaps
  MaxFaults = 1
INVARIANTS TypeOK CrdCheckMeansInstalled UserClassKept OneClassPerSlot SoundClusterPasses
PROPERTIES ChosenFits
SYMMETRY Alike
CHECK_DEADLOCK FALSE
