SPECIFICATION FairSpec
CONSTANTS
  r1 = r1
  Requests = {r1}
  Words = {"prod", "control", "planes", "workers"}
  ClusterOf <- WorkersCluster
  Suffix <- ControlPlanesSuffix
  Elsewhere = elsewhere
  Nowhere = nowhere
  NoVM = novm
  Meddling = {"move", "delete", "create"}
  MaxVMs = 6
  MaxMeddling = 3
  MaxFaults = 2
INVARIANTS
  TypeOK
  NothingLeft
  DestroysNoOther
PROPERTIES
  InClusterFolder
  StuckOnlyWithoutVM
  StuckOnlyAmbiguous
