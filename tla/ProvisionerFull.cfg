SPECIFICATION FairSpec
CONSTANTS
  f1 = f1
  t1 = t1
  t2 = t2
  d1 = d1
  NoFolder = NoFolder
  Requests = {m1}
  FolderNames = {f1}
  Tags = {t1, t2}
  Devices = {d1}
  Classes <- FullClasses
  MaxFaults = 3
INVARIANTS
  TypeOK
  RunningIsComplete
  ProvisionedRuns
  PatchedBeforeVM
  BadDataLeavesNoVM
PROPERTIES
  ImplementsLifecycle
  EventuallyProvisioned
  EventuallyGone
  GoneOnlyWhenRemoved
