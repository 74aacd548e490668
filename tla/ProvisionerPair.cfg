SPECIFICATION FairSpec
CONSTANTS
  f1 = f1
  t1 = t1
  t2 = t2
  d1 = d1
  NoFolder = NoFolder
  Requests = {m1, m2}
  FolderNames = {f1}
  Tags = {t1, t2}
  Devices = {d1}
  Classes <- PairClasses
  MaxFaults = 1
PROPERTY
  EventuallyProvisioned
