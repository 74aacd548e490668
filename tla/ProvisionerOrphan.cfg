SPECIFICATION Spec
CONSTANTS
  f1 = f1
  t1 = t1
  t2 = t2
  d1 = d1
  NoFolder = NoFolder
  Requests = {m1}
  FolderNames = {f1}
  Tags = {t1, t2}
  Devices = {d1}
  Classes <- PlainClasses
  MaxFaults = 1
INVARIANT
  NoOrphan
