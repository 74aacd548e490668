SPECIFICATION Spec
CONSTANTS
  Settings = {"endpoint", "uri", "user", "password"}
  Workers = {w1, w2}
  Interval = 2
  IdleLimit = 4
  MaxRuns = 3
  MaxFaults = 2
INVARIANTS
  TypeOK
  LeftOnlyWhenCut
PROPERTY
  KeptAlive
