SPECIFICATION Spec
CONSTANTS
  Classes <- AllClasses
  Hardware <- AllHardware
  UserKeys = {"a", "b"}
  Values = {"x", "y"}
  NoString = ""
  OwnValue = "own"
  Word = 64
  IntWord = 8
  KiBPerGiB = 4
  BytesPerKiB = 2
  MaxFaults = 2
INVARIANTS
  TypeOK
  ConsistentOnly
  ParametersSet
  PolicyEverywhere
  HardwareAsAsked
  DiskAsAsked
