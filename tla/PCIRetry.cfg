SPECIFICATION Spec
CONSTANTS
  Labels = {l1, l2}
  Addresses = {a1}
  MaxEntries = 3
  MaxFaults = 2
  Overlap = FALSE
INVARIANTS
  TypeOK
  EveryKeyAttached
  ReservedUnlessCarried
  NotAddedTwice
