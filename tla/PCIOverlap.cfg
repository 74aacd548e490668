SPECIFICATION Spec
CONSTANTS
  Labels = {l1, l2}
  Addresses = {a1}
  MaxEntries = 1
  MaxFaults = 2
  Overlap = TRUE
INVARIANT
  NotAddedTwice
