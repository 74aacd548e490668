SPECIFICATION FairSpec
CONSTANTS
  Workers = {w1, w2, w3}
  MaxExpiries = 2
  MaxFaults = 2
INVARIANT
  TypeOK
PROPERTY
  StarvedOnlyByOverlap
