\* Two entries, below and above the zip64 limit for sizes and offsets.
CONSTANTS
  uint16max = 90
  uint32max = 150
  Headers = {h1}
  Archives <- Pairs
  Gaps = {0, 100}
  Lens = {1, 150}
CHECK_DEADLOCK FALSE
SPECIFICATION Spec
INVARIANTS
  TypeOK
  ConformingPreserved
  OnePass
  FilteredReadsBack
