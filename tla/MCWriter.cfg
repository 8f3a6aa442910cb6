\* Every kind of entry, and headers that are refused, in archives of two; sizes
\* and offsets cross the zip64 limit.
CONSTANTS
  uint16max = 90
  uint32max = 150
  Headers = {h1, h2}
  NoFile = NoFile
  Initial <- Every
  Offsets = {0, 150}
  Sizes = {0, 75}
  Compressed = {0, 1}
  MaxEntries = 2
  MaxRaw = 150
  MaxRetries = 2
SYMMETRY Symmetry
CHECK_DEADLOCK FALSE
SPECIFICATION Spec
INVARIANTS
  TypeOK
  OffsetsPointAtHeaders
  CountIsPosition
  Framed
  SealedReadsBack
PROPERTIES
  FinishedStays
  ImplementsArchive
