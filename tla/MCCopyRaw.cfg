\* Archives of two entries, each of them copied or the caller's own.
CONSTANTS
  uint16max = 90
  uint32max = 150
  Headers = {h1, h2}
  NoFile = NoFile
  Initial <- Own
  Offsets = {0}
  Sizes = {2}
  Compressed = {0}
  MaxEntries = 2
  MaxRaw = 2
  MaxRetries = 1
  Parts <- Some
  Times = {1, 2}
  Overrides <- Changes
  MaxInt64 = 15
  NoCall = NoCall
SYMMETRY Symmetry
CHECK_DEADLOCK FALSE
SPECIFICATION CopySpec
INVARIANTS
  CopyTypeOK
  CopiesReadBack
  CheckBytesMatch
PROPERTIES
  RightPasswordAccepted
  RefusedUntouched
