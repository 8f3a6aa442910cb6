\* Two parts of every kind in either order, with ties, both calls at once, and
\* calls that fail.
CONSTANTS
  uint16max = 90
  uint32max = 150
  Headers = {p1, p2}
  NoFile = NoFile
  Initial <- Many
  Built <- ByHand
  Explicit = {200}
  Orders = {1, 2}
  Sizes = {75}
  Compressed = {1}
  MaxRaw = 150
  Late = FALSE
CHECK_DEADLOCK FALSE
SPECIFICATION FairSpec
INVARIANTS
  TypeOK
  DirectoryOrdered
  AssembledReadsBack
PROPERTIES
  ImplementsArchive
  CallsReturn
