\* A part is created after a call that has failed.
CONSTANTS
  uint16max = 90
  uint32max = 150
  Headers = {p1, p2, p3}
  NoFile = NoFile
  Initial <- Few
  Built <- Small
  Explicit = {200}
  Orders = {1, 2}
  Sizes = {75}
  Compressed = {1}
  MaxRaw = 75
  Late = TRUE
SYMMETRY Symmetry
CHECK_DEADLOCK FALSE
SPECIFICATION Spec
INVARIANTS
  ComputedOffsetsFollow
