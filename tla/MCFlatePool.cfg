\* Three goroutines, four handles one after the other or at once, three objects.
CONSTANTS
  Procs = {p1, p2, p3}
  Handles = {h1, h2, h3, h4}
  Objects = {o1, o2, o3}
  Levels = {low, high}
  Reader = reader
  None = None
SYMMETRY Symmetry
CHECK_DEADLOCK FALSE
SPECIFICATION Spec
INVARIANTS
  TypeOK
  OneOwner
  OwnOutput
  LevelKept
