\* As MCEntryReader.cfg.
CONSTANTS
  Files <- TwiceAltered
  Signature = 9
  MaxUnits = 3
CHECK_DEADLOCK FALSE
SPECIFICATION Spec
INVARIANTS
  EndAuthenticated
