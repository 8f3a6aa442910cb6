\* Entries of up to two units of plain data, read in pieces of any size.
CONSTANTS
  Files <- TwiceAltered
  Signature = 9
  MaxUnits = 3
CHECK_DEADLOCK FALSE
SPECIFICATION Spec
INVARIANTS
  TypeOK
  VerifiedBeforeRelease
  EOFMeansWhole
  StoredEndAuthenticated
  SoundIsRead
