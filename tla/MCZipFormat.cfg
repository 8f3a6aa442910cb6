\* Field widths small enough for archives of a few hundred bytes to need zip64:
\* two records reach the limit of the count, three truncate to none.
CONSTANTS
  uint16max = 2
  uint32max = 150
CHECK_DEADLOCK FALSE
SPECIFICATION CaseSpec
INVARIANTS
  RoundTrip
  SaturatedMeansZip64
  EndRoundTrip
