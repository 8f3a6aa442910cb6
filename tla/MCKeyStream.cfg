\* Blocks of two bytes, four of them in the buffer; 15 counters before a wrap.
CONSTANTS
  BlockSize = 2
  BufSize = 8
  DigitBase = 4
  MaxCall = 9
  MaxStream = 30
CHECK_DEADLOCK FALSE
SPECIFICATION Spec
INVARIANTS
  TypeOK
  KeyBytesInOrder
PROPERTIES
  StreamCallsReturn
