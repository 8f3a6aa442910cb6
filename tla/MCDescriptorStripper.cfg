\* Sources of up to thirteen words, longer than the buffer.
CONSTANTS
  Base = 16
  Signature = 5
  BufSize = 8
  PayloadLens = {0, 1, 4, 5, 7}
  NoDescriptor = NoDescriptor
  Sources <- Parts
CHECK_DEADLOCK FALSE
SPECIFICATION FairSpec
INVARIANTS
  TypeOK
  TrueDescriptorTaken
PROPERTIES
  ImplementsRawPart
  ReadingEnds
