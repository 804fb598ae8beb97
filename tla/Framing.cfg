\* Headers of two bits: bodies of up to three, a C buffer of three.
CONSTANTS
  Base = 2
  HeaderSize = 2
  BufSize = 3
  Capacity = 3
  MaxBody = 3
  MaxFrames = 3
SPECIFICATION FairSpec
CHECK_DEADLOCK FALSE
INVARIANTS
  TypeOK
  InOrderIntact
  OutcomeRight
PROPERTIES
  Delivered
