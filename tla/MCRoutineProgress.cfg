SPECIFICATION Spec
CONSTANTS
  Workers = {w1, w2}
  Buffers = {b1, b2, b3}
  ClientPackets = {p1, p2}
  None = None
SYMMETRY Symmetry
INVARIANTS
  TypeOK
  PushesAreHeard
  LeaksExplained
  StarvationExplained
  SleepersWereParking
PROPERTY
  HeldOnce
CHECK_DEADLOCK FALSE
