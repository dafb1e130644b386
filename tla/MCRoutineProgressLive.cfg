SPECIFICATION Spec
CONSTANTS
  Workers = {w1}
  Buffers = {b1, b2}
  ClientPackets = {p1}
  None = None
PROPERTIES
  PacketsAreTaken
  ReleaseReturns
CHECK_DEADLOCK FALSE
