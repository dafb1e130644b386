SPECIFICATION Spec
CONSTANTS
  Clients = {h1}
  Sockets = {s1}
  Objects = {o1}
  None = None
  Null = Null
  MaxConnections = 2
  MaxLogouts = 1
PROPERTIES
  SilentAreDisconnected
CHECK_DEADLOCK FALSE
