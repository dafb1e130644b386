SPECIFICATION Spec
CONSTANTS
  Clients = {h1, h2}
  Sockets = {s1}
  Objects = {o1, o2}
  None = None
  Null = Null
  MaxConnections = 2
  MaxLogouts = 1
SYMMETRY Symmetry
INVARIANTS
  TypeOK
  
  
  
CHECK_DEADLOCK FALSE
