SPECIFICATION Spec
CONSTANTS
  Clients = {c1, c2}
  Accounts = {a1, a2}
  Sockets = {s1, s2}
  Workers = {w1, w2}
  None = None
  MaxAsks = 3
SYMMETRY Symmetry
INVARIANTS
  TypeOK
  
  
 
