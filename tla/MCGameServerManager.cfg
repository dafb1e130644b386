\* Two players for a room of two, one of whom may come back, and two requests
\* to cancel or leave.
SPECIFICATION Spec
CONSTANTS
  Players = {p1, p2}
  Threads = {t1, t2}
  Servers = {d1, d2}
  None = None
  maxplayer = 2
  NumRooms = 2
  MaxLogins = 2
  MaxLeaves = 2
INVARIANTS
  TypeOK
  
  WaitingRoomAttended
PROPERTY MatchesAreMade
CONSTRAINT OneReturns
SYMMETRY Symmetric
CHECK_DEADLOCK FALSE
