\* Two players for a room of two, one of whom may leave.
SPECIFICATION Spec
CONSTANTS
  Players = {p1, p2}
  Threads = {t1, t2}
  Servers = {d1}
  None = None
  maxplayer = 2
  NumRooms = 2
  MaxLogins = 1
  MaxLeaves = 1
PROPERTY FullRoomsStart
CHECK_DEADLOCK FALSE
