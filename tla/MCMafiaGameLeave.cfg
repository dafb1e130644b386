\* Three players and a dropped connection at any point; the player may come back.
SPECIFICATION Spec
CONSTANTS
  p1 = p1
  p2 = p2
  p3 = p3
  Players = {p1, p2, p3}
  None = None
  REQUIRED_PLAYERS = 3
  NumSpawns = 3
  MaxDay = 2
  MaxLeaves = 1
INVARIANTS
  TypeOK
  VoteTally
  StallsOnlyAfterLeave
PROPERTIES
  PhasesEnd
CHECK_DEADLOCK FALSE
