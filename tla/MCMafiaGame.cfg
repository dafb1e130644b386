\* A full table of four that nobody leaves, up to the third day.
SPECIFICATION Spec
CONSTANTS
  p1 = p1
  p2 = p2
  p3 = p3
  p4 = p4
  Players = {p1, p2, p3, p4}
  None = None
  REQUIRED_PLAYERS = 4
  NumSpawns = 4
  MaxDay = 3
  MaxLeaves = 0
SYMMETRY Symmetry
INVARIANTS
  FactionCounts
  ElectionStands
  BooksOfTheLiving
PROPERTY PlayedByTheRules
CHECK_DEADLOCK FALSE
