\* Routing, auth and lobby, and three buttons; the launcher may rest.
CONSTANTS
  MaxSockets = 3
  MaxPresses = 3
SPECIFICATION MCSpec
INVARIANTS
  TypeOK
  
  EffectsInOrder
CHECK_DEADLOCK FALSE
