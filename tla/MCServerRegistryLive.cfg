\* One socket number, for the liveness of the sweep.
SPECIFICATION Spec
CONSTANTS
  Sockets = {s1}
  NoSocket = NoSocket
PROPERTY DeadServersExpire
CHECK_DEADLOCK FALSE
