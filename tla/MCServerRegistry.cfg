\* Two socket numbers, reused without end.
SPECIFICATION Spec
CONSTANTS
  Sockets = {s1, s2}
  NoSocket = NoSocket
INVARIANTS TypeOK PointersLive OfferedAreOpen CrashExplained OneHeartbeatInFlight DroppedForSilence
SYMMETRY Symmetric
CHECK_DEADLOCK FALSE
