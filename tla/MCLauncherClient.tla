--------------------------- MODULE MCLauncherClient ----------------------------
(* A launcher with a few connections and a few buttons pressed: from its     *)
(* start, and once more from the lobby's screen, which it has reached with   *)
(* the routing server's socket still open.                                   *)
EXTENDS LauncherClient

InLobby ==
  /\ CurrentState = LOBBY /\ currentSocket = 2 /\ signalled = FALSE
  /\ sockets = [s \in Sockets |->
                  CASE s = 1 -> [Connecting(ROUTINE) EXCEPT !.at = "up"]
                    [] s = 2 -> [Connecting(LOBBY) EXCEPT !.at = "up"]
                    [] OTHER -> Unused]
  /\ loop = Idle /\ data_queue = <<>> /\ sendQueue = <<>> /\ jobs = <<>>
  /\ m_isConnected = TRUE /\ screen = "Lobby" /\ presses = 0
  /\ admitted = 2 /\ waiting = FALSE /\ tried = 2 /\ cause = "none"
  /\ wanted = "Lobby" /\ overtaken = FALSE /\ lastPress = "none" /\ reordered = FALSE

MCSpec == (Init \/ InLobby) /\ [][Next]_vars
================================================================================
