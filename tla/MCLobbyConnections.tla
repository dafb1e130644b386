------------------------- MODULE MCLobbyConnections -------------------------
EXTENDS LobbyConnections, TLC

Symmetry == Permutations(Clients) \cup Permutations(Sockets) \cup Permutations(Objects)
=============================================================================
