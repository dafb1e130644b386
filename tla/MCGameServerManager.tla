------------------------- MODULE MCGameServerManager -------------------------
(* GameServerManager with players, threads and servers as model values.     *)
EXTENDS GameServerManager, TLC

Symmetric == Permutations(Players) \cup Permutations(Threads) \cup Permutations(Servers)

(* Bound: one player at most logs in a second time.                         *)
OneReturns == \A h, g \in Players : conn[h] = MaxLogins /\ conn[g] = MaxLogins => h = g
=============================================================================
