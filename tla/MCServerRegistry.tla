-------------------------- MODULE MCServerRegistry --------------------------
(* ServerRegistry with sockets as model values.                             *)
EXTENDS ServerRegistry, TLC

Symmetric == Permutations(Sockets)
=============================================================================
