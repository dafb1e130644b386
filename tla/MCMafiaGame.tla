---------------------------- MODULE MCMafiaGame ----------------------------
(* The dedicated server's game with a small table for TLC. *)
EXTENDS MafiaGame, TLC

(* Players are alike until the jobs are dealt, and the deal is arbitrary. *)
Symmetry == Permutations(Players)
=============================================================================
