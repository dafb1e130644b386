------------------------------ MODULE MafiaRules ------------------------------
(***************************************************************************)
(* The rules of the game as a player knows them, without connections,      *)
(* timers and counters kept by hand: jobs are dealt once, days and nights  *)
(* alternate, a majority sends one living player to the stand and from the *)
(* stand to death, a night ends with the mafia's choice, the dead take no  *)
(* part, and the game ends in the very step that decides it.               *)
(*                                                                         *)
(* counted is what the game takes for the number of the living: a dead     *)
(* player chosen again by the mafia is counted once more.                  *)
(***************************************************************************)
EXTENDS Integers, FiniteSets

CONSTANTS
  Players,
  None,      \* nobody; also the voter that stands for all guests
  seats      \* players of a game

VARIABLES
  phase, day, winner,
  job, alive, counted,
  ballots,   \* voter -> whom it names
  accused,   \* who stands for execution
  choice     \* player -> whom its job visits tonight

vars == <<phase, day, winner, job, alive, counted, ballots, accused, choice>>

Specials == {"Mafia", "Police", "Detective"}
Jobs == Specials \cup {"Citizen"}
Voters == Players \cup {None}

MafiaLives == \E m \in alive : job[m] = "Mafia"
Naming(p) == {v \in Voters : ballots[v] = p}

Init ==
  /\ phase = "Waiting" /\ day = 0 /\ winner = "none"
  /\ job = [p \in Players |-> "None"] /\ alive = Players /\ counted = 0
  /\ ballots = [v \in Voters |-> None]
  /\ accused = None
  /\ choice = [p \in Players |-> None]

(* The game is over if the mafia is dead or two players are left, and goes  *)
(* on with the next phase otherwise.                                        *)
EndOr(next) ==
  \/ ~MafiaLives' /\ phase' = "GameOver" /\ winner' = "citizens"
  \/ MafiaLives' /\ counted' = 2 /\ phase' = "GameOver" /\ winner' = "mafia"
  \/ MafiaLives' /\ counted' # 2 /\ phase' = next /\ winner' = winner

EndOrNight ==
  /\ EndOr("Night")
  /\ day' = IF phase' = "Night" THEN day + 1 ELSE day

Deal ==
  /\ phase = "Waiting"
  /\ job' \in [Players -> Jobs \cup {"None"}]
  /\ \A p, q \in Players : job'[p] \in Specials /\ job'[p] = job'[q] => p = q
  /\ counted' = seats
  /\ day' = 1
  /\ EndOr("Morning")
  /\ UNCHANGED <<alive, ballots, accused, choice>>

OpenVote ==
  /\ phase = "Morning" /\ phase' = "Voting"
  /\ ballots' = [v \in Voters |-> None]
  /\ UNCHANGED <<day, winner, job, alive, counted, accused, choice>>

Vote(v, p) ==
  /\ phase = "Voting"
  /\ v \in alive \cup {None} /\ p \in alive
  /\ ballots' = [ballots EXCEPT ![v] = p]
  /\ UNCHANGED <<phase, day, winner, job, alive, counted, accused, choice>>

Accuse(p) ==
  /\ phase = "Voting" /\ phase' = "LastWords"
  /\ p \in alive /\ 2 * Cardinality(Naming(p)) > counted
  /\ accused' = p
  /\ UNCHANGED <<day, winner, job, alive, counted, ballots, choice>>

NobodyAccused ==
  /\ phase = "Voting"
  /\ EndOrNight
  /\ UNCHANGED <<job, alive, counted, ballots, accused, choice>>

Execute ==
  /\ phase = "LastWords"
  /\ accused \in alive
  /\ alive' = alive \ {accused} /\ counted' = counted - 1
  /\ accused' = None
  /\ EndOrNight
  /\ UNCHANGED <<job, ballots, choice>>

Choose(p, target) ==
  /\ phase = "Night"
  /\ p \in alive /\ job[p] \in Specials /\ target # p
  /\ choice' = [choice EXCEPT ![p] = target]
  /\ UNCHANGED <<phase, day, winner, job, alive, counted, ballots, accused>>

(* The mafia may be gone, or its choice, and then nothing happens.          *)
Dawn ==
  /\ phase = "Night"
  /\ \/ UNCHANGED <<alive, counted>>
     \/ \E m \in alive :
          /\ job[m] = "Mafia" /\ choice[m] \in Players \ {m}
          /\ alive' = alive \ {choice[m]} /\ counted' = counted - 1
  /\ choice' = [p \in Players |-> None]
  /\ EndOr("Morning")
  /\ UNCHANGED <<day, job, ballots, accused>>

Next ==
  \/ Deal \/ OpenVote \/ NobodyAccused \/ Execute \/ Dawn
  \/ \E p \in Players : Accuse(p) \/ \E v \in Voters : Vote(v, p)
  \/ \E p, target \in Players : Choose(p, target)

Spec == Init /\ [][Next]_vars
=============================================================================
