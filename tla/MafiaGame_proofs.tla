-------------------------- MODULE MafiaGame_proofs --------------------------
(***************************************************************************)
(* Proofs about MafiaGame, for any table size, any set of people and any   *)
(* bounds.  IInv collects the properties of the module with what they need *)
(* to be inductive: who is seated in which phase, and who holds which job. *)
(***************************************************************************)
EXTENDS MafiaGame, FiniteSetTheorems, TLAPS

LEMMA SubsetsFinite ==
  /\ \A S \in SUBSET Players : IsFiniteSet(S) /\ Cardinality(S) \in Nat
  /\ \A S \in SUBSET OrNone(Players) : IsFiniteSet(S) /\ Cardinality(S) \in Nat
<1>1. IsFiniteSet(Players) /\ IsFiniteSet(OrNone(Players))
  BY PlayersAssumption, FS_AddElement DEF OrNone
<1>2. QED
  BY <1>1, FS_Subset, FS_CardinalityType

-----------------------------------------------------------------------------
LEMMA TypeOKInit == Init => TypeOK
<1> SUFFICES ASSUME Init PROVE TypeOK
  OBVIOUS
<1>1. ConnectedPlayers \in 0..REQUIRED_PLAYERS
  BY RequiredAssumption DEF Init
<1>2. /\ JobType \in [Players -> Jobs \cup {"None"}] /\ bIsAlive \in [Players -> BOOLEAN]
      /\ TargetPlayerId \in [Players -> OrNone(Players)]
      /\ NightActions \in [Players -> OrNone(Players)]
      /\ VoteMap \in [OrNone(Players) -> OrNone(Players)]
  BY Zenon DEF Init, OrNone
<1>3. /\ VoteCount \in [Players -> Nat]
      /\ DayCount \in Nat /\ leaves \in Nat
      /\ MafiaCount \in Int /\ CitizenTeamCount \in Int /\ AlivePlayerCount \in Int
  BY DEF Init
<1>4. QED
  BY <1>1, <1>2, <1>3, Zenon DEF Init, TypeOK, OrNone, Phases, TimedPhases

LEMMA DealTypes ==
  ASSUME NEW on \in SUBSET Players, NEW deal \in Deals(on)
  PROVE  /\ deal \in [on -> Jobs]
         /\ \A p, q \in on : deal[p] = deal[q] /\ deal[p] # "Citizen" => p = q
         /\ Cardinality({p \in on : deal[p] = "Mafia"}) \in Nat
         /\ Cardinality({p \in on : deal[p] # "Mafia"}) \in Nat
BY SubsetsFinite DEF Deals

LEMMA CheckWinTypes ==
  ASSUME TypeOK, NEW phase \in Phases, NEW day \in Nat, CheckWinThen(phase, day)
  PROVE  /\ CurrentPhase' \in Phases /\ timerArmed' \in BOOLEAN /\ DayCount' \in Nat
         /\ winner' \in {"none", "citizens", "mafia"}
BY DEF TypeOK, CheckWinThen, Verdict, Phases, TimedPhases

LEMMA TypeOKNext == TypeOK /\ [Next]_vars => TypeOK'
<1> SUFFICES ASSUME TypeOK, [Next]_vars PROVE TypeOK'
  OBVIOUS
<1> USE DEF lobbyVars, phaseVars, countVars, lifeVars, nightVars, voteVars, standVars, faultVars
<1>1. ASSUME NEW p \in Players, PreLogin(p) PROVE TypeOK'
  BY <1>1 DEF TypeOK, PreLogin
<1>2. ASSUME NEW p \in Players, PostLoginSeat(p) PROVE TypeOK'
  BY <1>2, RequiredAssumption DEF TypeOK, PostLoginSeat, InitPlayerInformaion, CanInitPlayer, Online
<1>3. ASSUME NEW p \in Players, PostLoginStart(p) PROVE TypeOK'
  <2>1. connected' \in SUBSET Players
    BY <1>3 DEF TypeOK, PostLoginStart, InitPlayerInformaion
  <2>2. PICK deal \in Deals(connected') :
          /\ JobType' = [q \in Players |-> IF q \in connected' THEN deal[q] ELSE JobType[q]]
          /\ MafiaCount' = Cardinality({q \in connected' : deal[q] = "Mafia"})
          /\ CitizenTeamCount' = Cardinality({q \in connected' : deal[q] # "Mafia"})
          /\ AlivePlayerCount' = REQUIRED_PLAYERS
    BY <1>3 DEF PostLoginStart, AssignJobs
  <2>a. \A on \in SUBSET Players : \A d \in Deals(on) :
          /\ [q \in Players |-> IF q \in on THEN d[q] ELSE JobType[q]]
               \in [Players -> Jobs \cup {"None"}]
          /\ Cardinality({q \in on : d[q] = "Mafia"}) \in Nat
          /\ Cardinality({q \in on : d[q] # "Mafia"}) \in Nat
    <3>1. SUFFICES ASSUME NEW on \in SUBSET Players, NEW d \in Deals(on)
                   PROVE  /\ [q \in Players |-> IF q \in on THEN d[q] ELSE JobType[q]]
                               \in [Players -> Jobs \cup {"None"}]
                          /\ Cardinality({q \in on : d[q] = "Mafia"}) \in Nat
                          /\ Cardinality({q \in on : d[q] # "Mafia"}) \in Nat
      OBVIOUS
    <3>2. /\ d \in [on -> Jobs]
          /\ Cardinality({q \in on : d[q] = "Mafia"}) \in Nat
          /\ Cardinality({q \in on : d[q] # "Mafia"}) \in Nat
      BY <3>1, SubsetsFinite DEF Deals
    <3>3. QED
      BY <3>2 DEF TypeOK
  <2>b. /\ JobType' \in [Players -> Jobs \cup {"None"}]
        /\ MafiaCount' \in Nat /\ CitizenTeamCount' \in Nat
    BY <2>1, <2>2, <2>a, Zenon
  <2>3. /\ JobType' \in [Players -> Jobs \cup {"None"}]
        /\ MafiaCount' \in Int /\ CitizenTeamCount' \in Int /\ AlivePlayerCount' \in Int
    BY <2>2, <2>b, RequiredAssumption
  <2>4. /\ CurrentPhase' \in Phases /\ timerArmed' \in BOOLEAN /\ DayCount' \in Nat
        /\ winner' \in {"none", "citizens", "mafia"}
    BY <1>3 DEF TypeOK, PostLoginStart, Verdict, Phases, TimedPhases
  <2>5. QED
    BY <1>3, <2>3, <2>4, RequiredAssumption
    DEF TypeOK, PostLoginStart, InitPlayerInformaion, CanInitPlayer, Online
<1>4. ASSUME NEW p \in Players, PostLoginGuest(p) PROVE TypeOK'
  BY <1>4 DEF TypeOK, PostLoginGuest, Online
<1>5. ASSUME NEW p \in Players, Leave(p) PROVE TypeOK'
  BY <1>5 DEF TypeOK, Leave
<1>6. ASSUME NEW p \in Players, ServerSubmitLastWords(p) PROVE TypeOK'
  BY <1>6 DEF TypeOK, ServerSubmitLastWords
<1>7. ASSUME NEW p \in Players, NEW target \in Players, ServerProcessNightAction(p, target)
      PROVE  TypeOK'
  BY <1>7 DEF TypeOK, ServerProcessNightAction, OrNone
<1>8. ASSUME NEW voter \in OrNone(Players), NEW target \in Players, ServerCastVote(voter, target)
      PROVE  TypeOK'
  <2>1. RevokedVotes(voter) \in [Players -> Nat]
    BY <1>8 DEF TypeOK, RevokedVotes
  <2>2. VoteCount' \in [Players -> Nat] /\ VoteMap' \in [OrNone(Players) -> OrNone(Players)]
    BY <1>8, <2>1 DEF TypeOK, ServerCastVote, OrNone
  <2>3. QED
    BY <1>8, <2>2 DEF TypeOK, ServerCastVote
<1>9. CASE NightTimeEnd
  <2>1. /\ bIsAlive' \in [Players -> BOOLEAN]
        /\ TargetPlayerId' \in [Players -> OrNone(Players)]
        /\ NightActions' \in [Players -> OrNone(Players)]
    BY <1>9, Zenon DEF TypeOK, NightTimeEnd, MafiaKill, ClearNight, OrNone
  <2>5. CitizenTeamCount' \in Int /\ AlivePlayerCount' \in Int
    BY <1>9 DEF TypeOK, NightTimeEnd, MafiaKill
  <2>2. CheckWinThen("Morning", DayCount)
    BY <1>9 DEF NightTimeEnd
  <2>3. /\ CurrentPhase' \in Phases /\ timerArmed' \in BOOLEAN /\ DayCount' \in Nat
        /\ winner' \in {"none", "citizens", "mafia"}
    BY <2>2, CheckWinTypes DEF TypeOK, Phases, TimedPhases
  <2>4. QED
    BY <1>9, <2>1, <2>3, <2>5 DEF TypeOK, NightTimeEnd
<1>10. CASE NightTimeEndCrash
  BY <1>10 DEF TypeOK, NightTimeEndCrash
<1>11. CASE StartVotingPhase
  BY <1>11 DEF TypeOK, StartVotingPhase, StartPhase, OrNone, Phases, TimedPhases
<1>12. CASE StartLastWordsPhase
  BY <1>12 DEF TypeOK, StartLastWordsPhase, StartPhase, OrNone, Phases, TimedPhases
<1>13. CASE NoOneElected
  <2>1. CheckWinThen("Night", DayCount + 1)
    BY <1>13 DEF NoOneElected, CheckWinThenNight
  <2>2. /\ CurrentPhase' \in Phases /\ timerArmed' \in BOOLEAN /\ DayCount' \in Nat
        /\ winner' \in {"none", "citizens", "mafia"}
    BY <2>1, CheckWinTypes DEF TypeOK, Phases, TimedPhases
  <2>3. QED
    BY <1>13, <2>2 DEF TypeOK, NoOneElected
<1>14. CASE ProcessExecution
  <2>1. CheckWinThen("Night", DayCount + 1)
    BY <1>14 DEF ProcessExecution, CheckWinThenNight
  <2>2. /\ CurrentPhase' \in Phases /\ timerArmed' \in BOOLEAN /\ DayCount' \in Nat
        /\ winner' \in {"none", "citizens", "mafia"}
    BY <2>1, CheckWinTypes DEF TypeOK, Phases, TimedPhases
  <2>3. bIsAlive' \in [Players -> BOOLEAN]
    BY <1>14, Zenon DEF TypeOK, ProcessExecution
  <2>4. MafiaCount' \in Int /\ CitizenTeamCount' \in Int /\ AlivePlayerCount' \in Int
    BY <1>14 DEF TypeOK, ProcessExecution
  <2>5. QED
    BY <1>14, <2>2, <2>3, <2>4 DEF TypeOK, ProcessExecution
<1>15. CASE ExecutedPlayerGone
  BY <1>15 DEF TypeOK, ExecutedPlayerGone
<1>16. CASE UNCHANGED vars
  BY <1>16 DEF TypeOK, vars
<1>17. QED
  BY <1>1, <1>2, <1>3, <1>4, <1>5, <1>6, <1>7, <1>8, <1>9, <1>10, <1>11, <1>12, <1>13, <1>14,
     <1>15, <1>16 DEF Next, OnPhaseTimeEnd

(* Type correctness of the dedicated server's game.                         *)
THEOREM TypeCorrect == Spec => []TypeOK
BY TypeOKInit, TypeOKNext, PTL DEF Spec

-----------------------------------------------------------------------------
(* The inductive invariant                                                  *)

(* The game starts with the last seat and only then; until it starts nobody *)
(* has a job, a vote or a wound.                                            *)
Seats ==
  /\ CurrentPhase = "Waiting" <=> ConnectedPlayers < REQUIRED_PLAYERS
  /\ CurrentPhase = "Waiting" =>
       /\ JobType = [p \in Players |-> "None"]
       /\ bIsAlive = [p \in Players |-> TRUE]
       /\ VoteCount = [p \in Players |-> 0]
       /\ VoteMap = [v \in OrNone(Players) |-> None]

OneMafia == \A p, q \in Players : JobType[p] = "Mafia" /\ JobType[q] = "Mafia" => p = q

(* A night action names another player at the table.                        *)
TargetsAreOthers ==
  \A p \in Players : NightActions[p] # None => NightActions[p] \in PlayerHashes \ {p}

DaysAreCounted ==
  /\ CurrentPhase \in TimedPhases => DayCount >= 1
  /\ CurrentPhase = "Night" => DayCount >= 2

AllStayed == leaves = 0 => connected = PlayerHashes

IInv ==
  /\ TypeOK /\ Seats /\ OneMafia /\ TargetsAreOthers /\ DaysAreCounted /\ AllStayed
  /\ FactionCounts /\ UndecidedWhilePlayed /\ VoteTally /\ ElectionStands
  /\ BooksOfTheLiving /\ WinnerIsRight /\ StallsOnlyAfterLeave

LEMMA IInvInit == Init => IInv
<1> SUFFICES ASSUME Init PROVE IInv
  OBVIOUS
<1>1. TypeOK
  BY TypeOKInit
<1>2. Seats
  BY RequiredAssumption DEF Init, Seats
<1>3. /\ OneMafia /\ TargetsAreOthers /\ DaysAreCounted /\ AllStayed
      /\ UndecidedWhilePlayed /\ ElectionStands /\ StallsOnlyAfterLeave
  BY DEF Init, OneMafia, TargetsAreOthers, DaysAreCounted, AllStayed, UndecidedWhilePlayed,
         ElectionStands, StallsOnlyAfterLeave, TimedPhases
<1>4. Living("Mafia") = {} /\ CitizenTeam = {} /\ connected = {}
  BY DEF Init, Living, CitizenTeam, Jobs
<1>5. FactionCounts /\ VoteTally
  BY <1>4, FS_EmptySet DEF Init, FactionCounts, VoteTally
<1>6. BooksOfTheLiving /\ WinnerIsRight
  BY <1>4 DEF Init, BooksOfTheLiving, WinnerIsRight
<1>7. QED
  BY <1>1, <1>2, <1>3, <1>5, <1>6 DEF IInv

-----------------------------------------------------------------------------
(* What a step may change                                                   *)

LEMMA LifeFrame ==
  ASSUME [Next]_vars
  PROVE  \/ \E p \in Players : PostLoginStart(p)
         \/ NightTimeEnd
         \/ ProcessExecution
         \/ UNCHANGED <<JobType, bIsAlive, MafiaCount, CitizenTeamCount, AlivePlayerCount>>
BY DEF Next, OnPhaseTimeEnd, PreLogin, PostLoginSeat, PostLoginGuest, Leave, ServerSubmitLastWords,
       ServerProcessNightAction, ServerCastVote, NightTimeEndCrash, StartVotingPhase,
       StartLastWordsPhase, NoOneElected, ExecutedPlayerGone, vars, countVars, lifeVars

LEMMA PhaseFrame ==
  ASSUME [Next]_vars
  PROVE  \/ \E p \in Players : PostLoginStart(p)
         \/ NightTimeEnd \/ StartVotingPhase \/ StartLastWordsPhase
         \/ NoOneElected \/ ProcessExecution \/ ExecutedPlayerGone
         \/ UNCHANGED <<CurrentPhase, timerArmed, DayCount, winner>>
BY DEF Next, OnPhaseTimeEnd, PreLogin, PostLoginSeat, PostLoginGuest, Leave, ServerSubmitLastWords,
       ServerProcessNightAction, ServerCastVote, NightTimeEndCrash, vars, phaseVars

LEMMA VoteFrame ==
  ASSUME [Next]_vars
  PROVE  \/ \E voter \in OrNone(Players), target \in Players : ServerCastVote(voter, target)
         \/ StartVotingPhase
         \/ UNCHANGED <<VoteCount, VoteMap>>
BY DEF Next, OnPhaseTimeEnd, PreLogin, PostLoginSeat, PostLoginStart, PostLoginGuest, Leave,
       ServerSubmitLastWords, ServerProcessNightAction, NightTimeEnd, NightTimeEndCrash,
       StartLastWordsPhase, NoOneElected, ProcessExecution, ExecutedPlayerGone, vars, voteVars

LEMMA NightFrame ==
  ASSUME [Next]_vars
  PROVE  \/ \E p, target \in Players : ServerProcessNightAction(p, target)
         \/ NightTimeEnd
         \/ UNCHANGED <<TargetPlayerId, NightActions>>
BY DEF Next, OnPhaseTimeEnd, PreLogin, PostLoginSeat, PostLoginStart, PostLoginGuest, Leave,
       ServerSubmitLastWords, ServerCastVote, NightTimeEndCrash, StartVotingPhase,
       StartLastWordsPhase, NoOneElected, ProcessExecution, ExecutedPlayerGone, vars, nightVars

LEMMA SeatFrame ==
  ASSUME [Next]_vars
  PROVE  \/ \E p \in Players : PostLoginSeat(p) \/ PostLoginStart(p)
         \/ \E p \in Players : Leave(p)
         \/ UNCHANGED <<connected, PlayerHashes, ConnectedPlayers, leaves>>
BY DEF Next, OnPhaseTimeEnd, PreLogin, PostLoginGuest, ServerSubmitLastWords,
       ServerProcessNightAction, ServerCastVote, NightTimeEnd, NightTimeEndCrash, StartVotingPhase,
       StartLastWordsPhase, NoOneElected, ProcessExecution, ExecutedPlayerGone, vars, lobbyVars,
       faultVars

(* Nobody takes a seat once the game has started.                           *)
LEMMA SeatedBefore ==
  ASSUME IInv, [Next]_vars, CurrentPhase # "Waiting"
  PROVE  /\ connected' \subseteq connected /\ PlayerHashes' = PlayerHashes
         /\ ConnectedPlayers' = ConnectedPlayers
<1>1. ~CanInitPlayer
  BY RequiredAssumption DEF IInv, TypeOK, Seats, CanInitPlayer
<1>2. \A p \in Players : ~PostLoginSeat(p) /\ ~PostLoginStart(p)
  BY <1>1 DEF PostLoginSeat, PostLoginStart, InitPlayerInformaion
<1>3. QED
  BY <1>2, SeatFrame DEF Leave

-----------------------------------------------------------------------------
(* Counting the living                                                      *)

LEMMA RemoveOne ==
  ASSUME NEW S \in SUBSET Players, NEW x
  PROVE  /\ x \in S => Cardinality(S \ {x}) = Cardinality(S) - 1
         /\ x \notin S => S \ {x} = S
         /\ Cardinality(S) \in Nat /\ Cardinality(S \ {x}) \in Nat
<1>1. IsFiniteSet(S) /\ Cardinality(S) \in Nat
  BY SubsetsFinite
<1>2. Cardinality(S \ {x}) \in Nat
  BY SubsetsFinite
<1>3. QED
  BY <1>1, <1>2, FS_RemoveElement

LEMMA RemoveAny ==
  ASSUME NEW S \in SUBSET Players, NEW x
  PROVE  /\ Cardinality(S \ {x}) >= Cardinality(S) - 1
         /\ Cardinality(S) \in Nat /\ Cardinality(S \ {x}) \in Nat
<1>1. Cardinality(S) \in Nat /\ Cardinality(S \ {x}) \in Nat
  BY RemoveOne
<1>2. CASE x \in S
  <2>1. Cardinality(S \ {x}) = Cardinality(S) - 1
    BY <1>2, RemoveOne
  <2>2. QED
    BY <1>1, <2>1
<1>3. CASE x \notin S
  <2>1. S \ {x} = S
    BY <1>3
  <2>2. QED
    BY <1>1, <2>1
<1>4. QED
  BY <1>2, <1>3

LEMMA AtMostOne ==
  ASSUME NEW S \in SUBSET Players, \A p, q \in S : p = q
  PROVE  Cardinality(S) \in {0, 1} /\ (Cardinality(S) = 0 <=> S = {})
<1>1. CASE S = {}
  BY <1>1, FS_EmptySet
<1>2. CASE S # {}
  <2>1. PICK p \in S : S = {p}
    BY <1>2
  <2>2. Cardinality(S) = 1
    BY <2>1, FS_Singleton, Zenon
  <2>3. QED
    BY <1>2, <2>2
<1>3. QED
  BY <1>1, <1>2

(* One death takes one member off one of the two factions.                  *)
LEMMA DeathOf ==
  ASSUME TypeOK, NEW v \in Players,
         bIsAlive' = [bIsAlive EXCEPT ![v] = FALSE], JobType' = JobType
  PROVE  /\ Living("Mafia")' = Living("Mafia") \ {v}
         /\ CitizenTeam' = CitizenTeam \ {v}
<1>1. \A p \in Players : bIsAlive'[p] <=> (bIsAlive[p] /\ p # v)
  BY Zenon DEF TypeOK
<1>2. QED
  BY <1>1, Zenon DEF Living, CitizenTeam

(* The night kills nobody, or one player who is not the mafia.              *)
LEMMA NightKill ==
  ASSUME IInv, NightTimeEnd
  PROVE  \/ UNCHANGED <<bIsAlive, CitizenTeamCount, AlivePlayerCount>>
         \/ \E v \in PlayerHashes :
              /\ JobType[v] # "Mafia"
              /\ bIsAlive' = [bIsAlive EXCEPT ![v] = FALSE]
              /\ CitizenTeamCount' = CitizenTeamCount - 1
              /\ AlivePlayerCount' = AlivePlayerCount - 1
<1> DEFINE v == TargetOf("Mafia")
<1>1. CASE UNCHANGED <<bIsAlive, CitizenTeamCount, AlivePlayerCount>>
  BY <1>1
<1>2. CASE ~UNCHANGED <<bIsAlive, CitizenTeamCount, AlivePlayerCount>>
  <2>1. MafiaKill(v) /\ Found(v) /\ v # None
    BY <1>2 DEF NightTimeEnd, MafiaKill, nightVars
  <2>2. PICK p \in Actors("Mafia") : v = TargetPlayerId[p]
    BY <2>1 DEF TargetOf
  <2>3. p \in Players /\ JobType[p] = "Mafia" /\ v = NightActions[p]
    BY <2>2 DEF Actors, IInv, TypeOK, BooksOfTheLiving
  <2>4. v \in PlayerHashes \ {p}
    BY <2>1, <2>3 DEF IInv, TargetsAreOthers
  <2>5. JobType[v] # "Mafia"
    BY <2>3, <2>4 DEF IInv, OneMafia, TypeOK
  <2>6. QED
    BY <2>1, <2>4, <2>5 DEF MafiaKill
<1>3. QED
  BY <1>1, <1>2

(* The execution kills the accused, who is alive.                           *)
LEMMA Execution ==
  ASSUME IInv, ProcessExecution
  PROVE  /\ ExecutedPlayerId \in Players /\ bIsAlive[ExecutedPlayerId]
         /\ bIsAlive' = [bIsAlive EXCEPT ![ExecutedPlayerId] = FALSE]
         /\ JobType' = JobType /\ AlivePlayerCount' = AlivePlayerCount - 1
         /\ \/ /\ JobType[ExecutedPlayerId] = "Mafia"
               /\ MafiaCount' = MafiaCount - 1 /\ CitizenTeamCount' = CitizenTeamCount
            \/ /\ JobType[ExecutedPlayerId] # "Mafia"
               /\ MafiaCount' = MafiaCount /\ CitizenTeamCount' = CitizenTeamCount - 1
<1>1. ExecutedPlayerId \in Players /\ bIsAlive[ExecutedPlayerId]
  BY DEF ProcessExecution, IInv, TypeOK, ElectionStands
<1>2. QED
  BY <1>1 DEF ProcessExecution

-----------------------------------------------------------------------------
(* Each conjunct of IInv is preserved                                       *)

LEMMA SeatsNext == IInv /\ [Next]_vars => Seats'
<1> SUFFICES ASSUME IInv, [Next]_vars PROVE Seats'
  OBVIOUS
<1>1. CASE CurrentPhase # "Waiting"
  <2>1. CurrentPhase' # "Waiting"
    BY <1>1, PhaseFrame, Zenon
    DEF PostLoginStart, NightTimeEnd, StartVotingPhase, StartLastWordsPhase, NoOneElected,
        ProcessExecution, ExecutedPlayerGone, CheckWinThenNight, CheckWinThen, StartPhase
  <2>2. QED
    BY <1>1, <2>1, SeatedBefore DEF IInv, Seats
<1>2. CASE CurrentPhase = "Waiting"
  <2>1. ASSUME NEW p \in Players, PostLoginStart(p) PROVE Seats'
    <3>1. CurrentPhase' # "Waiting" /\ ConnectedPlayers' = REQUIRED_PLAYERS
      BY <2>1 DEF PostLoginStart, InitPlayerInformaion
    <3>2. QED
      BY <3>1, RequiredAssumption DEF Seats
  <2>2. ASSUME NEW p \in Players, PostLoginSeat(p) PROVE Seats'
    <3>1. ConnectedPlayers' < REQUIRED_PLAYERS
      BY <1>2, <2>2, RequiredAssumption
      DEF PostLoginSeat, InitPlayerInformaion, CanInitPlayer, IInv, TypeOK
    <3>2. QED
      BY <1>2, <2>2, <3>1
      DEF PostLoginSeat, IInv, Seats, phaseVars, lifeVars, voteVars
  <2>3. CASE \A p \in Players : ~PostLoginStart(p) /\ ~PostLoginSeat(p)
    <3>1. UNCHANGED <<CurrentPhase, VoteCount, VoteMap, JobType, bIsAlive, ConnectedPlayers>>
      BY <1>2, <2>3, PhaseFrame, VoteFrame, LifeFrame, SeatFrame
      DEF NightTimeEnd, StartVotingPhase, StartLastWordsPhase, NoOneElected, ProcessExecution,
          ExecutedPlayerGone, ServerCastVote, Leave
    <3>2. QED
      BY <1>2, <3>1 DEF IInv, Seats
  <2>4. QED
    BY <2>1, <2>2, <2>3
<1>3. QED
  BY <1>1, <1>2

LEMMA OneMafiaNext == IInv /\ [Next]_vars => OneMafia'
<1> SUFFICES ASSUME IInv, [Next]_vars PROVE OneMafia'
  OBVIOUS
<1>1. ASSUME NEW p \in Players, PostLoginStart(p) PROVE OneMafia'
  <2>1. connected' \in SUBSET Players
    BY <1>1 DEF IInv, TypeOK, PostLoginStart, InitPlayerInformaion
  <2>2. PICK deal \in Deals(connected') :
          JobType' = [q \in Players |-> IF q \in connected' THEN deal[q] ELSE JobType[q]]
    BY <1>1 DEF PostLoginStart, AssignJobs
  <2>3. \A q \in Players : JobType[q] # "Mafia"
    BY <1>1 DEF PostLoginStart, IInv, Seats
  <2>4. \A q \in Players : JobType'[q] = "Mafia" => q \in connected' /\ deal[q] = "Mafia"
    BY <2>2, <2>3
  <2>5. \A q, r \in connected' : deal[q] = "Mafia" /\ deal[r] = "Mafia" => q = r
    BY <2>2 DEF Deals
  <2>6. QED
    BY <2>4, <2>5 DEF OneMafia
<1>2. CASE JobType' = JobType
  BY <1>2 DEF IInv, OneMafia
<1>3. QED
  BY <1>1, <1>2, LifeFrame DEF NightTimeEnd, ProcessExecution

LEMMA TargetsNext == IInv /\ [Next]_vars => TargetsAreOthers'
<1> SUFFICES ASSUME IInv, [Next]_vars PROVE TargetsAreOthers'
  OBVIOUS
<1>1. PlayerHashes \subseteq PlayerHashes'
  BY SeatFrame DEF PostLoginSeat, PostLoginStart, InitPlayerInformaion, Leave, lobbyVars
<1>2. ASSUME NEW p \in Players, NEW target \in Players, ServerProcessNightAction(p, target)
      PROVE  TargetsAreOthers'
  BY <1>1, <1>2 DEF ServerProcessNightAction, IInv, TypeOK, TargetsAreOthers
<1>3. CASE NightTimeEnd
  BY <1>1, <1>3 DEF NightTimeEnd, ClearNight, nightVars, IInv, TargetsAreOthers
<1>4. CASE UNCHANGED <<TargetPlayerId, NightActions>>
  BY <1>1, <1>4 DEF IInv, TargetsAreOthers
<1>5. QED
  BY <1>2, <1>3, <1>4, NightFrame

LEMMA DaysNext == IInv /\ [Next]_vars => DaysAreCounted'
<1> SUFFICES ASSUME IInv, [Next]_vars PROVE DaysAreCounted'
  OBVIOUS
<1> USE DEF IInv, DaysAreCounted, TimedPhases
<1>1. ASSUME NEW p \in Players, PostLoginStart(p) PROVE DaysAreCounted'
  BY <1>1 DEF PostLoginStart
<1>2. CASE NightTimeEnd
  BY <1>2 DEF NightTimeEnd, CheckWinThen
<1>3. CASE StartVotingPhase \/ StartLastWordsPhase
  BY <1>3 DEF StartVotingPhase, StartLastWordsPhase, StartPhase
<1>4. CASE NoOneElected \/ ProcessExecution
  BY <1>4 DEF NoOneElected, ProcessExecution, CheckWinThenNight, CheckWinThen, TypeOK
<1>5. CASE ExecutedPlayerGone
  BY <1>5 DEF ExecutedPlayerGone
<1>6. CASE UNCHANGED <<CurrentPhase, timerArmed, DayCount, winner>>
  BY <1>6
<1>7. QED
  BY <1>1, <1>2, <1>3, <1>4, <1>5, <1>6, PhaseFrame

LEMMA StayedNext == IInv /\ [Next]_vars => AllStayed'
<1> SUFFICES ASSUME IInv, [Next]_vars PROVE AllStayed'
  OBVIOUS
<1>1. ASSUME NEW p \in Players, PostLoginSeat(p) \/ PostLoginStart(p) PROVE AllStayed'
  BY <1>1 DEF PostLoginSeat, PostLoginStart, InitPlayerInformaion, faultVars, IInv, AllStayed
<1>2. ASSUME NEW p \in Players, Leave(p) PROVE AllStayed'
  <2>1. leaves' # 0
    BY <1>2 DEF Leave, IInv, TypeOK
  <2>2. QED
    BY <2>1 DEF AllStayed
<1>3. QED
  BY <1>1, <1>2, SeatFrame DEF IInv, AllStayed

LEMMA FactionsNext == IInv /\ [Next]_vars => FactionCounts'
<1> SUFFICES ASSUME IInv, [Next]_vars PROVE FactionCounts'
  OBVIOUS
<1>1. Living("Mafia") \in SUBSET Players /\ CitizenTeam \in SUBSET Players
  BY DEF Living, CitizenTeam
<1>2. ASSUME NEW p \in Players, PostLoginStart(p) PROVE FactionCounts'
  <2>1. connected' \in SUBSET Players
    BY <1>2 DEF IInv, TypeOK, PostLoginStart, InitPlayerInformaion
  <2>2. PICK deal \in Deals(connected') :
          /\ JobType' = [q \in Players |-> IF q \in connected' THEN deal[q] ELSE JobType[q]]
          /\ MafiaCount' = Cardinality({q \in connected' : deal[q] = "Mafia"})
          /\ CitizenTeamCount' = Cardinality({q \in connected' : deal[q] # "Mafia"})
    BY <1>2 DEF PostLoginStart, AssignJobs
  <2>3. \A q \in Players : JobType[q] = "None" /\ bIsAlive'[q]
    BY <1>2 DEF PostLoginStart, IInv, Seats
  <2>4. \A q \in connected' : deal[q] \in Jobs
    BY <2>2 DEF Deals
  <2>5. /\ \A q \in connected' : JobType'[q] = deal[q]
        /\ \A q \in Players \ connected' : JobType'[q] = "None"
    BY <2>1, <2>2, <2>3
  <2>6. Living("Mafia")' = {q \in connected' : deal[q] = "Mafia"}
    BY <2>1, <2>3, <2>5 DEF Living
  <2>7. CitizenTeam' = {q \in connected' : deal[q] # "Mafia"}
    BY <2>1, <2>3, <2>4, <2>5 DEF CitizenTeam, Jobs
  <2>8. Cardinality({q \in connected' : deal[q] # "Mafia"}) \in Nat
    BY <2>1, <2>2, DealTypes
  <2>9. QED
    BY <2>2, <2>6, <2>7, <2>8 DEF FactionCounts
<1>3. CASE NightTimeEnd
  <2>1. JobType' = JobType /\ MafiaCount' = MafiaCount
    BY <1>3 DEF NightTimeEnd
  <2>2. CASE UNCHANGED <<bIsAlive, CitizenTeamCount, AlivePlayerCount>>
    BY <2>1, <2>2 DEF IInv, FactionCounts, Living, CitizenTeam
  <2>3. ASSUME NEW v \in PlayerHashes, JobType[v] # "Mafia",
               bIsAlive' = [bIsAlive EXCEPT ![v] = FALSE],
               CitizenTeamCount' = CitizenTeamCount - 1
        PROVE  FactionCounts'
    <3>1. v \in Players
      BY DEF IInv, TypeOK
    <3>2. Living("Mafia")' = Living("Mafia") /\ CitizenTeam' = CitizenTeam \ {v}
      BY <2>1, <2>3, <3>1, DeathOf DEF IInv, Living
    <3>3. /\ CitizenTeamCount <= Cardinality(CitizenTeam) /\ CitizenTeamCount \in Int
          /\ MafiaCount = Cardinality(Living("Mafia"))
      BY DEF IInv, TypeOK, FactionCounts
    <3>4. /\ Cardinality(CitizenTeam \ {v}) >= Cardinality(CitizenTeam) - 1
          /\ Cardinality(CitizenTeam) \in Nat /\ Cardinality(CitizenTeam \ {v}) \in Nat
      BY <1>1, RemoveAny
    <3>5. QED
      BY <2>1, <2>3, <3>2, <3>3, <3>4 DEF FactionCounts
  <2>4. QED
    BY <1>3, <2>2, <2>3, NightKill
<1>4. CASE ProcessExecution
  <2> DEFINE e == ExecutedPlayerId
  <2>1. /\ e \in Players /\ bIsAlive[e] /\ JobType' = JobType
        /\ bIsAlive' = [bIsAlive EXCEPT ![e] = FALSE]
    BY <1>4, Execution
  <2>2. Living("Mafia")' = Living("Mafia") \ {e} /\ CitizenTeam' = CitizenTeam \ {e}
    BY <2>1, DeathOf DEF IInv
  <2>3. /\ CitizenTeamCount <= Cardinality(CitizenTeam) /\ CitizenTeamCount \in Int
        /\ MafiaCount = Cardinality(Living("Mafia"))
    BY DEF IInv, TypeOK, FactionCounts
  <2>4. CASE JobType[e] = "Mafia"
    <3>1. e \in Living("Mafia") /\ e \notin CitizenTeam
      BY <2>1, <2>4 DEF Living, CitizenTeam
    <3>2. MafiaCount' = MafiaCount - 1 /\ CitizenTeamCount' = CitizenTeamCount
      BY <1>4, <2>4, Execution
    <3>3. /\ Cardinality(Living("Mafia") \ {e}) = Cardinality(Living("Mafia")) - 1
          /\ CitizenTeam \ {e} = CitizenTeam
      BY <1>1, <3>1, RemoveOne
    <3>4. QED
      BY <2>2, <2>3, <3>2, <3>3 DEF FactionCounts
  <2>5. CASE JobType[e] # "Mafia"
    <3>1. Living("Mafia")' = Living("Mafia")
      BY <2>2, <2>5 DEF Living
    <3>2. MafiaCount' = MafiaCount /\ CitizenTeamCount' = CitizenTeamCount - 1
      BY <1>4, <2>5, Execution
    <3>3. /\ Cardinality(CitizenTeam \ {e}) >= Cardinality(CitizenTeam) - 1
          /\ Cardinality(CitizenTeam) \in Nat /\ Cardinality(CitizenTeam \ {e}) \in Nat
      BY <1>1, RemoveAny
    <3>4. QED
      BY <2>2, <2>3, <3>1, <3>2, <3>3 DEF FactionCounts
  <2>6. QED
    BY <2>4, <2>5
<1>5. CASE UNCHANGED <<JobType, bIsAlive, MafiaCount, CitizenTeamCount, AlivePlayerCount>>
  BY <1>5 DEF IInv, FactionCounts, Living, CitizenTeam
<1>6. QED
  BY <1>2, <1>3, <1>4, <1>5, LifeFrame

-----------------------------------------------------------------------------
(* Verdicts                                                                 *)

(* How CheckWinCondition leaves the game, by the mafia's count.             *)
LEMMA VerdictOf ==
  ASSUME NEW mafia \in {0, 1}, NEW alive \in Int
  PROVE  /\ Verdict(mafia, alive) = "citizens" <=> mafia = 0
         /\ Verdict(mafia, alive) = "mafia" <=> mafia = 1 /\ alive = 2
         /\ Verdict(mafia, alive) = "none" <=> mafia = 1 /\ alive # 2
BY DEF Verdict

LEMMA MafiaCountNext ==
  ASSUME IInv, [Next]_vars
  PROVE  /\ MafiaCount' \in {0, 1} /\ AlivePlayerCount' \in Int
         /\ MafiaCount' = 0 <=> Living("Mafia")' = {}
<1>1. TypeOK' /\ OneMafia' /\ FactionCounts'
  BY TypeOKNext, OneMafiaNext, FactionsNext DEF IInv
<1>2. Living("Mafia")' \in SUBSET Players
  BY DEF Living
<1>3. \A p, q \in Living("Mafia")' : p = q
  BY <1>1 DEF OneMafia, Living
<1>4. /\ Cardinality(Living("Mafia")') \in {0, 1}
      /\ Cardinality(Living("Mafia")') = 0 <=> Living("Mafia")' = {}
  BY <1>2, <1>3, AtMostOne
<1>5. QED
  BY <1>1, <1>4 DEF FactionCounts, TypeOK

(* A step that passes CheckWinCondition goes on to the phase or ends the    *)
(* game with the right winner.                                              *)
LEMMA CheckWinKeeps ==
  ASSUME IInv, [Next]_vars, NEW phase \in TimedPhases, NEW day \in Int,
         CheckWinThen(phase, day), CurrentPhase \in TimedPhases,
         AlivePlayerCount' >= AlivePlayerCount - 1
  PROVE  UndecidedWhilePlayed' /\ WinnerIsRight'
<1>1. AlivePlayerCount > 2 /\ AlivePlayerCount \in Int /\ winner = "none"
  BY DEF IInv, TypeOK, UndecidedWhilePlayed, WinnerIsRight, TimedPhases
<1> DEFINE w == Verdict(MafiaCount', AlivePlayerCount')
<1>2. /\ MafiaCount' \in {0, 1} /\ AlivePlayerCount' \in Int
      /\ MafiaCount' = 0 <=> Living("Mafia")' = {}
  BY MafiaCountNext
<1>3. /\ w = "citizens" <=> MafiaCount' = 0
      /\ w = "mafia" <=> MafiaCount' = 1 /\ AlivePlayerCount' = 2
      /\ w = "none" <=> MafiaCount' = 1 /\ AlivePlayerCount' # 2
  BY <1>2, VerdictOf
<1>4. CASE w # "none" /\ CurrentPhase' = "GameOver" /\ winner' = w
  BY <1>2, <1>3, <1>4 DEF UndecidedWhilePlayed, WinnerIsRight, TimedPhases
<1>5. CASE w = "none" /\ CurrentPhase' = phase /\ winner' = winner
  BY <1>1, <1>2, <1>3, <1>5 DEF UndecidedWhilePlayed, WinnerIsRight, TimedPhases
<1>6. QED
  BY <1>4, <1>5 DEF CheckWinThen

LEMMA VerdictsNext == IInv /\ [Next]_vars => UndecidedWhilePlayed' /\ WinnerIsRight'
<1> SUFFICES ASSUME IInv, [Next]_vars PROVE UndecidedWhilePlayed' /\ WinnerIsRight'
  OBVIOUS
<1> DEFINE Goal == UndecidedWhilePlayed' /\ WinnerIsRight'
<1>1. ASSUME NEW p \in Players, PostLoginStart(p) PROVE Goal
  <2> DEFINE w == Verdict(MafiaCount', AlivePlayerCount')
  <2>1. /\ MafiaCount' \in {0, 1} /\ AlivePlayerCount' \in Int
        /\ MafiaCount' = 0 <=> Living("Mafia")' = {}
    BY MafiaCountNext
  <2>2. /\ w = "citizens" <=> MafiaCount' = 0
        /\ w = "mafia" <=> MafiaCount' = 1 /\ AlivePlayerCount' = 2
        /\ w = "none" <=> MafiaCount' = 1 /\ AlivePlayerCount' # 2
    BY <2>1, VerdictOf
  <2>3. AlivePlayerCount' > 2 /\ winner = "none"
    BY <1>1, RequiredAssumption DEF PostLoginStart, AssignJobs, IInv, WinnerIsRight
  <2>4. CASE w # "none" /\ CurrentPhase' = "GameOver" /\ winner' = w
    BY <2>1, <2>2, <2>4 DEF UndecidedWhilePlayed, WinnerIsRight, TimedPhases
  <2>5. CASE w = "none" /\ CurrentPhase' = "Morning" /\ winner' = winner
    BY <2>1, <2>2, <2>3, <2>5 DEF UndecidedWhilePlayed, WinnerIsRight, TimedPhases
  <2>6. QED
    BY <1>1, <2>4, <2>5 DEF PostLoginStart
<1>2. CASE NightTimeEnd
  <2>1. AlivePlayerCount' >= AlivePlayerCount - 1
    BY <1>2, NightKill DEF IInv, TypeOK
  <2>2. CheckWinThen("Morning", DayCount) /\ CurrentPhase \in TimedPhases /\ DayCount \in Int
    BY <1>2 DEF NightTimeEnd, TimedPhases, IInv, TypeOK
  <2>3. QED
    BY <2>1, <2>2, CheckWinKeeps DEF TimedPhases
<1>3. CASE NoOneElected \/ ProcessExecution
  <2>1. AlivePlayerCount' >= AlivePlayerCount - 1
    BY <1>3 DEF NoOneElected, ProcessExecution, countVars, IInv, TypeOK
  <2>2. /\ CheckWinThen("Night", DayCount + 1) /\ CurrentPhase \in TimedPhases
        /\ DayCount + 1 \in Int
    BY <1>3 DEF NoOneElected, ProcessExecution, CheckWinThenNight, TimedPhases, IInv, TypeOK
  <2>3. QED
    BY <2>1, <2>2, CheckWinKeeps DEF TimedPhases
<1>4. CASE StartVotingPhase \/ StartLastWordsPhase
  BY <1>4
  DEF StartVotingPhase, StartLastWordsPhase, StartPhase, countVars, lifeVars, IInv,
      UndecidedWhilePlayed, WinnerIsRight, Living, TimedPhases
<1>5. CASE ExecutedPlayerGone
  BY <1>5
  DEF ExecutedPlayerGone, countVars, lifeVars, IInv, UndecidedWhilePlayed, WinnerIsRight, Living
<1>6. CASE /\ UNCHANGED <<CurrentPhase, timerArmed, DayCount, winner>>
           /\ UNCHANGED <<JobType, bIsAlive, MafiaCount, CitizenTeamCount, AlivePlayerCount>>
  BY <1>6 DEF IInv, UndecidedWhilePlayed, WinnerIsRight, Living
<1>7. QED
  BY <1>1, <1>2, <1>3, <1>4, <1>5, <1>6, PhaseFrame, LifeFrame

-----------------------------------------------------------------------------
(* Votes                                                                    *)

LEMMA AddOne ==
  ASSUME NEW S \in SUBSET OrNone(Players), NEW x
  PROVE  /\ Cardinality(S) \in Nat
         /\ x \notin S => Cardinality(S \cup {x}) = Cardinality(S) + 1
         /\ x \in S => Cardinality(S \ {x}) = Cardinality(S) - 1 /\ Cardinality(S) > 0
<1>1. IsFiniteSet(S) /\ Cardinality(S) \in Nat
  BY SubsetsFinite
<1>2. x \notin S => Cardinality(S \cup {x}) = Cardinality(S) + 1
  BY <1>1, FS_AddElement
<1>3. ASSUME x \in S PROVE Cardinality(S \ {x}) = Cardinality(S) - 1 /\ Cardinality(S) > 0
  <2>1. Cardinality(S \ {x}) = Cardinality(S) - 1
    BY <1>1, <1>3, FS_RemoveElement
  <2>2. Cardinality(S \ {x}) \in Nat
    BY SubsetsFinite
  <2>3. QED
    BY <1>1, <2>1, <2>2
<1>4. QED
  BY <1>1, <1>2, <1>3

(* A vote moves the voter from the set of one target to that of another.    *)
LEMMA CastVoteTally ==
  ASSUME IInv, NEW voter \in OrNone(Players), NEW target \in Players,
         ServerCastVote(voter, target)
  PROVE  \A t \in connected : VoteCount'[t] = Cardinality(VotesFor(t)')
<1> DEFINE prev == VoteMap[voter]
<1> SUFFICES ASSUME NEW t \in connected PROVE VoteCount'[t] = Cardinality(VotesFor(t)')
  OBVIOUS
<1>1. /\ VoteCount \in [Players -> Nat] /\ VoteMap \in [OrNone(Players) -> OrNone(Players)]
      /\ t \in Players /\ connected \subseteq Players
      /\ VoteCount[t] = Cardinality(VotesFor(t))
  BY DEF IInv, TypeOK, VoteTally
<1>2. /\ VoteCount' = [RevokedVotes(voter) EXCEPT ![target] = @ + 1]
      /\ VoteMap' = [VoteMap EXCEPT ![voter] = target]
  BY DEF ServerCastVote
<1>3. /\ VotesFor(t) \in SUBSET OrNone(Players) /\ (voter \in VotesFor(t) <=> prev = t)
      /\ t = target => VotesFor(t)' = VotesFor(t) \cup {voter}
      /\ t # target => VotesFor(t)' = VotesFor(t) \ {voter}
  BY <1>1, <1>2 DEF VotesFor
<1>4. /\ RevokedVotes(voter) \in [Players -> Nat]
      /\ t # prev => RevokedVotes(voter)[t] = VoteCount[t]
      /\ t = prev => RevokedVotes(voter)[t] = IF VoteCount[t] > 0 THEN VoteCount[t] - 1 ELSE 0
  BY <1>1 DEF RevokedVotes
<1>5. /\ t = target => VoteCount'[t] = RevokedVotes(voter)[t] + 1
      /\ t # target => VoteCount'[t] = RevokedVotes(voter)[t]
  BY <1>1, <1>2, <1>4
<1>6. /\ Cardinality(VotesFor(t)) \in Nat
      /\ prev # t => Cardinality(VotesFor(t) \cup {voter}) = Cardinality(VotesFor(t)) + 1
      /\ prev = t => /\ Cardinality(VotesFor(t) \ {voter}) = Cardinality(VotesFor(t)) - 1
                     /\ Cardinality(VotesFor(t)) > 0
  BY <1>3, AddOne
<1>7. /\ prev = t => VotesFor(t) \cup {voter} = VotesFor(t)
      /\ prev # t => VotesFor(t) \ {voter} = VotesFor(t)
  BY <1>3
<1>8. CASE t = target
  <2>1. /\ VotesFor(t)' = VotesFor(t) \cup {voter}
        /\ VoteCount'[t] = RevokedVotes(voter)[t] + 1
    BY <1>3, <1>5, <1>8
  <2>2. CASE prev = t
    BY <1>1, <1>4, <1>6, <1>7, <2>1, <2>2
  <2>3. CASE prev # t
    BY <1>1, <1>4, <1>6, <2>1, <2>3
  <2>4. QED
    BY <2>2, <2>3
<1>9. CASE t # target
  <2>1. VotesFor(t)' = VotesFor(t) \ {voter} /\ VoteCount'[t] = RevokedVotes(voter)[t]
    BY <1>3, <1>5, <1>9
  <2>2. CASE prev = t
    BY <1>1, <1>4, <1>6, <2>1, <2>2
  <2>3. CASE prev # t
    BY <1>1, <1>4, <1>7, <2>1, <2>3
  <2>4. QED
    BY <2>2, <2>3
<1>10. QED
  BY <1>8, <1>9

LEMMA TallyNext == IInv /\ [Next]_vars => VoteTally'
<1> SUFFICES ASSUME IInv, [Next]_vars PROVE VoteTally'
  OBVIOUS
<1>1. ASSUME NEW voter \in OrNone(Players), NEW target \in Players, ServerCastVote(voter, target)
      PROVE  VoteTally'
  BY <1>1, CastVoteTally DEF VoteTally, ServerCastVote, lobbyVars
<1>2. CASE StartVotingPhase
  <2>1. \A t \in connected' : VotesFor(t)' = {} /\ VoteCount'[t] = 0
    BY <1>2, PlayersAssumption DEF StartVotingPhase, VotesFor, lobbyVars, IInv, TypeOK
  <2>2. QED
    BY <2>1, FS_EmptySet DEF VoteTally
<1>3. CASE UNCHANGED <<VoteCount, VoteMap>>
  <2>1. CASE CurrentPhase # "Waiting"
    BY <1>3, <2>1, SeatedBefore DEF IInv, VoteTally, VotesFor
  <2>2. CASE CurrentPhase = "Waiting"
    <3>1. connected' \subseteq Players
      BY TypeOKNext DEF IInv, TypeOK
    <3>2. \A t \in connected' : VotesFor(t)' = {} /\ VoteCount'[t] = 0
      BY <1>3, <2>2, <3>1, PlayersAssumption DEF IInv, Seats, VotesFor
    <3>3. QED
      BY <3>2, FS_EmptySet DEF VoteTally
  <2>3. QED
    BY <2>1, <2>2
<1>4. QED
  BY <1>1, <1>2, <1>3, VoteFrame

LEMMA ElectionNext == IInv /\ [Next]_vars => ElectionStands'
<1> SUFFICES ASSUME IInv, [Next]_vars, CurrentPhase' = "LastWords" PROVE ElectionStands'
  BY DEF ElectionStands
<1>1. CASE StartLastWordsPhase
  <2>1. PICK p \in Players : Elected(p) /\ ExecutedPlayerId' = p
    BY <1>1 DEF StartLastWordsPhase
  <2>2. UNCHANGED <<lobbyVars, countVars, lifeVars, voteVars>>
    BY <1>1 DEF StartLastWordsPhase
  <2>3. p \in connected /\ p \in PlayerHashes /\ bIsAlive[p] /\ VoteCount[p] >= MajorityVotes
    BY <2>1 DEF Elected, Candidates, IInv, TypeOK
  <2>4. VoteCount[p] = Cardinality(VotesFor(p)) /\ VoteCount[p] \in Nat /\ AlivePlayerCount \in Int
    BY <2>3 DEF IInv, TypeOK, VoteTally
  <2>5. 2 * Cardinality(VotesFor(p)) > AlivePlayerCount
    BY <2>3, <2>4 DEF MajorityVotes
  <2>6. \A q \in Candidates \ {p} : VoteCount[q] < VoteCount[p]
    BY <2>1 DEF Elected
  <2>7. QED
    BY <2>1, <2>2, <2>3, <2>5, <2>6
    DEF ElectionStands, Candidates, VotesFor, lobbyVars, countVars, lifeVars, voteVars
<1>2. CASE ~StartLastWordsPhase
  <2>1. CurrentPhase = "LastWords"
    BY <1>2, PhaseFrame
    DEF PostLoginStart, NightTimeEnd, StartVotingPhase, NoOneElected, ProcessExecution,
        ExecutedPlayerGone, CheckWinThenNight, CheckWinThen, StartPhase
  <2>2. UNCHANGED <<JobType, bIsAlive, MafiaCount, CitizenTeamCount, AlivePlayerCount>>
    <3>1. ~ProcessExecution
      BY DEF ProcessExecution, CheckWinThenNight, CheckWinThen
    <3>2. QED
      BY <2>1, <3>1, LifeFrame DEF PostLoginStart, NightTimeEnd
  <2>3. UNCHANGED <<VoteCount, VoteMap>>
    BY <2>1, VoteFrame DEF ServerCastVote, StartVotingPhase
  <2>4. connected' \subseteq connected /\ PlayerHashes' = PlayerHashes
    BY <2>1, SeatedBefore
  <2>5. ExecutedPlayerId' = ExecutedPlayerId
    BY <1>2
    DEF Next, OnPhaseTimeEnd, PreLogin, PostLoginSeat, PostLoginStart, PostLoginGuest, Leave,
        ServerSubmitLastWords, ServerProcessNightAction, ServerCastVote, NightTimeEnd,
        NightTimeEndCrash, StartVotingPhase, NoOneElected, ProcessExecution, ExecutedPlayerGone,
        vars, standVars
  <2>6. QED
    BY <2>1, <2>2, <2>3, <2>4, <2>5 DEF IInv, ElectionStands, Candidates, VotesFor
<1>3. QED
  BY <1>1, <1>2

LEMMA BooksNext == IInv /\ [Next]_vars => BooksOfTheLiving'
<1> SUFFICES ASSUME IInv, [Next]_vars PROVE BooksOfTheLiving'
  OBVIOUS
<1> DEFINE VotesOfTheLiving ==
             CurrentPhase = "Voting" =>
               \A v \in Players : VoteMap[v] # None => bIsAlive[v] /\ bIsAlive[VoteMap[v]]
           TargetsOfTheLiving ==
             \A p \in Players :
               /\ TargetPlayerId[p] = NightActions[p]
               /\ NightActions[p] # None => CurrentPhase = "Night" /\ bIsAlive[p]
<1>1. VotesOfTheLiving /\ TargetsOfTheLiving
  BY DEF IInv, BooksOfTheLiving
<1>2. VotesOfTheLiving'
  <2> SUFFICES ASSUME CurrentPhase' = "Voting" PROVE VotesOfTheLiving'
    OBVIOUS
  <2>1. CASE StartVotingPhase
    BY <2>1 DEF StartVotingPhase, OrNone
  <2>2. CASE ~StartVotingPhase
    <3>1. CurrentPhase = "Voting"
      BY <2>2, PhaseFrame
      DEF PostLoginStart, NightTimeEnd, StartLastWordsPhase, NoOneElected, ProcessExecution,
          ExecutedPlayerGone, CheckWinThenNight, CheckWinThen, StartPhase
    <3>2. bIsAlive' = bIsAlive
      BY <3>1, LifeFrame DEF PostLoginStart, NightTimeEnd, ProcessExecution
    <3>3. ASSUME NEW voter \in OrNone(Players), NEW target \in Players,
                 ServerCastVote(voter, target)
          PROVE  VotesOfTheLiving'
      <4>1. /\ VoteMap' = [VoteMap EXCEPT ![voter] = target]
            /\ VoteMap \in [OrNone(Players) -> OrNone(Players)]
            /\ bIsAlive[target] /\ (voter # None => bIsAlive[voter])
        BY <3>3 DEF ServerCastVote, FoundAlive, IInv, TypeOK
      <4>2. SUFFICES ASSUME NEW v \in Players, VoteMap'[v] # None
                     PROVE  bIsAlive'[v] /\ bIsAlive'[VoteMap'[v]]
        OBVIOUS
      <4>3. v \in OrNone(Players) /\ v # None
        BY PlayersAssumption DEF OrNone
      <4>4. CASE v = voter
        BY <3>2, <4>1, <4>3, <4>4
      <4>5. CASE v # voter
        BY <1>1, <3>1, <3>2, <4>1, <4>2, <4>3, <4>5
      <4>6. QED
        BY <4>4, <4>5
    <3>4. CASE UNCHANGED <<VoteCount, VoteMap>>
      BY <1>1, <3>1, <3>2, <3>4
    <3>5. QED
      BY <2>2, <3>3, <3>4, VoteFrame
  <2>3. QED
    BY <2>1, <2>2
<1>3. TargetsOfTheLiving'
  <2>1. ASSUME NEW p \in Players, NEW target \in Players, ServerProcessNightAction(p, target)
        PROVE  TargetsOfTheLiving'
    BY <1>1, <2>1 DEF ServerProcessNightAction, lifeVars, phaseVars, IInv, TypeOK
  <2>2. CASE NightTimeEnd
    <3>1. DayCount # 1
      BY <2>2 DEF NightTimeEnd, IInv, TypeOK, DaysAreCounted
    <3>2. QED
      BY <2>2, <3>1 DEF NightTimeEnd, ClearNight
  <2>3. CASE ~NightTimeEnd /\ UNCHANGED <<TargetPlayerId, NightActions>>
    <3>1. CASE CurrentPhase = "Night"
      <4>1. CurrentPhase' = "Night"
        BY <2>3, <3>1, PhaseFrame
        DEF PostLoginStart, StartVotingPhase, StartLastWordsPhase, NoOneElected,
            ProcessExecution, ExecutedPlayerGone
      <4>2. bIsAlive' = bIsAlive
        BY <2>3, <3>1, LifeFrame DEF PostLoginStart, ProcessExecution
      <4>3. QED
        BY <1>1, <2>3, <4>1, <4>2
    <3>2. CASE CurrentPhase # "Night"
      BY <1>1, <2>3, <3>2
    <3>3. QED
      BY <3>1, <3>2
  <2>4. QED
    BY <2>1, <2>2, <2>3, NightFrame
<1>4. QED
  BY <1>2, <1>3 DEF BooksOfTheLiving

LEMMA StallsNext == IInv /\ [Next]_vars => StallsOnlyAfterLeave'
<1> SUFFICES ASSUME IInv, [Next]_vars PROVE StallsOnlyAfterLeave'
  OBVIOUS
<1> DEFINE Armed == CurrentPhase \in TimedPhases /\ ~timerArmed =>
                      CurrentPhase = "LastWords" /\ ExecutedPlayerId \notin connected
<1>1. Armed /\ (leaves = 0 => ~crashed)
  BY DEF IInv, StallsOnlyAfterLeave
<1>2. Armed'
  <2>1. CASE ExecutedPlayerGone
    BY <2>1
    DEF ExecutedPlayerGone, Found, lobbyVars, standVars
  <2>2. CASE UNCHANGED <<CurrentPhase, timerArmed, DayCount, winner>>
    <3>1. CASE CurrentPhase \in TimedPhases /\ ~timerArmed
      <4>1. CurrentPhase = "LastWords" /\ ExecutedPlayerId \notin connected /\ ~timerArmed
        BY <1>1, <3>1
      <4>2. connected' \subseteq connected
        BY <4>1, SeatedBefore
      <4>3. ExecutedPlayerId' = ExecutedPlayerId
        BY <2>2, <4>1
        DEF Next, OnPhaseTimeEnd, PreLogin, PostLoginSeat, PostLoginStart, PostLoginGuest, Leave,
            ServerSubmitLastWords, ServerProcessNightAction, ServerCastVote, NightTimeEnd,
            NightTimeEndCrash, StartVotingPhase, StartLastWordsPhase, NoOneElected,
            ProcessExecution, ExecutedPlayerGone, vars, standVars
      <4>4. QED
        BY <2>2, <4>1, <4>2, <4>3
    <3>2. CASE ~(CurrentPhase \in TimedPhases /\ ~timerArmed)
      BY <2>2, <3>2
    <3>3. QED
      BY <3>1, <3>2
  <2>3. CASE /\ ~ExecutedPlayerGone
             /\ ~UNCHANGED <<CurrentPhase, timerArmed, DayCount, winner>>
    <3>1. timerArmed' \/ CurrentPhase' = "GameOver"
      BY <2>3, PhaseFrame
      DEF PostLoginStart, NightTimeEnd, StartVotingPhase, StartLastWordsPhase, NoOneElected,
          ProcessExecution, CheckWinThenNight, CheckWinThen, StartPhase
    <3>2. QED
      BY <3>1 DEF TimedPhases
  <2>4. QED
    BY <2>1, <2>2, <2>3
<1>3. leaves' = 0 => ~crashed'
  <2> SUFFICES ASSUME leaves' = 0 PROVE ~crashed'
    OBVIOUS
  <2>1. leaves = 0
    <3>1. ASSUME NEW p \in Players, Leave(p) PROVE leaves = 0
      BY <3>1 DEF Leave, IInv, TypeOK
    <3>2. QED
      BY <3>1, SeatFrame DEF PostLoginSeat, PostLoginStart, faultVars
  <2>2. ~crashed /\ connected = PlayerHashes
    BY <1>1, <2>1 DEF IInv, AllStayed
  <2>3. ~NightTimeEndCrash
    <3> SUFFICES ASSUME NightTimeEndCrash PROVE FALSE
      OBVIOUS
    <3> DEFINE watched == TargetOf("Detective")
    <3>1. /\ watched # None /\ NightActions[watched] # None
          /\ ~(Found(watched) /\ Found(NightActions[watched]))
      BY DEF NightTimeEndCrash, NullPlayerState
    <3>2. PICK p \in Actors("Detective") : watched = TargetPlayerId[p]
      BY <3>1 DEF TargetOf
    <3>3. p \in Players /\ watched = NightActions[p]
      BY <3>2 DEF Actors, IInv, TypeOK, BooksOfTheLiving
    <3>4. watched \in PlayerHashes
      BY <3>1, <3>3 DEF IInv, TargetsAreOthers
    <3>5. watched \in Players
      BY <3>4 DEF IInv, TypeOK
    <3>6. NightActions[watched] \in PlayerHashes
      BY <3>1, <3>5 DEF IInv, TargetsAreOthers
    <3>7. QED
      BY <2>2, <3>1, <3>4, <3>6 DEF Found
  <2>4. crashed' = crashed
    BY <2>3
    DEF Next, OnPhaseTimeEnd, PreLogin, PostLoginSeat, PostLoginStart, PostLoginGuest, Leave,
        ServerSubmitLastWords, ServerProcessNightAction, ServerCastVote, NightTimeEnd,
        StartVotingPhase, StartLastWordsPhase, NoOneElected, ProcessExecution, ExecutedPlayerGone,
        vars, faultVars
  <2>5. QED
    BY <2>2, <2>4
<1>4. QED
  BY <1>2, <1>3 DEF StallsOnlyAfterLeave

LEMMA IInvNext == IInv /\ [Next]_vars => IInv'
<1> SUFFICES ASSUME IInv, [Next]_vars PROVE IInv'
  OBVIOUS
<1>1. TypeOK'
  BY TypeOKNext DEF IInv
<1>2. /\ Seats' /\ OneMafia' /\ TargetsAreOthers' /\ DaysAreCounted' /\ AllStayed'
      /\ FactionCounts' /\ UndecidedWhilePlayed' /\ WinnerIsRight' /\ VoteTally'
      /\ ElectionStands' /\ BooksOfTheLiving' /\ StallsOnlyAfterLeave'
  BY SeatsNext, OneMafiaNext, TargetsNext, DaysNext, StayedNext, FactionsNext, VerdictsNext,
     TallyNext, ElectionNext, BooksNext, StallsNext
<1>3. QED
  BY <1>1, <1>2 DEF IInv

(* The counters move together: only the deal, a night's kill and an         *)
(* execution touch them, and the kill is never the mafia's own.             *)
LEMMA CounterGapNext ==
  IInv /\ [Next]_vars => ((CurrentPhase \in TimedPhases) => (CounterGap' = CounterGap))
<1> SUFFICES ASSUME IInv, [Next]_vars, CurrentPhase \in TimedPhases
             PROVE  CounterGap' = CounterGap
  OBVIOUS
<1>1. MafiaCount \in Int /\ CitizenTeamCount \in Int /\ AlivePlayerCount \in Int
  BY DEF IInv, TypeOK
<1>2. \A p \in Players : ~PostLoginStart(p)
  BY DEF PostLoginStart, TimedPhases
<1>3. CASE NightTimeEnd
  <2>1. MafiaCount' = MafiaCount
    BY <1>3 DEF NightTimeEnd
  <2>2. \/ CitizenTeamCount' = CitizenTeamCount /\ AlivePlayerCount' = AlivePlayerCount
        \/ /\ CitizenTeamCount' = CitizenTeamCount - 1
           /\ AlivePlayerCount' = AlivePlayerCount - 1
    BY <1>3, NightKill
  <2>3. QED
    BY <1>1, <2>1, <2>2 DEF CounterGap
<1>4. CASE ProcessExecution
  BY <1>1, <1>4, Execution DEF CounterGap
<1>5. CASE UNCHANGED <<JobType, bIsAlive, MafiaCount, CitizenTeamCount, AlivePlayerCount>>
  BY <1>5 DEF CounterGap
<1>6. QED
  BY <1>2, <1>3, <1>4, <1>5, LifeFrame

-----------------------------------------------------------------------------
(* What holds of the game in every behaviour                                *)

THEOREM Invariance == Spec => []IInv
BY IInvInit, IInvNext, PTL DEF Spec

(* The hand-kept faction counters are right about the living.               *)
THEOREM FactionsCounted == Spec => []FactionCounts
<1>1. IInv => FactionCounts
  BY DEF IInv
<1>2. QED
  BY <1>1, Invariance, PTL

(* No phase of a decided game is played, so no path skips the win check.    *)
THEOREM PlayedUndecided == Spec => []UndecidedWhilePlayed
<1>1. IInv => UndecidedWhilePlayed
  BY DEF IInv
<1>2. QED
  BY <1>1, Invariance, PTL

(* Casting, changing and clearing votes keeps VoteCount equal to VoteMap.   *)
THEOREM VotesTallied == Spec => []VoteTally
<1>1. IInv => VoteTally
  BY DEF IInv
<1>2. QED
  BY <1>1, Invariance, PTL

(* Whoever stands for execution was elected by a majority and without rival.*)
THEOREM ElectedStands == Spec => []ElectionStands
<1>1. IInv => ElectionStands
  BY DEF IInv
<1>2. QED
  BY <1>1, Invariance, PTL

(* The dead have no vote and no night action on the books.                  *)
THEOREM BooksKept == Spec => []BooksOfTheLiving
<1>1. IInv => BooksOfTheLiving
  BY DEF IInv
<1>2. QED
  BY <1>1, Invariance, PTL

(* The announced winner agrees with the living mafia.                       *)
THEOREM WinnerAnnounced == Spec => []WinnerIsRight
<1>1. IInv => WinnerIsRight
  BY DEF IInv
<1>2. QED
  BY <1>1, Invariance, PTL

(* Without a departure the phase timer is pending and nothing crashes.      *)
THEOREM StallsExplained == Spec => []StallsOnlyAfterLeave
<1>1. IInv => StallsOnlyAfterLeave
  BY DEF IInv
<1>2. QED
  BY <1>1, Invariance, PTL

(* Every step of a played game moves the three counters together.           *)
THEOREM CountersTogether == Spec => CountersMoveTogether
<1>1. IInv /\ [Next]_vars => [(CurrentPhase \in TimedPhases) => (CounterGap' = CounterGap)]_vars
  BY CounterGapNext
<1>2. QED
  BY <1>1, Invariance, PTL DEF Spec, CountersMoveTogether
-----------------------------------------------------------------------------
(* The game is played by the rules: each handler and each end of a phase is *)
(* a step of MafiaRules.                                                    *)

LEMMA SameCardinality == \A S : Rules!Cardinality(S) = Cardinality(S)
BY DEF Rules!Cardinality, Cardinality

(* CheckWinCondition, on counters kept by hand, decides as the rules do.    *)
LEMMA VerdictByTheRules ==
  ASSUME IInv, [Next]_vars, NEW phase, NEW day, CheckWinThen(phase, day)
  PROVE  /\ Rules!EndOr(phase)
         /\ \/ CurrentPhase' = "GameOver" /\ DayCount' = DayCount
            \/ CurrentPhase' = phase /\ DayCount' = day
<1> DEFINE w == Verdict(MafiaCount', AlivePlayerCount')
<1>1. /\ MafiaCount' \in {0, 1} /\ AlivePlayerCount' \in Int
      /\ MafiaCount' = 0 <=> Living("Mafia")' = {}
  BY MafiaCountNext
<1>2. /\ w = "citizens" <=> MafiaCount' = 0
      /\ w = "mafia" <=> MafiaCount' = 1 /\ AlivePlayerCount' = 2
      /\ w = "none" <=> MafiaCount' = 1 /\ AlivePlayerCount' # 2
  BY <1>1, VerdictOf
<1>3. Rules!MafiaLives' <=> MafiaCount' = 1
  BY <1>1 DEF Rules!MafiaLives, TheLiving, Living
<1>4. CASE w # "none" /\ CurrentPhase' = "GameOver" /\ winner' = w /\ DayCount' = DayCount
  BY <1>1, <1>2, <1>3, <1>4 DEF Rules!EndOr
<1>5. CASE w = "none" /\ CurrentPhase' = phase /\ winner' = winner /\ DayCount' = day
  BY <1>1, <1>2, <1>3, <1>5 DEF Rules!EndOr
<1>6. QED
  BY <1>4, <1>5 DEF CheckWinThen

LEMMA NightByTheRules ==
  ASSUME IInv, [Next]_vars, CheckWinThenNight
  PROVE  Rules!EndOrNight /\ OnTheStand' = None
<1>1. /\ Rules!EndOr("Night")
      /\ \/ CurrentPhase' = "GameOver" /\ DayCount' = DayCount
         \/ CurrentPhase' = "Night" /\ DayCount' = DayCount + 1
  BY VerdictByTheRules DEF CheckWinThenNight, CheckWinThen
<1>2. QED
  BY <1>1 DEF Rules!EndOrNight, OnTheStand

(* The last seat starts the game: every job but the citizen's has one owner *)
(* at most, although someone may have left before the deal.                 *)
LEMMA StartByTheRules ==
  ASSUME IInv, [Next]_vars, NEW p \in Players, PostLoginStart(p)
  PROVE  Rules!Deal
<1>1. connected' \in SUBSET Players
  BY DEF IInv, TypeOK, PostLoginStart, InitPlayerInformaion
<1>2. PICK deal \in Deals(connected') :
        JobType' = [q \in Players |-> IF q \in connected' THEN deal[q] ELSE JobType[q]]
  BY DEF PostLoginStart, AssignJobs
<1>3. \A q \in Players : JobType[q] = "None"
  BY DEF PostLoginStart, IInv, Seats
<1>4. /\ \A q \in connected' : deal[q] \in Jobs
      /\ \A q, r \in connected' : deal[q] = deal[r] /\ deal[q] # "Citizen" => q = r
  BY <1>2 DEF Deals
<1>5. \A q \in Players : JobType'[q] = IF q \in connected' THEN deal[q] ELSE "None"
  BY <1>2, <1>3
<1>6. JobType' \in [Players -> Rules!Jobs \cup {"None"}]
  BY <1>2, <1>3, <1>4 DEF Jobs, Rules!Jobs, Rules!Specials
<1>7. \A q, r \in Players : JobType'[q] \in Rules!Specials /\ JobType'[q] = JobType'[r] => q = r
  <2> SUFFICES ASSUME NEW q \in Players, NEW r \in Players,
                      JobType'[q] \in Rules!Specials, JobType'[q] = JobType'[r]
               PROVE  q = r
    OBVIOUS
  <2>1. JobType'[q] # "None" /\ JobType'[q] # "Citizen"
    BY DEF Rules!Specials
  <2>2. q \in connected' /\ r \in connected' /\ deal[q] = deal[r] /\ deal[q] # "Citizen"
    BY <1>5, <2>1
  <2>3. QED
    BY <1>4, <2>2
<1> DEFINE w == Verdict(MafiaCount', AlivePlayerCount')
<1>8. /\ MafiaCount' \in {0, 1} /\ AlivePlayerCount' \in Int
      /\ MafiaCount' = 0 <=> Living("Mafia")' = {}
  BY MafiaCountNext
<1>9. /\ w = "citizens" <=> MafiaCount' = 0
      /\ w = "mafia" <=> MafiaCount' = 1 /\ AlivePlayerCount' = 2
      /\ w = "none" <=> MafiaCount' = 1 /\ AlivePlayerCount' # 2
  BY <1>8, VerdictOf
<1>10. Rules!MafiaLives' <=> MafiaCount' = 1
  BY <1>8 DEF Rules!MafiaLives, TheLiving, Living
<1>11. Rules!EndOr("Morning") /\ CurrentPhase' \in {"Morning", "GameOver"}
  <2>1. CASE w = "none" /\ CurrentPhase' = "Morning" /\ winner' = winner
    BY <1>8, <1>9, <1>10, <2>1 DEF Rules!EndOr
  <2>2. CASE w # "none" /\ CurrentPhase' = "GameOver" /\ winner' = w
    BY <1>8, <1>9, <1>10, <2>2 DEF Rules!EndOr
  <2>3. QED
    BY <2>1, <2>2 DEF PostLoginStart
<1>12. /\ CurrentPhase = "Waiting" /\ AlivePlayerCount' = REQUIRED_PLAYERS /\ DayCount' = 1
       /\ bIsAlive' = bIsAlive /\ VoteMap' = VoteMap /\ NightActions' = NightActions
  BY DEF PostLoginStart, AssignJobs, voteVars, nightVars
<1>13. TheLiving' = TheLiving /\ OnTheStand' = OnTheStand
  BY <1>11, <1>12 DEF TheLiving, OnTheStand
<1>14. QED
  BY <1>6, <1>7, <1>11, <1>12, <1>13 DEF Rules!Deal

(* Whoever dies at night was the choice of a living mafia.                  *)
LEMMA DawnByTheRules ==
  ASSUME IInv, [Next]_vars, NightTimeEnd
  PROVE  Rules!Dawn
<1>1. DayCount # 1
  BY DEF NightTimeEnd, IInv, TypeOK, DaysAreCounted
<1>2. /\ CurrentPhase = "Night" /\ MafiaKill(TargetOf("Mafia")) /\ ClearNight
      /\ CheckWinThen("Morning", DayCount)
      /\ JobType' = JobType /\ VoteMap' = VoteMap
  BY <1>1 DEF NightTimeEnd, voteVars
<1>3. Rules!EndOr("Morning") /\ DayCount' = DayCount /\ CurrentPhase' \in {"Morning", "GameOver"}
  BY <1>2, VerdictByTheRules
<1>4. OnTheStand' = OnTheStand /\ NightActions' = [p \in Players |-> None]
  BY <1>2, <1>3 DEF OnTheStand, ClearNight
<1>5. CASE UNCHANGED <<bIsAlive, AlivePlayerCount>>
  <2>1. TheLiving' = TheLiving
    BY <1>5 DEF TheLiving
  <2>2. QED
    BY <1>2, <1>3, <1>4, <1>5, <2>1 DEF Rules!Dawn
<1>6. CASE ~UNCHANGED <<bIsAlive, AlivePlayerCount>>
  <2> DEFINE v == TargetOf("Mafia")
  <2>1. /\ v # None /\ bIsAlive' = [bIsAlive EXCEPT ![v] = FALSE]
        /\ AlivePlayerCount' = AlivePlayerCount - 1
    BY <1>2, <1>6 DEF MafiaKill
  <2>2. PICK m \in Actors("Mafia") : v = TargetPlayerId[m]
    BY <2>1 DEF TargetOf
  <2>3. m \in TheLiving /\ JobType[m] = "Mafia" /\ v = NightActions[m] /\ m \in Players
    BY <2>2 DEF Actors, TheLiving, IInv, TypeOK, BooksOfTheLiving
  <2>4. v \in PlayerHashes \ {m}
    BY <2>1, <2>3 DEF IInv, TargetsAreOthers
  <2>5. NightActions[m] \in Players \ {m}
    BY <2>3, <2>4 DEF IInv, TypeOK
  <2>6. TheLiving' = TheLiving \ {NightActions[m]}
    <3> HIDE DEF v
    <3>1. \A p \in Players : bIsAlive'[p] <=> (bIsAlive[p] /\ p # v)
      BY <2>1, Zenon DEF IInv, TypeOK
    <3>2. QED
      BY <2>3, <3>1 DEF TheLiving
  <2>7. QED
    BY <1>2, <1>3, <1>4, <2>1, <2>3, <2>5, <2>6 DEF Rules!Dawn
<1>7. QED
  BY <1>5, <1>6

(* VoteCount is the number of ballots that name the accused.                *)
LEMMA TrialByTheRules ==
  ASSUME IInv, StartLastWordsPhase
  PROVE  \E p \in Players : Rules!Accuse(p)
<1>1. PICK p \in Players : Elected(p) /\ ExecutedPlayerId' = p
  BY DEF StartLastWordsPhase
<1>2. p \in connected /\ bIsAlive[p] /\ VoteCount[p] >= MajorityVotes
  BY <1>1 DEF Elected, Candidates
<1>3. VoteCount[p] = Cardinality(VotesFor(p)) /\ VoteCount[p] \in Nat /\ AlivePlayerCount \in Int
  BY <1>2 DEF IInv, TypeOK, VoteTally
<1>4. 2 * Cardinality(VotesFor(p)) > AlivePlayerCount
  BY <1>2, <1>3 DEF MajorityVotes
<1>5. Rules!Naming(p) = VotesFor(p)
  BY DEF Rules!Naming, Rules!Voters, VotesFor, OrNone
<1>6. /\ CurrentPhase = "Voting" /\ CurrentPhase' = "LastWords"
      /\ UNCHANGED <<DayCount, winner, JobType, bIsAlive, AlivePlayerCount, VoteMap, NightActions>>
  BY DEF StartLastWordsPhase, StartPhase, lifeVars, countVars, voteVars, nightVars
<1>7. TheLiving' = TheLiving /\ p \in TheLiving /\ OnTheStand' = p
  BY <1>1, <1>2, <1>6 DEF TheLiving, OnTheStand
<1>8. Rules!Accuse(p)
  BY <1>4, <1>5, <1>6, <1>7, SameCardinality DEF Rules!Accuse
<1>9. QED
  BY <1>8

LEMMA ExecutionByTheRules ==
  ASSUME IInv, [Next]_vars, ProcessExecution
  PROVE  Rules!Execute
<1> DEFINE e == ExecutedPlayerId
<1>1. /\ e \in Players /\ bIsAlive[e] /\ bIsAlive' = [bIsAlive EXCEPT ![e] = FALSE]
      /\ JobType' = JobType /\ AlivePlayerCount' = AlivePlayerCount - 1
  BY Execution
<1>2. /\ CurrentPhase = "LastWords" /\ CheckWinThenNight
      /\ VoteMap' = VoteMap /\ NightActions' = NightActions
  BY DEF ProcessExecution, voteVars, nightVars
<1>3. Rules!EndOrNight /\ OnTheStand' = None /\ OnTheStand = e
  BY <1>2, NightByTheRules DEF OnTheStand
<1>4. e \in TheLiving /\ TheLiving' = TheLiving \ {e}
  <2> HIDE DEF e
  <2>1. \A p \in Players : bIsAlive'[p] <=> (bIsAlive[p] /\ p # e)
    BY <1>1, Zenon DEF IInv, TypeOK
  <2>2. QED
    BY <1>1, <2>1 DEF TheLiving
<1>5. QED
  BY <1>1, <1>2, <1>3, <1>4 DEF Rules!Execute

LEMMA CallsByTheRules ==
  ASSUME IInv, NEW target \in Players
  PROVE  /\ \A voter \in OrNone(Players) : ServerCastVote(voter, target) => Rules!Vote(voter, target)
         /\ \A p \in Players : ServerProcessNightAction(p, target) => Rules!Choose(p, target)
<1>1. ASSUME NEW voter \in OrNone(Players), ServerCastVote(voter, target)
      PROVE  Rules!Vote(voter, target)
  <2>1. /\ CurrentPhase = "Voting" /\ VoteMap' = [VoteMap EXCEPT ![voter] = target]
        /\ UNCHANGED <<CurrentPhase, DayCount, winner, JobType, bIsAlive, AlivePlayerCount,
                       NightActions, ExecutedPlayerId>>
    BY <1>1 DEF ServerCastVote, phaseVars, lifeVars, countVars, nightVars, standVars
  <2>2. target \in TheLiving /\ voter \in TheLiving \cup {None}
    BY <1>1 DEF ServerCastVote, FoundAlive, Found, TheLiving, OrNone
  <2>3. TheLiving' = TheLiving /\ OnTheStand' = OnTheStand
    BY <2>1 DEF TheLiving, OnTheStand
  <2>4. QED
    BY <2>1, <2>2, <2>3 DEF Rules!Vote
<1>2. ASSUME NEW p \in Players, ServerProcessNightAction(p, target)
      PROVE  Rules!Choose(p, target)
  <2>1. /\ CurrentPhase = "Night" /\ NightActions' = [NightActions EXCEPT ![p] = target]
        /\ UNCHANGED <<CurrentPhase, DayCount, winner, JobType, bIsAlive, AlivePlayerCount,
                       VoteMap, ExecutedPlayerId>>
    BY <1>2 DEF ServerProcessNightAction, phaseVars, lifeVars, countVars, voteVars, standVars
  <2>2. p \in TheLiving /\ JobType[p] \in Rules!Specials /\ target # p
    BY <1>2 DEF ServerProcessNightAction, TheLiving, NightJobs, Rules!Specials
  <2>3. TheLiving' = TheLiving /\ OnTheStand' = OnTheStand
    BY <2>1 DEF TheLiving, OnTheStand
  <2>4. QED
    BY <2>1, <2>2, <2>3 DEF Rules!Choose
<1>3. QED
  BY <1>1, <1>2

LEMMA RulesNext == IInv /\ [Next]_vars => Rules!Next \/ UNCHANGED Rules!vars
<1> SUFFICES ASSUME IInv, [Next]_vars PROVE Rules!Next \/ UNCHANGED Rules!vars
  OBVIOUS
<1>1. ASSUME NEW p \in Players, PostLoginStart(p) PROVE Rules!Next
  BY <1>1, StartByTheRules DEF Rules!Next
<1>2. CASE NightTimeEnd
  BY <1>2, DawnByTheRules DEF Rules!Next
<1>3. CASE StartVotingPhase
  <2>1. /\ CurrentPhase = "Morning" /\ CurrentPhase' = "Voting"
        /\ VoteMap' = [v \in Rules!Voters |-> None]
        /\ UNCHANGED <<DayCount, winner, JobType, bIsAlive, AlivePlayerCount, NightActions>>
    BY <1>3 DEF StartVotingPhase, StartPhase, lifeVars, countVars, nightVars, OrNone, Rules!Voters
  <2>2. TheLiving' = TheLiving /\ OnTheStand' = OnTheStand
    BY <2>1 DEF TheLiving, OnTheStand
  <2>3. QED
    BY <2>1, <2>2 DEF Rules!OpenVote, Rules!Next
<1>4. CASE StartLastWordsPhase
  BY <1>4, TrialByTheRules DEF Rules!Next
<1>5. CASE NoOneElected
  <2>1. /\ CurrentPhase = "Voting" /\ CheckWinThenNight
        /\ UNCHANGED <<JobType, bIsAlive, AlivePlayerCount, VoteMap, NightActions>>
    BY <1>5 DEF NoOneElected, lifeVars, countVars, voteVars, nightVars
  <2>2. Rules!EndOrNight /\ TheLiving' = TheLiving /\ OnTheStand' = OnTheStand
    BY <2>1, NightByTheRules DEF TheLiving, OnTheStand
  <2>3. QED
    BY <2>1, <2>2 DEF Rules!NobodyAccused, Rules!Next
<1>6. CASE ProcessExecution
  BY <1>6, ExecutionByTheRules DEF Rules!Next
<1>7. ASSUME NEW voter \in OrNone(Players), NEW target \in Players, ServerCastVote(voter, target)
      PROVE  Rules!Next
  BY <1>7, CallsByTheRules DEF Rules!Next, Rules!Voters, OrNone
<1>8. ASSUME NEW p \in Players, NEW target \in Players, ServerProcessNightAction(p, target)
      PROVE  Rules!Next
  BY <1>8, CallsByTheRules DEF Rules!Next
<1>9. CASE /\ UNCHANGED <<CurrentPhase, DayCount, winner, JobType, bIsAlive, AlivePlayerCount,
                          VoteMap, NightActions, ExecutedPlayerId>>
  BY <1>9 DEF TheLiving, OnTheStand, Rules!vars
<1>10. ASSUME NEW p \in Players,
              \/ PreLogin(p) \/ PostLoginSeat(p) \/ PostLoginGuest(p) \/ Leave(p)
              \/ ServerSubmitLastWords(p)
       PROVE  UNCHANGED <<CurrentPhase, DayCount, winner, JobType, bIsAlive, AlivePlayerCount,
                          VoteMap, NightActions, ExecutedPlayerId>>
  BY <1>10 DEF PreLogin, PostLoginSeat, PostLoginGuest, Leave, ServerSubmitLastWords,
               phaseVars, countVars, lifeVars, nightVars, voteVars, standVars
<1>11. CASE NightTimeEndCrash \/ ExecutedPlayerGone \/ UNCHANGED vars
  BY <1>9, <1>11 DEF NightTimeEndCrash, ExecutedPlayerGone, vars, phaseVars, countVars, lifeVars,
                     nightVars, voteVars, standVars
<1>12. QED
  BY <1>1, <1>2, <1>3, <1>4, <1>5, <1>6, <1>7, <1>8, <1>9, <1>10, <1>11 DEF Next, OnPhaseTimeEnd

(* The dedicated server's game implements the rules of Mafia.               *)
THEOREM RulesImplemented == Spec => PlayedByTheRules
<1>1. Init => Rules!Init
  BY DEF Init, Rules!Init, Rules!Voters, OrNone, TheLiving, OnTheStand
<1>2. QED
  BY <1>1, RulesNext, Invariance, PTL DEF Spec, PlayedByTheRules, Rules!Spec
=============================================================================
