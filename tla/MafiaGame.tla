------------------------------ MODULE MafiaGame ------------------------------
(***************************************************************************)
(* The authoritative game loop of the dedicated server: who is at the      *)
(* table (PreLogin, PostLogin, a dropped connection), the deal of the jobs *)
(* and the cycle Morning - Voting - (LastWords) - Night that the phase     *)
(* timer drives.  Everything below runs on the game thread, so a handler   *)
(* is one step; the hard part is the order in which the clients' calls,    *)
(* the timer and the disconnections arrive.                                *)
(*                                                                         *)
(* A player is named by its session hash.  None is the empty FString: "no  *)
(* hash", "no target", "no vote".                                          *)
(***************************************************************************)
EXTENDS Integers, FiniteSets

CONSTANTS
  Players,            \* session hashes of the people who may connect
  None,               \* the empty string
  REQUIRED_PLAYERS,   \* seats at the table, 6 in the code
  NumSpawns,          \* spawn points FindPlayerStarts queued
  MaxDay,             \* bound: no night is entered past this day
  MaxLeaves           \* bound: connections that drop

ASSUME PlayersAssumption == IsFiniteSet(Players) /\ None \notin Players
ASSUME RequiredAssumption == REQUIRED_PLAYERS \in Nat /\ REQUIRED_PLAYERS > 2
ASSUME BoundsAssumption == NumSpawns \in Nat /\ MaxDay \in Nat /\ MaxLeaves \in Nat

VARIABLES
  connected,          \* hashes of the controllers that have a player state
  guests,             \* people whose player state never got its hash
  TempPlayerDataMap,  \* people between PreLogin and PostLogin
  PlayerHashes,       \* hashes ever registered (never removed)
  ConnectedPlayers,   \* registrations counted (never decremented)
  CurrentPhase, timerArmed, DayCount,
  MafiaCount, CitizenTeamCount, AlivePlayerCount,
  ExecutedPlayerId, LastWords, winner,
  JobType, bIsAlive, VoteCount, TargetPlayerId,   \* the AMafiaPlayerState of each hash
  NightActions, VoteMap,
  crashed,            \* a null player state was dereferenced
  leaves              \* connections dropped so far

lobbyVars  == <<connected, guests, TempPlayerDataMap, PlayerHashes, ConnectedPlayers>>
phaseVars  == <<CurrentPhase, timerArmed, DayCount, winner>>
countVars  == <<MafiaCount, CitizenTeamCount, AlivePlayerCount>>
lifeVars   == <<JobType, bIsAlive>>
nightVars  == <<TargetPlayerId, NightActions>>
voteVars   == <<VoteCount, VoteMap>>
standVars  == <<ExecutedPlayerId, LastWords>>
faultVars  == <<crashed, leaves>>
vars == <<lobbyVars, phaseVars, countVars, lifeVars, nightVars, voteVars, standVars, faultVars>>

-----------------------------------------------------------------------------
Jobs == {"Mafia", "Police", "Detective", "Citizen"}
NightJobs == {"Mafia", "Police", "Detective"}
TimedPhases == {"Morning", "Voting", "LastWords", "Night"}
Phases == TimedPhases \cup {"Waiting", "GameOver"}

OrNone(S) == S \cup {None}
Online == connected \cup guests
SpawnPositionIsEmpty == ConnectedPlayers >= NumSpawns

(* FindPlayerStateByHash walks the controllers; a guest's state has the     *)
(* empty hash and so answers to None.                                       *)
Found(h) == h \in connected \/ (h = None /\ guests # {})

(* The state it finds is alive.  A guest's state keeps bIsAlive = true.     *)
FoundAlive(h) == Found(h) /\ (h # None => bIsAlive[h])

Init ==
  /\ connected = {} /\ guests = {} /\ TempPlayerDataMap = {}
  /\ PlayerHashes = {} /\ ConnectedPlayers = 0
  /\ CurrentPhase = "Waiting" /\ timerArmed = FALSE /\ DayCount = 0
  /\ MafiaCount = 0 /\ CitizenTeamCount = 0 /\ AlivePlayerCount = 0
  /\ ExecutedPlayerId = None /\ LastWords = FALSE /\ winner = "none"
  /\ JobType = [p \in Players |-> "None"]
  /\ bIsAlive = [p \in Players |-> TRUE]
  /\ VoteCount = [p \in Players |-> 0]
  /\ TargetPlayerId = [p \in Players |-> None]
  /\ NightActions = [p \in Players |-> None]
  /\ VoteMap = [v \in OrNone(Players) |-> None]
  /\ crashed = FALSE /\ leaves = 0

-----------------------------------------------------------------------------
(* Mutant: the mafia's majority is tested before the mafia's death.          *)
VerdictByNumbers(mafia, alive) ==
  CASE alive = 2 -> "mafia"
    [] mafia = 0 -> "citizens"
    [] OTHER -> "none"

(* CheckWinCondition, on the counts as the handler has just left them.      *)
Verdict(mafia, alive) ==
  CASE mafia = 0 -> "citizens"
    [] mafia = 1 /\ alive = 2 -> "mafia"
    [] OTHER -> "none"

(* Mutant: the next phase starts without CheckWinCondition.                 *)
StartUnchecked(phase, day) ==
  /\ CurrentPhase' = phase /\ DayCount' = day /\ timerArmed' = TRUE
  /\ UNCHANGED winner

(* `if (CheckWinCondition()) return;' followed by the start of a phase.     *)
CheckWinThen(phase, day) ==
  LET w == Verdict(MafiaCount', AlivePlayerCount') IN
  \/ /\ w # "none"
     /\ CurrentPhase' = "GameOver" /\ winner' = w /\ timerArmed' = FALSE
     /\ UNCHANGED DayCount
  \/ /\ w = "none"
     /\ CurrentPhase' = phase /\ DayCount' = day /\ timerArmed' = TRUE
     /\ UNCHANGED winner

(* StartNightPhase of the next day, within the bound.                       *)
CheckWinThenNight ==
  /\ Verdict(MafiaCount', AlivePlayerCount') = "none" => DayCount < MaxDay
  /\ CheckWinThen("Night", DayCount + 1)

(* Mutant: the phase starts without SetTimer.                               *)
StartPhaseUntimed(phase) ==
  /\ CurrentPhase' = phase /\ timerArmed' = FALSE
  /\ UNCHANGED <<DayCount, winner>>

StartPhase(phase) ==
  /\ CurrentPhase' = phase /\ timerArmed' = TRUE
  /\ UNCHANGED <<DayCount, winner>>

-----------------------------------------------------------------------------
(* Logging in *)

PreLogin(p) ==
  /\ ~crashed
  /\ p \notin Online \cup TempPlayerDataMap
  /\ TempPlayerDataMap' = TempPlayerDataMap \cup {p}
  /\ UNCHANGED <<connected, guests, PlayerHashes, ConnectedPlayers, phaseVars, countVars,
                 lifeVars, nightVars, voteVars, standVars, faultVars>>

(* InitPlayerInformaion gives the player state its hash.                    *)
CanInitPlayer == ConnectedPlayers < REQUIRED_PLAYERS /\ ~SpawnPositionIsEmpty

(* Mutant: the hash is not added to the game state's registry.              *)
InitUnregistered(p) ==
  /\ CanInitPlayer
  /\ connected' = connected \cup {p}
  /\ ConnectedPlayers' = ConnectedPlayers + 1
  /\ TempPlayerDataMap' = TempPlayerDataMap \ {p}
  /\ UNCHANGED <<guests, PlayerHashes>>

InitPlayerInformaion(p) ==
  /\ CanInitPlayer
  /\ connected' = connected \cup {p}
  /\ PlayerHashes' = PlayerHashes \cup {p}
  /\ ConnectedPlayers' = ConnectedPlayers + 1
  /\ TempPlayerDataMap' = TempPlayerDataMap \ {p}
  /\ UNCHANGED guests

(* What the shuffle may deal to the controllers `on': each takes the card    *)
(* at its own index of the six.  An index whose owner left, or registered    *)
(* a second time, keeps its card.                                            *)
Deals(on) ==
  {deal \in [on -> Jobs] :
     /\ \A p, q \in on : deal[p] = deal[q] /\ deal[p] # "Citizen" => p = q
     /\ Cardinality({p \in on : deal[p] = "Citizen"}) <= REQUIRED_PLAYERS - 3}

AssignJobs(on) ==
  \E deal \in Deals(on) :
    /\ JobType' = [p \in Players |-> IF p \in on THEN deal[p] ELSE JobType[p]]
    /\ MafiaCount' = Cardinality({p \in on : deal[p] = "Mafia"})
    /\ CitizenTeamCount' = Cardinality({p \in on : deal[p] # "Mafia"})
    /\ AlivePlayerCount' = REQUIRED_PLAYERS

(* A seat is taken and the table is not full yet.                           *)
PostLoginSeat(p) ==
  /\ ~crashed
  /\ p \in TempPlayerDataMap \ Online
  /\ InitPlayerInformaion(p)
  /\ ~(ConnectedPlayers + 1 = REQUIRED_PLAYERS /\ CurrentPhase = "Waiting")
  /\ UNCHANGED <<phaseVars, countVars, lifeVars, nightVars, voteVars, standVars, faultVars>>

(* The last seat is taken: AssignJobs, then StartGame, whose morning of     *)
(* day 1 resolves no night.                                                 *)
PostLoginStart(p) ==
  /\ ~crashed
  /\ p \in TempPlayerDataMap \ Online
  /\ InitPlayerInformaion(p)
  /\ ConnectedPlayers + 1 = REQUIRED_PLAYERS /\ CurrentPhase = "Waiting"
  /\ AssignJobs(connected')
  /\ \/ /\ Verdict(MafiaCount', AlivePlayerCount') = "none"
        /\ CurrentPhase' = "Morning" /\ timerArmed' = TRUE /\ UNCHANGED winner
     \/ /\ Verdict(MafiaCount', AlivePlayerCount') # "none"
        /\ CurrentPhase' = "GameOver" /\ timerArmed' = FALSE
        /\ winner' = Verdict(MafiaCount', AlivePlayerCount')
  /\ DayCount' = 1
  /\ UNCHANGED <<bIsAlive, nightVars, voteVars, standVars, faultVars>>

(* No seat or no spawn point is left: the player state stays blank.  A      *)
(* player who comes back to a game under way ends here.                     *)
PostLoginGuest(p) ==
  /\ ~crashed
  /\ p \in TempPlayerDataMap \ Online
  /\ ~CanInitPlayer
  /\ guests' = guests \cup {p}
  /\ UNCHANGED <<connected, TempPlayerDataMap, PlayerHashes, ConnectedPlayers, phaseVars,
                 countVars, lifeVars, nightVars, voteVars, standVars, faultVars>>

(* A connection drops.  There is no Logout override: the controller goes,   *)
(* and no count, map or array of the game learns of it.                     *)
Leave(p) ==
  /\ ~crashed
  /\ p \in Online
  /\ leaves < MaxLeaves
  /\ leaves' = leaves + 1
  /\ connected' = connected \ {p}
  /\ guests' = guests \ {p}
  /\ UNCHANGED <<TempPlayerDataMap, PlayerHashes, ConnectedPlayers, phaseVars, countVars,
                 lifeVars, nightVars, voteVars, standVars, crashed>>

-----------------------------------------------------------------------------
(* The players' calls *)

(* The client sends no action on oneself; the target may be dead, or gone   *)
(* by the time the call is served.                                          *)
ServerProcessNightAction(p, target) ==
  /\ ~crashed
  /\ CurrentPhase = "Night"
  /\ p \in connected /\ bIsAlive[p] /\ JobType[p] \in NightJobs
  /\ target \in PlayerHashes \ {p}
  /\ NightActions' = [NightActions EXCEPT ![p] = target]
  /\ TargetPlayerId' = [TargetPlayerId EXCEPT ![p] = target]
  /\ UNCHANGED <<lobbyVars, phaseVars, countVars, lifeVars, voteVars, standVars, faultVars>>

(* Mutant: a second vote leaves the first one counted.                      *)
KeptVotes(voter) == VoteCount

(* The vote the voter cast before is taken back, if its target is there.    *)
RevokedVotes(voter) ==
  LET prev == VoteMap[voter] IN
  IF prev \in connected
  THEN [VoteCount EXCEPT ![prev] = IF @ > 0 THEN @ - 1 ELSE 0]
  ELSE VoteCount

ServerCastVote(voter, target) ==
  /\ ~crashed
  /\ CurrentPhase = "Voting"
  /\ FoundAlive(voter)
  /\ target \in connected /\ bIsAlive[target]
  /\ VoteCount' = [RevokedVotes(voter) EXCEPT ![target] = @ + 1]
  /\ VoteMap' = [VoteMap EXCEPT ![voter] = target]
  /\ UNCHANGED <<lobbyVars, phaseVars, countVars, lifeVars, nightVars, standVars, faultVars>>

(* LastWords is TRUE once the accused has left a message.                   *)
ServerSubmitLastWords(p) ==
  /\ ~crashed
  /\ CurrentPhase = "LastWords"
  /\ p \in connected /\ p = ExecutedPlayerId
  /\ LastWords' = TRUE
  /\ UNCHANGED <<lobbyVars, phaseVars, countVars, lifeVars, nightVars, voteVars,
                 ExecutedPlayerId, faultVars>>

-----------------------------------------------------------------------------
(* The night's results *)

Actors(job) == {p \in connected : bIsAlive[p] /\ JobType[p] = job /\ TargetPlayerId[p] # None}

TargetOf(job) == IF Actors(job) = {} THEN None
                 ELSE TargetPlayerId[CHOOSE p \in Actors(job) : TRUE]

(* The detective's report names whom its target visited, through two        *)
(* FindPlayerStateByHash(..)-> with no check of the pointer.                *)
NullPlayerState ==
  LET watched == TargetOf("Detective") IN
  /\ watched # None
  /\ NightActions[watched] # None
  /\ ~(Found(watched) /\ Found(NightActions[watched]))

(* Mutant: NightActions is emptied, the players' targets are not reset.     *)
ClearActionsOnly ==
  /\ NightActions' = [p \in Players |-> None]
  /\ UNCHANGED TargetPlayerId

ClearNight ==
  /\ TargetPlayerId' = [p \in Players |-> None]
  /\ NightActions' = [p \in Players |-> None]

(* Mutant: a kill is not taken off the citizens' count.                     *)
MafiaKillUncounted(victim) ==
  IF Found(victim) /\ victim # None
  THEN /\ bIsAlive' = [bIsAlive EXCEPT ![victim] = FALSE]
       /\ AlivePlayerCount' = AlivePlayerCount - 1
       /\ UNCHANGED CitizenTeamCount
  ELSE UNCHANGED <<bIsAlive, CitizenTeamCount, AlivePlayerCount>>

(* Nothing asks whether the victim was still alive.                         *)
MafiaKill(victim) ==
  IF Found(victim) /\ victim # None
  THEN /\ bIsAlive' = [bIsAlive EXCEPT ![victim] = FALSE]
       /\ CitizenTeamCount' = IF JobType[victim] = "Mafia" THEN CitizenTeamCount
                              ELSE CitizenTeamCount - 1
       /\ AlivePlayerCount' = AlivePlayerCount - 1
  ELSE UNCHANGED <<bIsAlive, CitizenTeamCount, AlivePlayerCount>>

-----------------------------------------------------------------------------
(* OnPhaseTimeEnd, one action per phase.  The timer is one-shot.            *)

NightTimeEnd ==
  /\ ~crashed
  /\ timerArmed /\ CurrentPhase = "Night"
  /\ IF DayCount # 1
     THEN ~NullPlayerState /\ MafiaKill(TargetOf("Mafia")) /\ ClearNight
     ELSE UNCHANGED <<bIsAlive, CitizenTeamCount, AlivePlayerCount, nightVars>>
  /\ UNCHANGED MafiaCount
  /\ CheckWinThen("Morning", DayCount)
  /\ UNCHANGED <<lobbyVars, JobType, voteVars, standVars, faultVars>>

(* The process dies before the morning starts.                              *)
NightTimeEndCrash ==
  /\ ~crashed
  /\ timerArmed /\ CurrentPhase = "Night"
  /\ DayCount # 1 /\ NullPlayerState
  /\ crashed' = TRUE
  /\ UNCHANGED <<lobbyVars, phaseVars, countVars, lifeVars, nightVars, voteVars, standVars, leaves>>

StartVotingPhase ==
  /\ ~crashed
  /\ timerArmed /\ CurrentPhase = "Morning"
  /\ VoteMap' = [v \in OrNone(Players) |-> None]
  /\ VoteCount' = [p \in Players |-> 0]
  /\ StartPhase("Voting")
  /\ UNCHANGED <<lobbyVars, countVars, lifeVars, nightVars, standVars, faultVars>>

(* Mutant: half of the votes is enough.                                     *)
HalfTheVotes == (AlivePlayerCount + 1) \div 2

MajorityVotes == AlivePlayerCount \div 2 + 1

Candidates == {p \in connected : bIsAlive[p]}

(* MaxVotes >= MajorityVotes with TieCount = 1: p alone has the most votes. *)
Elected(p) ==
  /\ p \in Candidates
  /\ VoteCount[p] >= MajorityVotes
  /\ \A q \in Candidates \ {p} : VoteCount[q] < VoteCount[p]

StartLastWordsPhase ==
  /\ ~crashed
  /\ timerArmed /\ CurrentPhase = "Voting"
  /\ \E p \in Players :
       /\ Elected(p)
       /\ ExecutedPlayerId' = p
  /\ LastWords' = FALSE
  /\ StartPhase("LastWords")
  /\ UNCHANGED <<lobbyVars, countVars, lifeVars, nightVars, voteVars, faultVars>>

(* Mutant: a vote without result is held again.                             *)
VoteAgain ==
  /\ ~crashed
  /\ timerArmed /\ CurrentPhase = "Voting"
  /\ \A p \in Players : ~Elected(p)
  /\ VoteMap' = [v \in OrNone(Players) |-> None]
  /\ VoteCount' = [p \in Players |-> 0]
  /\ UNCHANGED <<lobbyVars, phaseVars, countVars, lifeVars, nightVars, standVars, faultVars>>

NoOneElected ==
  /\ ~crashed
  /\ timerArmed /\ CurrentPhase = "Voting"
  /\ \A p \in Players : ~Elected(p)
  /\ UNCHANGED countVars
  /\ CheckWinThenNight
  /\ UNCHANGED <<lobbyVars, lifeVars, nightVars, voteVars, standVars, faultVars>>

ProcessExecution ==
  /\ ~crashed
  /\ timerArmed /\ CurrentPhase = "LastWords"
  /\ Found(ExecutedPlayerId)
  /\ bIsAlive' = [bIsAlive EXCEPT ![ExecutedPlayerId] = FALSE]
  /\ IF JobType[ExecutedPlayerId] = "Mafia"
     THEN MafiaCount' = MafiaCount - 1 /\ UNCHANGED CitizenTeamCount
     ELSE CitizenTeamCount' = CitizenTeamCount - 1 /\ UNCHANGED MafiaCount
  /\ AlivePlayerCount' = AlivePlayerCount - 1
  /\ LastWords' = FALSE
  /\ CheckWinThenNight
  /\ UNCHANGED <<lobbyVars, JobType, nightVars, voteVars, ExecutedPlayerId, faultVars>>

(* `if (!ExecutedPS) return;': the timer has fired and nothing re-arms it.  *)
ExecutedPlayerGone ==
  /\ ~crashed
  /\ timerArmed /\ CurrentPhase = "LastWords"
  /\ ~Found(ExecutedPlayerId)
  /\ timerArmed' = FALSE
  /\ UNCHANGED <<lobbyVars, CurrentPhase, DayCount, winner, countVars, lifeVars, nightVars,
                 voteVars, standVars, faultVars>>

OnPhaseTimeEnd ==
  \/ NightTimeEnd \/ NightTimeEndCrash
  \/ StartVotingPhase
  \/ StartLastWordsPhase \/ NoOneElected
  \/ ProcessExecution \/ ExecutedPlayerGone

Next ==
  \/ \E p \in Players :
       \/ PreLogin(p) \/ PostLoginSeat(p) \/ PostLoginStart(p) \/ PostLoginGuest(p)
       \/ Leave(p)
       \/ ServerSubmitLastWords(p)
  \/ \E p, target \in Players : ServerProcessNightAction(p, target)
  \/ \E voter \in OrNone(Players), target \in Players : ServerCastVote(voter, target)
  \/ OnPhaseTimeEnd

(* The engine's timer manager fires an armed timer.  Clients owe nothing.   *)
Spec == Init /\ [][Next]_vars /\ WF_vars(OnPhaseTimeEnd)

-----------------------------------------------------------------------------
(* Properties *)

Living(job) == {p \in Players : JobType[p] = job /\ bIsAlive[p]}
CitizenTeam == {p \in Players : JobType[p] \in Jobs \ {"Mafia"} /\ bIsAlive[p]}
VotesFor(t) == {v \in OrNone(Players) : VoteMap[v] = t}

(* Every variable stays in its type. *)
TypeOK ==
  /\ connected \subseteq PlayerHashes /\ guests \subseteq Players \ connected
  /\ PlayerHashes \subseteq Players /\ TempPlayerDataMap \subseteq Players
  /\ ConnectedPlayers \in 0..REQUIRED_PLAYERS
  /\ CurrentPhase \in Phases /\ timerArmed \in BOOLEAN /\ DayCount \in Nat
  /\ MafiaCount \in Int /\ CitizenTeamCount \in Int /\ AlivePlayerCount \in Int
  /\ ExecutedPlayerId \in OrNone(Players) /\ LastWords \in BOOLEAN
  /\ winner \in {"none", "citizens", "mafia"}
  /\ JobType \in [Players -> Jobs \cup {"None"}] /\ bIsAlive \in [Players -> BOOLEAN]
  /\ VoteCount \in [Players -> Nat] /\ VoteMap \in [OrNone(Players) -> OrNone(Players)]
  /\ TargetPlayerId \in [Players -> OrNone(Players)]
  /\ NightActions \in [Players -> OrNone(Players)]
  /\ crashed \in BOOLEAN /\ leaves \in Nat

(* The faction counters are kept by hand in three places (AssignJobs,       *)
(* ProcessNightResults, ProcessExecution).  MafiaCount is the number of     *)
(* living mafia; CitizenTeamCount never exceeds the living citizens' team.  *)
FactionCounts ==
  /\ MafiaCount = Cardinality(Living("Mafia"))
  /\ CitizenTeamCount <= Cardinality(CitizenTeam)

(* A game goes on only while it is undecided: in every timed phase the      *)
(* mafia lives and more than two players are counted alive, so no path to   *)
(* a phase skips CheckWinCondition.                                         *)
UndecidedWhilePlayed ==
  CurrentPhase \in TimedPhases => MafiaCount = 1 /\ AlivePlayerCount > 2

(* A seated player's VoteCount, kept by AddVote and by revocation, is the   *)
(* number of VoteMap entries that name the player, whoever has left since.  *)
VoteTally ==
  \A t \in connected : VoteCount[t] = Cardinality(VotesFor(t))

(* Whoever stands for execution is alive and was named by more than half of *)
(* AlivePlayerCount voters, and no seated living rival has as many votes.   *)
ElectionStands ==
  CurrentPhase = "LastWords" =>
    /\ ExecutedPlayerId \in PlayerHashes
    /\ bIsAlive[ExecutedPlayerId]
    /\ ExecutedPlayerId \in connected =>
          2 * Cardinality(VotesFor(ExecutedPlayerId)) > AlivePlayerCount
    /\ \A q \in Candidates \ {ExecutedPlayerId} : VoteCount[q] < VoteCount[ExecutedPlayerId]

(* Votes and night actions on the books are those of the living, and no     *)
(* night target survives into the day (ResetTarget, NightActions.Empty).    *)
BooksOfTheLiving ==
  /\ CurrentPhase = "Voting" =>
       \A v \in Players : VoteMap[v] # None => bIsAlive[v] /\ bIsAlive[VoteMap[v]]
  /\ \A p \in Players :
       /\ TargetPlayerId[p] = NightActions[p]
       /\ NightActions[p] # None => CurrentPhase = "Night" /\ bIsAlive[p]

(* The winner announced is right about the mafia: the citizens win when no  *)
(* mafia lives, the mafia wins only while one does.                         *)
WinnerIsRight ==
  /\ CurrentPhase = "GameOver" <=> winner # "none"
  /\ winner = "citizens" => Living("Mafia") = {}
  /\ winner = "mafia" => Living("Mafia") # {}

(* Only a player who left can stop the game: every timed phase has its      *)
(* timer pending, unless the accused left during the last words, and no     *)
(* null player state is dereferenced while everybody stays.                 *)
StallsOnlyAfterLeave ==
  /\ CurrentPhase \in TimedPhases /\ ~timerArmed =>
       CurrentPhase = "LastWords" /\ ExecutedPlayerId \notin connected
  /\ leaves = 0 => ~crashed

CounterGap == AlivePlayerCount - (MafiaCount + CitizenTeamCount)

(* The three counters move together: while a game is played a step changes  *)
(* AlivePlayerCount by what it takes from the two factions.  Nothing in     *)
(* ProcessNightResults lowers MafiaCount, so this rests on the mafia never  *)
(* being able to choose itself.                                             *)
CountersMoveTogether ==
  [][(CurrentPhase \in TimedPhases) => (CounterGap' = CounterGap)]_vars

(* The game is played by the rules: every handler and every end of a phase  *)
(* is a step of MafiaRules or changes nothing the rules speak of, whatever  *)
(* connections come and go.  So jobs are dealt once, the dead stay dead and *)
(* do not act, one player at most dies at a time, by a majority's vote or   *)
(* the mafia's choice, and the deciding death ends the game at once.        *)
TheLiving == {p \in Players : bIsAlive[p]}
OnTheStand == IF CurrentPhase = "LastWords" THEN ExecutedPlayerId ELSE None

Rules == INSTANCE MafiaRules WITH
  seats <- REQUIRED_PLAYERS,
  phase <- CurrentPhase, day <- DayCount, job <- JobType,
  alive <- TheLiving, counted <- AlivePlayerCount,
  ballots <- VoteMap, accused <- OnTheStand, choice <- NightActions

PlayedByTheRules == Rules!Spec

(* Each timed phase of a day within the bound ends, if the accused does not *)
(* leave the stand and no null player state stops the server.               *)
PhasesEnd ==
  \A ph \in TimedPhases :
    CurrentPhase = ph /\ DayCount < MaxDay
      ~> \/ CurrentPhase # ph
         \/ crashed
         \/ ph = "LastWords" /\ ExecutedPlayerId \notin connected
=============================================================================
