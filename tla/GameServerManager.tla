-------------------------- MODULE GameServerManager --------------------------
(***************************************************************************)
(* Matchmaking in the lobby server.  Worker threads of RoutineProgress run *)
(* the requests of the clients and receive threads of Network clean up     *)
(* after dropped connections, several at once.  GameServerManager guards   *)
(* each of its maps by a mutex of its own and holds none from one step to  *)
(* the next, save in SendGameStart; an action here is one critical section *)
(* together with the thread's own work after it.                           *)
(*                                                                         *)
(* A player is its session hash.  Connection c of a player is its c-th     *)
(* login, and a Player object the record <<hash, c>> of the login that     *)
(* acquired it.  Rooms are numbers, in the order the pool holds them; 0    *)
(* is the null room.                                                       *)
(***************************************************************************)
EXTENDS Integers, Sequences, FiniteSets

CONSTANTS
  Players,      \* session hashes
  Threads,      \* threads that run requests
  Servers,      \* dedicated servers
  None,         \* no player, no server
  maxplayer,    \* players of a full room, 6 in the code
  NumRooms,     \* bound: rooms in the pool, which never grows here
  MaxLogins,    \* bound: connections of a player
  MaxLeaves     \* bound: requests to cancel or log out and lost connections, in all

ASSUME PlayersAssumption == IsFiniteSet(Players) /\ None \notin Players
ASSUME ServersAssumption == None \notin Servers
ASSUME MaxPlayerAssumption == maxplayer \in Nat \ {0}
ASSUME BoundsAssumption == NumRooms \in Nat /\ MaxLogins \in Nat /\ MaxLeaves \in Nat

VARIABLES
  ui, conn, session,          \* client: its screen and connection; session server: who is in
  leaves,                     \* how often somebody cancelled or left
  players,                    \* hash -> the record in the map, 0 when there is none
  status, room,               \* fields of the records
  PlayerSocket,               \* their connection, 0 when never set, -1 back in the pool
  socketToHash,               \* the connections that lead to a hash
  playerHashes,               \* the set kept in each GameRoom
  waitrooms, startedrooms, pool,
  serverlist, used,           \* dedicated servers that connected; those with used = true
  pc, job, Room, Sock,        \* threads: next step, request, local Room and Sock
  list, key,                  \* threads in SendGameStart: in_playerhashes left, server
  games,                      \* history: the lists sent to dedicated servers
  told,                       \* history: the servers a client was sent to
  torn                        \* history: rooms that ever lost a player while full

clientVars == <<ui, conn, session, leaves>>
recordVars == <<players, status, room, PlayerSocket, socketToHash>>
roomVars   == <<playerHashes, waitrooms, startedrooms, pool, torn>>
serverVars == <<serverlist, used, games>>
threadVars == <<pc, job, Room, Sock>>
tellVars   == <<list, key>>
vars == <<clientVars, recordVars, roomVars, serverVars, threadVars, tellVars, told>>

-----------------------------------------------------------------------------
Rooms == 1..NumRooms
Logins == 1..MaxLogins
Records == Players \X Logins
Screens == {"offline", "lobby", "matching", "game"}
Statuses == {"INIT", "INLOBBY", "INROOM", "INGAME"}
Ops == {"login", "join", "cancel", "logout", "disconnect"}
Steps == {"idle", "register", "enter",
          "pick", "add", "registerRoom", "isFull", "wait", "close", "start", "lock", "tell",
          "respond", "lookup", "unregister", "inlobby", "check", "checkRoom",
          "remove", "count", "release", "erasePlayer"}

Requests == [op : Ops, h : Players, c : Logins, n : Logins]
NoJob == [op |-> "none", h |-> None, c |-> 0, n |-> 0]

Init ==
  /\ ui = [h \in Players |-> "offline"] /\ conn = [h \in Players |-> 0] /\ session = {}
  /\ leaves = 0
  /\ players = [h \in Players |-> 0]
  /\ status = [r \in Records |-> "INIT"] /\ room = [r \in Records |-> 0]
  /\ PlayerSocket = [r \in Records |-> 0] /\ socketToHash = {}
  /\ playerHashes = [r \in Rooms |-> {}]
  /\ waitrooms = {} /\ startedrooms = {} /\ pool = [i \in Rooms |-> i]
  /\ serverlist = {} /\ used = {}
  /\ pc = [t \in Threads |-> "idle"] /\ job = [t \in Threads |-> NoJob]
  /\ Room = [t \in Threads |-> 0] /\ Sock = [t \in Threads |-> 0]
  /\ list = [t \in Threads |-> {}] /\ key = [t \in Threads |-> None]
  /\ games = <<>> /\ told = [h \in Players |-> {}] /\ torn = {}

-----------------------------------------------------------------------------
(* The record and the room a thread works on.                               *)
Hash(t) == job[t].h
Record(t) == <<job[t].h, job[t].n>>
Full(r) == Cardinality(playerHashes[r]) >= maxplayer

(* SendGameStart holds startedrooms_MTX throughout, and players_MTX while   *)
(* it tells the players; elsewhere both are held for one step only.         *)
StartedRoomsFree == \A t \in Threads : pc[t] \notin {"lock", "tell"}
PlayersFree == \A t \in Threads : pc[t] # "tell"

Goto(t, step) == pc' = [pc EXCEPT ![t] = step] /\ UNCHANGED <<job, Room, Sock>>
GotoWith(t, step, r) ==
  pc' = [pc EXCEPT ![t] = step] /\ Room' = [Room EXCEPT ![t] = r] /\ UNCHANGED <<job, Sock>>
GotoKnowing(t, step, sock) ==
  pc' = [pc EXCEPT ![t] = step] /\ Sock' = [Sock EXCEPT ![t] = sock] /\ UNCHANGED <<job, Room>>

(* A thread takes the request of h; record n was found under its hash.      *)
Take(t, op, h, n, step) ==
  /\ pc' = [pc EXCEPT ![t] = step]
  /\ job' = [job EXCEPT ![t] = [op |-> op, h |-> h, c |-> conn'[h], n |-> n]]
  /\ UNCHANGED <<Room, Sock>>

Finish(t) ==
  /\ pc' = [pc EXCEPT ![t] = "idle"]
  /\ job' = [job EXCEPT ![t] = NoJob]
  /\ Room' = [Room EXCEPT ![t] = 0]
  /\ Sock' = [Sock EXCEPT ![t] = 0]

(* The client is still the one that sent the request.                       *)
Current(t) == job[t].c = conn[Hash(t)] /\ ui[Hash(t)] # "offline"

-----------------------------------------------------------------------------
(* Logging in: the session server's answer goes to the client, then         *)
(* HandleLoginAttempt registers the player, unless a record is there.       *)

HandleLoginAttempt(t, h) ==
  /\ pc[t] = "idle" /\ PlayersFree
  /\ ui[h] = "offline" /\ h \notin session /\ conn[h] < MaxLogins
  /\ conn' = [conn EXCEPT ![h] = @ + 1]
  /\ ui' = [ui EXCEPT ![h] = "lobby"]
  /\ session' = session \cup {h}
  /\ \/ players[h] = 0 /\ Take(t, "login", h, conn'[h], "register")
     \/ players[h] # 0 /\ UNCHANGED threadVars
  /\ UNCHANGED <<leaves, recordVars, roomVars, serverVars, tellVars, told>>

(* RegisterPlayer puts a fresh record into the map under the lock ...       *)
RegisterPlayer(t) ==
  /\ pc[t] = "register" /\ PlayersFree
  /\ players' = [players EXCEPT ![Hash(t)] = job[t].n]
  /\ Goto(t, "enter")
  /\ UNCHANGED <<clientVars, status, room, PlayerSocket, socketToHash, roomVars, serverVars,
                 tellVars, told>>

(* ... and looks it up again for every field after it.  If the record was   *)
(* erased, operator[] gives a null pointer and the process ends: here the   *)
(* thread stops.  The fields are set in one step: a record whose status is  *)
(* set before its socket is also what a cancelled match leaves.             *)
EnterLobby(t) ==
  LET h == Hash(t)  r == <<h, players[h]>> IN
  /\ pc[t] = "enter" /\ players[h] # 0
  /\ status' = [status EXCEPT ![r] = "INLOBBY"]
  /\ PlayerSocket' = [PlayerSocket EXCEPT ![r] = job[t].c]
  /\ socketToHash' = socketToHash \cup {<<h, job[t].c>>}
  /\ Finish(t)
  /\ UNCHANGED <<clientVars, players, room, roomVars, serverVars, tellVars, told>>

-----------------------------------------------------------------------------
(* Finding a match: joinOrCreateRoom.  A request that finds no record fails *)
(* and changes nothing.                                                     *)

JoinRoomRequest(t, h) ==
  /\ pc[t] = "idle" /\ PlayersFree
  /\ ui[h] = "lobby" /\ players[h] # 0
  /\ UNCHANGED conn /\ Take(t, "join", h, players[h], "pick")
  /\ UNCHANGED <<ui, session, leaves, recordVars, roomVars, serverVars, tellVars, told>>

(* acquire<GameRoom> empties the room.                                      *)
CreateRoom(t) ==
  LET r == Head(pool) IN
  /\ pc[t] = "pick"
  /\ pool # <<>>
  /\ pool' = Tail(pool)
  /\ playerHashes' = [playerHashes EXCEPT ![r] = {}]
  /\ waitrooms' = waitrooms \cup {r}
  /\ torn' = IF Full(r) THEN torn \cup {r} ELSE torn
  /\ GotoWith(t, "add", r)
  /\ UNCHANGED <<clientVars, recordVars, startedrooms, serverVars, tellVars, told>>

UseRoom(t) ==
  /\ pc[t] = "pick"
  /\ \E r \in waitrooms : GotoWith(t, "add", r)
  /\ UNCHANGED <<clientVars, recordVars, roomVars, serverVars, tellVars, told>>

(* Mutant: a room of one's own, whoever waits.                              *)
PickAlone(t) == CreateRoom(t)

PickRoom(t) == (waitrooms = {} /\ CreateRoom(t)) \/ UseRoom(t)

AddPlayerHash(t) ==
  LET h == Hash(t)  r == Room[t] IN
  /\ pc[t] = "add"
  /\ \/ /\ h \notin playerHashes[r] /\ ~Full(r)
        /\ playerHashes' = [playerHashes EXCEPT ![r] = @ \cup {h}]
        /\ Goto(t, "registerRoom")
     \/ /\ h \in playerHashes[r] \/ Full(r)
        /\ Finish(t)
        /\ UNCHANGED playerHashes
  /\ UNCHANGED <<clientVars, recordVars, waitrooms, startedrooms, pool, torn, serverVars,
                 tellVars, told>>

RegisterRoom(t) ==
  /\ pc[t] = "registerRoom"
  /\ room' = [room EXCEPT ![Record(t)] = Room[t]]
  /\ Goto(t, "isFull")
  /\ UNCHANGED <<clientVars, players, status, PlayerSocket, socketToHash, roomVars,
                 serverVars, tellVars, told>>

(* Mutants: the test is one player short, one player late.                  *)
IsFullEarly(t) ==
  /\ pc[t] = "isFull"
  /\ Goto(t, IF Cardinality(playerHashes[Room[t]]) + 1 >= maxplayer THEN "close" ELSE "wait")
  /\ UNCHANGED <<clientVars, recordVars, roomVars, serverVars, tellVars, told>>
IsFullLate(t) ==
  /\ pc[t] = "isFull"
  /\ Goto(t, IF Cardinality(playerHashes[Room[t]]) > maxplayer THEN "close" ELSE "wait")
  /\ UNCHANGED <<clientVars, recordVars, roomVars, serverVars, tellVars, told>>

IsFull(t) ==
  /\ pc[t] = "isFull"
  /\ Goto(t, IF Full(Room[t]) THEN "close" ELSE "wait")
  /\ UNCHANGED <<clientVars, recordVars, roomVars, serverVars, tellVars, told>>

(* JoinRoom_Succeeded shows the matching screen.  A client that was told of *)
(* its game has two screen changes under way, in no order.                  *)
JoinRoomResponse(t) ==
  /\ ui' \in IF ~Current(t) THEN {ui}
             ELSE IF ui[Hash(t)] = "game" THEN {ui, [ui EXCEPT ![Hash(t)] = "matching"]}
             ELSE {[ui EXCEPT ![Hash(t)] = "matching"]}
  /\ UNCHANGED <<conn, session, leaves>>
  /\ Finish(t)

WaitInRoom(t) ==
  /\ pc[t] = "wait"
  /\ status' = [status EXCEPT ![Record(t)] = "INROOM"]
  /\ JoinRoomResponse(t)
  /\ UNCHANGED <<players, room, PlayerSocket, socketToHash, roomVars, serverVars, tellVars,
                 told>>

CloseRoom(t) ==
  /\ pc[t] = "close"
  /\ waitrooms' = waitrooms \ {Room[t]}
  /\ Goto(t, "start")
  /\ UNCHANGED <<clientVars, recordVars, playerHashes, startedrooms, pool, torn, serverVars,
                 tellVars, told>>

-----------------------------------------------------------------------------
(* SendGameStart, under startedrooms_MTX.                                   *)

FreeServers == serverlist \ used

(* Mutant: the server need not have connected.                              *)
TakeUnconnected(s) == s \notin used /\ used' = used \cup {s}

(* Mutant: the server is not marked.                                        *)
TakeUnmarked(s) == s \in FreeServers /\ UNCHANGED used

TakeServer(s) == s \in FreeServers /\ used' = used \cup {s}

(* GetDedicatedServerInfor, and the list for the server; without a free     *)
(* server the room stays among the started ones and nothing is sent.        *)
SendGameStart(t) ==
  LET r == Room[t] IN
  /\ pc[t] = "start" /\ StartedRoomsFree
  /\ startedrooms' = startedrooms \cup {r}
  /\ \/ \E s \in Servers :
          /\ TakeServer(s)
          /\ games' = Append(games, [server |-> s, room |-> r, hashes |-> playerHashes[r]])
          /\ list' = [list EXCEPT ![t] = playerHashes[r]]
          /\ key' = [key EXCEPT ![t] = s]
          /\ Goto(t, "lock")
     \/ /\ FreeServers = {}
        /\ Goto(t, "respond")
        /\ UNCHANGED <<used, games, tellVars>>
  /\ UNCHANGED <<clientVars, recordVars, playerHashes, waitrooms, pool, torn, serverlist, told>>

(* Mutant: the players are read from the room again.                        *)
LockAndReread(t) ==
  /\ pc[t] = "lock" /\ PlayersFree
  /\ Goto(t, "tell")
  /\ list' = [list EXCEPT ![t] = playerHashes[Room[t]]]
  /\ UNCHANGED <<clientVars, recordVars, roomVars, serverVars, key, told>>

LockPlayers(t) ==
  /\ pc[t] = "lock" /\ PlayersFree
  /\ Goto(t, "tell")
  /\ UNCHANGED <<clientVars, recordVars, roomVars, serverVars, tellVars, told>>

(* The socket the record knows is the connection the client uses now.       *)
Reachable(h) ==
  /\ players[h] # 0 /\ ui[h] # "offline"
  /\ PlayerSocket[<<h, players[h]>>] = conn[h]

(* In the order of the hash set; a hash without a record is passed over.    *)
TellPlayer(t, h) ==
  /\ pc[t] = "tell" /\ h \in list[t]
  /\ list' = [list EXCEPT ![t] = @ \ {h}]
  /\ \/ players[h] = 0 /\ UNCHANGED status
     \/ players[h] # 0 /\ status' = [status EXCEPT ![<<h, players[h]>>] = "INGAME"]
  /\ \/ /\ Reachable(h)
        /\ told' = [told EXCEPT ![h] = @ \cup {key[t]}]
        /\ ui' = [ui EXCEPT ![h] = "game"]
     \/ ~Reachable(h) /\ UNCHANGED <<told, ui>>
  /\ UNCHANGED <<conn, session, leaves, players, room, PlayerSocket, socketToHash, roomVars,
                 serverVars, threadVars, key>>

AllTold(t) ==
  /\ pc[t] = "tell" /\ list[t] = {}
  /\ key' = [key EXCEPT ![t] = None]
  /\ JoinRoomResponse(t)
  /\ UNCHANGED <<recordVars, roomVars, serverVars, list, told>>

RespondUnstarted(t) ==
  /\ pc[t] = "respond"
  /\ JoinRoomResponse(t)
  /\ UNCHANGED <<recordVars, roomVars, serverVars, tellVars, told>>

-----------------------------------------------------------------------------
(* Cancelling: CancleRoom.  Its response changes nothing at the client.     *)

CountLeave == leaves < MaxLeaves /\ leaves' = leaves + 1

CancelRoomRequest(t, h) ==
  /\ pc[t] = "idle" /\ PlayersFree
  /\ ui[h] = "matching" /\ players[h] # 0
  /\ CountLeave
  /\ UNCHANGED conn /\ Take(t, "cancel", h, players[h], "lookup")
  /\ UNCHANGED <<ui, session, recordVars, roomVars, serverVars, tellVars, told>>

FindWaitRoom(t) ==
  /\ pc[t] = "lookup"
  /\ \/ room[Record(t)] \in waitrooms /\ GotoWith(t, "remove", room[Record(t)])
     \/ room[Record(t)] \notin waitrooms /\ Finish(t)
  /\ UNCHANGED <<clientVars, recordVars, roomVars, serverVars, tellVars, told>>

(* RemovePlayerFromRoomAndCleanup, for CancleRoom and for DeletePlayer.     *)
AfterRoom(t) == Goto(t, IF job[t].op = "cancel" THEN "unregister" ELSE "erasePlayer")

RemovePlayerHash(t) ==
  LET h == Hash(t)  r == Room[t] IN
  /\ pc[t] = "remove"
  /\ \/ /\ h \in playerHashes[r]
        /\ playerHashes' = [playerHashes EXCEPT ![r] = @ \ {h}]
        /\ torn' = IF Full(r) THEN torn \cup {r} ELSE torn
        /\ Goto(t, "count")
     \/ /\ h \notin playerHashes[r]
        /\ IF job[t].op = "cancel" THEN Finish(t) ELSE AfterRoom(t)
        /\ UNCHANGED <<playerHashes, torn>>
  /\ UNCHANGED <<clientVars, recordVars, waitrooms, startedrooms, pool, serverVars, tellVars,
                 told>>

CountPlayers(t) ==
  /\ pc[t] = "count"
  /\ \/ playerHashes[Room[t]] = {} /\ Goto(t, "release")
     \/ playerHashes[Room[t]] # {} /\ AfterRoom(t)
  /\ UNCHANGED <<clientVars, recordVars, roomVars, serverVars, tellVars, told>>

(* Out of waitrooms and back into the pool; nothing looks at both.          *)
ReleaseRoom(t) ==
  /\ pc[t] = "release"
  /\ waitrooms' = waitrooms \ {Room[t]}
  /\ pool' = Append(pool, Room[t])
  /\ AfterRoom(t)
  /\ UNCHANGED <<clientVars, recordVars, playerHashes, startedrooms, torn, serverVars, tellVars,
                 told>>

UnregisterRoom(t) ==
  /\ pc[t] = "unregister"
  /\ room' = [room EXCEPT ![Record(t)] = 0]
  /\ Goto(t, "inlobby")
  /\ UNCHANGED <<clientVars, players, status, PlayerSocket, socketToHash, roomVars,
                 serverVars, tellVars, told>>

BackInLobby(t) ==
  /\ pc[t] = "inlobby"
  /\ status' = [status EXCEPT ![Record(t)] = "INLOBBY"]
  /\ Finish(t)
  /\ UNCHANGED <<clientVars, players, room, PlayerSocket, socketToHash, roomVars, serverVars,
                 tellVars, told>>

-----------------------------------------------------------------------------
(* Leaving: LogoutRequest, or CleanupforSocket after a lost connection.     *)

(* The session server hears of a logout first; the answer to it closes the  *)
(* connection, whatever DeletePlayer returns.                               *)
LogoutRequest(t, h) ==
  /\ pc[t] = "idle" /\ PlayersFree
  /\ ui[h] = "lobby"
  /\ CountLeave
  /\ session' = session \ {h}
  /\ \/ /\ players[h] # 0
        /\ UNCHANGED <<conn, ui>> /\ Take(t, "logout", h, players[h], "check")
     \/ /\ players[h] = 0
        /\ ui' = [ui EXCEPT ![h] = "offline"]
        /\ UNCHANGED <<conn, threadVars>>
  /\ UNCHANGED <<recordVars, roomVars, serverVars, tellVars, told>>

(* A connection that socketToHash does not know is only closed.             *)
CleanupforSocket(t, h) ==
  /\ pc[t] = "idle" /\ PlayersFree
  /\ ui[h] # "offline"
  /\ CountLeave
  /\ ui' = [ui EXCEPT ![h] = "offline"]
  /\ UNCHANGED conn
  /\ \/ /\ <<h, conn[h]>> \in socketToHash /\ players[h] # 0
        /\ Take(t, "disconnect", h, players[h], "check")
     \/ /\ <<h, conn[h]>> \notin socketToHash \/ players[h] = 0
        /\ UNCHANGED threadVars
  /\ UNCHANGED <<session, recordVars, roomVars, serverVars, tellVars, told>>

(* DeletePlayer returns ok.                                                 *)
DeleteDone(t, ok) ==
  /\ session' = IF job[t].op = "disconnect" /\ ok THEN session \ {Hash(t)} ELSE session
  /\ ui' = IF job[t].op = "logout" /\ Current(t) THEN [ui EXCEPT ![Hash(t)] = "offline"] ELSE ui
  /\ UNCHANGED <<conn, leaves>>
  /\ Finish(t)

(* A socket that was never set is not initialized: it may read as -1 or as  *)
(* a number that no connection has.                                         *)
CheckLobby(t) ==
  LET sock == PlayerSocket[Record(t)] IN
  /\ pc[t] = "check"
  /\ \/ /\ sock \in {-1, 0}
        /\ DeleteDone(t, FALSE)
     \/ /\ sock # -1
        /\ GotoKnowing(t, IF status[Record(t)] = "INLOBBY" THEN "erasePlayer" ELSE "checkRoom",
                       sock)
        /\ UNCHANGED clientVars
  /\ UNCHANGED <<recordVars, roomVars, serverVars, tellVars, told>>

(* The status is read again; a player in game keeps the record.             *)
CheckRoom(t) ==
  /\ pc[t] = "checkRoom"
  /\ \/ /\ status[Record(t)] = "INROOM"
        /\ IF room[Record(t)] # 0 THEN GotoWith(t, "remove", room[Record(t)])
           ELSE Goto(t, "erasePlayer")
        /\ UNCHANGED clientVars
     \/ /\ status[Record(t)] # "INROOM"
        /\ DeleteDone(t, TRUE)
  /\ UNCHANGED <<recordVars, roomVars, serverVars, tellVars, told>>

(* ErasePlayerAndSocket erases whatever record the hash leads to now.       *)
ErasePlayerAndSocket(t) ==
  /\ pc[t] = "erasePlayer" /\ PlayersFree
  /\ players' = [players EXCEPT ![Hash(t)] = 0]
  /\ socketToHash' = socketToHash \ {<<Hash(t), Sock[t]>>}
  /\ PlayerSocket' = [PlayerSocket EXCEPT ![Record(t)] = -1]
  /\ DeleteDone(t, TRUE)
  /\ UNCHANGED <<status, room, roomVars, serverVars, tellVars, told>>

-----------------------------------------------------------------------------
AcceptDedicatedServer(s) ==
  /\ s \notin serverlist
  /\ serverlist' = serverlist \cup {s}
  /\ UNCHANGED <<clientVars, recordVars, roomVars, used, games, threadVars, tellVars, told>>

Request(t, h) ==
  \/ HandleLoginAttempt(t, h) \/ JoinRoomRequest(t, h) \/ CancelRoomRequest(t, h)
  \/ LogoutRequest(t, h) \/ CleanupforSocket(t, h)

Continue(t) ==
  \/ RegisterPlayer(t) \/ EnterLobby(t)
  \/ PickRoom(t) \/ AddPlayerHash(t) \/ RegisterRoom(t) \/ IsFull(t) \/ WaitInRoom(t)
  \/ CloseRoom(t) \/ SendGameStart(t) \/ LockPlayers(t)
  \/ (\E h \in Players : TellPlayer(t, h)) \/ AllTold(t) \/ RespondUnstarted(t)
  \/ FindWaitRoom(t) \/ RemovePlayerHash(t) \/ CountPlayers(t) \/ ReleaseRoom(t)
  \/ UnregisterRoom(t) \/ BackInLobby(t)
  \/ CheckLobby(t) \/ CheckRoom(t) \/ ErasePlayerAndSocket(t)

Next ==
  \/ \E t \in Threads : Continue(t) \/ \E h \in Players : Request(t, h)
  \/ \E s \in Servers : AcceptDedicatedServer(s)

(* A thread that has taken a request runs on; nobody owes a request.        *)
Spec == Init /\ [][Next]_vars /\ \A t \in Threads : WF_vars(Continue(t))

-----------------------------------------------------------------------------
(* Properties *)

(* Every variable stays in its type. *)
TypeOK ==
  /\ ui \in [Players -> Screens] /\ conn \in [Players -> 0..MaxLogins] /\ session \subseteq Players
  /\ leaves \in Nat
  /\ players \in [Players -> 0..MaxLogins]
  /\ status \in [Records -> Statuses] /\ room \in [Records -> 0..NumRooms]
  /\ PlayerSocket \in [Records -> -1..MaxLogins] /\ socketToHash \subseteq Records
  /\ playerHashes \in [Rooms -> SUBSET Players]
  /\ waitrooms \subseteq Rooms /\ startedrooms \subseteq Rooms /\ pool \in Seq(Rooms)
  /\ torn \subseteq Rooms
  /\ serverlist \subseteq Servers /\ used \subseteq serverlist
  /\ games \in Seq([server : Servers, room : Rooms, hashes : SUBSET Players])
  /\ pc \in [Threads -> Steps] /\ Room \in [Threads -> 0..NumRooms]
  /\ Sock \in [Threads -> 0..MaxLogins]
  /\ job \in [Threads -> Requests \cup {NoJob}]
  /\ \A t \in Threads : pc[t] = "idle" \/ job[t] \in Requests
  /\ list \in [Threads -> SUBSET Players] /\ key \in [Threads -> Servers \cup {None}]
  /\ told \in [Players -> SUBSET (Servers \cup {None})]

(* Players wait together: waitrooms, a set, never holds two rooms, since it *)
(* is only added to when it is empty, under the lock that is asked.         *)
OneWaitingRoom == \A r, s \in waitrooms : r = s

(* Nobody is left behind in a waiting room: a full one has a thread on its  *)
(* way to close it, an empty one a thread about to fill or to erase it.     *)
WaitingRoomAttended ==
  \A r \in waitrooms :
    /\ Full(r) => \E t \in Threads : Room[t] = r /\ pc[t] \in {"registerRoom", "isFull", "close"}
    /\ playerHashes[r] = {} =>
         \E t \in Threads : Room[t] = r /\ pc[t] \in {"add", "count", "release"}

(* A dedicated server gets the list of one game only, though its entry is   *)
(* found and marked under no lock of its own.                               *)
ServersUsedOnce ==
  \A i, j \in DOMAIN games : games[i].server = games[j].server => i = j

(* A client is sent only to a server that was given its hash before, also   *)
(* when players leave the room while the others are being told.             *)
ToldAreExpected ==
  \A h \in Players : \A s \in told[h] :
    \E i \in DOMAIN games : games[i].server = s /\ h \in games[i].hashes

(* A game of fewer than maxplayer players had its full room left between    *)
(* isFull and SendGameStart: nothing else starts a room early.              *)
ShortGamesExplained ==
  \A i \in DOMAIN games :
    Cardinality(games[i].hashes) = maxplayer \/ games[i].room \in torn

(* Matchmaking without its threads and locks: every critical section is a   *)
(* step of Matchmaking or leaves what it speaks of alone.  So a match goes  *)
(* to a server that connected and never had one, it names whom the room     *)
(* held at that moment, a complete group or one that broke, and a client is *)
(* sent once to a server, after that server was told to expect it.          *)
Matches == {[server |-> games[i].server, players |-> games[i].hashes] : i \in DOMAIN games}

Matchmaker == INSTANCE Matchmaking WITH
  size <- maxplayer, group <- playerHashes, waiting <- waitrooms, broken <- torn,
  online <- serverlist, matches <- Matches, sent <- told

MatchesAreMade == Matchmaker!Spec

(* A room that fills while it is waiting gets its game, unless it loses a   *)
(* player first or no dedicated server is free when its turn comes.         *)
FullRoomsStart ==
  \A r \in Rooms :
    r \in waitrooms /\ Full(r) ~> \/ ~Full(r)
                                  \/ \E i \in DOMAIN games : games[i].room = r
                                  \/ FreeServers = {}
=============================================================================
