----------------------- MODULE GameServerManager_proofs -----------------------
(***************************************************************************)
(* Proofs about GameServerManager, for any number of players, threads,     *)
(* dedicated servers, rooms and logins and any size of a room.             *)
(***************************************************************************)
EXTENDS GameServerManager, FiniteSetTheorems, TLAPS

(* A client that is on line has a connection.                               *)
Connected == \A h \in Players : ui[h] # "offline" => conn[h] \in Logins

(* The threads that work on a room have one.                                *)
RoomSteps == {"add", "registerRoom", "isFull", "wait", "close", "start", "lock", "tell",
              "remove", "count", "release"}
Attached == \A t \in Threads : pc[t] \in RoomSteps => Room[t] \in Rooms

TypeInv == TypeOK /\ Connected /\ Attached

LEMMA TypeInvInit == Init => TypeInv
<1> SUFFICES ASSUME Init PROVE TypeInv
  OBVIOUS
<1>1. pool \in Seq(Rooms)
  BY BoundsAssumption DEF Init, Rooms
<1>2. /\ ui \in [Players -> Screens] /\ status \in [Records -> Statuses]
      /\ pc \in [Threads -> Steps]
  BY Zenon DEF Init, Screens, Statuses, Steps
<1>3. /\ conn \in [Players -> 0..MaxLogins] /\ players \in [Players -> 0..MaxLogins]
      /\ room \in [Records -> 0..NumRooms] /\ Room \in [Threads -> 0..NumRooms]
      /\ PlayerSocket \in [Records -> -1..MaxLogins] /\ Sock \in [Threads -> 0..MaxLogins]
  BY BoundsAssumption DEF Init
<1>4. /\ playerHashes \in [Rooms -> SUBSET Players] /\ told \in [Players -> SUBSET (Servers \cup {None})]
      /\ list \in [Threads -> SUBSET Players] /\ key \in [Threads -> Servers \cup {None}]
  BY DEF Init
<1>5. games \in Seq([server : Servers, room : Rooms, hashes : SUBSET Players])
  BY DEF Init
<1>6. Connected /\ Attached
  BY DEF Init, Connected, Attached, RoomSteps
<1>7. QED
  BY <1>1, <1>2, <1>3, <1>4, <1>5, <1>6 DEF Init, TypeInv, TypeOK
-----------------------------------------------------------------------------
(* What the thread helpers do to the types of pc, job, Room and Sock.       *)
ThreadTypes ==
  /\ pc \in [Threads -> Steps] /\ Room \in [Threads -> 0..NumRooms]
  /\ Sock \in [Threads -> 0..MaxLogins]
  /\ job \in [Threads -> Requests \cup {NoJob}]
  /\ \A t \in Threads : pc[t] = "idle" \/ job[t] \in Requests
  /\ Attached

LEMMA GotoTypes ==
  ASSUME ThreadTypes, NEW t \in Threads, pc[t] # "idle", NEW step \in Steps \ {"idle"},
         step \in RoomSteps => Room[t] \in Rooms, Goto(t, step)
  PROVE  ThreadTypes'
BY DEF ThreadTypes, Attached, Goto, Rooms

LEMMA GotoWithTypes ==
  ASSUME ThreadTypes, NEW t \in Threads, pc[t] # "idle", NEW step \in Steps \ {"idle"},
         NEW r \in Rooms, GotoWith(t, step, r)
  PROVE  ThreadTypes'
<1>1. r \in 0..NumRooms
  BY BoundsAssumption DEF Rooms
<1>2. QED
  BY <1>1 DEF ThreadTypes, Attached, GotoWith

LEMMA FinishTypes ==
  ASSUME ThreadTypes, NEW t \in Threads, Finish(t)
  PROVE  ThreadTypes'
<1>1. 0 \in 0..NumRooms /\ 0 \in 0..MaxLogins
  BY BoundsAssumption
<1>2. /\ pc' \in [Threads -> Steps] /\ Room' \in [Threads -> 0..NumRooms]
      /\ Sock' \in [Threads -> 0..MaxLogins]
  BY <1>1 DEF ThreadTypes, Finish, Steps
<1>3. /\ job' \in [Threads -> Requests \cup {NoJob}]
      /\ \A s \in Threads : pc'[s] = "idle" \/ job'[s] \in Requests
  BY DEF ThreadTypes, Finish
<1>4. Attached'
  BY DEF ThreadTypes, Attached, Finish, RoomSteps
<1>5. QED
  BY <1>2, <1>3, <1>4 DEF ThreadTypes

LEMMA TakeTypes ==
  ASSUME ThreadTypes, NEW t \in Threads, NEW op \in Ops, NEW h \in Players, NEW n \in Logins,
         conn'[h] \in Logins, NEW step \in Steps \ ({"idle"} \cup RoomSteps),
         Take(t, op, h, n, step)
  PROVE  ThreadTypes'
<1>1. [op |-> op, h |-> h, c |-> conn'[h], n |-> n] \in Requests
  BY DEF Requests
<1>2. QED
  BY <1>1 DEF ThreadTypes, Attached, Take

LEMMA BusyThread ==
  ASSUME ThreadTypes, NEW t \in Threads, pc[t] # "idle"
  PROVE  /\ Hash(t) \in Players /\ Record(t) \in Records
         /\ job[t].n \in Logins /\ job[t].c \in Logins /\ job[t].op \in Ops
BY DEF ThreadTypes, Hash, Record, Records, Requests
-----------------------------------------------------------------------------
(* The types of everything else, client by client and map by map.           *)
ClientTypes ==
  /\ ui \in [Players -> Screens] /\ conn \in [Players -> 0..MaxLogins] /\ session \subseteq Players
  /\ leaves \in Nat /\ Connected

RecordTypes ==
  /\ players \in [Players -> 0..MaxLogins]
  /\ status \in [Records -> Statuses] /\ room \in [Records -> 0..NumRooms]
  /\ PlayerSocket \in [Records -> -1..MaxLogins] /\ socketToHash \subseteq Records

RoomTypes ==
  /\ playerHashes \in [Rooms -> SUBSET Players]
  /\ waitrooms \subseteq Rooms /\ startedrooms \subseteq Rooms /\ pool \in Seq(Rooms)
  /\ torn \subseteq Rooms

ServerTypes ==
  /\ serverlist \subseteq Servers /\ used \subseteq serverlist
  /\ games \in Seq([server : Servers, room : Rooms, hashes : SUBSET Players])
  /\ list \in [Threads -> SUBSET Players] /\ key \in [Threads -> Servers \cup {None}]
  /\ told \in [Players -> SUBSET (Servers \cup {None})]

LEMMA TypeInvParts ==
  TypeInv <=> ThreadTypes /\ ClientTypes /\ RecordTypes /\ RoomTypes /\ ServerTypes
BY DEF TypeInv, TypeOK, ThreadTypes, ClientTypes, RecordTypes, RoomTypes, ServerTypes

LEMMA ThreadStep ==
  ASSUME TypeInv, [Next]_vars
  PROVE  ThreadTypes'
<1> USE TypeInvParts
<1> USE DEF Steps, RoomSteps
<1>1. ASSUME NEW t \in Threads, NEW h \in Players, Request(t, h) PROVE ThreadTypes'
  <2>1. CASE HandleLoginAttempt(t, h)
    <3>1. conn'[h] \in Logins
      BY <2>1, BoundsAssumption DEF HandleLoginAttempt, ClientTypes, Logins
    <3>2. QED
      BY <2>1, <3>1, TakeTypes DEF HandleLoginAttempt, Ops, threadVars, ThreadTypes, Attached
  <2>2. ASSUME players[h] # 0 PROVE players[h] \in Logins
    BY <2>2, BoundsAssumption DEF RecordTypes, Logins
  <2>3. ASSUME ui[h] # "offline", conn' = conn PROVE conn'[h] \in Logins
    BY <2>3 DEF ClientTypes, Connected
  <2>4. CASE JoinRoomRequest(t, h)
    BY <2>2, <2>3, <2>4, TakeTypes DEF JoinRoomRequest, Ops
  <2>5. CASE CancelRoomRequest(t, h)
    BY <2>2, <2>3, <2>5, TakeTypes DEF CancelRoomRequest, Ops
  <2>6. CASE LogoutRequest(t, h)
    BY <2>2, <2>3, <2>6, TakeTypes DEF LogoutRequest, Ops, threadVars, ThreadTypes, Attached
  <2>7. CASE CleanupforSocket(t, h)
    BY <2>2, <2>3, <2>7, TakeTypes DEF CleanupforSocket, Ops, threadVars, ThreadTypes, Attached
  <2>8. QED
    BY <1>1, <2>1, <2>4, <2>5, <2>6, <2>7 DEF Request
<1>2. ASSUME NEW t \in Threads, Continue(t) PROVE ThreadTypes'
  <2>1. CASE RegisterPlayer(t)
    BY <2>1, GotoTypes DEF RegisterPlayer
  <2>2. CASE EnterLobby(t)
    BY <2>2, FinishTypes DEF EnterLobby
  <2>3. CASE PickRoom(t)
    <3>1. CASE CreateRoom(t)
      <4>1. Head(pool) \in Rooms
        BY <3>1 DEF CreateRoom, RoomTypes
      <4>2. QED
        BY <3>1, <4>1, GotoWithTypes DEF CreateRoom
    <3>2. CASE UseRoom(t)
      BY <3>2, GotoWithTypes DEF UseRoom, RoomTypes
    <3>3. QED
      BY <2>3, <3>1, <3>2 DEF PickRoom
  <2>4. CASE AddPlayerHash(t)
    BY <2>4, GotoTypes, FinishTypes DEF AddPlayerHash, ThreadTypes, Attached
  <2>5. CASE RegisterRoom(t)
    BY <2>5, GotoTypes DEF RegisterRoom, ThreadTypes, Attached
  <2>6. CASE IsFull(t)
    BY <2>6, GotoTypes DEF IsFull, ThreadTypes, Attached
  <2>7. CASE WaitInRoom(t)
    BY <2>7, FinishTypes DEF WaitInRoom, JoinRoomResponse
  <2>8. CASE CloseRoom(t)
    BY <2>8, GotoTypes DEF CloseRoom, ThreadTypes, Attached
  <2>9. CASE SendGameStart(t)
    BY <2>9, GotoTypes DEF SendGameStart, ThreadTypes, Attached
  <2>10. CASE LockPlayers(t)
    BY <2>10, GotoTypes DEF LockPlayers, ThreadTypes, Attached
  <2>11. ASSUME NEW h \in Players, TellPlayer(t, h) PROVE ThreadTypes'
    BY <2>11 DEF TellPlayer, threadVars, ThreadTypes, Attached
  <2>12. CASE AllTold(t)
    BY <2>12, FinishTypes DEF AllTold, JoinRoomResponse
  <2>13. CASE RespondUnstarted(t)
    BY <2>13, FinishTypes DEF RespondUnstarted, JoinRoomResponse
  <2>14. CASE FindWaitRoom(t)
    BY <2>14, GotoWithTypes, FinishTypes DEF FindWaitRoom, RoomTypes
  <2>15. ASSUME pc[t] # "idle", AfterRoom(t) PROVE ThreadTypes'
    BY <2>15, GotoTypes DEF AfterRoom
  <2>16. CASE RemovePlayerHash(t)
    BY <2>15, <2>16, GotoTypes, FinishTypes DEF RemovePlayerHash, ThreadTypes, Attached
  <2>17. CASE CountPlayers(t)
    BY <2>15, <2>17, GotoTypes DEF CountPlayers, ThreadTypes, Attached
  <2>18. CASE ReleaseRoom(t)
    BY <2>15, <2>18 DEF ReleaseRoom
  <2>19. CASE UnregisterRoom(t)
    BY <2>19, GotoTypes DEF UnregisterRoom
  <2>20. CASE BackInLobby(t)
    BY <2>20, FinishTypes DEF BackInLobby
  <2>21. ASSUME NEW ok \in BOOLEAN, DeleteDone(t, ok) PROVE ThreadTypes'
    BY <2>21, FinishTypes DEF DeleteDone
  <2>22. CASE CheckLobby(t)
    <3>1. CASE \E ok \in BOOLEAN : DeleteDone(t, ok)
      BY <2>21, <3>1
    <3>2. ASSUME NEW step \in {"erasePlayer", "checkRoom"}, NEW sock \in 0..MaxLogins,
                 GotoKnowing(t, step, sock)
          PROVE  ThreadTypes'
      BY <2>22, <3>2 DEF CheckLobby, GotoKnowing, ThreadTypes, Attached
    <3>3. PlayerSocket[Record(t)] # -1 => PlayerSocket[Record(t)] \in 0..MaxLogins
      BY <2>22, BusyThread, BoundsAssumption DEF CheckLobby, RecordTypes
    <3>4. QED
      BY <2>22, <3>1, <3>2, <3>3 DEF CheckLobby
  <2>23. CASE CheckRoom(t)
    <3>1. room[Record(t)] # 0 => room[Record(t)] \in Rooms
      BY <2>23, BusyThread, BoundsAssumption DEF CheckRoom, RecordTypes, Rooms
    <3>2. QED
      BY <2>21, <2>23, <3>1, GotoTypes, GotoWithTypes DEF CheckRoom
  <2>24. CASE ErasePlayerAndSocket(t)
    BY <2>21, <2>24 DEF ErasePlayerAndSocket
  <2>25. QED
    BY <1>2, <2>1, <2>2, <2>3, <2>4, <2>5, <2>6, <2>7, <2>8, <2>9, <2>10, <2>11, <2>12, <2>13,
       <2>14, <2>16, <2>17, <2>18, <2>19, <2>20, <2>22, <2>23, <2>24 DEF Continue
<1>3. ASSUME NEW s \in Servers, AcceptDedicatedServer(s) PROVE ThreadTypes'
  BY <1>3 DEF AcceptDedicatedServer, threadVars, ThreadTypes, Attached
<1>4. CASE UNCHANGED vars
  BY <1>4 DEF vars, threadVars, ThreadTypes, Attached
<1>5. QED
  BY <1>1, <1>2, <1>3, <1>4 DEF Next

-----------------------------------------------------------------------------
(* Frames: which steps can change which part of the state.                  *)
LEMMA ClientFrame ==
  ASSUME [Next]_vars
  PROVE  \/ \E t \in Threads, h \in Players :
              \/ HandleLoginAttempt(t, h) \/ CancelRoomRequest(t, h) \/ LogoutRequest(t, h)
              \/ CleanupforSocket(t, h) \/ TellPlayer(t, h)
         \/ \E t \in Threads :
              \/ WaitInRoom(t) \/ AllTold(t) \/ RespondUnstarted(t)
              \/ CheckLobby(t) \/ CheckRoom(t) \/ ErasePlayerAndSocket(t)
         \/ UNCHANGED clientVars
<1>1. CASE \E t \in Threads, h \in Players : Request(t, h)
  BY <1>1 DEF Request, JoinRoomRequest, clientVars
<1>2. CASE \E t \in Threads : Continue(t)
  BY <1>2 DEF Continue, RegisterPlayer, EnterLobby, PickRoom, CreateRoom, UseRoom,
     AddPlayerHash, RegisterRoom, IsFull, CloseRoom, SendGameStart, LockPlayers, FindWaitRoom,
     RemovePlayerHash, CountPlayers, ReleaseRoom, UnregisterRoom, BackInLobby, clientVars
<1>3. CASE \E s \in Servers : AcceptDedicatedServer(s)
  BY <1>3 DEF AcceptDedicatedServer
<1>4. CASE UNCHANGED vars
  BY <1>4 DEF vars
<1>5. QED
  BY <1>1, <1>2, <1>3, <1>4 DEF Next

LEMMA RecordFrame ==
  ASSUME [Next]_vars
  PROVE  \/ \E t \in Threads :
              \/ RegisterPlayer(t) \/ EnterLobby(t) \/ RegisterRoom(t) \/ WaitInRoom(t)
              \/ UnregisterRoom(t) \/ BackInLobby(t) \/ ErasePlayerAndSocket(t)
         \/ \E t \in Threads, h \in Players : TellPlayer(t, h)
         \/ UNCHANGED recordVars
<1>1. CASE \E t \in Threads, h \in Players : Request(t, h)
  BY <1>1 DEF Request, HandleLoginAttempt, JoinRoomRequest, CancelRoomRequest, LogoutRequest,
     CleanupforSocket
<1>2. CASE \E t \in Threads : Continue(t)
  BY <1>2 DEF Continue, PickRoom, CreateRoom, UseRoom, AddPlayerHash, IsFull, CloseRoom,
     SendGameStart, LockPlayers, AllTold, RespondUnstarted, FindWaitRoom, RemovePlayerHash,
     CountPlayers, ReleaseRoom, CheckLobby, CheckRoom
<1>3. CASE \E s \in Servers : AcceptDedicatedServer(s)
  BY <1>3 DEF AcceptDedicatedServer
<1>4. CASE UNCHANGED vars
  BY <1>4 DEF vars
<1>5. QED
  BY <1>1, <1>2, <1>3, <1>4 DEF Next

LEMMA RoomFrame ==
  ASSUME [Next]_vars
  PROVE  \/ \E t \in Threads :
              \/ PickRoom(t) \/ AddPlayerHash(t) \/ CloseRoom(t) \/ SendGameStart(t)
              \/ RemovePlayerHash(t) \/ ReleaseRoom(t)
         \/ UNCHANGED roomVars
<1>1. CASE \E t \in Threads, h \in Players : Request(t, h)
  BY <1>1 DEF Request, HandleLoginAttempt, JoinRoomRequest, CancelRoomRequest, LogoutRequest,
     CleanupforSocket
<1>2. CASE \E t \in Threads : Continue(t)
  BY <1>2 DEF Continue, RegisterPlayer, EnterLobby, RegisterRoom, IsFull, WaitInRoom,
     LockPlayers, TellPlayer, AllTold, RespondUnstarted, FindWaitRoom, CountPlayers,
     UnregisterRoom, BackInLobby, CheckLobby, CheckRoom, ErasePlayerAndSocket
<1>3. CASE \E s \in Servers : AcceptDedicatedServer(s)
  BY <1>3 DEF AcceptDedicatedServer
<1>4. CASE UNCHANGED vars
  BY <1>4 DEF vars
<1>5. QED
  BY <1>1, <1>2, <1>3, <1>4 DEF Next

LEMMA ServerFrame ==
  ASSUME [Next]_vars
  PROVE  \/ \E t \in Threads : SendGameStart(t) \/ AllTold(t)
         \/ \E t \in Threads, h \in Players : TellPlayer(t, h)
         \/ \E s \in Servers : AcceptDedicatedServer(s)
         \/ UNCHANGED <<serverVars, tellVars, told>>
<1>1. CASE \E t \in Threads, h \in Players : Request(t, h)
  BY <1>1 DEF Request, HandleLoginAttempt, JoinRoomRequest, CancelRoomRequest, LogoutRequest,
     CleanupforSocket
<1>2. CASE \E t \in Threads : Continue(t)
  BY <1>2 DEF Continue, RegisterPlayer, EnterLobby, PickRoom, CreateRoom, UseRoom,
     AddPlayerHash, RegisterRoom, IsFull, WaitInRoom, CloseRoom, LockPlayers, RespondUnstarted,
     FindWaitRoom, RemovePlayerHash, CountPlayers, ReleaseRoom, UnregisterRoom, BackInLobby,
     CheckLobby, CheckRoom, ErasePlayerAndSocket
<1>3. CASE \E s \in Servers : AcceptDedicatedServer(s)
  BY <1>3
<1>4. CASE UNCHANGED vars
  BY <1>4 DEF vars
<1>5. QED
  BY <1>1, <1>2, <1>3, <1>4 DEF Next

LEMMA RecordStep ==
  ASSUME TypeInv, [Next]_vars
  PROVE  RecordTypes'
<1> USE TypeInvParts
<1> USE DEF RecordTypes
<1>1. ASSUME NEW t \in Threads, RegisterPlayer(t) PROVE RecordTypes'
  <2>1. job[t].n \in 0..MaxLogins
    BY <1>1, BusyThread, BoundsAssumption DEF RegisterPlayer, Logins
  <2>2. QED
    BY <1>1, <2>1 DEF RegisterPlayer
<1>2. ASSUME NEW t \in Threads, EnterLobby(t) PROVE RecordTypes'
  <2>1. <<Hash(t), players[Hash(t)]>> \in Records /\ <<Hash(t), job[t].c>> \in Records
    BY <1>2, BusyThread, BoundsAssumption DEF EnterLobby, Records, Logins
  <2>2. job[t].c \in -1..MaxLogins
    BY <1>2, BusyThread, BoundsAssumption DEF EnterLobby, Logins
  <2>3. QED
    BY <1>2, <2>1, <2>2 DEF EnterLobby, Statuses
<1>3. ASSUME NEW t \in Threads, RegisterRoom(t) PROVE RecordTypes'
  BY <1>3, BusyThread DEF RegisterRoom, ThreadTypes
<1>4. ASSUME NEW t \in Threads, WaitInRoom(t) PROVE RecordTypes'
  BY <1>4, BusyThread DEF WaitInRoom, Statuses
<1>5. ASSUME NEW t \in Threads, UnregisterRoom(t) PROVE RecordTypes'
  BY <1>5, BusyThread, BoundsAssumption DEF UnregisterRoom
<1>6. ASSUME NEW t \in Threads, BackInLobby(t) PROVE RecordTypes'
  BY <1>6, BusyThread DEF BackInLobby, Statuses
<1>7. ASSUME NEW t \in Threads, ErasePlayerAndSocket(t) PROVE RecordTypes'
  BY <1>7, BusyThread, BoundsAssumption DEF ErasePlayerAndSocket
<1>8. ASSUME NEW t \in Threads, NEW h \in Players, TellPlayer(t, h) PROVE RecordTypes'
  BY <1>8 DEF TellPlayer, Statuses
<1>9. CASE UNCHANGED recordVars
  BY <1>9 DEF recordVars
<1>10. QED
  BY <1>1, <1>2, <1>3, <1>4, <1>5, <1>6, <1>7, <1>8, <1>9, RecordFrame

LEMMA RoomStep ==
  ASSUME TypeInv, [Next]_vars
  PROVE  RoomTypes'
<1> USE TypeInvParts
<1> USE DEF RoomTypes
<1>1. ASSUME NEW t \in Threads, PickRoom(t) PROVE RoomTypes'
  <2>1. CASE CreateRoom(t)
    <3>1. Head(pool) \in Rooms /\ Tail(pool) \in Seq(Rooms)
      BY <2>1 DEF CreateRoom
    <3>2. QED
      BY <2>1, <3>1 DEF CreateRoom
  <2>2. CASE UseRoom(t)
    BY <2>2 DEF UseRoom, roomVars
  <2>3. QED
    BY <1>1, <2>1, <2>2 DEF PickRoom
<1>2. ASSUME NEW t \in Threads, AddPlayerHash(t) PROVE RoomTypes'
  BY <1>2, BusyThread DEF AddPlayerHash
<1>3. ASSUME NEW t \in Threads, CloseRoom(t) PROVE RoomTypes'
  BY <1>3 DEF CloseRoom
<1>4. ASSUME NEW t \in Threads, SendGameStart(t) PROVE RoomTypes'
  BY <1>4 DEF SendGameStart, ThreadTypes, Attached, RoomSteps
<1>5. ASSUME NEW t \in Threads, RemovePlayerHash(t) PROVE RoomTypes'
  BY <1>5 DEF RemovePlayerHash, ThreadTypes, Attached, RoomSteps
<1>6. ASSUME NEW t \in Threads, ReleaseRoom(t) PROVE RoomTypes'
  <2>1. Room[t] \in Rooms
    BY <1>6 DEF ReleaseRoom, ThreadTypes, Attached, RoomSteps
  <2>2. QED
    BY <1>6, <2>1 DEF ReleaseRoom
<1>7. CASE UNCHANGED roomVars
  BY <1>7 DEF roomVars
<1>8. QED
  BY <1>1, <1>2, <1>3, <1>4, <1>5, <1>6, <1>7, RoomFrame

LEMMA ServerStep ==
  ASSUME TypeInv, [Next]_vars
  PROVE  ServerTypes'
<1> USE TypeInvParts
<1> USE DEF ServerTypes
<1>1. ASSUME NEW t \in Threads, SendGameStart(t) PROVE ServerTypes'
  <2>1. Room[t] \in Rooms /\ playerHashes[Room[t]] \in SUBSET Players
    BY <1>1 DEF SendGameStart, ThreadTypes, Attached, RoomSteps, RoomTypes
  <2>2. CASE FreeServers = {} /\ UNCHANGED <<used, games, tellVars>>
    BY <1>1, <2>2 DEF SendGameStart, tellVars
  <2>3. ASSUME NEW s \in Servers, TakeServer(s),
               games' = Append(games, [server |-> s, room |-> Room[t],
                                       hashes |-> playerHashes[Room[t]]]),
               list' = [list EXCEPT ![t] = playerHashes[Room[t]]],
               key' = [key EXCEPT ![t] = s]
        PROVE  ServerTypes'
    <3>1. UNCHANGED <<serverlist, told>>
      BY <1>1 DEF SendGameStart
    <3>2. games' \in Seq([server : Servers, room : Rooms, hashes : SUBSET Players])
      BY <2>1, <2>3
    <3>3. QED
      BY <2>1, <2>3, <3>1, <3>2 DEF TakeServer, FreeServers
  <2>4. QED
    BY <1>1, <2>2, <2>3 DEF SendGameStart
<1>2. ASSUME NEW t \in Threads, AllTold(t) PROVE ServerTypes'
  BY <1>2 DEF AllTold, serverVars
<1>3. ASSUME NEW t \in Threads, NEW h \in Players, TellPlayer(t, h) PROVE ServerTypes'
  <2>1. key[t] \in Servers \cup {None}
    OBVIOUS
  <2>2. told' \in [Players -> SUBSET (Servers \cup {None})]
    BY <1>3, <2>1 DEF TellPlayer
  <2>3. list' \in [Threads -> SUBSET Players]
    BY <1>3 DEF TellPlayer
  <2>4. QED
    BY <1>3, <2>2, <2>3 DEF TellPlayer, serverVars
<1>4. ASSUME NEW s \in Servers, AcceptDedicatedServer(s) PROVE ServerTypes'
  BY <1>4 DEF AcceptDedicatedServer, tellVars
<1>5. CASE UNCHANGED <<serverVars, tellVars, told>>
  BY <1>5 DEF serverVars, tellVars
<1>6. QED
  BY <1>1, <1>2, <1>3, <1>4, <1>5, ServerFrame

LEMMA ClientStep ==
  ASSUME TypeInv, [Next]_vars
  PROVE  ClientTypes'
<1> USE TypeInvParts
<1> USE DEF ClientTypes, Connected
<1>1. ASSUME NEW t \in Threads, NEW h \in Players, HandleLoginAttempt(t, h) PROVE ClientTypes'
  <2>1. conn[h] + 1 \in Logins /\ conn[h] + 1 \in 0..MaxLogins
    BY <1>1, BoundsAssumption DEF HandleLoginAttempt, Logins
  <2>2. QED
    BY <1>1, <2>1 DEF HandleLoginAttempt, Screens
<1>2. ASSUME NEW t \in Threads, NEW h \in Players, CancelRoomRequest(t, h) PROVE ClientTypes'
  BY <1>2 DEF CancelRoomRequest, CountLeave
<1>3. ASSUME NEW t \in Threads, NEW h \in Players, LogoutRequest(t, h) PROVE ClientTypes'
  BY <1>3 DEF LogoutRequest, CountLeave, Screens
<1>4. ASSUME NEW t \in Threads, NEW h \in Players, CleanupforSocket(t, h) PROVE ClientTypes'
  BY <1>4 DEF CleanupforSocket, CountLeave, Screens
<1>5. ASSUME NEW t \in Threads, NEW h \in Players, TellPlayer(t, h) PROVE ClientTypes'
  BY <1>5 DEF TellPlayer, Reachable, Screens
<1>6. ASSUME NEW t \in Threads, JoinRoomResponse(t) PROVE ClientTypes'
  BY <1>6 DEF JoinRoomResponse, Current, Screens
<1>7. ASSUME NEW t \in Threads, NEW ok \in BOOLEAN, DeleteDone(t, ok) PROVE ClientTypes'
  BY <1>7 DEF DeleteDone, Screens
<1>8. ASSUME NEW t \in Threads,
             \/ WaitInRoom(t) \/ AllTold(t) \/ RespondUnstarted(t)
             \/ CheckLobby(t) \/ CheckRoom(t) \/ ErasePlayerAndSocket(t)
      PROVE  ClientTypes'
  <2>1. JoinRoomResponse(t) \/ DeleteDone(t, TRUE) \/ DeleteDone(t, FALSE) \/ UNCHANGED clientVars
    BY <1>8 DEF WaitInRoom, AllTold, RespondUnstarted, CheckLobby, CheckRoom, ErasePlayerAndSocket
  <2>2. QED
    BY <1>6, <1>7, <2>1 DEF clientVars
<1>9. CASE UNCHANGED clientVars
  BY <1>9 DEF clientVars
<1>10. QED
  BY <1>1, <1>2, <1>3, <1>4, <1>5, <1>8, <1>9, ClientFrame

LEMMA TypeInvStep == TypeInv /\ [Next]_vars => TypeInv'
BY ThreadStep, ClientStep, RecordStep, RoomStep, ServerStep
   DEF TypeInv, TypeOK, ThreadTypes, ClientTypes, RecordTypes, RoomTypes, ServerTypes

(* Every variable keeps its type, whatever the requests and however the     *)
(* threads of RoutineProgress and of Network interleave.                    *)
THEOREM TypeCorrect == Spec => []TypeOK
<1>1. TypeInv => TypeOK
  BY DEF TypeInv
<1>2. QED
  BY <1>1, TypeInvInit, TypeInvStep, PTL DEF Spec
-----------------------------------------------------------------------------
(* The threads other than t stay where they are.                            *)
OthersStay(t) ==
  \A s \in Threads \ {t} : pc'[s] = pc[s] /\ Room'[s] = Room[s] /\ job'[s] = job[s]

LEMMA HelpersStay ==
  ASSUME ThreadTypes, NEW t \in Threads
  PROVE  /\ \A step : Goto(t, step) => OthersStay(t) /\ pc'[t] = step /\ Room'[t] = Room[t]
         /\ \A step, r : GotoWith(t, step, r) => OthersStay(t) /\ pc'[t] = step /\ Room'[t] = r
         /\ \A step, s : GotoKnowing(t, step, s) => OthersStay(t) /\ pc'[t] = step
         /\ Finish(t) => OthersStay(t) /\ pc'[t] = "idle"
         /\ \A op, h, n, step : Take(t, op, h, n, step) => OthersStay(t) /\ pc'[t] = step
<1>1. ASSUME NEW step, Goto(t, step)
      PROVE  OthersStay(t) /\ pc'[t] = step /\ Room'[t] = Room[t]
  BY <1>1 DEF ThreadTypes, OthersStay, Goto
<1>2. ASSUME NEW step, NEW r, GotoWith(t, step, r)
      PROVE  OthersStay(t) /\ pc'[t] = step /\ Room'[t] = r
  BY <1>2 DEF ThreadTypes, OthersStay, GotoWith
<1>3. ASSUME Finish(t) PROVE OthersStay(t) /\ pc'[t] = "idle"
  BY <1>3 DEF ThreadTypes, OthersStay, Finish
<1>4. ASSUME NEW op, NEW h, NEW n, NEW step, Take(t, op, h, n, step)
      PROVE  OthersStay(t) /\ pc'[t] = step
  BY <1>4 DEF ThreadTypes, OthersStay, Take
<1>5. ASSUME NEW step, NEW s, GotoKnowing(t, step, s) PROVE OthersStay(t) /\ pc'[t] = step
  BY <1>5 DEF ThreadTypes, OthersStay, GotoKnowing
<1>6. QED
  BY <1>1, <1>2, <1>3, <1>4, <1>5

(* The steps of a thread on which the waiting rooms depend, and a step of   *)
(* the system that none of them takes part in.                              *)
AttendSteps == {"add", "registerRoom", "isFull", "close", "count", "release"}

Aside ==
  /\ UNCHANGED <<playerHashes, waitrooms>>
  /\ \E t \in Threads : pc[t] \notin AttendSteps /\ OthersStay(t)

LEMMA AttendFrame ==
  ASSUME TypeInv, [Next]_vars
  PROVE  \/ \E t \in Threads :
              \/ PickRoom(t) \/ AddPlayerHash(t) \/ RegisterRoom(t) \/ IsFull(t) \/ CloseRoom(t)
              \/ RemovePlayerHash(t) \/ CountPlayers(t) \/ ReleaseRoom(t)
         \/ Aside
         \/ UNCHANGED <<playerHashes, waitrooms, pc, Room>>
<1> USE TypeInvParts, HelpersStay
<1> USE DEF AttendSteps, Aside
<1>1. ASSUME NEW t \in Threads, NEW h \in Players, Request(t, h)
      PROVE  Aside \/ UNCHANGED <<playerHashes, waitrooms, pc, Room>>
  BY <1>1 DEF Request, HandleLoginAttempt, JoinRoomRequest, CancelRoomRequest, LogoutRequest,
     CleanupforSocket, roomVars, threadVars
<1>2. ASSUME NEW t \in Threads,
             \/ RegisterPlayer(t) \/ EnterLobby(t) \/ WaitInRoom(t) \/ SendGameStart(t)
             \/ LockPlayers(t) \/ AllTold(t) \/ RespondUnstarted(t)
      PROVE  Aside
  BY <1>2 DEF RegisterPlayer, EnterLobby, WaitInRoom, SendGameStart, LockPlayers, AllTold,
     RespondUnstarted, JoinRoomResponse, roomVars
<1>3. ASSUME NEW t \in Threads, NEW h \in Players, TellPlayer(t, h)
      PROVE  UNCHANGED <<playerHashes, waitrooms, pc, Room>>
  BY <1>3 DEF TellPlayer, roomVars, threadVars
<1>4. ASSUME NEW t \in Threads,
             \/ FindWaitRoom(t) \/ UnregisterRoom(t) \/ BackInLobby(t)
             \/ CheckLobby(t) \/ CheckRoom(t) \/ ErasePlayerAndSocket(t)
      PROVE  Aside
  BY <1>4 DEF FindWaitRoom, UnregisterRoom, BackInLobby, CheckLobby, CheckRoom,
     ErasePlayerAndSocket, DeleteDone, roomVars
<1>5. CASE \E t \in Threads : Continue(t)
  BY <1>2, <1>3, <1>4, <1>5 DEF Continue
<1>6. ASSUME NEW s \in Servers, AcceptDedicatedServer(s)
      PROVE  UNCHANGED <<playerHashes, waitrooms, pc, Room>>
  BY <1>6 DEF AcceptDedicatedServer, roomVars, threadVars
<1>7. CASE UNCHANGED vars
  BY <1>7 DEF vars, roomVars, threadVars
<1>8. QED
  BY <1>1, <1>5, <1>6, <1>7 DEF Next

(* A full room has somebody in it.                                          *)
LEMMA FullRoom == \A r : playerHashes[r] = {} => ~Full(r)
BY FS_EmptySet, MaxPlayerAssumption DEF Full

LEMMA OneWaitingRoomStep ==
  ASSUME TypeInv, [Next]_vars, OneWaitingRoom
  PROVE  OneWaitingRoom'
<1>1. ASSUME NEW t \in Threads, PickRoom(t) PROVE OneWaitingRoom'
  BY <1>1 DEF PickRoom, CreateRoom, UseRoom, OneWaitingRoom, roomVars
<1>2. ASSUME NEW t \in Threads,
             \/ AddPlayerHash(t) \/ CloseRoom(t) \/ SendGameStart(t)
             \/ RemovePlayerHash(t) \/ ReleaseRoom(t)
      PROVE  OneWaitingRoom'
  <2>1. waitrooms' \subseteq waitrooms
    BY <1>2 DEF AddPlayerHash, CloseRoom, SendGameStart, RemovePlayerHash, ReleaseRoom
  <2>2. QED
    BY <2>1 DEF OneWaitingRoom
<1>3. CASE UNCHANGED roomVars
  BY <1>3 DEF roomVars, OneWaitingRoom
<1>4. QED
  BY <1>1, <1>2, <1>3, RoomFrame

LEMMA AttendedStep ==
  ASSUME TypeInv, [Next]_vars, WaitingRoomAttended
  PROVE  WaitingRoomAttended'
<1> USE TypeInvParts, HelpersStay
<1>1. ASSUME NEW t \in Threads, PickRoom(t) PROVE WaitingRoomAttended'
  <2>1. CASE CreateRoom(t) /\ waitrooms = {}
    <3>1. PICK r \in Rooms : r = Head(pool)
      BY <2>1 DEF CreateRoom, RoomTypes
    <3>2. waitrooms' = {r} /\ playerHashes'[r] = {}
      BY <2>1, <3>1 DEF CreateRoom, RoomTypes
    <3>3. ~Full(r)'
      BY <3>2, FS_EmptySet, MaxPlayerAssumption DEF Full
    <3>4. pc'[t] = "add" /\ Room'[t] = r
      BY <2>1, <3>1 DEF CreateRoom
    <3>5. QED
      BY <3>2, <3>3, <3>4 DEF WaitingRoomAttended
  <2>2. CASE UseRoom(t)
    <3>1. UNCHANGED <<playerHashes, waitrooms>> /\ pc[t] = "pick" /\ OthersStay(t)
      BY <2>2 DEF UseRoom, roomVars
    <3>2. QED
      BY <3>1 DEF WaitingRoomAttended, OthersStay, Full
  <2>3. QED
    BY <1>1, <2>1, <2>2 DEF PickRoom
<1>2. ASSUME NEW t \in Threads, AddPlayerHash(t) PROVE WaitingRoomAttended'
  <2>1. pc[t] = "add" /\ OthersStay(t) /\ UNCHANGED waitrooms
    BY <1>2 DEF AddPlayerHash
  <2>2. Room[t] \in Rooms
    BY <2>1 DEF ThreadTypes, Attached, RoomSteps
  <2>3. \A r \in Rooms \ {Room[t]} : playerHashes'[r] = playerHashes[r]
    BY <1>2 DEF AddPlayerHash, RoomTypes
  <2>4. ASSUME NEW r \in waitrooms, r # Room[t]
        PROVE  /\ Full(r)' => \E s \in Threads : Room'[s] = r
                                  /\ pc'[s] \in {"registerRoom", "isFull", "close"}
               /\ playerHashes'[r] = {} => \E s \in Threads : Room'[s] = r
                                               /\ pc'[s] \in {"add", "count", "release"}
    <3>1. r \in Rooms /\ playerHashes'[r] = playerHashes[r]
      BY <2>3, <2>4 DEF RoomTypes
    <3>2. QED
      BY <2>1, <2>4, <3>1 DEF WaitingRoomAttended, OthersStay, Full
  <2>5. playerHashes'[Room[t]] # {}
    BY <1>2, <2>2, FullRoom DEF AddPlayerHash, RoomTypes
  <2>6. ASSUME NEW r \in waitrooms, r = Room[t], Full(r)'
        PROVE  \E s \in Threads : Room'[s] = r
                  /\ pc'[s] \in {"registerRoom", "isFull", "close"}
    <3>1. CASE pc'[t] = "registerRoom" /\ Room'[t] = Room[t]
      BY <2>6, <3>1
    <3>2. CASE UNCHANGED playerHashes
      BY <2>1, <2>6, <3>2 DEF WaitingRoomAttended, OthersStay, Full
    <3>3. QED
      BY <1>2, <3>1, <3>2 DEF AddPlayerHash
  <2>7. QED
    BY <2>1, <2>4, <2>5, <2>6 DEF WaitingRoomAttended, Full
<1>3. ASSUME NEW t \in Threads, RegisterRoom(t) \/ IsFull(t) PROVE WaitingRoomAttended'
  <2>1. /\ UNCHANGED <<playerHashes, waitrooms>> /\ OthersStay(t) /\ Room'[t] = Room[t]
        /\ pc[t] \in {"registerRoom", "isFull"}
        /\ Full(Room[t]) => pc'[t] \in {"isFull", "close"}
    BY <1>3 DEF RegisterRoom, IsFull, roomVars
  <2>2. QED
    BY <2>1 DEF WaitingRoomAttended, OthersStay, Full
<1>4. ASSUME NEW t \in Threads, CloseRoom(t) PROVE WaitingRoomAttended'
  <2>1. /\ UNCHANGED playerHashes /\ OthersStay(t) /\ pc[t] = "close"
        /\ waitrooms' = waitrooms \ {Room[t]}
    BY <1>4 DEF CloseRoom
  <2>2. QED
    BY <2>1 DEF WaitingRoomAttended, OthersStay, Full
<1>5. ASSUME NEW t \in Threads, RemovePlayerHash(t) PROVE WaitingRoomAttended'
  <2>1. pc[t] = "remove" /\ OthersStay(t) /\ UNCHANGED waitrooms
    BY <1>5 DEF RemovePlayerHash, AfterRoom
  <2>2. CASE UNCHANGED playerHashes
    BY <2>1, <2>2 DEF WaitingRoomAttended, OthersStay, Full
  <2>3. CASE /\ playerHashes' = [playerHashes EXCEPT ![Room[t]] = @ \ {Hash(t)}]
             /\ pc'[t] = "count" /\ Room'[t] = Room[t]
    <3>1. Room[t] \in Rooms
      BY <2>1 DEF ThreadTypes, Attached, RoomSteps
    <3>2. ASSUME NEW r \in waitrooms, Full(r)' PROVE Full(r)
      <4>1. r \in Rooms /\ playerHashes'[r] \subseteq playerHashes[r] /\ IsFiniteSet(playerHashes[r])
        BY <2>3, <3>1, FS_Subset, PlayersAssumption DEF RoomTypes
      <4>2. /\ Cardinality(playerHashes'[r]) \in Nat /\ Cardinality(playerHashes[r]) \in Nat
            /\ Cardinality(playerHashes'[r]) <= Cardinality(playerHashes[r])
        BY <4>1, FS_Subset, FS_CardinalityType
      <4>3. QED
        BY <3>2, <4>2, MaxPlayerAssumption DEF Full
    <3>3. \A r \in waitrooms : r # Room[t] => playerHashes'[r] = playerHashes[r]
      BY <2>3 DEF RoomTypes
    <3>4. QED
      BY <2>1, <2>3, <3>2, <3>3 DEF WaitingRoomAttended, OthersStay
  <2>4. QED
    BY <1>5, <2>2, <2>3 DEF RemovePlayerHash
<1>6. ASSUME NEW t \in Threads, CountPlayers(t) PROVE WaitingRoomAttended'
  <2>1. /\ UNCHANGED <<playerHashes, waitrooms>> /\ OthersStay(t) /\ pc[t] = "count"
        /\ Room'[t] = Room[t]
        /\ playerHashes[Room[t]] = {} => pc'[t] = "release"
    BY <1>6 DEF CountPlayers, AfterRoom, roomVars
  <2>2. QED
    BY <2>1 DEF WaitingRoomAttended, OthersStay, Full
<1>7. ASSUME NEW t \in Threads, ReleaseRoom(t) PROVE WaitingRoomAttended'
  <2>1. /\ UNCHANGED playerHashes /\ OthersStay(t) /\ pc[t] = "release"
        /\ waitrooms' = waitrooms \ {Room[t]}
    BY <1>7 DEF ReleaseRoom, AfterRoom
  <2>2. QED
    BY <2>1 DEF WaitingRoomAttended, OthersStay, Full
<1>8. CASE Aside
  BY <1>8 DEF Aside, AttendSteps, OthersStay, WaitingRoomAttended, Full
<1>9. CASE UNCHANGED <<playerHashes, waitrooms, pc, Room>>
  BY <1>9 DEF WaitingRoomAttended, Full
<1>10. QED
  BY <1>1, <1>2, <1>3, <1>4, <1>5, <1>6, <1>7, <1>8, <1>9, AttendFrame
-----------------------------------------------------------------------------
(* Dedicated servers and their games: a server that was given a game is     *)
(* marked, and a thread that tells the players has a game on record that    *)
(* names its server and everybody on its list.                              *)
GamesMarked == \A i \in DOMAIN games : games[i].server \in used
Expected(s, hs) == \E i \in DOMAIN games : games[i].server = s /\ hs \subseteq games[i].hashes
Telling == \A t \in Threads : pc[t] \in {"lock", "tell"} => Expected(key[t], list[t])

ServersInv == GamesMarked /\ ServersUsedOnce /\ Telling /\ ToldAreExpected

(* A step that starts no game and tells nobody, and leaves the threads that *)
(* do alone.                                                                *)
Silent ==
  /\ UNCHANGED <<games, list, told>> /\ used \subseteq used'
  /\ \A t \in Threads : pc'[t] \in {"lock", "tell"} => pc[t] \in {"lock", "tell"} /\ key'[t] = key[t]

LEMMA SilentStep ==
  ASSUME ServersInv, Silent
  PROVE  ServersInv'
BY DEF ServersInv, GamesMarked, ServersUsedOnce, Telling, ToldAreExpected, Expected, Silent

LEMMA SilentFrame ==
  ASSUME TypeInv, [Next]_vars
  PROVE  \/ \E t \in Threads : SendGameStart(t)
         \/ \E t \in Threads, h \in Players : TellPlayer(t, h)
         \/ Silent
<1> USE TypeInvParts, HelpersStay
<1> USE DEF Silent, OthersStay, serverVars, tellVars
<1>1. ASSUME NEW t \in Threads, NEW h \in Players, Request(t, h) PROVE Silent
  BY <1>1 DEF Request, HandleLoginAttempt, JoinRoomRequest, CancelRoomRequest, LogoutRequest,
     CleanupforSocket, threadVars
<1>2. ASSUME NEW t \in Threads,
             \/ RegisterPlayer(t) \/ EnterLobby(t) \/ WaitInRoom(t) \/ RespondUnstarted(t)
             \/ RegisterRoom(t) \/ IsFull(t) \/ CloseRoom(t) \/ LockPlayers(t)
      PROVE  Silent
  BY <1>2 DEF RegisterPlayer, EnterLobby, WaitInRoom, RespondUnstarted, RegisterRoom, IsFull,
     CloseRoom, LockPlayers, JoinRoomResponse
<1>3. ASSUME NEW t \in Threads, PickRoom(t) \/ AddPlayerHash(t) PROVE Silent
  BY <1>3 DEF PickRoom, CreateRoom, UseRoom, AddPlayerHash
<1>4. ASSUME NEW t \in Threads, AllTold(t) PROVE Silent
  BY <1>4 DEF AllTold, JoinRoomResponse, ServerTypes
<1>5. ASSUME NEW t \in Threads,
             \/ FindWaitRoom(t) \/ RemovePlayerHash(t) \/ CountPlayers(t) \/ ReleaseRoom(t)
             \/ UnregisterRoom(t) \/ BackInLobby(t)
      PROVE  Silent
  BY <1>5 DEF FindWaitRoom, RemovePlayerHash, CountPlayers, ReleaseRoom, UnregisterRoom,
     BackInLobby, AfterRoom
<1>6. ASSUME NEW t \in Threads, CheckLobby(t) \/ CheckRoom(t) \/ ErasePlayerAndSocket(t)
      PROVE  Silent
  BY <1>6 DEF CheckLobby, CheckRoom, ErasePlayerAndSocket, DeleteDone
<1>7. ASSUME NEW s \in Servers, AcceptDedicatedServer(s) PROVE Silent
  BY <1>7 DEF AcceptDedicatedServer, threadVars
<1>8. CASE UNCHANGED vars
  BY <1>8 DEF vars, threadVars
<1>9. QED
  BY <1>1, <1>2, <1>3, <1>4, <1>5, <1>6, <1>7, <1>8 DEF Next, Continue

LEMMA ServersStep ==
  ASSUME TypeInv, [Next]_vars, ServersInv
  PROVE  ServersInv'
<1> USE TypeInvParts, HelpersStay
<1>1. ASSUME NEW t \in Threads, SendGameStart(t) PROVE ServersInv'
  <2>1. CASE FreeServers = {} /\ UNCHANGED <<used, games, tellVars>> /\ Goto(t, "respond")
    <3>1. Silent
      BY <1>1, <2>1 DEF SendGameStart, Silent, OthersStay, tellVars
    <3>2. QED
      BY <3>1, SilentStep
  <2>2. ASSUME NEW s \in Servers, TakeServer(s),
               games' = Append(games, [server |-> s, room |-> Room[t],
                                       hashes |-> playerHashes[Room[t]]]),
               list' = [list EXCEPT ![t] = playerHashes[Room[t]]],
               key' = [key EXCEPT ![t] = s],
               Goto(t, "lock")
        PROVE  ServersInv'
    <3> DEFINE n == Len(games) + 1
    <3>1. /\ n \in Nat /\ DOMAIN games' = 1..n /\ DOMAIN games = 1..Len(games)
          /\ \A i \in DOMAIN games : games'[i] = games[i] /\ i # n
          /\ games'[n].server = s /\ games'[n].hashes = playerHashes[Room[t]]
      BY <2>2 DEF ServerTypes
    <3>2. \A i \in DOMAIN games' : i = n \/ i \in DOMAIN games
      BY <3>1
    <3>3. n \in DOMAIN games' /\ DOMAIN games \subseteq DOMAIN games'
      BY <3>1
    <3> HIDE DEF n
    <3>4. s \notin used /\ used' = used \cup {s} /\ told' = told
      BY <1>1, <2>2 DEF TakeServer, FreeServers, SendGameStart
    <3>5. GamesMarked'
      BY <3>1, <3>2, <3>4 DEF ServersInv, GamesMarked
    <3>6. ServersUsedOnce'
      BY <3>1, <3>2, <3>4 DEF ServersInv, GamesMarked, ServersUsedOnce
    <3>8. \A u \in Threads : pc'[u] \in {"lock", "tell"} =>
            \E i \in DOMAIN games' :
              games'[i].server = key'[u] /\ list'[u] \subseteq games'[i].hashes
      <4>1. ASSUME NEW u \in Threads, u # t, pc'[u] \in {"lock", "tell"}
            PROVE  \E i \in DOMAIN games' :
                     games'[i].server = key'[u] /\ list'[u] \subseteq games'[i].hashes
        <5>1. pc'[u] = pc[u] /\ key'[u] = key[u] /\ list'[u] = list[u]
          BY <2>2, <4>1 DEF OthersStay, ServerTypes
        <5>2. QED
          BY <3>1, <3>3, <4>1, <5>1 DEF ServersInv, Telling, Expected
      <4>2. key'[t] = s /\ list'[t] = playerHashes[Room[t]]
        BY <2>2 DEF ServerTypes
      <4>3. QED
        BY <3>1, <3>3, <4>1, <4>2
    <3>9. Telling'
      BY <3>8 DEF Telling, Expected
    <3>10. ToldAreExpected'
      BY <3>1, <3>3, <3>4 DEF ServersInv, ToldAreExpected
    <3>11. QED
      BY <3>5, <3>6, <3>9, <3>10 DEF ServersInv
  <2>3. QED
    BY <1>1, <2>1, <2>2 DEF SendGameStart
<1>2. ASSUME NEW t \in Threads, NEW h \in Players, TellPlayer(t, h) PROVE ServersInv'
  <2>1. UNCHANGED <<serverVars, threadVars, key>> /\ h \in list[t] /\ pc[t] = "tell"
    BY <1>2 DEF TellPlayer
  <2>2. GamesMarked' /\ ServersUsedOnce'
    BY <2>1 DEF ServersInv, GamesMarked, ServersUsedOnce, serverVars
  <2>3. \A s \in Threads : list'[s] \subseteq list[s]
    BY <1>2 DEF TellPlayer, ServerTypes
  <2>4. Telling'
    BY <2>1, <2>3 DEF ServersInv, Telling, Expected, serverVars, threadVars
  <2>5. Expected(key[t], {h})
    BY <2>1 DEF ServersInv, Telling, Expected
  <2>6. \A g \in Players : \A s \in told'[g] : s \in told[g] \/ (g = h /\ s = key[t])
    <3>1. CASE told' = told
      BY <3>1
    <3>2. CASE told' = [told EXCEPT ![h] = @ \cup {key[t]}]
      <4>1. told \in [Players -> SUBSET (Servers \cup {None})]
        BY DEF ServerTypes
      <4>2. \A g \in Players : told'[g] = IF g = h THEN told[h] \cup {key[t]} ELSE told[g]
        BY <3>2, <4>1
      <4>3. QED
        BY <4>2
    <3>3. QED
      BY <1>2, <3>1, <3>2 DEF TellPlayer
  <2>7. ToldAreExpected'
    <3>1. ASSUME NEW g \in Players, NEW s \in told'[g]
          PROVE  \E i \in DOMAIN games : games[i].server = s /\ g \in games[i].hashes
      BY <2>5, <2>6, <3>1 DEF ServersInv, ToldAreExpected, Expected
    <3>2. QED
      BY <2>1, <3>1 DEF ToldAreExpected, serverVars
  <2>8. QED
    BY <2>2, <2>4, <2>7 DEF ServersInv
<1>3. QED
  BY <1>1, <1>2, SilentFrame, SilentStep
-----------------------------------------------------------------------------
(* Room sizes: no room holds more than maxplayer, and a room that a thread  *)
(* is about to start was full when the thread looked.                       *)
Capacity == \A r \in Rooms : Cardinality(playerHashes[r]) <= maxplayer
SeenFull == \A t \in Threads : pc[t] \in {"close", "start"} => Full(Room[t]) \/ Room[t] \in torn
SizesInv == Capacity /\ SeenFull /\ ShortGamesExplained

LEMMA RoomSizes ==
  ASSUME TypeInv, NEW r \in Rooms
  PROVE  /\ IsFiniteSet(playerHashes[r]) /\ Cardinality(playerHashes[r]) \in Nat
         /\ playerHashes[r] \in SUBSET Players
<1>1. playerHashes[r] \in SUBSET Players
  BY DEF TypeInv, TypeOK
<1>2. QED
  BY <1>1, FS_Subset, FS_CardinalityType, PlayersAssumption

LEMMA CapacityStep ==
  ASSUME TypeInv, [Next]_vars, Capacity
  PROVE  Capacity'
<1> USE TypeInvParts
<1> USE DEF Capacity
<1>1. ASSUME NEW t \in Threads, PickRoom(t) PROVE Capacity'
  <2>1. UNCHANGED playerHashes \/ playerHashes' = [playerHashes EXCEPT ![Head(pool)] = {}]
    BY <1>1 DEF PickRoom, CreateRoom, UseRoom, roomVars
  <2>2. \A r \in Rooms : playerHashes'[r] = playerHashes[r] \/ playerHashes'[r] = {}
    BY <2>1 DEF RoomTypes
  <2>3. QED
    BY <2>2, FS_EmptySet, MaxPlayerAssumption
<1>2. ASSUME NEW t \in Threads, AddPlayerHash(t) PROVE Capacity'
  <2>1. CASE ~Full(Room[t]) /\ playerHashes' = [playerHashes EXCEPT ![Room[t]] = @ \cup {Hash(t)}]
    <3>1. Room[t] \in Rooms
      BY <1>2 DEF AddPlayerHash, ThreadTypes, Attached, RoomSteps
    <3>2. PICK hs \in SUBSET Players : hs = playerHashes[Room[t]]
      BY <3>1, RoomSizes
    <3>3. IsFiniteSet(hs) /\ Cardinality(hs) \in Nat
      BY <3>1, <3>2, RoomSizes
    <3>4. Cardinality(hs) < maxplayer
      BY <2>1, <3>2, <3>3, MaxPlayerAssumption DEF Full
    <3>5. \/ Cardinality(hs \cup {Hash(t)}) = Cardinality(hs)
          \/ Cardinality(hs \cup {Hash(t)}) = Cardinality(hs) + 1
      BY <3>3, FS_AddElement
    <3>6. Cardinality(hs \cup {Hash(t)}) <= maxplayer
      BY <3>3, <3>4, <3>5, MaxPlayerAssumption
    <3>7. QED
      BY <2>1, <3>1, <3>2, <3>6 DEF RoomTypes
  <2>2. CASE UNCHANGED playerHashes
    BY <2>2
  <2>3. QED
    BY <1>2, <2>1, <2>2 DEF AddPlayerHash
<1>3. ASSUME NEW t \in Threads, RemovePlayerHash(t) PROVE Capacity'
  <2>1. \A r \in Rooms : playerHashes'[r] \subseteq playerHashes[r]
    BY <1>3 DEF RemovePlayerHash, RoomTypes
  <2>2. \A r \in Rooms : /\ Cardinality(playerHashes'[r]) \in Nat
                         /\ Cardinality(playerHashes'[r]) <= Cardinality(playerHashes[r])
    BY <2>1, RoomSizes, FS_Subset, FS_CardinalityType
  <2>3. QED
    BY <2>2, RoomSizes, MaxPlayerAssumption
<1>4. ASSUME NEW t \in Threads, CloseRoom(t) \/ SendGameStart(t) \/ ReleaseRoom(t) PROVE Capacity'
  BY <1>4 DEF CloseRoom, SendGameStart, ReleaseRoom
<1>5. CASE UNCHANGED roomVars
  BY <1>5 DEF roomVars
<1>6. QED
  BY <1>1, <1>2, <1>3, <1>4, <1>5, RoomFrame

(* A full room stays full unless the step puts it among the torn ones.      *)
LEMMA FullUnlessTorn ==
  ASSUME TypeInv, [Next]_vars, NEW r \in Rooms, Full(r) \/ r \in torn
  PROVE  Full(r)' \/ r \in torn'
<1> USE TypeInvParts
<1>1. ASSUME NEW t \in Threads, PickRoom(t) PROVE Full(r)' \/ r \in torn'
  <2>1. CASE CreateRoom(t)
    <3>1. CASE r = Head(pool)
      BY <2>1, <3>1 DEF CreateRoom
    <3>2. CASE r # Head(pool)
      <4>1. playerHashes'[r] = playerHashes[r] /\ torn \subseteq torn'
        BY <2>1, <3>2 DEF CreateRoom, RoomTypes
      <4>2. QED
        BY <4>1 DEF Full
    <3>3. QED
      BY <3>1, <3>2
  <2>2. CASE UseRoom(t)
    BY <2>2 DEF UseRoom, roomVars, Full
  <2>3. QED
    BY <1>1, <2>1, <2>2 DEF PickRoom
<1>2. ASSUME NEW t \in Threads, AddPlayerHash(t) PROVE Full(r)' \/ r \in torn'
  <2>1. CASE Full(r)
    <3>1. playerHashes'[r] = playerHashes[r]
      BY <1>2, <2>1 DEF AddPlayerHash, RoomTypes
    <3>2. QED
      BY <2>1, <3>1 DEF Full
  <2>2. QED
    BY <1>2, <2>1 DEF AddPlayerHash
<1>3. ASSUME NEW t \in Threads, RemovePlayerHash(t) PROVE Full(r)' \/ r \in torn'
  <2>1. CASE r = Room[t]
    BY <1>3, <2>1 DEF RemovePlayerHash, Full
  <2>2. CASE r # Room[t]
    <3>1. playerHashes'[r] = playerHashes[r] /\ torn \subseteq torn'
      BY <1>3, <2>2 DEF RemovePlayerHash, RoomTypes
    <3>2. QED
      BY <3>1 DEF Full
  <2>3. QED
    BY <2>1, <2>2
<1>4. ASSUME NEW t \in Threads, CloseRoom(t) \/ SendGameStart(t) \/ ReleaseRoom(t)
      PROVE  Full(r)' \/ r \in torn'
  BY <1>4 DEF CloseRoom, SendGameStart, ReleaseRoom, Full
<1>5. CASE UNCHANGED roomVars
  BY <1>5 DEF roomVars, Full
<1>6. QED
  BY <1>1, <1>2, <1>3, <1>4, <1>5, RoomFrame
-----------------------------------------------------------------------------
(* Nobody comes to close or to start a room but through isFull.             *)
ThroughIsFull ==
  \A t \in Threads : pc'[t] \in {"close", "start"} =>
    Room'[t] = Room[t] /\ (pc[t] \in {"close", "start"} \/ (pc[t] = "isFull" /\ Full(Room[t])))

LEMMA ClosingFrame ==
  ASSUME TypeInv, [Next]_vars
  PROVE  ThroughIsFull
<1> USE TypeInvParts, HelpersStay
<1> USE DEF ThroughIsFull, OthersStay
<1>1. ASSUME NEW t \in Threads, NEW h \in Players, Request(t, h) PROVE ThroughIsFull
  BY <1>1 DEF Request, HandleLoginAttempt, JoinRoomRequest, CancelRoomRequest, LogoutRequest,
     CleanupforSocket, threadVars
<1>2. ASSUME NEW t \in Threads,
             \/ RegisterPlayer(t) \/ EnterLobby(t) \/ WaitInRoom(t) \/ AllTold(t)
             \/ RespondUnstarted(t) \/ RegisterRoom(t) \/ LockPlayers(t) \/ SendGameStart(t)
      PROVE  ThroughIsFull
  <2>1. OthersStay(t) /\ pc'[t] \in {"idle", "enter", "isFull", "tell", "lock", "respond"}
    <3>1. CASE RegisterPlayer(t) \/ RegisterRoom(t) \/ LockPlayers(t) \/ SendGameStart(t)
      BY <3>1 DEF RegisterPlayer, RegisterRoom, LockPlayers, SendGameStart
    <3>2. CASE EnterLobby(t) \/ WaitInRoom(t) \/ AllTold(t) \/ RespondUnstarted(t)
      BY <3>2 DEF EnterLobby, WaitInRoom, AllTold, RespondUnstarted, JoinRoomResponse
    <3>3. QED
      BY <1>2, <3>1, <3>2
  <2>2. QED
    BY <2>1
<1>3. ASSUME NEW t \in Threads, PickRoom(t) \/ AddPlayerHash(t) \/ IsFull(t) \/ CloseRoom(t)
      PROVE  ThroughIsFull
  BY <1>3 DEF PickRoom, CreateRoom, UseRoom, AddPlayerHash, IsFull, CloseRoom
<1>4. ASSUME NEW t \in Threads, NEW h \in Players, TellPlayer(t, h) PROVE ThroughIsFull
  BY <1>4 DEF TellPlayer, threadVars
<1>5. ASSUME NEW t \in Threads,
             \/ FindWaitRoom(t) \/ RemovePlayerHash(t) \/ CountPlayers(t) \/ ReleaseRoom(t)
             \/ UnregisterRoom(t) \/ BackInLobby(t)
      PROVE  ThroughIsFull
  BY <1>5 DEF FindWaitRoom, RemovePlayerHash, CountPlayers, ReleaseRoom, UnregisterRoom,
     BackInLobby, AfterRoom
<1>6. ASSUME NEW t \in Threads, CheckLobby(t) \/ CheckRoom(t) \/ ErasePlayerAndSocket(t)
      PROVE  ThroughIsFull
  <2>1. OthersStay(t) /\ pc'[t] \in {"idle", "remove", "erasePlayer", "checkRoom"}
    <3>1. CASE \E ok \in BOOLEAN : DeleteDone(t, ok)
      BY <3>1 DEF DeleteDone
    <3>2. QED
      BY <1>6, <3>1 DEF CheckLobby, CheckRoom, ErasePlayerAndSocket
  <2>2. QED
    BY <2>1
<1>7. ASSUME NEW s \in Servers, AcceptDedicatedServer(s) PROVE ThroughIsFull
  BY <1>7 DEF AcceptDedicatedServer, threadVars
<1>8. CASE UNCHANGED vars
  BY <1>8 DEF vars, threadVars
<1>9. QED
  BY <1>1, <1>2, <1>3, <1>4, <1>5, <1>6, <1>7, <1>8 DEF Next, Continue

LEMMA SizesStep ==
  ASSUME TypeInv, [Next]_vars, SizesInv
  PROVE  SizesInv'
<1> USE TypeInvParts
<1>1. Capacity'
  BY CapacityStep DEF SizesInv
<1>2. ASSUME NEW t \in Threads, NEW r, r = Room[t], pc'[t] \in {"close", "start"}
      PROVE  Room'[t] = r /\ (Full(r)' \/ r \in torn')
  <2>1. pc[t] \in RoomSteps /\ Room'[t] = r /\ (Full(r) \/ r \in torn)
    BY <1>2, ClosingFrame DEF ThroughIsFull, SizesInv, SeenFull, RoomSteps
  <2>2. r \in Rooms
    BY <1>2, <2>1 DEF ThreadTypes, Attached
  <2>3. QED
    BY <2>1, <2>2, FullUnlessTorn
<1>3. SeenFull'
  BY <1>2 DEF SeenFull, Full
<1>4. ASSUME NEW t \in Threads, SendGameStart(t),
             games' = Append(games, [server |-> key'[t], room |-> Room[t],
                                     hashes |-> playerHashes[Room[t]]])
      PROVE  ShortGamesExplained'
  <2>1. PICK r \in Rooms : r = Room[t] /\ (Full(r) \/ r \in torn)
    BY <1>4 DEF SendGameStart, ThreadTypes, Attached, RoomSteps, SizesInv, SeenFull
  <2>2. Cardinality(playerHashes[r]) = maxplayer \/ r \in torn
    BY <2>1, RoomSizes, MaxPlayerAssumption DEF SizesInv, Capacity, Full
  <2>3. DOMAIN games = 1..Len(games) /\ Len(games) \in Nat /\ torn' = torn
    BY <1>4 DEF SendGameStart, ServerTypes
  <2>4. \A i \in DOMAIN games' :
          \/ i \in DOMAIN games /\ games'[i] = games[i]
          \/ games'[i].room = r /\ games'[i].hashes = playerHashes[r]
    BY <1>4, <2>1, <2>3 DEF ServerTypes
  <2>5. QED
    BY <2>2, <2>3, <2>4 DEF SizesInv, ShortGamesExplained
<1>5. ASSUME UNCHANGED games PROVE ShortGamesExplained'
  <2>1. torn \subseteq torn'
    <3>1. ASSUME NEW t \in Threads,
                 \/ PickRoom(t) \/ AddPlayerHash(t) \/ CloseRoom(t) \/ SendGameStart(t)
                 \/ RemovePlayerHash(t) \/ ReleaseRoom(t)
          PROVE  torn \subseteq torn'
      BY <3>1 DEF PickRoom, CreateRoom, UseRoom, AddPlayerHash, CloseRoom, SendGameStart,
         RemovePlayerHash, ReleaseRoom, roomVars
    <3>2. CASE UNCHANGED roomVars
      BY <3>2 DEF roomVars
    <3>3. QED
      BY <3>1, <3>2, RoomFrame
  <2>2. QED
    BY <1>5, <2>1 DEF SizesInv, ShortGamesExplained
<1>6. \/ UNCHANGED games
      \/ \E t \in Threads :
           /\ SendGameStart(t)
           /\ games' = Append(games, [server |-> key'[t], room |-> Room[t],
                                      hashes |-> playerHashes[Room[t]]])
  <2>1. ASSUME NEW t \in Threads, SendGameStart(t), ~UNCHANGED games
        PROVE  games' = Append(games, [server |-> key'[t], room |-> Room[t],
                                       hashes |-> playerHashes[Room[t]]])
    BY <2>1 DEF SendGameStart, ServerTypes
  <2>2. QED
    BY <2>1, SilentFrame DEF Silent, TellPlayer, serverVars
<1>7. QED
  BY <1>1, <1>3, <1>4, <1>5, <1>6 DEF SizesInv
-----------------------------------------------------------------------------
(* The inductive invariant and what follows from it.                        *)
IInv == TypeInv /\ OneWaitingRoom /\ WaitingRoomAttended /\ ServersInv /\ SizesInv

LEMMA IInvInit == Init => IInv
<1> SUFFICES ASSUME Init PROVE IInv
  OBVIOUS
<1>1. TypeInv
  BY TypeInvInit
<1>2. OneWaitingRoom /\ WaitingRoomAttended
  BY DEF Init, OneWaitingRoom, WaitingRoomAttended
<1>3. ServersInv
  BY DEF Init, ServersInv, GamesMarked, ServersUsedOnce, Telling, ToldAreExpected
<1>4. SizesInv
  BY FS_EmptySet, MaxPlayerAssumption DEF Init, SizesInv, Capacity, SeenFull, ShortGamesExplained
<1>5. QED
  BY <1>1, <1>2, <1>3, <1>4 DEF IInv

LEMMA IInvStep == IInv /\ [Next]_vars => IInv'
BY TypeInvStep, OneWaitingRoomStep, AttendedStep, ServersStep, SizesStep DEF IInv

LEMMA IInvAlways == Spec => []IInv
BY IInvInit, IInvStep, PTL DEF Spec

(* waitrooms never holds two rooms, so that whoever looks for a match finds *)
(* those who wait.                                                          *)
THEOREM RoomsTogether == Spec => []OneWaitingRoom
<1>1. IInv => OneWaitingRoom
  BY DEF IInv
<1>2. QED
  BY <1>1, IInvAlways, PTL

(* A waiting room that is full or empty has a thread that deals with it,    *)
(* whatever cancels and disconnects come in between.                        *)
THEOREM RoomsAttended == Spec => []WaitingRoomAttended
<1>1. IInv => WaitingRoomAttended
  BY DEF IInv
<1>2. QED
  BY <1>1, IInvAlways, PTL

(* GetDedicatedServerInfor hands a dedicated server to one game only.       *)
THEOREM ServersOnce == Spec => []ServersUsedOnce
<1>1. IInv => ServersUsedOnce
  BY DEF IInv, ServersInv
<1>2. QED
  BY <1>1, IInvAlways, PTL

(* SendGameStart sends a client only to a server that expects its hash.     *)
THEOREM ToldExpected == Spec => []ToldAreExpected
<1>1. IInv => ToldAreExpected
  BY DEF IInv, ServersInv
<1>2. QED
  BY <1>1, IInvAlways, PTL

(* A list shorter than maxplayer is that of a room which lost a player      *)
(* after it had been found full.                                            *)
THEOREM ShortGames == Spec => []ShortGamesExplained
<1>1. IInv => ShortGamesExplained
  BY DEF IInv, SizesInv
<1>2. QED
  BY <1>1, IInvAlways, PTL
-----------------------------------------------------------------------------
(* Matchmaking, step by step.  That a client is sent to a server only once  *)
(* needs startedrooms_MTX: one thread at a time tells players, the server   *)
(* it took is new to everybody, and nobody on its list was told yet.        *)
Tells(t) == pc[t] \in {"lock", "tell"}
OneTeller == \A t, u \in Threads : Tells(t) /\ Tells(u) => t = u
ToldUsed == \A h \in Players : told[h] \subseteq used
Untold == \A t \in Threads : Tells(t) => \A h \in list[t] : key[t] \notin told[h]

TellInv == OneTeller /\ ToldUsed /\ Untold

LEMMA TellInvInit == Init => TellInv
BY DEF Init, TellInv, OneTeller, ToldUsed, Untold, Tells

(* A thread that starts a game was not among the tellers, and nobody was.   *)
LEMMA StartTells ==
  ASSUME TypeInv, TellInv, NEW t \in Threads, SendGameStart(t)
  PROVE  TellInv'
<1> USE TypeInvParts, HelpersStay
<1>1. /\ pc[t] = "start" /\ \A u \in Threads : ~Tells(u)
      /\ told' = told /\ used \subseteq used' /\ OthersStay(t)
  BY DEF SendGameStart, StartedRoomsFree, Tells, TakeServer
<1>2. OneTeller'
  BY <1>1 DEF OneTeller, Tells, OthersStay
<1>3. ToldUsed'
  BY <1>1 DEF TellInv, ToldUsed
<1>4. ASSUME Tells(t)' PROVE \A h \in list'[t] : key'[t] \notin told[h]
  <2>1. PICK s \in Servers : /\ TakeServer(s) /\ key' = [key EXCEPT ![t] = s]
                             /\ list' = [list EXCEPT ![t] = playerHashes[Room[t]]]
    <3>1. ~Goto(t, "respond")
      BY <1>4 DEF Tells
    <3>2. QED
      BY <3>1 DEF SendGameStart
  <2>2. key'[t] = s /\ s \notin used
    BY <2>1 DEF ServerTypes, TakeServer, FreeServers
  <2>3. Room[t] \in Rooms
    BY <1>1 DEF ThreadTypes, Attached, RoomSteps
  <2>4. list'[t] \subseteq Players
    BY <2>1, <2>3 DEF ServerTypes, RoomTypes
  <2>5. QED
    BY <2>2, <2>4 DEF TellInv, ToldUsed
<1>5. Untold'
  BY <1>1, <1>4 DEF Untold, Tells, OthersStay
<1>6. QED
  BY <1>2, <1>3, <1>5 DEF TellInv

LEMMA TellingTells ==
  ASSUME TypeInv, TellInv, ServersInv, NEW t \in Threads, NEW h \in Players, TellPlayer(t, h)
  PROVE  TellInv'
<1> USE TypeInvParts
<1>1. /\ Tells(t) /\ pc' = pc /\ key' = key /\ used' = used /\ h \in list[t]
      /\ list'[t] = list[t] \ {h} /\ \A u \in Threads \ {t} : list'[u] = list[u]
  BY DEF TellPlayer, Tells, threadVars, serverVars, ServerTypes
<1>2. \A g \in Players : told'[g] = told[g] \/ (g = h /\ told'[g] = told[h] \cup {key[t]})
  <2>1. CASE told' = told
    BY <2>1
  <2>2. CASE told' = [told EXCEPT ![h] = @ \cup {key[t]}]
    BY <2>2 DEF ServerTypes
  <2>3. QED
    BY <2>1, <2>2 DEF TellPlayer
<1>3. OneTeller'
  BY <1>1 DEF TellInv, OneTeller, Tells
<1>4. key[t] \in used
  BY <1>1 DEF Tells, ServersInv, Telling, Expected, GamesMarked
<1>5. ToldUsed'
  BY <1>1, <1>2, <1>4 DEF TellInv, ToldUsed
<1>6. ASSUME NEW u \in Threads, Tells(u), NEW g \in list'[u] PROVE key[u] \notin told'[g]
  <2>1. u = t
    BY <1>1, <1>6 DEF TellInv, OneTeller
  <2>2. g \in list[t] /\ g # h /\ g \in Players
    BY <1>1, <1>6, <2>1 DEF ServerTypes
  <2>3. QED
    BY <1>1, <1>2, <2>1, <2>2 DEF TellInv, Untold
<1>7. Untold'
  BY <1>1, <1>6 DEF Untold, Tells
<1>8. QED
  BY <1>3, <1>5, <1>7 DEF TellInv

LEMMA TellInvStep ==
  TypeInv /\ ServersInv /\ TellInv /\ [Next]_vars => TellInv'
<1> SUFFICES ASSUME TypeInv, ServersInv, TellInv, [Next]_vars PROVE TellInv'
  OBVIOUS
<1>1. CASE Silent
  BY <1>1 DEF Silent, TellInv, OneTeller, ToldUsed, Untold, Tells
<1>2. QED
  BY <1>1, StartTells, TellingTells, SilentFrame
-----------------------------------------------------------------------------
(* Each kind of step, as a step of Matchmaking.                             *)
LEMMA SameCardinality == \A S : Matchmaker!Cardinality(S) = Cardinality(S)
BY DEF Matchmaker!Cardinality, Cardinality

LEMMA PickMatches ==
  ASSUME TypeInv, NEW t \in Threads, PickRoom(t)
  PROVE  Matchmaker!Next \/ UNCHANGED Matchmaker!vars
<1> USE TypeInvParts
<1>1. UNCHANGED <<serverlist, games, told>>
  BY DEF PickRoom, CreateRoom, UseRoom, serverVars
<1>2. Matches' = Matches
  BY <1>1 DEF Matches
<1>3. CASE waitrooms = {} /\ CreateRoom(t)
  <2>1. PICK r \in Rooms : r = Head(pool)
    BY <1>3 DEF CreateRoom, RoomTypes
  <2>2. Matchmaker!Open(r)
    BY <1>1, <1>2, <1>3, <2>1, SameCardinality
       DEF CreateRoom, Full, Matchmaker!Open, Matchmaker!BrokenBy, Matchmaker!Complete
  <2>3. QED
    BY <2>2 DEF Matchmaker!Next
<1>4. CASE UseRoom(t)
  BY <1>1, <1>2, <1>4 DEF UseRoom, roomVars, Matchmaker!vars
<1>5. QED
  BY <1>3, <1>4 DEF PickRoom

LEMMA AddMatches ==
  ASSUME TypeInv, NEW t \in Threads, AddPlayerHash(t)
  PROVE  Matchmaker!Next \/ UNCHANGED Matchmaker!vars
<1> USE TypeInvParts
<1>1. UNCHANGED <<serverlist, games, told, waitrooms, torn>>
  BY DEF AddPlayerHash, serverVars
<1>2. Matches' = Matches
  BY <1>1 DEF Matches
<1>3. Room[t] \in Rooms /\ Hash(t) \in Players
  BY DEF AddPlayerHash, ThreadTypes, Attached, RoomSteps, Requests, Hash
<1>4. CASE playerHashes' = [playerHashes EXCEPT ![Room[t]] = @ \cup {Hash(t)}]
           /\ Hash(t) \notin playerHashes[Room[t]] /\ ~Full(Room[t])
  <2>1. Matchmaker!Join(Room[t], Hash(t))
    BY <1>1, <1>2, <1>4, SameCardinality DEF Full, Matchmaker!Join, Matchmaker!Complete
  <2>2. QED
    BY <1>3, <2>1 DEF Matchmaker!Next
<1>5. CASE UNCHANGED playerHashes
  BY <1>1, <1>2, <1>5 DEF Matchmaker!vars
<1>6. QED
  BY <1>4, <1>5 DEF AddPlayerHash

LEMMA RemoveMatches ==
  ASSUME TypeInv, NEW t \in Threads, RemovePlayerHash(t)
  PROVE  Matchmaker!Next \/ UNCHANGED Matchmaker!vars
<1> USE TypeInvParts
<1>1. UNCHANGED <<serverlist, games, told, waitrooms>>
  BY DEF RemovePlayerHash, serverVars
<1>2. Matches' = Matches
  BY <1>1 DEF Matches
<1>3. Room[t] \in Rooms /\ Hash(t) \in Players
  BY DEF RemovePlayerHash, ThreadTypes, Attached, RoomSteps, Requests, Hash
<1>4. CASE /\ Hash(t) \in playerHashes[Room[t]]
           /\ playerHashes' = [playerHashes EXCEPT ![Room[t]] = @ \ {Hash(t)}]
           /\ torn' = IF Full(Room[t]) THEN torn \cup {Room[t]} ELSE torn
  <2>1. Matchmaker!Part(Room[t], Hash(t))
    BY <1>1, <1>2, <1>4, SameCardinality
       DEF Full, Matchmaker!Part, Matchmaker!BrokenBy, Matchmaker!Complete
  <2>2. QED
    BY <1>3, <2>1 DEF Matchmaker!Next
<1>5. CASE UNCHANGED <<playerHashes, torn>>
  BY <1>1, <1>2, <1>5 DEF Matchmaker!vars
<1>6. QED
  BY <1>4, <1>5 DEF RemovePlayerHash

LEMMA CloseMatches ==
  ASSUME TypeInv, NEW t \in Threads, CloseRoom(t) \/ ReleaseRoom(t)
  PROVE  Matchmaker!Next \/ UNCHANGED Matchmaker!vars
<1> USE TypeInvParts
<1>1. /\ UNCHANGED <<serverlist, games, told, playerHashes, torn>>
      /\ waitrooms' = waitrooms \ {Room[t]}
  BY DEF CloseRoom, ReleaseRoom, serverVars
<1>2. Matches' = Matches
  BY <1>1 DEF Matches
<1>3. CASE Room[t] \in waitrooms
  <2>1. Matchmaker!Close(Room[t])
    BY <1>1, <1>2, <1>3 DEF Matchmaker!Close
  <2>2. QED
    BY <1>3, <2>1 DEF Matchmaker!Next, RoomTypes
<1>4. CASE Room[t] \notin waitrooms
  BY <1>1, <1>2, <1>4 DEF Matchmaker!vars
<1>5. QED
  BY <1>3, <1>4

(* The server was free, so no match names it; and the room was full when    *)
(* isFull was asked, so it still is or has been torn since.                 *)
LEMMA StartMatches ==
  ASSUME TypeInv, ServersInv, SizesInv, NEW t \in Threads, SendGameStart(t)
  PROVE  Matchmaker!Next \/ UNCHANGED Matchmaker!vars
<1> USE TypeInvParts
<1>1. UNCHANGED <<serverlist, told, playerHashes, torn, waitrooms>>
  BY DEF SendGameStart
<1>2. CASE UNCHANGED games
  <2>1. Matches' = Matches
    BY <1>2 DEF Matches
  <2>2. QED
    BY <1>1, <2>1 DEF Matchmaker!vars
<1>3. ASSUME NEW s \in Servers, TakeServer(s),
             games' = Append(games, [server |-> s, room |-> Room[t],
                                     hashes |-> playerHashes[Room[t]]])
      PROVE  Matchmaker!Next
  <2>1. PICK r \in Rooms : r = Room[t] /\ (Full(r) \/ r \in torn)
    BY DEF SendGameStart, ThreadTypes, Attached, RoomSteps, SizesInv, SeenFull
  <2>2. s \in serverlist /\ s \notin used
    BY <1>3 DEF TakeServer, FreeServers
  <2>3. \A m \in Matches : m.server # s
    BY <2>2 DEF Matches, ServersInv, GamesMarked
  <2> DEFINE n == Len(games) + 1
             g == [server |-> s, room |-> r, hashes |-> playerHashes[r]]
             match(e) == [server |-> e.server, players |-> e.hashes]
  <2>4. /\ DOMAIN games' = DOMAIN games \cup {n} /\ games'[n] = g
        /\ \A i \in DOMAIN games : games'[i] = games[i]
    BY <1>3, <2>1 DEF ServerTypes
  <2>5. match(g) = [server |-> s, players |-> playerHashes[r]]
    OBVIOUS
  <2>6. Matches = {match(games[i]) : i \in DOMAIN games}
    BY DEF Matches
  <2>7. Matches' = {match(games'[i]) : i \in DOMAIN games'}
    BY DEF Matches
  <2> HIDE DEF n, g, match
  <2>8. Matches' = Matches \cup {match(g)}
    BY <2>4, <2>6, <2>7
  <2>9. Matchmaker!Match(r, s)
    BY <1>1, <2>1, <2>2, <2>3, <2>5, <2>8, SameCardinality
       DEF Full, Matchmaker!Match, Matchmaker!Complete
  <2>10. QED
    BY <2>9 DEF Matchmaker!Next
<1>4. QED
  BY <1>2, <1>3 DEF SendGameStart

LEMMA TellMatches ==
  ASSUME TypeInv, ServersInv, TellInv, NEW t \in Threads, NEW h \in Players, TellPlayer(t, h)
  PROVE  Matchmaker!Next \/ UNCHANGED Matchmaker!vars
<1>1. UNCHANGED <<serverlist, games, playerHashes, torn, waitrooms>> /\ Tells(t) /\ h \in list[t]
  BY DEF TellPlayer, roomVars, serverVars, Tells
<1>2. Matches' = Matches
  BY <1>1 DEF Matches
<1>3. CASE told' = [told EXCEPT ![h] = @ \cup {key[t]}]
  <2>1. PICK i \in DOMAIN games : games[i].server = key[t] /\ list[t] \subseteq games[i].hashes
    BY <1>1 DEF Tells, ServersInv, Telling, Expected
  <2>2. PICK m \in Matches : m = [server |-> games[i].server, players |-> games[i].hashes]
    BY DEF Matches
  <2>3. m.server = key[t] /\ h \in m.players /\ key[t] \notin told[h]
    BY <1>1, <2>1, <2>2 DEF TellInv, Untold
  <2>4. Matchmaker!Send(h, m)
    BY <1>1, <1>2, <1>3, <2>3 DEF Matchmaker!Send
  <2>5. QED
    BY <2>4 DEF Matchmaker!Next
<1>4. CASE UNCHANGED told
  BY <1>1, <1>2, <1>4 DEF Matchmaker!vars
<1>5. QED
  BY <1>3, <1>4 DEF TellPlayer

LEMMA MatchmakerNext ==
  IInv /\ TellInv /\ [Next]_vars => Matchmaker!Next \/ UNCHANGED Matchmaker!vars
<1> SUFFICES ASSUME IInv, TellInv, [Next]_vars
             PROVE  Matchmaker!Next \/ UNCHANGED Matchmaker!vars
  OBVIOUS
<1> USE DEF IInv
<1>1. ASSUME NEW s \in Servers, AcceptDedicatedServer(s) PROVE Matchmaker!Next
  <2>1. UNCHANGED <<playerHashes, waitrooms, torn, games, told>>
    BY <1>1 DEF AcceptDedicatedServer, roomVars
  <2>2. Matchmaker!Connect(s)
    BY <1>1, <2>1 DEF AcceptDedicatedServer, Matchmaker!Connect, Matches
  <2>3. QED
    BY <2>2 DEF Matchmaker!Next
<1>2. CASE UNCHANGED <<roomVars, serverVars, told>>
  BY <1>2 DEF roomVars, serverVars, Matchmaker!vars, Matches
<1>3. ASSUME NEW t \in Threads, AllTold(t) PROVE UNCHANGED <<roomVars, serverVars, told>>
  BY <1>3 DEF AllTold
<1>4. ASSUME NEW t \in Threads,
             \/ PickRoom(t) \/ AddPlayerHash(t) \/ CloseRoom(t) \/ SendGameStart(t)
             \/ RemovePlayerHash(t) \/ ReleaseRoom(t)
      PROVE  Matchmaker!Next \/ UNCHANGED Matchmaker!vars
  BY <1>4, PickMatches, AddMatches, CloseMatches, StartMatches, RemoveMatches
<1>5. QED
  BY <1>1, <1>2, <1>3, <1>4, TellMatches, RoomFrame, ServerFrame

(* The threads, records and locks of the lobby implement Matchmaking.       *)
THEOREM MatchmakingImplemented == Spec => MatchesAreMade
<1>1. Init => Matchmaker!Init
  BY DEF Init, Matchmaker!Init, Matches
<1>2. IInv /\ TellInv /\ [Next]_vars => TellInv'
  BY TellInvStep DEF IInv
<1>3. QED
  BY <1>1, <1>2, TellInvInit, IInvAlways, MatchmakerNext, PTL
     DEF Spec, MatchesAreMade, Matchmaker!Spec
-----------------------------------------------------------------------------
=============================================================================
