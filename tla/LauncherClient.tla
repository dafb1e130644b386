---------------------------- MODULE LauncherClient -----------------------------
(***************************************************************************)
(* The launcher's threads: NetWork's event loop and sender, one worker of  *)
(* RoutineProgress, the window, and a thread of its own for every event    *)
(* the others trigger without waiting.  They share currentSocket and       *)
(* CurrentState, which the event loop reads anew at every step, and one    *)
(* event object for all sockets.                                           *)
(*                                                                         *)
(* The servers are what a connection shows of them: LoginFlow and          *)
(* LobbyConnections have their insides.  A server handles a packet in the  *)
(* step that sends it.  Left out: sign-up, the heartbeat's answer, the     *)
(* alerts, answers the launcher ignores.                                   *)
(***************************************************************************)
EXTENDS Naturals, Sequences, SequencesExt

CONSTANTS
  MaxSockets,   \* bound: sockets open at a time
  MaxPresses    \* bound: buttons pressed, but for those on the screen Init

ASSUME LauncherAssumption == MaxSockets \in Nat \ {0} /\ MaxPresses \in Nat

VARIABLES
  CurrentState,   \* the server type the launcher believes it talks to
  currentSocket,  \* its socket; 0 is INVALID_SOCKET
  sockets,        \* per socket: the server, how far it is, its network events, its answers
  signalled,      \* networkEvent
  loop,           \* the event loop: its next step, the socket and events it enumerated
  data_queue,     \* RoutineProgress: what recv took
  sendQueue,
  jobs,           \* the triggered threads, oldest first
  m_isConnected,  \* AntiCheat
  screen,         \* GuiControl::currentUitype
  presses,        \* buttons the user pressed
  admitted,       \* lobby: the connection that passed the check; 0 if none
  waiting,        \* lobby: its player waits in a room
  tried,          \* history: the connection the lobby was asked for admission on
  cause,          \* history: why the lobby was not asked
  wanted,         \* history: the screen of the last change decided on
  overtaken,      \* history: an older change of screen ran after a newer one
  lastPress,      \* history: the last room request pressed on this connection
  reordered       \* history: an older room request was queued after a newer one

threadVars  == <<loop, data_queue, sendQueue, jobs>>
socketVars  == <<CurrentState, currentSocket, sockets, signalled>>
userVars    == <<screen, presses>>
lobbyVars   == <<admitted, waiting, tried>>
screenHist  == <<wanted, overtaken>>
pressHist   == <<lastPress, reordered>>
vars == <<socketVars, threadVars, m_isConnected, userVars, lobbyVars, cause, screenHist, pressHist>>

-----------------------------------------------------------------------------
ROUTINE == "ROUTINEAUTHSERVER"
AUTH    == "AUTHSERVER"
LOBBY   == "GAMELOBBYSERVER"
Servers == {ROUTINE, AUTH, LOBBY}
Screens == {"Init", "Login", "Lobby", "Matching", "Game"}
Sockets == 1 .. MaxSockets

Buttons == {"Login", "JoinRoom", "CancelRoom", "Logout"}
Requests == {"FindAccountServer", "TryConnect"} \cup Buttons
RoomRequests == {"JoinRoom", "CancelRoom"}
Answers == {"FindAccountServer", "Login_Succeeded", "Login_Failed", "CheckSession_Succeeded",
            "JoinRoom_Succeeded", "GameCreate"}
Causes == {"none", "early", "unheard", "mistaken", "refused"}

Job(event, arg) == [event |-> event, arg |-> arg]
Jobs == [event : {"SUCESS_ROUTINEAUTH", "SUCESS_GAMELOBBY", "StoreLobby", "STARTGAME"},
          arg : {"none"}]
        \cup [event : {"CHANGE_UI_TYPE"}, arg : Screens]
        \cup [event : {"SendPacket"}, arg : Buttons]

Unused == [server |-> ROUTINE, at |-> "unused", events |-> {}, inbox |-> <<>>]
Connecting(server) == [Unused EXCEPT !.server = server, !.at = "connecting"]
FreeSockets == {s \in Sockets : sockets[s].at = "unused"}
NextSocket == CHOOSE s \in FreeSockets : TRUE
Link(s) == IF s = 0 THEN Unused ELSE sockets[s]
Idle == [at |-> "wait", sock |-> 0, events |-> {}]
Pending(event) == \E i \in DOMAIN jobs : jobs[i].event = event

(* ConnectToServer: the old socket, if there is one, is neither closed nor  *)
(* remembered.                                                              *)
ConnectToServer(server) ==
  /\ FreeSockets # {}
  /\ currentSocket' = NextSocket
  /\ sockets' = [sockets EXCEPT ![NextSocket] = Connecting(server)]
  /\ cause' = IF server = LOBBY THEN "none" ELSE cause
  /\ tried' = IF server = LOBBY THEN 0 ELSE tried
  /\ lastPress' = "none"

(* history: the first thing to go wrong on the way into the lobby.          *)
Because(why) ==
  cause' = IF cause = "none" /\ Link(currentSocket).server = LOBBY THEN why ELSE cause

Init ==
  /\ CurrentState = ROUTINE /\ currentSocket = 1 /\ signalled = FALSE
  /\ sockets = [s \in Sockets |-> IF s = 1 THEN Connecting(ROUTINE) ELSE Unused]
  /\ loop = Idle
  /\ data_queue = <<>> /\ sendQueue = <<>> /\ jobs = <<>>
  /\ m_isConnected = FALSE /\ screen = "Init" /\ presses = 0
  /\ admitted = 0 /\ waiting = FALSE /\ tried = 0 /\ cause = "none"
  /\ wanted = "Init" /\ overtaken = FALSE /\ lastPress = "none" /\ reordered = FALSE

-----------------------------------------------------------------------------
(* The connections.                                                         *)

Happens(s, at, event) ==
  /\ sockets' = [sockets EXCEPT ![s].at = at, ![s].events = @ \cup {event}]
  /\ signalled' = TRUE

Arrive(s, answers) ==
  /\ sockets' = [sockets EXCEPT ![s].inbox = @ \o answers, ![s].events = @ \cup {"READ"},
                                ![s].at = IF answers = <<"Login_Succeeded">> THEN "leaving" ELSE @]
  /\ signalled' = TRUE

Accepted(s) ==
  /\ sockets[s].at = "connecting"
  /\ Happens(s, "up", "CONNECT")
  /\ UNCHANGED <<CurrentState, currentSocket, threadVars, m_isConnected, userVars, lobbyVars, cause,
                 screenHist, pressHist>>

Refused(s) ==
  /\ sockets[s].at = "connecting"
  /\ Happens(s, "failed", "FAILED")
  /\ UNCHANGED <<CurrentState, currentSocket, threadVars, m_isConnected, userVars, lobbyVars, cause,
                 screenHist, pressHist>>

(* The server ends, or closes the connection; the lobby forgets its player. *)
PeerCloses(s) ==
  /\ sockets[s].at \in {"up", "leaving"}
  /\ Happens(s, "shut", "CLOSE")
  /\ admitted' = IF admitted = s THEN 0 ELSE admitted
  /\ waiting' = (waiting /\ admitted # s)
  /\ lastPress' = IF currentSocket = s THEN "none" ELSE lastPress
  /\ UNCHANGED <<CurrentState, currentSocket, threadVars, m_isConnected, userVars, tried, cause,
                 screenHist, reordered>>

(* Enough players wait: the lobby sends GameCreate to each.                 *)
LobbyStartsGame(s) ==
  /\ waiting /\ admitted = s /\ sockets[s].at = "up"
  /\ waiting' = FALSE
  /\ lastPress' = "none"
  /\ Arrive(s, <<"GameCreate">>)
  /\ UNCHANGED <<CurrentState, currentSocket, threadVars, m_isConnected, userVars, admitted, tried,
                 cause, screenHist, reordered>>

(* What a server answers.  Not every login succeeds, nor every check.  The  *)
(* player who fills a room is sent GameCreate before the answer to the      *)
(* request.  The auth server hears no more after a login that succeeded;    *)
(* whenever a server closes the connection, PeerCloses follows.             *)
Reply(server, p, s) ==
  CASE server = ROUTINE /\ p = "FindAccountServer" -> {<<p>>}
    [] server = AUTH /\ p = "Login" -> {<<"Login_Succeeded">>, <<"Login_Failed">>}
    [] server = LOBBY /\ p = "TryConnect" -> {<<"CheckSession_Succeeded">>, <<>>}
    [] server = LOBBY /\ p = "JoinRoom" /\ admitted = s /\ ~ waiting ->
         {<<"JoinRoom_Succeeded">>, <<"GameCreate", "JoinRoom_Succeeded">>}
    [] OTHER -> {<<>>}

Serve(s, p) ==
  \E answers \in Reply(sockets[s].server, p, s) :
    /\ IF answers = <<>> THEN UNCHANGED <<sockets, signalled>> ELSE Arrive(s, answers)
    /\ admitted' = CASE answers = <<"CheckSession_Succeeded">> -> s
                     [] p = "Logout" /\ admitted = s -> 0
                     [] OTHER -> admitted
    /\ waiting' = CASE admitted # s -> waiting
                    [] p \in {"CancelRoom", "Logout"} \/ Len(answers) = 2 -> FALSE
                    [] p = "JoinRoom" -> TRUE
                    [] OTHER -> waiting
    /\ tried' = IF sockets[s].server = LOBBY /\ p = "TryConnect" THEN s ELSE tried
    /\ lastPress' = IF p = "Logout" \/ Len(answers) = 2 THEN "none" ELSE lastPress

(* SendLoop: what it takes goes to the socket of that moment, and is gone   *)
(* if that one is not connected.                                            *)
SendLoop ==
  /\ sendQueue # <<>>
  /\ sendQueue' = Tail(sendQueue)
  /\ IF Link(currentSocket).at = "up"
     THEN Serve(currentSocket, Head(sendQueue))
     ELSE lastPress' = "none" /\ UNCHANGED <<sockets, signalled, lobbyVars>>
  /\ UNCHANGED <<CurrentState, currentSocket, loop, data_queue, jobs, m_isConnected, userVars, cause,
                 screenHist, reordered>>

-----------------------------------------------------------------------------
(* EventLoop.  The wait returns, the socket is read, its events are taken   *)
(* and the event object is reset: all sockets' signals with it.  They are   *)
(* handled in the order connect, read, close.                               *)

Wake ==
  /\ loop.at = "wait" /\ signalled
  /\ loop' = [loop EXCEPT !.at = "enumerate", !.sock = currentSocket]
  /\ UNCHANGED <<socketVars, data_queue, sendQueue, jobs, m_isConnected, userVars, lobbyVars, cause,
                 screenHist, pressHist>>

(* WSAEnumNetworkEvents fails on a socket that is closed, and resets nothing. *)
EnumerateFails ==
  /\ loop.at = "enumerate" /\ Link(loop.sock) = Unused
  /\ loop' = [loop EXCEPT !.at = "wait", !.sock = 0]
  /\ UNCHANGED <<socketVars, data_queue, sendQueue, jobs, m_isConnected, userVars, lobbyVars, cause,
                 screenHist, pressHist>>

Handling(events) ==
  IF events = {} THEN Idle ELSE [at |-> "handle", sock |-> loop.sock, events |-> events]

Enumerate ==
  /\ loop.at = "enumerate" /\ Link(loop.sock) # Unused
  /\ loop' = Handling(sockets[loop.sock].events)
  /\ sockets' = [sockets EXCEPT ![loop.sock].events = {}]
  /\ signalled' = FALSE
  /\ Because(IF loop.sock # currentSocket /\ Link(currentSocket).events # {} THEN "unheard" ELSE "none")
  /\ UNCHANGED <<CurrentState, currentSocket, data_queue, sendQueue, jobs, m_isConnected, userVars,
                 lobbyVars, screenHist, pressHist>>

(* closesocket(currentSocket), whichever that is by now.                    *)
Closed(s) == IF s = 0 THEN sockets ELSE [sockets EXCEPT ![s] = Unused]

LobbyLoses(s) ==
  /\ admitted' = IF admitted = s THEN 0 ELSE admitted
  /\ waiting' = (waiting /\ admitted # s)

Blame(own) == Because(IF currentSocket = loop.sock THEN own ELSE "mistaken")

(* Mutant of Asks: only the routing server is asked anything.               *)
AsksRouting == IF CurrentState = ROUTINE THEN <<"FindAccountServer">> ELSE <<>>

(* FD_CONNECT: the first packet depends on the state of this moment.        *)
Asks == CASE CurrentState = ROUTINE -> <<"FindAccountServer">>
          [] CurrentState = LOBBY /\ m_isConnected -> <<"TryConnect">>
          [] OTHER -> <<>>

HandleConnect ==
  /\ "CONNECT" \in loop.events
  /\ loop' = Handling(loop.events \ {"CONNECT"})
  /\ sendQueue' = sendQueue \o Asks
  /\ Because(IF loop.sock = currentSocket /\ CurrentState # LOBBY THEN "early" ELSE "none")
  /\ UNCHANGED <<socketVars, data_queue, jobs, m_isConnected, userVars, lobbyVars, screenHist,
                 pressHist>>

HandleFailure ==
  /\ "FAILED" \in loop.events
  /\ loop' = Handling(loop.events \ {"FAILED"})
  /\ sockets' = Closed(currentSocket) /\ currentSocket' = 0
  /\ LobbyLoses(currentSocket)
  /\ Blame("refused")
  /\ lastPress' = "none"
  /\ UNCHANGED <<CurrentState, signalled, data_queue, sendQueue, jobs, m_isConnected, userVars, tried,
                 screenHist, reordered>>

(* HandleReceive: one buffer per recv.  A buffer holds what had arrived, of *)
(* which only the first packet will be parsed.                              *)
Receive(k) ==
  /\ "READ" \in loop.events /\ "CONNECT" \notin loop.events
  /\ k \in DOMAIN Link(currentSocket).inbox
  /\ data_queue' = Append(data_queue, Head(sockets[currentSocket].inbox))
  /\ sockets' = [sockets EXCEPT ![currentSocket].inbox = SubSeq(@, k + 1, Len(@))]
  /\ UNCHANGED <<CurrentState, currentSocket, signalled, loop, sendQueue, jobs, m_isConnected,
                 userVars, lobbyVars, cause, screenHist, pressHist>>

ReceiveEnds ==
  /\ "READ" \in loop.events /\ "CONNECT" \notin loop.events
  /\ Link(currentSocket).inbox = <<>>
  /\ loop' = Handling(loop.events \ {"READ"})
  /\ UNCHANGED <<socketVars, data_queue, sendQueue, jobs, m_isConnected, userVars, lobbyVars, cause,
                 screenHist, pressHist>>

(* FD_CLOSE closes the socket of this moment; a launcher that was in the    *)
(* lobby starts again at the routing server.                                *)
HandleClose ==
  /\ loop.events = {"CLOSE"} /\ currentSocket # 0
  /\ loop' = Idle
  /\ LobbyLoses(currentSocket)
  /\ signalled' = FALSE
  /\ lastPress' = "none"
  /\ Blame("none")
  /\ IF CurrentState = LOBBY
     THEN /\ FreeSockets # {}
          /\ CurrentState' = ROUTINE
          /\ currentSocket' = NextSocket
          /\ sockets' = [Closed(currentSocket) EXCEPT ![NextSocket] = Connecting(ROUTINE)]
     ELSE /\ sockets' = Closed(currentSocket) /\ currentSocket' = 0
          /\ UNCHANGED CurrentState
  /\ UNCHANGED <<data_queue, sendQueue, jobs, m_isConnected, userVars, tried, screenHist, reordered>>

-----------------------------------------------------------------------------
(* RoutineProgress: the worker, which waits for two of the events it        *)
(* triggers, SECURITY_Init_EVENT and the change to the game's screen.       *)

Changes(to) ==
  /\ screen' = to /\ wanted' = to
  /\ overtaken' = Pending("CHANGE_UI_TYPE")

Triggers(job) == jobs' = Append(jobs, job)

HandleReceivedPacket ==
  /\ data_queue # <<>>
  /\ data_queue' = Tail(data_queue)
  /\ LET p == Head(data_queue) IN
     \/ /\ p = "FindAccountServer"
        /\ Triggers(Job("SUCESS_ROUTINEAUTH", "none"))
        /\ UNCHANGED <<m_isConnected, screen, screenHist>>
     \/ /\ p = "Login_Failed"
        /\ UNCHANGED <<m_isConnected, jobs, screen, screenHist>>
     \/ /\ p = "Login_Succeeded"
        /\ m_isConnected' \in {m_isConnected, TRUE}   \* AntiCheat::Start
        /\ Triggers(Job("SUCESS_GAMELOBBY", "none"))
        /\ UNCHANGED <<screen, screenHist>>
     \/ /\ p \in {"CheckSession_Succeeded", "JoinRoom_Succeeded"}
        /\ LET to == IF p = "JoinRoom_Succeeded" THEN "Matching" ELSE "Lobby"
           IN Triggers(Job("CHANGE_UI_TYPE", to)) /\ wanted' = to
        /\ UNCHANGED <<m_isConnected, screen, overtaken>>
     \/ /\ p = "GameCreate"
        /\ Changes("Game")
        /\ Triggers(Job("STARTGAME", "none"))
        /\ UNCHANGED m_isConnected
  /\ UNCHANGED <<socketVars, loop, sendQueue, presses, lobbyVars, cause, pressHist>>

(* The triggered threads, in any order.                                     *)

(* Mutant of ConnectToAuthServer: the state waits for the connection.       *)
ConnectToAuthServerWaiting(i) ==
  /\ jobs[i].event = "SUCESS_ROUTINEAUTH"
  /\ jobs' = RemoveAt(jobs, i)
  /\ CurrentState' = "WAIT"
  /\ ConnectToServer(AUTH)
  /\ UNCHANGED <<signalled, loop, data_queue, sendQueue, m_isConnected, userVars, admitted, waiting,
                 screenHist, reordered>>

ConnectToAuthServer(i) ==
  /\ jobs[i].event = "SUCESS_ROUTINEAUTH"
  /\ jobs' = RemoveAt(jobs, i)
  /\ CurrentState' = AUTH
  /\ ConnectToServer(AUTH)
  /\ UNCHANGED <<signalled, loop, data_queue, sendQueue, m_isConnected, userVars, admitted, waiting,
                 screenHist, reordered>>

(* ConnectToGameLobbyServer stores the state only after the connection is   *)
(* under way.                                                               *)
ConnectToGameLobbyServer(i) ==
  /\ jobs[i].event = "SUCESS_GAMELOBBY"
  /\ IF m_isConnected
     THEN jobs' = [jobs EXCEPT ![i].event = "StoreLobby"] /\ ConnectToServer(LOBBY)
     ELSE jobs' = RemoveAt(jobs, i) /\ UNCHANGED <<currentSocket, sockets, cause, tried, lastPress>>
  /\ UNCHANGED <<CurrentState, signalled, loop, data_queue, sendQueue, m_isConnected, userVars,
                 admitted, waiting, screenHist, reordered>>

StoreLobby(i) ==
  /\ jobs[i].event = "StoreLobby"
  /\ jobs' = RemoveAt(jobs, i)
  /\ CurrentState' = LOBBY
  /\ UNCHANGED <<currentSocket, sockets, signalled, loop, data_queue, sendQueue, m_isConnected,
                 userVars, lobbyVars, cause, screenHist, pressHist>>

Older(i) == {jobs[j] : j \in 1 .. i - 1}

SetUitype(i) ==
  /\ jobs[i].event = "CHANGE_UI_TYPE"
  /\ jobs' = RemoveAt(jobs, i)
  /\ screen' = jobs[i].arg
  /\ overtaken' = (overtaken \/ \E j \in Older(i) : j.event = "CHANGE_UI_TYPE")
  /\ UNCHANGED <<socketVars, loop, data_queue, sendQueue, m_isConnected, presses, lobbyVars, cause,
                 wanted, pressHist>>

(* Mutant of SendPacket: the newest goes first.                             *)
SendPacketFirst(i) ==
  /\ jobs[i].event = "SendPacket"
  /\ jobs' = RemoveAt(jobs, i)
  /\ sendQueue' = <<jobs[i].arg>> \o sendQueue
  /\ reordered' = \/ reordered
                  \/ jobs[i].arg \in RoomRequests /\ \E j \in Older(i) : j.arg \in RoomRequests
  /\ UNCHANGED <<socketVars, loop, data_queue, m_isConnected, userVars, lobbyVars, cause, screenHist,
                 lastPress>>

(* SendResponseForTwoStringPacket, SendResponseForHashPacket.               *)
SendPacket(i) ==
  /\ jobs[i].event = "SendPacket"
  /\ jobs' = RemoveAt(jobs, i)
  /\ sendQueue' = Append(sendQueue, jobs[i].arg)
  /\ reordered' = \/ reordered
                  \/ jobs[i].arg \in RoomRequests /\ \E j \in Older(i) : j.arg \in RoomRequests
  /\ UNCHANGED <<socketVars, loop, data_queue, m_isConnected, userVars, lobbyVars, cause, screenHist,
                 lastPress>>

(* The game's process ends, and with it the thread that started it and      *)
(* waited; nothing else learns of it.                                       *)
ProcessRunner(i) ==
  /\ jobs[i].event = "STARTGAME"
  /\ jobs' = RemoveAt(jobs, i)
  /\ UNCHANGED <<socketVars, loop, data_queue, sendQueue, m_isConnected, userVars, lobbyVars, cause,
                 screenHist, pressHist>>

-----------------------------------------------------------------------------
(* The window.                                                              *)

PressLogin ==
  /\ screen = "Init"
  /\ Changes("Login")
  /\ UNCHANGED <<socketVars, threadVars, m_isConnected, presses, lobbyVars, cause, pressHist>>

(* There is no Back on the screens Init and Lobby.                          *)
PressBack ==
  /\ screen \notin {"Init", "Lobby"} /\ presses < MaxPresses
  /\ presses' = presses + 1
  /\ Changes("Init")
  /\ UNCHANGED <<socketVars, threadVars, m_isConnected, lobbyVars, cause, pressHist>>

RequestOf(s) == CASE s = "Login" -> {"Login"}
                  [] s = "Lobby" -> {"JoinRoom", "Logout"}
                  [] s = "Matching" -> {"CancelRoom"}
                  [] OTHER -> {}

PressRequest(p) ==
  /\ p \in RequestOf(screen) /\ presses < MaxPresses
  /\ presses' = presses + 1
  /\ Triggers(Job("SendPacket", p))
  /\ IF p \in RoomRequests /\ admitted = currentSocket /\ admitted # 0
     THEN lastPress' = p /\ reordered' = (reordered /\ Pending("SendPacket"))
     ELSE UNCHANGED pressHist
  /\ UNCHANGED <<socketVars, loop, data_queue, sendQueue, m_isConnected, screen, lobbyVars, cause,
                 screenHist>>

-----------------------------------------------------------------------------
Network(s) == Accepted(s) \/ Refused(s) \/ PeerCloses(s) \/ LobbyStartsGame(s)

EventLoop ==
  \/ Wake \/ EnumerateFails \/ Enumerate \/ HandleConnect \/ HandleFailure
  \/ \E k \in 1 .. 2 : Receive(k)
  \/ ReceiveEnds \/ HandleClose

Triggered(i) ==
  \/ ConnectToAuthServer(i) \/ ConnectToGameLobbyServer(i) \/ StoreLobby(i)
  \/ SetUitype(i) \/ SendPacket(i) \/ ProcessRunner(i)

User == PressLogin \/ PressBack \/ \E p \in Buttons : PressRequest(p)

Next ==
  \/ \E s \in Sockets : Network(s)
  \/ EventLoop \/ SendLoop \/ HandleReceivedPacket
  \/ \E i \in DOMAIN jobs : Triggered(i)
  \/ User

Spec == Init /\ [][Next]_vars

-----------------------------------------------------------------------------
(* The launcher's variables hold what their declarations say.               *)
TypeOK ==
  /\ CurrentState \in Servers /\ currentSocket \in 0 .. MaxSockets /\ signalled \in BOOLEAN
  /\ sockets \in [Sockets -> [server : Servers, inbox : Seq(Answers),
                             at : {"unused", "connecting", "up", "leaving", "failed", "shut"},
                             events : SUBSET {"CONNECT", "FAILED", "READ", "CLOSE"}]]
  /\ loop \in [at : {"wait", "enumerate", "handle"}, sock : 0 .. MaxSockets,
               events : SUBSET {"CONNECT", "FAILED", "READ", "CLOSE"}]
  /\ data_queue \in Seq(Answers) /\ sendQueue \in Seq(Requests) /\ jobs \in Seq(Jobs)
  /\ m_isConnected \in BOOLEAN /\ screen \in Screens /\ presses \in 0 .. MaxPresses
  /\ admitted \in 0 .. MaxSockets /\ waiting \in BOOLEAN /\ tried \in 0 .. MaxSockets
  /\ cause \in Causes /\ wanted \in Screens /\ overtaken \in BOOLEAN
  /\ lastPress \in RoomRequests \cup {"none"} /\ reordered \in BOOLEAN

AtRest ==
  /\ loop.at = "wait" /\ ~ signalled /\ "TryConnect" \notin {sendQueue[i] : i \in DOMAIN sendQueue}
  /\ ~ Pending("SUCESS_GAMELOBBY") /\ ~ Pending("StoreLobby")

(* A launcher that is in the lobby's state, with no connection under way    *)
(* and nothing left to handle, has asked the lobby for admission, unless:   *)
(* the connection was there before the state was stored (early); its event  *)
(* was reset with another socket's (unheard); its socket was closed for     *)
(* another's end (mistaken); it could not connect (refused).  EventLoop,    *)
(* ConnectToGameLobbyServer.                                                *)
AdmissionAsked ==
  CurrentState = LOBBY /\ AtRest /\ Link(currentSocket).at # "connecting"
    => (currentSocket # 0 /\ tried = currentSocket) \/ cause # "none"

ScreenIsLatest == ~ Pending("CHANGE_UI_TYPE") => screen = wanted \/ overtaken

LastPressCounts ==
  lastPress # "none" /\ ~ Pending("SendPacket") /\ sendQueue = <<>>
    => (waiting <=> lastPress = "JoinRoom") \/ reordered

(* When the threads are done, the screen is that of the last answer or      *)
(* button, and the player waits in a room exactly if the last request       *)
(* pressed was to join: unless one of the threads, each triggered without   *)
(* waiting, ran before an older one.  HandleReceivedPacket, GuiControl.     *)
EffectsInOrder == ScreenIsLatest /\ LastPressCounts
================================================================================
