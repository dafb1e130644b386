------------------------ MODULE LauncherClient_proofs ------------------------
(***************************************************************************)
(* Proofs about LauncherClient for any number of sockets and buttons.      *)
(***************************************************************************)
EXTENDS LauncherClient, PacketStreams

Events == {"CONNECT", "FAILED", "READ", "CLOSE"}
Stages == {"unused", "connecting", "up", "leaving", "failed", "shut"}
Connections == [server : Servers, inbox : Seq(Answers), at : Stages, events : SUBSET Events]
Steps == [at : {"wait", "enumerate", "handle"}, sock : 0 .. MaxSockets, events : SUBSET Events]

(* The types in the parts that the actions change together.                 *)
SocketsOK == sockets \in [Sockets -> Connections] /\ signalled \in BOOLEAN
WhereOK   == CurrentState \in Servers /\ currentSocket \in 0 .. MaxSockets
QueuesOK  == data_queue \in Seq(Answers) /\ sendQueue \in Seq(Requests) /\ jobs \in Seq(Jobs)
LobbyOK   == admitted \in 0 .. MaxSockets /\ waiting \in BOOLEAN /\ tried \in 0 .. MaxSockets
ScreenOK  == /\ m_isConnected \in BOOLEAN /\ screen \in Screens /\ presses \in 0 .. MaxPresses
             /\ wanted \in Screens /\ overtaken \in BOOLEAN
PressOK   == lastPress \in RoomRequests \cup {"none"} /\ reordered \in BOOLEAN

LEMMA TypeParts ==
  TypeOK <=> /\ SocketsOK /\ WhereOK /\ loop \in Steps /\ QueuesOK /\ LobbyOK /\ ScreenOK
             /\ PressOK /\ cause \in Causes
BY DEF TypeOK, SocketsOK, WhereOK, Steps, QueuesOK, LobbyOK, ScreenOK, PressOK, Connections,
       Events, Stages

-----------------------------------------------------------------------------
(* Type correctness *)

LEMMA SocketTypes ==
  /\ 0 \in 0 .. MaxSockets /\ Sockets \subseteq 0 .. MaxSockets /\ 0 \notin Sockets
  /\ \A s \in 0 .. MaxSockets : s = 0 \/ s \in Sockets
BY LauncherAssumption DEF Sockets

LEMMA EmptyStreams == \A S : <<>> \in Seq(S) /\ DOMAIN <<>> = {}
BY EmptySeq, LenProperties

LEMMA ConnectionTypes ==
  /\ Unused \in Connections
  /\ \A server \in Servers : Connecting(server) \in Connections
  /\ Idle \in Steps
BY SocketTypes, EmptyStreams DEF Unused, Connecting, Connections, Servers, Stages, Idle, Steps

LEMMA Linked ==
  ASSUME SocketsOK, NEW s \in 0 .. MaxSockets
  PROVE  /\ Link(s) \in Connections
         /\ s # 0 => s \in Sockets /\ Link(s) = sockets[s]
         /\ Link(s) # Unused => s # 0
BY SocketTypes, ConnectionTypes DEF SocketsOK, Link

LEMMA NextFree == FreeSockets # {} => NextSocket \in Sockets /\ sockets[NextSocket].at = "unused"
<1>1. FreeSockets # {} => NextSocket \in FreeSockets
  BY DEF NextSocket
<1>2. QED
  BY <1>1 DEF FreeSockets

LEMMA Connects ==
  ASSUME SocketsOK, NEW server \in Servers, ConnectToServer(server), cause \in Causes, LobbyOK
  PROVE  /\ sockets' \in [Sockets -> Connections] /\ currentSocket' \in 0 .. MaxSockets
         /\ cause' \in Causes /\ tried' \in 0 .. MaxSockets /\ lastPress' = "none"
<1>1. NextSocket \in Sockets /\ Connecting(server) \in Connections
  BY NextFree, ConnectionTypes DEF ConnectToServer
<1>2. sockets' \in [Sockets -> Connections] /\ currentSocket' \in 0 .. MaxSockets
  BY <1>1, SocketTypes DEF ConnectToServer, SocketsOK
<1>3. cause' \in Causes /\ tried' \in 0 .. MaxSockets /\ lastPress' = "none"
  BY SocketTypes DEF ConnectToServer, LobbyOK, Causes
<1>4. QED
  BY <1>2, <1>3

LEMMA HappensTypes ==
  ASSUME SocketsOK, NEW s \in Sockets, NEW at \in Stages, NEW event \in Events, Happens(s, at, event)
  PROVE  SocketsOK'
BY DEF SocketsOK, Happens, Connections

LEMMA ArriveTypes ==
  ASSUME SocketsOK, NEW s \in Sockets, NEW answers \in Seq(Answers), Arrive(s, answers)
  PROVE  SocketsOK'
<1>1. sockets[s].inbox \o answers \in Seq(Answers)
  BY ConcatProperties DEF SocketsOK, Connections
<1> DEFINE c == sockets[s]
           at == IF answers = <<"Login_Succeeded">> THEN "leaving" ELSE c.at
           d == [[[c EXCEPT !.inbox = c.inbox \o answers] EXCEPT !.events = @ \cup {"READ"}]
                   EXCEPT !.at = at]
<1>2. c \in Connections /\ at \in Stages
  BY DEF SocketsOK, Connections, Stages
<1>3. d \in Connections
  <2> HIDE DEF at, c
  <2>1. QED
    BY <1>1, <1>2 DEF Connections, Events, c
<1>4. sockets' = [sockets EXCEPT ![s] = d] /\ signalled' = TRUE
  BY DEF Arrive, SocketsOK, Connections
<1> HIDE DEF d
<1>5. QED
  BY <1>3, <1>4 DEF SocketsOK

LEMMA ClosedTypes ==
  ASSUME SocketsOK, NEW s \in 0 .. MaxSockets
  PROVE  Closed(s) \in [Sockets -> Connections]
BY ConnectionTypes DEF SocketsOK, Closed

LEMMA BecauseTypes ==
  ASSUME cause \in Causes, NEW why \in Causes, Because(why)
  PROVE  cause' \in Causes
BY DEF Because

LEMMA HandlingTypes ==
  ASSUME loop \in Steps, NEW events \in SUBSET Events
  PROVE  Handling(events) \in Steps
BY ConnectionTypes DEF Handling, Steps

LEMMA Replies ==
  ASSUME NEW server, NEW p, NEW s, NEW answers \in Reply(server, p, s)
  PROVE  /\ answers \in Seq(Answers)
         /\ Len(answers) = 2 => p = "JoinRoom"
         /\ answers = <<"CheckSession_Succeeded">> => server = LOBBY /\ p = "TryConnect"
<1>1. \/ answers = <<>>
      \/ server = ROUTINE /\ p = "FindAccountServer" /\ answers = <<p>>
      \/ server = AUTH /\ p = "Login" /\ answers \in {<<"Login_Succeeded">>, <<"Login_Failed">>}
      \/ server = LOBBY /\ p = "TryConnect" /\ answers = <<"CheckSession_Succeeded">>
      \/ server = LOBBY /\ p = "JoinRoom"
           /\ answers \in {<<"JoinRoom_Succeeded">>, <<"GameCreate", "JoinRoom_Succeeded">>}
  BY DEF Reply
<1>2. /\ <<>> \in Seq(Answers) /\ <<"FindAccountServer">> \in Seq(Answers)
      /\ <<"Login_Succeeded">> \in Seq(Answers) /\ <<"Login_Failed">> \in Seq(Answers)
      /\ <<"CheckSession_Succeeded">> \in Seq(Answers) /\ <<"JoinRoom_Succeeded">> \in Seq(Answers)
      /\ <<"GameCreate", "JoinRoom_Succeeded">> \in Seq(Answers)
  BY EmptyStreams DEF Answers
<1>3. answers \in Seq(Answers)
  BY <1>1, <1>2
<1>4. \A x, y : Len(<<>>) = 0 /\ Len(<<x>>) = 1 /\ <<x>> # <<>> /\ (<<x>> = <<y>> => x = y)
  OBVIOUS
<1>5. Len(answers) = 2 => p = "JoinRoom"
  <2>1. answers = <<>> \/ (\E x : answers = <<x>>) \/ p = "JoinRoom"
    BY <1>1
  <2>2. QED
    BY <2>1, <1>4
<1>6. <<"CheckSession_Succeeded">> # <<"GameCreate", "JoinRoom_Succeeded">>
  OBVIOUS
<1>7. answers = <<"CheckSession_Succeeded">> => server = LOBBY /\ p = "TryConnect"
  BY <1>1, <1>4, <1>6
<1>8. QED
  BY <1>3, <1>5, <1>7

LEMMA ServeTypes ==
  ASSUME SocketsOK, LobbyOK, PressOK, NEW s \in Sockets, NEW p \in Requests, Serve(s, p)
  PROVE  SocketsOK' /\ LobbyOK' /\ lastPress' \in RoomRequests \cup {"none"}
<1>1. PICK answers \in Reply(sockets[s].server, p, s) :
        /\ IF answers = <<>> THEN UNCHANGED <<sockets, signalled>> ELSE Arrive(s, answers)
        /\ admitted' = CASE answers = <<"CheckSession_Succeeded">> -> s
                         [] p = "Logout" /\ admitted = s -> 0
                         [] OTHER -> admitted
        /\ waiting' = CASE admitted # s -> waiting
                        [] p \in {"CancelRoom", "Logout"} \/ Len(answers) = 2 -> FALSE
                        [] p = "JoinRoom" -> TRUE
                        [] OTHER -> waiting
        /\ tried' = IF sockets[s].server = LOBBY /\ p = "TryConnect" THEN s ELSE tried
        /\ lastPress' = IF p = "Logout" \/ Len(answers) = 2 THEN "none" ELSE lastPress
  BY DEF Serve
<1>2. answers \in Seq(Answers)
  BY Replies
<1>3. SocketsOK'
  BY <1>1, <1>2, ArriveTypes DEF SocketsOK
<1>4. admitted' \in 0 .. MaxSockets
  BY <1>1, SocketTypes DEF LobbyOK
<1>5. waiting' \in BOOLEAN /\ tried' \in 0 .. MaxSockets
  BY <1>1, SocketTypes DEF LobbyOK
<1>6. QED
  BY <1>1, <1>3, <1>4, <1>5 DEF LobbyOK, PressOK

LEMMA TypeOKInit == Init => TypeOK
<1> SUFFICES ASSUME Init PROVE TypeOK
  OBVIOUS
<1>1. SocketsOK /\ WhereOK
  <2>1. Connecting(ROUTINE) \in Connections /\ Unused \in Connections
    BY ConnectionTypes DEF Servers
  <2>2. 1 \in 0 .. MaxSockets
    BY LauncherAssumption
  <2>3. QED
    BY <2>1, <2>2 DEF Init, SocketsOK, WhereOK, Servers
<1>2. loop \in Steps /\ QueuesOK
  BY ConnectionTypes, EmptyStreams DEF Init, QueuesOK
<1>3. LobbyOK /\ ScreenOK /\ PressOK /\ cause \in Causes
  <2>1. 0 \in 0 .. MaxSockets /\ 0 \in 0 .. MaxPresses
    BY LauncherAssumption
  <2>2. QED
    BY <2>1 DEF Init, LobbyOK, ScreenOK, PressOK, Causes, Screens
<1>4. QED
  BY <1>1, <1>2, <1>3, TypeParts

(* TypeOK, as the steps below use it.                                       *)
Typed == /\ SocketsOK /\ WhereOK /\ loop \in Steps /\ QueuesOK /\ LobbyOK /\ ScreenOK
         /\ PressOK /\ cause \in Causes

LEMMA JobTypes ==
  /\ \A e \in {"SUCESS_ROUTINEAUTH", "SUCESS_GAMELOBBY", "StoreLobby", "STARTGAME"} :
       Job(e, "none") \in Jobs
  /\ \A to \in Screens : Job("CHANGE_UI_TYPE", to) \in Jobs
  /\ Buttons \subseteq Requests /\ RoomRequests \subseteq Buttons
  /\ \A p \in Buttons : Job("SendPacket", p) \in Jobs
  /\ \A j \in Jobs : /\ j.event = "SendPacket" => j.arg \in Buttons
                     /\ j.event = "CHANGE_UI_TYPE" => j.arg \in Screens
                     /\ j.event = "SUCESS_GAMELOBBY" =>
                          [j EXCEPT !.event = "StoreLobby"] = Job("StoreLobby", "none")
                     /\ j.arg \in RoomRequests => j.event = "SendPacket"
                     /\ j = Job(j.event, j.arg)
BY DEF Job, Jobs, Screens, Requests, Buttons, RoomRequests

(* What the threads' list holds after one of them was triggered, or ran.    *)
LEMMA JobsChange ==
  ASSUME QueuesOK
  PROVE  /\ \A j \in Jobs : Append(jobs, j) \in Seq(Jobs)
         /\ \A i \in DOMAIN jobs : jobs[i] \in Jobs /\ RemoveAt(jobs, i) \in Seq(Jobs)
         /\ \A p \in Requests : Append(sendQueue, p) \in Seq(Requests)
         /\ sendQueue # <<>> => Head(sendQueue) \in Requests /\ Tail(sendQueue) \in Seq(Requests)
         /\ data_queue # <<>> => Head(data_queue) \in Answers /\ Tail(data_queue) \in Seq(Answers)
<1>1. \A j \in Jobs : Append(jobs, j) \in Seq(Jobs)
  BY Appended DEF QueuesOK
<1>2. \A i \in DOMAIN jobs : jobs[i] \in Jobs
  BY ElementOfSeq, LenProperties DEF QueuesOK
<1>3. ASSUME NEW i \in DOMAIN jobs PROVE RemoveAt(jobs, i) \in Seq(Jobs)
  BY Removed DEF QueuesOK
<1>4. \A p \in Requests : Append(sendQueue, p) \in Seq(Requests)
  BY Appended DEF QueuesOK
<1>5. sendQueue # <<>> => Head(sendQueue) \in Requests /\ Tail(sendQueue) \in Seq(Requests)
  BY HeadTailProperties DEF QueuesOK
<1>6. data_queue # <<>> => Head(data_queue) \in Answers /\ Tail(data_queue) \in Seq(Answers)
  BY HeadTailProperties DEF QueuesOK
<1>7. QED
  BY <1>1, <1>2, <1>3, <1>4, <1>5, <1>6

(* A step of the network or of a server keeps the types.                    *)
LEMMA TypedNetwork ==
  ASSUME Typed, NEW s \in Sockets, Network(s)
  PROVE  Typed'
<1> USE DEF Typed
<1>1. CASE Accepted(s)
  <2>1. SocketsOK'
    BY <1>1, HappensTypes DEF Accepted, Stages, Events
  <2>2. QED
    BY <1>1, <2>1 DEF Accepted, WhereOK, QueuesOK, LobbyOK, ScreenOK, PressOK, threadVars, userVars,
                      lobbyVars, screenHist, pressHist
<1>2. CASE Refused(s)
  <2>1. SocketsOK'
    BY <1>2, HappensTypes DEF Refused, Stages, Events
  <2>2. QED
    BY <1>2, <2>1 DEF Refused, WhereOK, QueuesOK, LobbyOK, ScreenOK, PressOK, threadVars, userVars,
                      lobbyVars, screenHist, pressHist
<1>3. CASE PeerCloses(s)
  <2>1. SocketsOK'
    BY <1>3, HappensTypes DEF PeerCloses, Stages, Events
  <2>2. LobbyOK' /\ PressOK'
    BY <1>3, SocketTypes DEF PeerCloses, LobbyOK, PressOK
  <2>3. QED
    BY <1>3, <2>1, <2>2 DEF PeerCloses, WhereOK, QueuesOK, ScreenOK, threadVars, userVars, screenHist
<1>4. CASE LobbyStartsGame(s)
  <2>1. <<"GameCreate">> \in Seq(Answers)
    BY DEF Answers
  <2>2. SocketsOK'
    BY <1>4, <2>1, ArriveTypes DEF LobbyStartsGame
  <2>3. QED
    BY <1>4, <2>2 DEF LobbyStartsGame, WhereOK, QueuesOK, LobbyOK, ScreenOK, PressOK, threadVars,
                      userVars, screenHist
<1>5. QED
  BY <1>1, <1>2, <1>3, <1>4 DEF Network

LEMMA TypedSendLoop == ASSUME Typed, SendLoop PROVE Typed'
<1> USE DEF Typed
<1>1. sendQueue' \in Seq(Requests) /\ Head(sendQueue) \in Requests
  BY JobsChange DEF SendLoop
<1>2. SocketsOK' /\ LobbyOK' /\ lastPress' \in RoomRequests \cup {"none"}
  <2>1. CASE Link(currentSocket).at = "up"
    <3>1. currentSocket \in Sockets
      BY <2>1, Linked, SocketTypes DEF WhereOK, Link, Unused
    <3>2. Serve(currentSocket, Head(sendQueue))
      BY <2>1 DEF SendLoop
    <3>3. QED
      BY <1>1, <3>1, <3>2, ServeTypes
  <2>2. CASE Link(currentSocket).at # "up"
    BY <2>2 DEF SendLoop, SocketsOK, LobbyOK, lobbyVars
  <2>3. QED
    BY <2>1, <2>2
<1>3. QED
  BY <1>1, <1>2 DEF SendLoop, WhereOK, QueuesOK, ScreenOK, PressOK, userVars, screenHist

(* A step of the event loop keeps the types.                                *)
LEMMA TypedEventLoop == ASSUME Typed, EventLoop PROVE Typed'
<1> USE DEF Typed
<1>1. CASE Wake
  <2>1. loop' \in Steps
    BY <1>1 DEF Wake, Steps, WhereOK
  <2>2. QED
    BY <1>1, <2>1 DEF Wake, SocketsOK, WhereOK, QueuesOK, LobbyOK, ScreenOK, PressOK, socketVars,
                      userVars, lobbyVars, screenHist, pressHist
<1>2. CASE EnumerateFails
  <2>1. loop' \in Steps
    BY <1>2, SocketTypes DEF EnumerateFails, Steps
  <2>2. QED
    BY <1>2, <2>1 DEF EnumerateFails, SocketsOK, WhereOK, QueuesOK, LobbyOK, ScreenOK, PressOK,
                      socketVars, userVars, lobbyVars, screenHist, pressHist
<1>3. CASE Enumerate
  <2>1. loop.sock \in Sockets
    BY <1>3, Linked DEF Enumerate, Steps
  <2>2. sockets[loop.sock].events \in SUBSET Events
    BY <2>1 DEF SocketsOK, Connections
  <2>3. loop' \in Steps
    BY <1>3, <2>2, HandlingTypes DEF Enumerate
  <2>4. SocketsOK'
    BY <1>3, <2>1 DEF Enumerate, SocketsOK, Connections
  <2>5. cause' \in Causes
    <3>1. \E why \in Causes : Because(why)
      BY <1>3 DEF Enumerate, Causes
    <3>2. QED
      BY <3>1, BecauseTypes
  <2>6. QED
    BY <1>3, <2>3, <2>4, <2>5 DEF Enumerate, WhereOK, QueuesOK, LobbyOK, ScreenOK, PressOK, userVars,
                                  lobbyVars, screenHist, pressHist
<1>4. CASE HandleConnect
  <2>1. loop' \in Steps
    <3>1. loop.events \ {"CONNECT"} \in SUBSET Events
      BY DEF Steps
    <3>2. QED
      BY <1>4, <3>1, HandlingTypes DEF HandleConnect
  <2>2. Asks \in Seq(Requests)
    <3>1. Asks \in {<<"FindAccountServer">>, <<"TryConnect">>, <<>>}
      BY DEF Asks
    <3>2. /\ <<"FindAccountServer">> \in Seq(Requests) /\ <<"TryConnect">> \in Seq(Requests)
          /\ <<>> \in Seq(Requests)
      BY EmptyStreams DEF Requests
    <3>3. QED
      BY <3>1, <3>2
  <2>3. sendQueue' \in Seq(Requests)
    BY <1>4, <2>2, ConcatProperties DEF HandleConnect, QueuesOK
  <2>4. cause' \in Causes
    <3>1. \E why \in Causes : Because(why)
      BY <1>4 DEF HandleConnect, Causes
    <3>2. QED
      BY <3>1, BecauseTypes
  <2>5. QED
    BY <1>4, <2>1, <2>3, <2>4 DEF HandleConnect, SocketsOK, WhereOK, QueuesOK, LobbyOK, ScreenOK,
                                  PressOK, socketVars, userVars, lobbyVars, screenHist, pressHist
<1>5. CASE HandleFailure
  <2>1. loop' \in Steps
    <3>1. loop.events \ {"FAILED"} \in SUBSET Events
      BY DEF Steps
    <3>2. QED
      BY <1>5, <3>1, HandlingTypes DEF HandleFailure
  <2>2. SocketsOK' /\ WhereOK'
    BY <1>5, ClosedTypes, SocketTypes DEF HandleFailure, SocketsOK, WhereOK
  <2>3. LobbyOK' /\ PressOK'
    BY <1>5, SocketTypes DEF HandleFailure, LobbyLoses, LobbyOK, PressOK
  <2>4. cause' \in Causes
    <3>1. \E why \in Causes : Because(why)
      BY <1>5 DEF HandleFailure, Blame, Causes
    <3>2. QED
      BY <3>1, BecauseTypes
  <2>5. QED
    BY <1>5, <2>1, <2>2, <2>3, <2>4 DEF HandleFailure, QueuesOK, ScreenOK, userVars, screenHist
<1>6. ASSUME NEW k \in 1 .. 2, Receive(k) PROVE Typed'
  <2>1. currentSocket \in Sockets /\ Link(currentSocket) = sockets[currentSocket]
    <3>1. currentSocket # 0
      BY <1>6, EmptyStreams DEF Receive, Link, Unused
    <3>2. QED
      BY <3>1, Linked DEF WhereOK
  <2> DEFINE in == sockets[currentSocket].inbox
  <2>2. in \in Seq(Answers) /\ k \in DOMAIN in
    BY <1>6, <2>1 DEF SocketsOK, Connections, Receive
  <2>3. k \in 1 .. Len(in)
    BY <2>2, LenProperties
  <2>4. Head(in) \in Answers /\ After(in, k) \in Seq(Answers)
    BY <2>2, <2>3, Rest
  <2>5. SocketsOK'
    BY <1>6, <2>1, <2>4 DEF SocketsOK, Connections, Receive, After
  <2>6. data_queue' \in Seq(Answers)
    BY <1>6, <2>4, Appended DEF Receive, QueuesOK
  <2>7. QED
    BY <1>6, <2>5, <2>6 DEF Receive, WhereOK, QueuesOK, LobbyOK, ScreenOK, PressOK, userVars,
                            lobbyVars, screenHist, pressHist
<1>7. CASE ReceiveEnds
  <2>1. loop' \in Steps
    <3>1. loop.events \ {"READ"} \in SUBSET Events
      BY DEF Steps
    <3>2. QED
      BY <1>7, <3>1, HandlingTypes DEF ReceiveEnds
  <2>2. QED
    BY <1>7, <2>1 DEF ReceiveEnds, SocketsOK, WhereOK, QueuesOK, LobbyOK, ScreenOK, PressOK,
                      socketVars, userVars, lobbyVars, screenHist, pressHist
<1>8. CASE HandleClose
  <2>1. loop' \in Steps
    BY <1>8, ConnectionTypes DEF HandleClose
  <2>2. SocketsOK' /\ WhereOK'
    <3>1. Connecting(ROUTINE) \in Connections /\ ROUTINE \in Servers
      BY ConnectionTypes DEF Servers
    <3>2. Closed(currentSocket) \in [Sockets -> Connections]
      BY ClosedTypes DEF WhereOK
    <3>3. CASE CurrentState = LOBBY
      <4>1. NextSocket \in Sockets
        BY <1>8, <3>3, NextFree DEF HandleClose
      <4>2. QED
        BY <1>8, <3>1, <3>2, <3>3, <4>1, SocketTypes DEF HandleClose, SocketsOK, WhereOK
    <3>4. CASE CurrentState # LOBBY
      BY <1>8, <3>2, <3>4, SocketTypes DEF HandleClose, SocketsOK, WhereOK
    <3>5. QED
      BY <3>3, <3>4
  <2>3. LobbyOK' /\ PressOK'
    BY <1>8, SocketTypes DEF HandleClose, LobbyLoses, LobbyOK, PressOK
  <2>4. cause' \in Causes
    <3>1. \E why \in Causes : Because(why)
      BY <1>8 DEF HandleClose, Blame, Causes
    <3>2. QED
      BY <3>1, BecauseTypes
  <2>5. QED
    BY <1>8, <2>1, <2>2, <2>3, <2>4 DEF HandleClose, QueuesOK, ScreenOK, userVars, screenHist
<1>9. QED
  BY <1>1, <1>2, <1>3, <1>4, <1>5, <1>6, <1>7, <1>8 DEF EventLoop

LEMMA TypedHandleReceivedPacket == ASSUME Typed, HandleReceivedPacket PROVE Typed'
<1> USE DEF Typed
<1>1. data_queue' \in Seq(Answers)
  BY JobsChange DEF HandleReceivedPacket
<1>2. jobs' \in Seq(Jobs)
  <2>1. jobs' = jobs \/ \E j \in Jobs : jobs' = Append(jobs, j)
    BY JobTypes DEF HandleReceivedPacket, Triggers, Screens
  <2>2. QED
    BY <2>1, JobsChange DEF QueuesOK
<1>3. ScreenOK'
  BY DEF HandleReceivedPacket, Changes, Pending, ScreenOK, Screens, screenHist
<1>4. QED
  BY <1>1, <1>2, <1>3 DEF HandleReceivedPacket, SocketsOK, WhereOK, QueuesOK, LobbyOK, PressOK,
                          socketVars, lobbyVars, pressHist

(* A step of a triggered thread keeps the types.                            *)
LEMMA TypedTriggered == ASSUME Typed, NEW i \in DOMAIN jobs, Triggered(i) PROVE Typed'
<1> USE DEF Typed
<1>1. jobs[i] \in Jobs /\ RemoveAt(jobs, i) \in Seq(Jobs)
  BY JobsChange
<1>2. CASE ConnectToAuthServer(i)
  <2>1. AUTH \in Servers /\ ConnectToServer(AUTH)
    BY <1>2 DEF ConnectToAuthServer, Servers
  <2>2. /\ sockets' \in [Sockets -> Connections] /\ currentSocket' \in 0 .. MaxSockets
        /\ cause' \in Causes /\ tried' \in 0 .. MaxSockets /\ lastPress' = "none"
    BY <2>1, Connects
  <2>3. QED
    BY <1>1, <1>2, <2>1, <2>2 DEF ConnectToAuthServer, SocketsOK, WhereOK, QueuesOK, LobbyOK,
                                  ScreenOK, PressOK, userVars, screenHist
<1>3. CASE ConnectToGameLobbyServer(i)
  <2>1. CASE m_isConnected
    <3>1. LOBBY \in Servers /\ ConnectToServer(LOBBY)
      BY <1>3, <2>1 DEF ConnectToGameLobbyServer, Servers
    <3>2. /\ sockets' \in [Sockets -> Connections] /\ currentSocket' \in 0 .. MaxSockets
          /\ cause' \in Causes /\ tried' \in 0 .. MaxSockets /\ lastPress' = "none"
      BY <3>1, Connects
    <3>3. jobs' \in Seq(Jobs)
      <4>1. [jobs[i] EXCEPT !.event = "StoreLobby"] \in Jobs
        BY <1>1, <1>3, JobTypes DEF ConnectToGameLobbyServer
      <4>2. jobs' = [jobs EXCEPT ![i] = [jobs[i] EXCEPT !.event = "StoreLobby"]]
        BY <1>3, <2>1 DEF ConnectToGameLobbyServer
      <4>3. QED
        BY <4>1, <4>2, ExceptSeq DEF QueuesOK
    <3>4. QED
      BY <1>3, <3>2, <3>3 DEF ConnectToGameLobbyServer, SocketsOK, WhereOK, QueuesOK, LobbyOK,
                              ScreenOK, PressOK, userVars, screenHist
  <2>2. CASE ~m_isConnected
    BY <1>1, <1>3, <2>2 DEF ConnectToGameLobbyServer, SocketsOK, WhereOK, QueuesOK, LobbyOK,
                            ScreenOK, PressOK, userVars, screenHist
  <2>3. QED
    BY <2>1, <2>2
<1>4. CASE StoreLobby(i)
  BY <1>1, <1>4 DEF StoreLobby, SocketsOK, WhereOK, QueuesOK, LobbyOK, ScreenOK, PressOK, Servers,
                    userVars, lobbyVars, screenHist, pressHist
<1>5. CASE SetUitype(i)
  <2>1. screen' \in Screens
    BY <1>1, <1>5, JobTypes DEF SetUitype
  <2>2. QED
    BY <1>1, <1>5, <2>1 DEF SetUitype, SocketsOK, WhereOK, QueuesOK, LobbyOK, ScreenOK, PressOK,
                            socketVars, lobbyVars, pressHist
<1>6. CASE SendPacket(i)
  <2>1. sendQueue' \in Seq(Requests)
    BY <1>1, <1>6, JobTypes, JobsChange DEF SendPacket
  <2>2. QED
    BY <1>1, <1>6, <2>1 DEF SendPacket, SocketsOK, WhereOK, QueuesOK, LobbyOK, ScreenOK, PressOK,
                            socketVars, userVars, lobbyVars, screenHist
<1>7. CASE ProcessRunner(i)
  BY <1>1, <1>7 DEF ProcessRunner, SocketsOK, WhereOK, QueuesOK, LobbyOK, ScreenOK, PressOK,
                    socketVars, userVars, lobbyVars, screenHist, pressHist
<1>8. QED
  BY <1>2, <1>3, <1>4, <1>5, <1>6, <1>7 DEF Triggered

LEMMA TypedUser == ASSUME Typed, User PROVE Typed'
<1> USE DEF Typed
<1>1. presses < MaxPresses /\ presses' = presses + 1 => presses' \in 0 .. MaxPresses
  BY LauncherAssumption DEF ScreenOK
<1>2. CASE PressLogin
  BY <1>2 DEF PressLogin, Changes, Pending, SocketsOK, WhereOK, QueuesOK, LobbyOK, ScreenOK, PressOK,
              Screens, socketVars, threadVars, lobbyVars, pressHist
<1>3. CASE PressBack
  BY <1>1, <1>3 DEF PressBack, Changes, Pending, SocketsOK, WhereOK, QueuesOK, LobbyOK, ScreenOK,
                    PressOK, Screens, socketVars, threadVars, lobbyVars, pressHist
<1>4. ASSUME NEW p \in Buttons, PressRequest(p) PROVE Typed'
  <2>1. jobs' \in Seq(Jobs)
    BY <1>4, JobTypes, JobsChange DEF PressRequest, Triggers
  <2>2. PressOK'
    BY <1>4 DEF PressRequest, PressOK, pressHist, Pending
  <2>3. QED
    BY <1>1, <1>4, <2>1, <2>2 DEF PressRequest, SocketsOK, WhereOK, QueuesOK, LobbyOK, ScreenOK,
                                  socketVars, lobbyVars, screenHist
<1>5. QED
  BY <1>2, <1>3, <1>4 DEF User

LEMMA TypedNext == Typed /\ [Next]_vars => Typed'
<1> SUFFICES ASSUME Typed, [Next]_vars PROVE Typed'
  OBVIOUS
<1>1. CASE UNCHANGED vars
  BY <1>1 DEF Typed, SocketsOK, WhereOK, QueuesOK, LobbyOK, ScreenOK, PressOK, vars, socketVars,
              threadVars, userVars, lobbyVars, screenHist, pressHist
<1>2. CASE Next
  BY <1>2, TypedNetwork, TypedEventLoop, TypedSendLoop, TypedHandleReceivedPacket, TypedTriggered,
     TypedUser DEF Next
<1>3. QED
  BY <1>1, <1>2

(* The launcher's variables hold what their declarations say, whatever the  *)
(* order of its threads' steps.                                             *)
THEOREM TypeCorrect == Spec => []TypeOK
<1>1. Init => Typed
  BY TypeOKInit, TypeParts DEF Typed
<1>2. Typed /\ [Next]_vars => Typed'
  BY TypedNext
<1>3. Typed => TypeOK
  BY TypeParts DEF Typed
<1>4. QED
  BY <1>1, <1>2, <1>3, PTL DEF Spec

-----------------------------------------------------------------------------
(* Effects in order *)

ScreenJobs == {Job("CHANGE_UI_TYPE", to) : to \in Screens}
RoomJobs   == {Job("SendPacket", p) : p \in RoomRequests}

(* The newest change of screen under way is to the screen wanted, which is  *)
(* there when none is.                                                      *)
ScreenInv ==
  \/ overtaken
  \/ /\ LastIs(jobs, ScreenJobs, Job("CHANGE_UI_TYPE", wanted))
     /\ Free(jobs, ScreenJobs) => screen = wanted

(* So with the last room request pressed: it is the newest of the threads,  *)
(* or of the queue behind them, or the lobby did what it asks.              *)
PressInv ==
  lastPress = "none" \/
    /\ admitted = currentSocket /\ admitted # 0
    /\ \/ reordered
       \/ /\ LastIs(jobs, RoomJobs, Job("SendPacket", lastPress))
          /\ Free(jobs, RoomJobs) =>
               /\ LastIs(sendQueue, RoomRequests, lastPress)
               /\ Free(sendQueue, RoomRequests) => (waiting <=> lastPress = "JoinRoom")

LEMMA JobKinds ==
  ASSUME QueuesOK
  PROVE  /\ \A j \in Jobs : j \in ScreenJobs <=> j.event = "CHANGE_UI_TYPE"
         /\ \A j \in Jobs : j \in RoomJobs <=> j.arg \in RoomRequests
         /\ \A j \in Jobs : j \in RoomJobs => j.event = "SendPacket"
         /\ \A e, f, x, y : Job(e, x) = Job(f, y) => e = f /\ x = y
         /\ Free(jobs, ScreenJobs) <=> ~Pending("CHANGE_UI_TYPE")
         /\ ~Pending("SendPacket") => Free(jobs, RoomJobs)
<1>1. /\ \A j \in Jobs : j \in ScreenJobs <=> j.event = "CHANGE_UI_TYPE"
      /\ \A j \in Jobs : j \in RoomJobs <=> j.arg \in RoomRequests
      /\ \A j \in Jobs : j \in RoomJobs => j.event = "SendPacket"
  BY DEF Job, Jobs, ScreenJobs, RoomJobs, Screens, Buttons, RoomRequests
<1>2. \A i \in DOMAIN jobs : jobs[i] \in Jobs
  BY JobsChange
<1>3. Free(jobs, ScreenJobs) <=> ~Pending("CHANGE_UI_TYPE")
  BY <1>1, <1>2 DEF Free, Pending
<1>4. ~Pending("SendPacket") => Free(jobs, RoomJobs)
  BY <1>1, <1>2 DEF Free, Pending
<1>5. ASSUME NEW e, NEW f, NEW x, NEW y, Job(e, x) = Job(f, y) PROVE e = f /\ x = y
  <2>1. Job(e, x).event = e /\ Job(e, x).arg = x /\ Job(f, y).event = f /\ Job(f, y).arg = y
    BY DEF Job
  <2>2. QED
    BY <1>5, <2>1
<1>6. QED
  BY <1>1, <1>3, <1>4, <1>5

LEMMA EffectsInit == Init => ScreenInv /\ PressInv
BY EmptyStreams DEF Init, ScreenInv, PressInv, LastIs, Free

(* What a thread of another kind does to the list does not disturb a kind.  *)
LEMMA OtherJob ==
  ASSUME QueuesOK, NEW T, NEW e, LastIs(jobs, T, e)
  PROVE  /\ \A j \in Jobs : j \notin T =>
              LastIs(Append(jobs, j), T, e) /\ (Free(Append(jobs, j), T) <=> Free(jobs, T))
         /\ \A i \in DOMAIN jobs : jobs[i] \notin T =>
              LastIs(RemoveAt(jobs, i), T, e) /\ (Free(RemoveAt(jobs, i), T) <=> Free(jobs, T))
         /\ \A i \in DOMAIN jobs, j \in Jobs : jobs[i] \notin T /\ j \notin T =>
              /\ LastIs([jobs EXCEPT ![i] = j], T, e)
              /\ Free([jobs EXCEPT ![i] = j], T) <=> Free(jobs, T)
<1>1. ASSUME NEW j \in Jobs, j \notin T
      PROVE  LastIs(Append(jobs, j), T, e) /\ (Free(Append(jobs, j), T) <=> Free(jobs, T))
  BY <1>1, AppendedLast DEF QueuesOK
<1>2. ASSUME NEW i \in DOMAIN jobs, jobs[i] \notin T
      PROVE  LastIs(RemoveAt(jobs, i), T, e) /\ (Free(RemoveAt(jobs, i), T) <=> Free(jobs, T))
  BY <1>2, RemovedLast DEF QueuesOK
<1>3. ASSUME NEW i \in DOMAIN jobs, NEW j \in Jobs, jobs[i] \notin T, j \notin T
      PROVE  /\ LastIs([jobs EXCEPT ![i] = j], T, e)
             /\ Free([jobs EXCEPT ![i] = j], T) <=> Free(jobs, T)
  <2> DEFINE r == [jobs EXCEPT ![i] = j]
  <2>1. DOMAIN r = DOMAIN jobs /\ r[i] = j /\ \A k \in DOMAIN jobs : k # i => r[k] = jobs[k]
    BY DEF QueuesOK
  <2> HIDE DEF r
  <2>2. LastIs(r, T, e)
    BY <1>3, <2>1 DEF LastIs
  <2>3. Free(r, T) <=> Free(jobs, T)
    BY <1>3, <2>1 DEF Free
  <2>4. QED
    BY <2>2, <2>3 DEF r
<1>4. QED
  BY <1>1, <1>2, <1>3

(* The screen's part: what the other steps do to the list of threads.       *)
LEMMA ScreenKept ==
  ASSUME QueuesOK, ScreenInv, UNCHANGED <<screen, wanted, overtaken>>,
         \/ jobs' = jobs
         \/ \E j \in Jobs : jobs' = Append(jobs, j) /\ j.event # "CHANGE_UI_TYPE"
         \/ \E i \in DOMAIN jobs : jobs' = RemoveAt(jobs, i) /\ jobs[i].event # "CHANGE_UI_TYPE"
         \/ \E i \in DOMAIN jobs, j \in Jobs : /\ jobs' = [jobs EXCEPT ![i] = j]
                                               /\ jobs[i].event # "CHANGE_UI_TYPE"
                                               /\ j.event # "CHANGE_UI_TYPE"
  PROVE  ScreenInv'
<1>1. CASE overtaken
  BY <1>1 DEF ScreenInv
<1>2. CASE ~overtaken
  <2> DEFINE e == Job("CHANGE_UI_TYPE", wanted)
  <2>1. LastIs(jobs, ScreenJobs, e) /\ (Free(jobs, ScreenJobs) => screen = wanted)
    BY <1>2 DEF ScreenInv
  <2>2. \A j \in Jobs : j.event # "CHANGE_UI_TYPE" => j \notin ScreenJobs
    BY JobKinds
  <2>3. \A i \in DOMAIN jobs : jobs[i] \in Jobs
    BY JobsChange
  <2> HIDE DEF e
  <2>4. LastIs(jobs', ScreenJobs, e) /\ (Free(jobs', ScreenJobs) <=> Free(jobs, ScreenJobs))
    <3>1. CASE jobs' = jobs
      BY <2>1, <3>1
    <3>2. CASE \E j \in Jobs : jobs' = Append(jobs, j) /\ j.event # "CHANGE_UI_TYPE"
      BY <2>1, <2>2, <3>2, OtherJob
    <3>3. CASE \E i \in DOMAIN jobs : jobs' = RemoveAt(jobs, i) /\ jobs[i].event # "CHANGE_UI_TYPE"
      BY <2>1, <2>2, <2>3, <3>3, OtherJob
    <3>4. CASE \E i \in DOMAIN jobs, j \in Jobs : /\ jobs' = [jobs EXCEPT ![i] = j]
                                                  /\ jobs[i].event # "CHANGE_UI_TYPE"
                                                  /\ j.event # "CHANGE_UI_TYPE"
      <4>1. PICK i \in DOMAIN jobs, j \in Jobs : /\ jobs' = [jobs EXCEPT ![i] = j]
                                                 /\ jobs[i].event # "CHANGE_UI_TYPE"
                                                 /\ j.event # "CHANGE_UI_TYPE"
        BY <3>4
      <4>2. jobs[i] \notin ScreenJobs /\ j \notin ScreenJobs
        BY <2>2, <2>3, <4>1
      <4>3. /\ LastIs([jobs EXCEPT ![i] = j], ScreenJobs, e)
            /\ Free([jobs EXCEPT ![i] = j], ScreenJobs) <=> Free(jobs, ScreenJobs)
        BY <2>1, <4>2, OtherJob
      <4>4. QED
        BY <4>1, <4>3
    <3>5. QED
      BY <3>1, <3>2, <3>3, <3>4
  <2>5. ScreenJobs' = ScreenJobs /\ Job("CHANGE_UI_TYPE", wanted)' = e
    BY DEF ScreenJobs, Job, e, Screens
  <2>6. QED
    BY <2>1, <2>4, <2>5 DEF ScreenInv, LastIs, Free
<1>3. QED
  BY <1>1, <1>2

(* The three steps that change the screen, or what it should be.            *)
LEMMA ScreenChanges ==
  ASSUME QueuesOK, NEW to, Changes(to),
         jobs' = jobs \/ \E j \in Jobs : jobs' = Append(jobs, j) /\ j.event # "CHANGE_UI_TYPE"
  PROVE  ScreenInv'
<1>1. CASE Pending("CHANGE_UI_TYPE")
  BY <1>1 DEF Changes, ScreenInv
<1>2. CASE ~Pending("CHANGE_UI_TYPE")
  <2>1. Free(jobs, ScreenJobs)
    BY <1>2, JobKinds
  <2>2. \A j \in Jobs : j.event # "CHANGE_UI_TYPE" => j \notin ScreenJobs
    BY JobKinds
  <2>3. Free(jobs', ScreenJobs)
    <3>1. LastIs(jobs, ScreenJobs, "none")
      BY <2>1 DEF LastIs, Free
    <3>2. QED
      BY <2>1, <2>2, <3>1, OtherJob
  <2>4. LastIs(jobs', ScreenJobs, Job("CHANGE_UI_TYPE", to))
    BY <2>3 DEF LastIs, Free
  <2>5. ScreenJobs' = ScreenJobs /\ screen' = to /\ wanted' = to
    BY DEF ScreenJobs, Job, Screens, Changes
  <2>6. QED
    BY <2>4, <2>5 DEF ScreenInv, LastIs, Free, Job
<1>3. QED
  BY <1>1, <1>2

LEMMA ScreenTriggered ==
  ASSUME QueuesOK, ScreenInv, NEW to \in Screens, jobs' = Append(jobs, Job("CHANGE_UI_TYPE", to)),
         wanted' = to, overtaken' = overtaken, screen' = screen
  PROVE  ScreenInv'
<1> DEFINE e == Job("CHANGE_UI_TYPE", to)
<1>1. e \in Jobs /\ e \in ScreenJobs
  BY JobTypes DEF ScreenJobs
<1>2. LastIs(Append(jobs, e), ScreenJobs, e) /\ ~Free(Append(jobs, e), ScreenJobs)
  BY <1>1, AppendedLast DEF QueuesOK
<1>3. ScreenJobs' = ScreenJobs /\ Job("CHANGE_UI_TYPE", wanted)' = e
  BY DEF ScreenJobs, Job, Screens
<1> HIDE DEF e
<1>4. jobs' = Append(jobs, e)
  BY DEF e
<1>5. QED
  BY <1>2, <1>3, <1>4 DEF ScreenInv, LastIs, Free

LEMMA ScreenRun ==
  ASSUME QueuesOK, ScreenInv, NEW i \in DOMAIN jobs, SetUitype(i)
  PROVE  ScreenInv'
<1> DEFINE e == Job("CHANGE_UI_TYPE", wanted)
<1>1. jobs[i] \in Jobs /\ \A j \in DOMAIN jobs : jobs[j] \in Jobs
  BY JobsChange
<1>2. jobs[i] \in ScreenJobs /\ jobs[i].event = "CHANGE_UI_TYPE"
  BY <1>1, JobKinds DEF SetUitype
<1>3. CASE overtaken
  BY <1>3 DEF SetUitype, ScreenInv
<1>4. CASE ~overtaken
  <2>1. LastIs(jobs, ScreenJobs, e)
    BY <1>4 DEF ScreenInv
  <2> HIDE DEF e
  <2>2. /\ Free(RemoveAt(jobs, i), ScreenJobs) => jobs[i] = e
        /\ \/ \E j \in DOMAIN jobs : j < i /\ jobs[j] \in ScreenJobs
           \/ Free(RemoveAt(jobs, i), ScreenJobs) \/ LastIs(RemoveAt(jobs, i), ScreenJobs, e)
    BY <1>2, <2>1, RemovedLast DEF QueuesOK
  <2>3. ASSUME NEW j \in DOMAIN jobs, j < i, jobs[j] \in ScreenJobs PROVE overtaken'
    <3>1. j \in 1 .. i - 1
      BY <2>3, LenProperties DEF QueuesOK
    <3>2. jobs[j] \in Older(i) /\ jobs[j].event = "CHANGE_UI_TYPE"
      BY <1>1, <2>3, <3>1, JobKinds DEF Older
    <3>3. QED
      BY <3>2 DEF SetUitype
  <2>4. ScreenJobs' = ScreenJobs /\ Job("CHANGE_UI_TYPE", wanted)' = e
    BY DEF ScreenJobs, Job, Screens, e, SetUitype
  <2>5. jobs' = RemoveAt(jobs, i) /\ screen' = jobs[i].arg /\ wanted' = wanted
    BY DEF SetUitype
  <2>6. jobs[i] = e => screen' = wanted'
    BY <2>5 DEF e, Job
  <2>7. overtaken' \/ Free(jobs', ScreenJobs) \/ LastIs(jobs', ScreenJobs, e)
    BY <2>2, <2>3, <2>5
  <2>8. LastIs(jobs', ScreenJobs, e) \/ overtaken'
    BY <2>7 DEF LastIs, Free
  <2>9. Free(jobs', ScreenJobs) => screen' = wanted'
    BY <2>2, <2>5, <2>6
  <2>10. QED
    BY <2>4, <2>8, <2>9 DEF ScreenInv, LastIs, Free
<1>5. QED
  BY <1>3, <1>4

LEMMA ScreenInvNext ==
  ASSUME Typed, ScreenInv, [Next]_vars
  PROVE  ScreenInv'
<1> USE DEF Typed
<1>1. CASE UNCHANGED vars
  <2>1. UNCHANGED <<jobs, screen, wanted, overtaken>>
    BY <1>1 DEF vars, threadVars, userVars, screenHist
  <2>2. QED
    BY <2>1, ScreenKept
<1>2. CASE \E s \in Sockets : Network(s)
  <2>1. UNCHANGED <<jobs, screen, wanted, overtaken>>
    BY <1>2 DEF Network, Accepted, Refused, PeerCloses, LobbyStartsGame, threadVars, userVars, screenHist
  <2>2. QED
    BY <2>1, ScreenKept
<1>3. CASE EventLoop \/ SendLoop
  <2>1. UNCHANGED <<jobs, screen, wanted, overtaken>>
    BY <1>3 DEF EventLoop, Wake, EnumerateFails, Enumerate, HandleConnect, HandleFailure, Receive,
                ReceiveEnds, HandleClose, SendLoop, userVars, screenHist
  <2>2. QED
    BY <2>1, ScreenKept
<1>4. CASE HandleReceivedPacket
  <2> DEFINE p == Head(data_queue)
  <2>1. CASE p \in {"FindAccountServer", "Login_Failed", "Login_Succeeded"}
    <3>1. UNCHANGED <<screen, wanted, overtaken>>
      BY <1>4, <2>1 DEF HandleReceivedPacket, screenHist
    <3>2. \/ jobs' = jobs
          \/ jobs' = Append(jobs, Job("SUCESS_ROUTINEAUTH", "none"))
          \/ jobs' = Append(jobs, Job("SUCESS_GAMELOBBY", "none"))
      BY <1>4, <2>1 DEF HandleReceivedPacket, Triggers
    <3>3. /\ Job("SUCESS_ROUTINEAUTH", "none") \in Jobs /\ Job("SUCESS_GAMELOBBY", "none") \in Jobs
          /\ Job("SUCESS_ROUTINEAUTH", "none").event # "CHANGE_UI_TYPE"
          /\ Job("SUCESS_GAMELOBBY", "none").event # "CHANGE_UI_TYPE"
      BY JobTypes DEF Job
    <3>4. jobs' = jobs \/ \E j \in Jobs : jobs' = Append(jobs, j) /\ j.event # "CHANGE_UI_TYPE"
      BY <3>2, <3>3
    <3>5. QED
      BY <3>1, <3>4, ScreenKept
  <2>2. CASE p \in {"CheckSession_Succeeded", "JoinRoom_Succeeded"}
    <3> DEFINE to == IF p = "JoinRoom_Succeeded" THEN "Matching" ELSE "Lobby"
    <3>1. /\ jobs' = Append(jobs, Job("CHANGE_UI_TYPE", to)) /\ wanted' = to
          /\ overtaken' = overtaken /\ screen' = screen
      BY <1>4, <2>2 DEF HandleReceivedPacket, Triggers
    <3>2. to \in Screens
      BY DEF Screens
    <3>3. QED
      BY <3>1, <3>2, ScreenTriggered
  <2>3. CASE p = "GameCreate"
    <3>1. Changes("Game") /\ jobs' = Append(jobs, Job("STARTGAME", "none"))
      BY <1>4, <2>3 DEF HandleReceivedPacket, Triggers
    <3>2. Job("STARTGAME", "none") \in Jobs /\ Job("STARTGAME", "none").event # "CHANGE_UI_TYPE"
      BY JobTypes DEF Job
    <3>3. QED
      BY <3>1, <3>2, ScreenChanges
  <2>4. QED
    BY <1>4, <2>1, <2>2, <2>3 DEF HandleReceivedPacket
<1>5. ASSUME NEW i \in DOMAIN jobs, Triggered(i) PROVE ScreenInv'
  <2>1. CASE SetUitype(i)
    BY <2>1, ScreenRun
  <2>2. CASE (ConnectToGameLobbyServer(i) /\ m_isConnected)
    <3>1. UNCHANGED <<screen, wanted, overtaken>>
      BY <2>2 DEF ConnectToGameLobbyServer, userVars, screenHist
    <3>2. jobs' = [jobs EXCEPT ![i] = [jobs[i] EXCEPT !.event = "StoreLobby"]]
      BY <2>2 DEF ConnectToGameLobbyServer
    <3>3. /\ jobs[i].event # "CHANGE_UI_TYPE" /\ Job("StoreLobby", "none") \in Jobs
          /\ Job("StoreLobby", "none").event # "CHANGE_UI_TYPE"
          /\ [jobs[i] EXCEPT !.event = "StoreLobby"] = Job("StoreLobby", "none")
      <4>1. jobs[i] \in Jobs /\ jobs[i].event = "SUCESS_GAMELOBBY"
        BY <2>2, JobsChange DEF ConnectToGameLobbyServer
      <4>2. Job("StoreLobby", "none").event # "CHANGE_UI_TYPE"
        BY DEF Job
      <4>3. QED
        BY <4>1, <4>2, JobTypes
    <3>4. QED
      BY <3>1, <3>2, <3>3, ScreenKept
  <2>3. CASE \/ ConnectToAuthServer(i) \/ (ConnectToGameLobbyServer(i) /\ ~m_isConnected)
             \/ StoreLobby(i) \/ SendPacket(i) \/ ProcessRunner(i)
    <3>1. /\ UNCHANGED <<screen, wanted, overtaken>>
          /\ jobs' = RemoveAt(jobs, i) /\ jobs[i].event # "CHANGE_UI_TYPE"
      BY <2>3 DEF ConnectToAuthServer, ConnectToGameLobbyServer, StoreLobby, SendPacket, ProcessRunner,
                  userVars, screenHist
    <3>2. QED
      BY <3>1, ScreenKept
  <2>4. CASE ConnectToGameLobbyServer(i)
    <3>1. CASE m_isConnected
      BY <2>2, <2>4, <3>1
    <3>2. CASE ~m_isConnected
      BY <2>3, <2>4, <3>2
    <3>3. QED
      BY <3>1, <3>2
  <2>5. QED
    BY <1>5, <2>1, <2>2, <2>3, <2>4 DEF Triggered
<1>6. CASE User
  <2>1. CASE PressLogin \/ PressBack
    <3>1. jobs' = jobs /\ \E to : Changes(to)
      BY <2>1 DEF PressLogin, PressBack, threadVars
    <3>2. QED
      BY <3>1, ScreenChanges
  <2>2. ASSUME NEW p \in Buttons, PressRequest(p) PROVE ScreenInv'
    <3>1. UNCHANGED <<screen, wanted, overtaken>> /\ jobs' = Append(jobs, Job("SendPacket", p))
      BY <2>2 DEF PressRequest, Triggers, screenHist
    <3>2. Job("SendPacket", p) \in Jobs /\ Job("SendPacket", p).event # "CHANGE_UI_TYPE"
      BY JobTypes DEF Job
    <3>3. QED
      BY <3>1, <3>2, ScreenKept
  <2>3. QED
    BY <1>6, <2>1, <2>2 DEF User
<1>7. QED
  BY <1>1, <1>2, <1>3, <1>4, <1>5, <1>6 DEF Next

(* The room requests' part: steps that touch neither them nor the room.     *)
LEMMA PressKept ==
  ASSUME QueuesOK, PressInv,
         UNCHANGED <<reordered, sendQueue>>,
         \/ lastPress' = "none"
         \/ UNCHANGED <<lastPress, admitted, currentSocket, waiting>>,
         \/ jobs' = jobs
         \/ \E j \in Jobs : jobs' = Append(jobs, j) /\ j.arg \notin RoomRequests
         \/ \E i \in DOMAIN jobs : jobs' = RemoveAt(jobs, i) /\ jobs[i].arg \notin RoomRequests
         \/ \E i \in DOMAIN jobs, j \in Jobs : /\ jobs' = [jobs EXCEPT ![i] = j]
                                               /\ jobs[i].arg \notin RoomRequests
                                               /\ j.arg \notin RoomRequests
  PROVE  PressInv'
<1>1. CASE lastPress' = "none"
  BY <1>1 DEF PressInv
<1>2. CASE lastPress # "none" /\ UNCHANGED <<lastPress, admitted, currentSocket, waiting>>
  <2> DEFINE e == Job("SendPacket", lastPress)
  <2>1. admitted = currentSocket /\ admitted # 0
    BY <1>2 DEF PressInv
  <2>2. CASE reordered
    <3>1. reordered' /\ admitted' = admitted /\ currentSocket' = currentSocket
      BY <1>2, <2>2
    <3>2. QED
      BY <2>1, <3>1 DEF PressInv
  <2>3. CASE ~reordered
    <3>1. /\ LastIs(jobs, RoomJobs, e)
          /\ Free(jobs, RoomJobs) =>
               /\ LastIs(sendQueue, RoomRequests, lastPress)
               /\ Free(sendQueue, RoomRequests) => (waiting <=> lastPress = "JoinRoom")
      BY <1>2, <2>3 DEF PressInv
    <3>2. \A j \in Jobs : j.arg \notin RoomRequests => j \notin RoomJobs
      BY JobKinds
    <3>3. \A i \in DOMAIN jobs : jobs[i] \in Jobs
      BY JobsChange
    <3> HIDE DEF e
    <3>4. LastIs(jobs', RoomJobs, e) /\ (Free(jobs', RoomJobs) <=> Free(jobs, RoomJobs))
      <4>1. CASE jobs' = jobs
        BY <3>1, <4>1
      <4>2. CASE \E j \in Jobs : jobs' = Append(jobs, j) /\ j.arg \notin RoomRequests
        BY <3>1, <3>2, <4>2, OtherJob
      <4>3. CASE \E i \in DOMAIN jobs : jobs' = RemoveAt(jobs, i) /\ jobs[i].arg \notin RoomRequests
        BY <3>1, <3>2, <3>3, <4>3, OtherJob
      <4>4. CASE \E i \in DOMAIN jobs, j \in Jobs : /\ jobs' = [jobs EXCEPT ![i] = j]
                                                    /\ jobs[i].arg \notin RoomRequests
                                                    /\ j.arg \notin RoomRequests
        <5>1. PICK i \in DOMAIN jobs, j \in Jobs : /\ jobs' = [jobs EXCEPT ![i] = j]
                                                   /\ jobs[i].arg \notin RoomRequests
                                                   /\ j.arg \notin RoomRequests
          BY <4>4
        <5>2. jobs[i] \notin RoomJobs /\ j \notin RoomJobs
          BY <3>2, <3>3, <5>1
        <5>3. /\ LastIs([jobs EXCEPT ![i] = j], RoomJobs, e)
              /\ Free([jobs EXCEPT ![i] = j], RoomJobs) <=> Free(jobs, RoomJobs)
          BY <3>1, <5>2, OtherJob
        <5>4. QED
          BY <5>1, <5>3
      <4>5. QED
        BY <4>1, <4>2, <4>3, <4>4
    <3>5. RoomJobs' = RoomJobs /\ RoomRequests' = RoomRequests /\ Job("SendPacket", lastPress)' = e
      BY <1>2 DEF RoomJobs, Job, e, RoomRequests
    <3>6. /\ lastPress' = lastPress /\ admitted' = admitted /\ currentSocket' = currentSocket
          /\ waiting' = waiting /\ sendQueue' = sendQueue
      BY <1>2
    <3>7. QED
      BY <2>1, <3>1, <3>4, <3>5, <3>6 DEF PressInv, LastIs, Free
  <2>4. QED
    BY <2>2, <2>3
<1>3. CASE lastPress = "none" /\ UNCHANGED <<lastPress, admitted, currentSocket, waiting>>
  BY <1>3 DEF PressInv
<1>4. QED
  BY <1>1, <1>2, <1>3

LEMMA PressSent ==
  ASSUME Typed, PressInv, NEW i \in DOMAIN jobs, SendPacket(i)
  PROVE  PressInv'
<1> USE DEF Typed
<1> DEFINE e == Job("SendPacket", lastPress)
           p == jobs[i].arg
<1>1. /\ jobs' = RemoveAt(jobs, i) /\ sendQueue' = Append(sendQueue, p) /\ jobs[i] \in Jobs
      /\ p \in Requests /\ UNCHANGED <<lastPress, admitted, currentSocket, waiting>>
      /\ reordered' = (reordered \/ (p \in RoomRequests /\ \E j \in Older(i) : j.arg \in RoomRequests))
  BY JobsChange, JobTypes DEF SendPacket, socketVars, lobbyVars
<1>2. CASE lastPress = "none"
  BY <1>1, <1>2 DEF PressInv
<1>3. CASE lastPress # "none" /\ reordered'
  BY <1>1, <1>3 DEF PressInv
<1>4. CASE lastPress # "none" /\ ~reordered'
  <2>1. /\ admitted = currentSocket /\ admitted # 0 /\ LastIs(jobs, RoomJobs, e)
        /\ Free(jobs, RoomJobs) =>
             /\ LastIs(sendQueue, RoomRequests, lastPress)
             /\ Free(sendQueue, RoomRequests) => (waiting <=> lastPress = "JoinRoom")
    BY <1>1, <1>4 DEF PressInv
  <2>2. jobs[i] \in RoomJobs <=> p \in RoomRequests
    BY <1>1, JobKinds
  <2>3. RoomJobs' = RoomJobs /\ RoomRequests' = RoomRequests /\ Job("SendPacket", lastPress)' = e
    BY <1>1 DEF RoomJobs, Job, RoomRequests
  <2>4. \A T, x : /\ p \in T => LastIs(sendQueue', T, p) /\ ~Free(sendQueue', T)
                  /\ p \notin T /\ LastIs(sendQueue, T, x) => LastIs(sendQueue', T, x)
                  /\ p \notin T => (Free(sendQueue', T) <=> Free(sendQueue, T))
    BY <1>1, AppendedLast DEF QueuesOK
  <2> HIDE DEF e
  <2>5. CASE p \notin RoomRequests
    <3>1. LastIs(RemoveAt(jobs, i), RoomJobs, e) /\ (Free(RemoveAt(jobs, i), RoomJobs) <=> Free(jobs, RoomJobs))
      BY <2>1, <2>2, <2>5, RemovedLast DEF QueuesOK
    <3>2. LastIs(jobs', RoomJobs, e) /\ (Free(jobs', RoomJobs) <=> Free(jobs, RoomJobs))
      BY <1>1, <3>1
    <3>3. /\ LastIs(sendQueue, RoomRequests, lastPress) => LastIs(sendQueue', RoomRequests, lastPress)
          /\ Free(sendQueue', RoomRequests) <=> Free(sendQueue, RoomRequests)
      BY <2>4, <2>5
    <3>4. QED
      BY <1>1, <2>1, <2>3, <3>2, <3>3 DEF PressInv, LastIs, Free
  <2>6. CASE p \in RoomRequests
    <3>1. ASSUME NEW j \in DOMAIN jobs, j < i, jobs[j] \in RoomJobs PROVE FALSE
      <4>1. j \in 1 .. i - 1 /\ jobs[j] \in Jobs
        BY <3>1, LenProperties, JobsChange DEF QueuesOK
      <4>2. jobs[j] \in Older(i) /\ jobs[j].arg \in RoomRequests
        BY <3>1, <4>1, JobKinds DEF Older
      <4>3. QED
        BY <1>1, <1>4, <2>6, <4>2
    <3>2. /\ Free(RemoveAt(jobs, i), RoomJobs) => jobs[i] = e
          /\ \/ \E j \in DOMAIN jobs : j < i /\ jobs[j] \in RoomJobs
             \/ Free(RemoveAt(jobs, i), RoomJobs) \/ LastIs(RemoveAt(jobs, i), RoomJobs, e)
      BY <2>1, <2>2, <2>6, RemovedLast DEF QueuesOK
    <3>3. /\ Free(jobs', RoomJobs) => p = lastPress
          /\ Free(jobs', RoomJobs) \/ LastIs(jobs', RoomJobs, e)
      BY <1>1, <3>1, <3>2 DEF e, Job
    <3>4. LastIs(jobs', RoomJobs, e)
      BY <3>3 DEF LastIs, Free
    <3>5. LastIs(sendQueue', RoomRequests, p) /\ ~Free(sendQueue', RoomRequests)
      BY <2>4, <2>6
    <3>6. Free(jobs', RoomJobs) => LastIs(sendQueue', RoomRequests, lastPress)
      BY <3>3, <3>5
    <3>7. QED
      BY <1>1, <2>1, <2>3, <3>4, <3>5, <3>6 DEF PressInv, LastIs, Free
  <2>7. QED
    BY <2>5, <2>6
<1>5. QED
  BY <1>2, <1>3, <1>4

LEMMA PressPressed ==
  ASSUME Typed, PressInv, NEW p \in RoomRequests, PressRequest(p)
  PROVE  PressInv'
<1> USE DEF Typed
<1> DEFINE e == Job("SendPacket", p)
<1>1. /\ jobs' = Append(jobs, e) /\ e \in Jobs /\ e \in RoomJobs
      /\ UNCHANGED <<admitted, currentSocket, waiting, sendQueue>>
  BY JobTypes DEF PressRequest, Triggers, RoomJobs, RoomRequests, Buttons, socketVars, lobbyVars
<1>2. CASE admitted = currentSocket /\ admitted # 0
  <2>1. lastPress' = p
    BY <1>2 DEF PressRequest
  <2>2. RoomJobs' = RoomJobs /\ RoomRequests' = RoomRequests /\ Job("SendPacket", lastPress)' = e
    BY <2>1 DEF RoomJobs, Job, RoomRequests
  <2> HIDE DEF e
  <2>3. LastIs(Append(jobs, e), RoomJobs, e) /\ ~Free(Append(jobs, e), RoomJobs)
    BY <1>1, AppendedLast DEF QueuesOK
  <2>4. LastIs(jobs', RoomJobs, e) /\ ~Free(jobs', RoomJobs)
    BY <1>1, <2>3
  <2>5. QED
    BY <1>1, <1>2, <2>2, <2>4 DEF PressInv, LastIs, Free
<1>3. CASE ~(admitted = currentSocket /\ admitted # 0)
  <2>1. lastPress' = lastPress /\ lastPress = "none"
    BY <1>3 DEF PressRequest, pressHist, PressInv
  <2>2. QED
    BY <2>1 DEF PressInv
<1>4. QED
  BY <1>2, <1>3

LEMMA PressServed ==
  ASSUME Typed, PressInv, SendLoop
  PROVE  PressInv'
<1> USE DEF Typed
<1> DEFINE p == Head(sendQueue)
<1>1. /\ sendQueue # <<>> /\ sendQueue' = Tail(sendQueue) /\ jobs' = jobs /\ reordered' = reordered
      /\ currentSocket' = currentSocket /\ p \in Requests
  BY JobsChange DEF SendLoop
<1>2. CASE lastPress' = "none"
  BY <1>2 DEF PressInv
<1>3. CASE lastPress' # "none"
  <2>1. Link(currentSocket).at = "up" /\ Serve(currentSocket, p)
    BY <1>3 DEF SendLoop
  <2>2. PICK answers \in Reply(sockets[currentSocket].server, p, currentSocket) :
          /\ admitted' = CASE answers = <<"CheckSession_Succeeded">> -> currentSocket
                           [] p = "Logout" /\ admitted = currentSocket -> 0
                           [] OTHER -> admitted
          /\ waiting' = CASE admitted # currentSocket -> waiting
                          [] p \in {"CancelRoom", "Logout"} \/ Len(answers) = 2 -> FALSE
                          [] p = "JoinRoom" -> TRUE
                          [] OTHER -> waiting
          /\ lastPress' = IF p = "Logout" \/ Len(answers) = 2 THEN "none" ELSE lastPress
    BY <2>1 DEF Serve
  <2>3. p # "Logout" /\ Len(answers) # 2 /\ lastPress' = lastPress /\ lastPress # "none"
    BY <1>3, <2>2
  <2>4. admitted = currentSocket /\ admitted # 0
    BY <2>3 DEF PressInv
  <2>5. admitted' = currentSocket
    BY <2>2, <2>3, <2>4
  <2>6. CASE reordered
    <3>1. reordered'
      BY <1>1, <2>6
    <3>2. QED
      BY <1>1, <2>4, <2>5, <3>1 DEF PressInv
  <2>7. CASE ~reordered
    <3>1. /\ LastIs(jobs, RoomJobs, Job("SendPacket", lastPress))
          /\ Free(jobs, RoomJobs) =>
               /\ LastIs(sendQueue, RoomRequests, lastPress)
               /\ Free(sendQueue, RoomRequests) => (waiting <=> lastPress = "JoinRoom")
      BY <2>3, <2>7 DEF PressInv
    <3>2. sendQueue' = After(sendQueue, 1) /\ 1 \in 1 .. Len(sendQueue)
      BY <1>1, Tailed DEF QueuesOK
    <3>3. ASSUME LastIs(sendQueue, RoomRequests, lastPress),
                 Free(sendQueue, RoomRequests) => (waiting <=> lastPress = "JoinRoom")
          PROVE  /\ LastIs(sendQueue', RoomRequests, lastPress)
                 /\ Free(sendQueue', RoomRequests) => (waiting' <=> lastPress = "JoinRoom")
      <4>1. LastIs(sendQueue', RoomRequests, lastPress)
        BY <3>2, <3>3, RestLast DEF QueuesOK
      <4>2. /\ Free(sendQueue', RoomRequests) /\ p \in RoomRequests => p = lastPress
            /\ p \notin RoomRequests => (Free(sendQueue', RoomRequests) <=> Free(sendQueue, RoomRequests))
        BY <1>1, <3>2, <3>3, RestFree DEF QueuesOK
      <4> HIDE DEF p
      <4>3. CASE p \in RoomRequests
        <5>1. waiting' <=> p = "JoinRoom"
          BY <2>2, <2>3, <2>4, <4>3 DEF RoomRequests
        <5>2. QED
          BY <4>1, <4>2, <4>3, <5>1
      <4>4. CASE p \notin RoomRequests
        <5>1. waiting' = waiting
          BY <2>2, <2>3, <2>4, <4>4 DEF RoomRequests
        <5>2. QED
          BY <3>3, <4>1, <4>2, <4>4, <5>1
      <4>5. QED
        BY <4>3, <4>4
    <3>4. Job("SendPacket", lastPress)' = Job("SendPacket", lastPress) /\ RoomJobs' = RoomJobs
          /\ RoomRequests' = RoomRequests
      BY <2>3 DEF Job, RoomJobs, RoomRequests
    <3>5. QED
      BY <1>1, <2>3, <2>4, <2>5, <3>1, <3>3, <3>4 DEF PressInv, LastIs, Free
  <2>8. QED
    BY <2>6, <2>7
<1>4. QED
  BY <1>2, <1>3

LEMMA PressInvNext ==
  ASSUME Typed, PressInv, [Next]_vars
  PROVE  PressInv'
<1> USE DEF Typed
<1>1. CASE UNCHANGED vars
  <2>1. UNCHANGED <<jobs, sendQueue, reordered, lastPress, admitted, currentSocket, waiting>>
    BY <1>1 DEF vars, threadVars, socketVars, lobbyVars, pressHist
  <2>2. QED
    BY <2>1, PressKept
<1>2. ASSUME NEW s \in Sockets, Network(s) PROVE PressInv'
  <2>1. CASE Accepted(s) \/ Refused(s)
    <3>1. UNCHANGED <<jobs, sendQueue, reordered, lastPress, admitted, currentSocket, waiting>>
      BY <2>1 DEF Accepted, Refused, threadVars, lobbyVars, pressHist
    <3>2. QED
      BY <3>1, PressKept
  <2>2. CASE PeerCloses(s)
    <3>1. CASE currentSocket = s
      BY <2>2, <3>1 DEF PeerCloses, PressInv
    <3>2. CASE currentSocket # s /\ admitted = s
      BY <2>2, <3>2 DEF PeerCloses, PressInv
    <3>3. CASE currentSocket # s /\ admitted # s
      <4>1. UNCHANGED <<jobs, sendQueue, reordered, lastPress, admitted, currentSocket, waiting>>
        BY <2>2, <3>3 DEF PeerCloses, threadVars, LobbyOK
      <4>2. QED
        BY <4>1, PressKept
    <3>4. QED
      BY <3>1, <3>2, <3>3
  <2>3. CASE LobbyStartsGame(s)
    BY <2>3 DEF LobbyStartsGame, PressInv
  <2>4. QED
    BY <1>2, <2>1, <2>2, <2>3 DEF Network
<1>3. CASE EventLoop
  <2>1. CASE HandleConnect
    <3>1. UNCHANGED <<jobs, reordered, lastPress, admitted, currentSocket, waiting>>
      BY <2>1 DEF HandleConnect, socketVars, lobbyVars, pressHist
    <3>2. CASE sendQueue' = sendQueue
      BY <3>1, <3>2, PressKept
    <3>3. ASSUME NEW p \in {"FindAccountServer", "TryConnect"}, sendQueue' = Append(sendQueue, p)
          PROVE  PressInv'
      <4>1. \A T, x : p \notin T /\ LastIs(sendQueue, T, x) =>
              LastIs(sendQueue', T, x) /\ (Free(sendQueue', T) <=> Free(sendQueue, T))
        <5>1. p \in Requests
          BY DEF Requests
        <5>2. QED
          BY <3>3, <5>1, AppendedLast DEF QueuesOK
      <4>2. p \notin RoomRequests
        BY DEF RoomRequests
      <4>3. LastIs(sendQueue, RoomRequests, lastPress) =>
              LastIs(sendQueue', RoomRequests, lastPress)
              /\ (Free(sendQueue', RoomRequests) <=> Free(sendQueue, RoomRequests))
        BY <4>1, <4>2
      <4>4. /\ Job("SendPacket", lastPress)' = Job("SendPacket", lastPress) /\ RoomJobs' = RoomJobs
            /\ RoomRequests' = RoomRequests
        BY <3>1 DEF Job, RoomJobs, RoomRequests
      <4>5. QED
        BY <3>1, <4>3, <4>4 DEF PressInv, LastIs, Free
    <3>4. \/ sendQueue' = sendQueue
          \/ \E p \in {"FindAccountServer", "TryConnect"} : sendQueue' = Append(sendQueue, p)
      <4>1. Asks \in {<<"FindAccountServer">>, <<"TryConnect">>, <<>>}
        BY DEF Asks
      <4>2. /\ sendQueue \o <<>> = sendQueue
            /\ \A p \in Requests : sendQueue \o <<p>> = Append(sendQueue, p)
        BY ConcatEmptySeq, AppendIsConcat DEF QueuesOK
      <4>3. "FindAccountServer" \in Requests /\ "TryConnect" \in Requests
        BY DEF Requests
      <4>4. sendQueue' = sendQueue \o Asks
        BY <2>1 DEF HandleConnect
      <4>5. QED
        BY <4>1, <4>2, <4>3, <4>4
    <3>5. QED
      BY <3>2, <3>3, <3>4
  <2>2. CASE HandleFailure \/ HandleClose
    BY <2>2 DEF HandleFailure, HandleClose, PressInv
  <2>3. CASE \/ Wake \/ EnumerateFails \/ Enumerate \/ (\E k \in 1 .. 2 : Receive(k)) \/ ReceiveEnds
    <3>1. UNCHANGED <<jobs, sendQueue, reordered, lastPress, admitted, currentSocket, waiting>>
      BY <2>3 DEF Wake, EnumerateFails, Enumerate, Receive, ReceiveEnds, socketVars, lobbyVars, pressHist
    <3>2. QED
      BY <3>1, PressKept
  <2>4. QED
    BY <1>3, <2>1, <2>2, <2>3 DEF EventLoop
<1>4. CASE SendLoop
  BY <1>4, PressServed
<1>5. CASE HandleReceivedPacket
  <2>1. UNCHANGED <<sendQueue, reordered, lastPress, admitted, currentSocket, waiting>>
    BY <1>5 DEF HandleReceivedPacket, socketVars, lobbyVars, pressHist
  <2>2. jobs' = jobs \/ \E j \in Jobs : jobs' = Append(jobs, j) /\ j.arg \notin RoomRequests
    <3>1. \A e, a : Job(e, a).arg = a
      BY DEF Job
    <3>2. "none" \notin RoomRequests /\ \A to \in Screens : to \notin RoomRequests
      BY DEF RoomRequests, Screens
    <3>3. \/ jobs' = jobs
          \/ \E e \in {"SUCESS_ROUTINEAUTH", "SUCESS_GAMELOBBY", "STARTGAME"} :
               jobs' = Append(jobs, Job(e, "none"))
          \/ \E to \in Screens : jobs' = Append(jobs, Job("CHANGE_UI_TYPE", to))
      BY <1>5 DEF HandleReceivedPacket, Triggers, Screens
    <3>4. QED
      BY <3>1, <3>2, <3>3, JobTypes
  <2>3. QED
    BY <2>1, <2>2, PressKept
<1>6. ASSUME NEW i \in DOMAIN jobs, Triggered(i) PROVE PressInv'
  <2>1. CASE SendPacket(i)
    BY <2>1, PressSent
  <2>2. CASE ConnectToAuthServer(i) \/ (ConnectToGameLobbyServer(i) /\ m_isConnected)
    BY <2>2 DEF ConnectToAuthServer, ConnectToGameLobbyServer, ConnectToServer, PressInv
  <2>3. CASE \/ (ConnectToGameLobbyServer(i) /\ ~m_isConnected)
             \/ StoreLobby(i) \/ SetUitype(i) \/ ProcessRunner(i)
    <3>1. /\ UNCHANGED <<sendQueue, reordered, lastPress, admitted, currentSocket, waiting>>
          /\ jobs' = RemoveAt(jobs, i) /\ jobs[i].event # "SendPacket"
      BY <2>3 DEF ConnectToGameLobbyServer, StoreLobby, SetUitype, ProcessRunner, socketVars, lobbyVars,
                  pressHist
    <3>2. jobs[i].arg \notin RoomRequests
      BY <3>1, JobsChange, JobTypes
    <3>3. QED
      BY <3>1, <3>2, PressKept
  <2>4. CASE ConnectToGameLobbyServer(i)
    <3>1. CASE m_isConnected
      BY <2>2, <2>4, <3>1
    <3>2. CASE ~m_isConnected
      BY <2>3, <2>4, <3>2
    <3>3. QED
      BY <3>1, <3>2
  <2>5. QED
    BY <1>6, <2>1, <2>2, <2>3, <2>4 DEF Triggered
<1>7. CASE User
  <2>1. CASE PressLogin \/ PressBack
    <3>1. UNCHANGED <<jobs, sendQueue, reordered, lastPress, admitted, currentSocket, waiting>>
      BY <2>1 DEF PressLogin, PressBack, threadVars, socketVars, lobbyVars, pressHist
    <3>2. QED
      BY <3>1, PressKept
  <2>2. ASSUME NEW p \in RoomRequests, PressRequest(p) PROVE PressInv'
    BY <2>2, PressPressed
  <2>3. ASSUME NEW p \in Buttons \ RoomRequests, PressRequest(p) PROVE PressInv'
    <3>1. /\ UNCHANGED <<sendQueue, reordered, lastPress, admitted, currentSocket, waiting>>
          /\ jobs' = Append(jobs, Job("SendPacket", p))
      BY <2>3 DEF PressRequest, Triggers, socketVars, lobbyVars, pressHist
    <3>2. Job("SendPacket", p) \in Jobs /\ Job("SendPacket", p).arg \notin RoomRequests
      BY JobTypes DEF Job
    <3>3. QED
      BY <3>1, <3>2, PressKept
  <2>4. QED
    BY <1>7, <2>1, <2>2, <2>3 DEF User
<1>8. QED
  BY <1>1, <1>2, <1>3, <1>4, <1>5, <1>6, <1>7 DEF Next

(* Once the threads are done, screen and room are what the last answer or   *)
(* button asks, unless a younger thread ran before an older one.            *)
THEOREM EffectsOfTheLast == Spec => []EffectsInOrder
<1> DEFINE Inv == Typed /\ ScreenInv /\ PressInv
<1>1. Init => Inv
  BY TypeOKInit, TypeParts, EffectsInit DEF Typed
<1>2. Inv /\ [Next]_vars => Inv'
  BY TypedNext, ScreenInvNext, PressInvNext
<1>3. Inv => EffectsInOrder
  <2>1. SUFFICES ASSUME Inv PROVE EffectsInOrder
    OBVIOUS
  <2>2. ScreenIsLatest
    BY <2>1, JobKinds DEF Typed, ScreenInv, ScreenIsLatest
  <2>3. ASSUME lastPress # "none", ~Pending("SendPacket"), sendQueue = <<>>, ~reordered
        PROVE  waiting <=> lastPress = "JoinRoom"
    <3>1. Free(jobs, RoomJobs) /\ Free(sendQueue, RoomRequests)
      BY <2>1, <2>3, JobKinds, EmptyStreams DEF Typed, Free
    <3>2. QED
      BY <2>1, <2>3, <3>1 DEF PressInv
  <2>4. QED
    BY <2>2, <2>3 DEF EffectsInOrder, LastPressCounts
<1>4. QED
  BY <1>1, <1>2, <1>3, PTL DEF Spec

-----------------------------------------------------------------------------
(* The way into the lobby: connections and event loop *)

(* What a connection shows of its past.                                     *)
Sound(c) ==
  /\ c.at = "unused" => c = Unused
  /\ c.at = "connecting" => c.events = {}
  /\ "FAILED" \in c.events => c.at = "failed"
  /\ c.at = "leaving" => c.server = AUTH
  /\ c.at = "failed" => c.events \subseteq {"FAILED"}

SocketInv == \A s \in Sockets : Sound(sockets[s])

(* The event loop enumerates before it handles, and what it handles is of a *)
(* socket that cannot connect or fail any more.  Until the launcher knows   *)
(* its auth server it has no other socket.                                  *)
LoopInv ==
  /\ loop.at = "wait" => loop = Idle
  /\ loop.at = "enumerate" => loop.events = {}
  /\ loop.at = "handle" =>
       /\ loop.sock # 0 /\ loop.events # {}
       /\ sockets[loop.sock].at \notin {"unused", "connecting"}
       /\ sockets[loop.sock].events \cap {"CONNECT", "FAILED"} = {}
  /\ "FAILED" \in loop.events => loop.events = {"FAILED"}
  /\ CurrentState = ROUTINE => loop.sock \in {0, currentSocket}

LEMMA LoopFacts ==
  ASSUME LoopInv, loop \in Steps
  PROVE  /\ loop.events # {} => loop.at = "handle"
         /\ loop.at = "handle" => loop.sock \in Sockets
BY SocketTypes DEF LoopInv, Steps, Idle

LEMMA SoundFresh ==
  /\ Sound(Unused) /\ \A server \in Servers : Sound(Connecting(server))
  /\ \A server \in Servers : /\ Connecting(server).at = "connecting" /\ Connecting(server).events = {}
                             /\ Connecting(server).server = server /\ Connecting(server).inbox = <<>>
  /\ Unused.at = "unused" /\ Unused.events = {} /\ Unused.server = ROUTINE /\ Unused.inbox = <<>>
BY DEF Sound, Unused, Connecting, Servers

LEMMA SoundThen == (\A q \in Sockets : Sound(sockets'[q])) => SocketInv'
BY DEF SocketInv, Sound, Unused

LEMMA WorldInit == Init => SocketInv /\ LoopInv
<1>1. Init => SocketInv
  BY SoundFresh DEF Init, SocketInv, Servers
<1>2. Init => LoopInv
  BY DEF Init, LoopInv, Idle
<1>3. QED
  BY <1>1, <1>2

(* What the three ways to change one connection make of it.                 *)
LEMMA HappensTo ==
  ASSUME SocketsOK, NEW s \in Sockets, NEW at, NEW event, Happens(s, at, event)
  PROVE  /\ sockets'[s].at = at /\ sockets'[s].events = sockets[s].events \cup {event}
         /\ sockets'[s].server = sockets[s].server /\ sockets'[s].inbox = sockets[s].inbox
         /\ \A q \in Sockets : q # s => sockets'[q] = sockets[q]
         /\ signalled' = TRUE
BY DEF Happens, SocketsOK, Connections

LEMMA ArriveTo ==
  ASSUME SocketsOK, NEW s \in Sockets, NEW answers, Arrive(s, answers)
  PROVE  /\ sockets'[s].inbox = sockets[s].inbox \o answers
         /\ sockets'[s].events = sockets[s].events \cup {"READ"}
         /\ sockets'[s].server = sockets[s].server
         /\ sockets'[s].at = IF answers = <<"Login_Succeeded">> THEN "leaving" ELSE sockets[s].at
         /\ \A q \in Sockets : q # s => sockets'[q] = sockets[q]
         /\ signalled' = TRUE
BY DEF Arrive, SocketsOK, Connections

LEMMA EnumerateTo ==
  ASSUME SocketsOK, loop \in Steps, Enumerate
  PROVE  /\ loop.sock \in Sockets /\ Link(loop.sock) = sockets[loop.sock]
         /\ sockets'[loop.sock].events = {} /\ sockets'[loop.sock].at = sockets[loop.sock].at
         /\ sockets'[loop.sock].server = sockets[loop.sock].server
         /\ sockets'[loop.sock].inbox = sockets[loop.sock].inbox
         /\ \A q \in Sockets : q # loop.sock => sockets'[q] = sockets[q]
         /\ loop' = Handling(sockets[loop.sock].events)
         /\ sockets[loop.sock] # Unused
<1>1. loop.sock \in Sockets /\ Link(loop.sock) = sockets[loop.sock] /\ sockets[loop.sock] # Unused
  BY Linked DEF Enumerate, Steps
<1>2. QED
  BY <1>1 DEF Enumerate, SocketsOK, Connections

LEMMA ReceiveTo ==
  ASSUME SocketsOK, WhereOK, NEW k, Receive(k), k \in 1 .. 2
  PROVE  /\ currentSocket \in Sockets /\ Link(currentSocket) = sockets[currentSocket]
         /\ sockets'[currentSocket].events = sockets[currentSocket].events
         /\ sockets'[currentSocket].at = sockets[currentSocket].at
         /\ sockets'[currentSocket].server = sockets[currentSocket].server
         /\ sockets'[currentSocket].inbox = After(sockets[currentSocket].inbox, k)
         /\ data_queue' = Append(data_queue, Head(sockets[currentSocket].inbox))
         /\ sockets[currentSocket].inbox \in Seq(Answers)
         /\ k \in 1 .. Len(sockets[currentSocket].inbox)
         /\ \A q \in Sockets : q # currentSocket => sockets'[q] = sockets[q]
<1>1. currentSocket # 0
  BY EmptyStreams DEF Receive, Link, Unused
<1>2. currentSocket \in Sockets /\ Link(currentSocket) = sockets[currentSocket]
  BY <1>1, Linked DEF WhereOK
<1>3. sockets[currentSocket].inbox \in Seq(Answers)
  BY <1>2 DEF SocketsOK, Connections
<1>4. k \in 1 .. Len(sockets[currentSocket].inbox)
  BY <1>2, <1>3, LenProperties DEF Receive
<1>5. QED
  BY <1>2, <1>3, <1>4 DEF Receive, After, SocketsOK, Connections

(* A new connection takes the place of a socket that was not open.          *)
LEMMA ConnectTo ==
  ASSUME SocketsOK, WhereOK, NEW server \in Servers, ConnectToServer(server)
  PROVE  /\ currentSocket' = NextSocket /\ NextSocket \in Sockets /\ NextSocket # 0
         /\ sockets[NextSocket].at = "unused"
         /\ sockets'[NextSocket] = Connecting(server)
         /\ \A q \in Sockets : q # NextSocket => sockets'[q] = sockets[q]
BY NextFree, SocketTypes DEF ConnectToServer, SocketsOK

LEMMA CloseTo ==
  ASSUME SocketsOK, NEW s \in 0 .. MaxSockets
  PROVE  /\ s # 0 => Closed(s)[s] = Unused
         /\ \A q \in Sockets : q # s => Closed(s)[q] = sockets[q]
         /\ Closed(s) \in [Sockets -> Connections]
BY SocketTypes, ClosedTypes DEF SocketsOK, Closed

LEMMA SendLoopTo ==
  ASSUME Typed, SendLoop
  PROVE  \/ /\ UNCHANGED <<sockets, signalled>>
            /\ Head(sendQueue) = "TryConnect" /\ Link(currentSocket).at = "up" =>
                 (Link(currentSocket).server = LOBBY => tried' = currentSocket)
            /\ Head(sendQueue) # "TryConnect" => tried' = tried
         \/ /\ currentSocket \in Sockets /\ sockets[currentSocket].at = "up"
            /\ Link(currentSocket) = sockets[currentSocket]
            /\ \E answers \in Reply(sockets[currentSocket].server, Head(sendQueue), currentSocket) :
                 Arrive(currentSocket, answers)
            /\ Head(sendQueue) = "TryConnect" =>
                 (sockets[currentSocket].server = LOBBY => tried' = currentSocket)
            /\ Head(sendQueue) # "TryConnect" => tried' = tried
<1> USE DEF Typed
<1>1. CASE Link(currentSocket).at = "up"
  <2>1. currentSocket # 0
    BY <1>1 DEF Link, Unused
  <2>2. currentSocket \in Sockets /\ Link(currentSocket) = sockets[currentSocket]
    BY <2>1, Linked DEF WhereOK
  <2>3. Serve(currentSocket, Head(sendQueue))
    BY <1>1 DEF SendLoop
  <2>4. PICK answers \in Reply(sockets[currentSocket].server, Head(sendQueue), currentSocket) :
          /\ IF answers = <<>> THEN UNCHANGED <<sockets, signalled>> ELSE Arrive(currentSocket, answers)
          /\ tried' = IF sockets[currentSocket].server = LOBBY /\ Head(sendQueue) = "TryConnect"
                      THEN currentSocket ELSE tried
    BY <2>3 DEF Serve
  <2>5. QED
    BY <1>1, <2>2, <2>4
<1>2. CASE Link(currentSocket).at # "up"
  BY <1>2 DEF SendLoop, lobbyVars
<1>3. QED
  BY <1>1, <1>2

(* A step that changes one connection at most, but not the loop.            *)
LEMMA WorldKept ==
  ASSUME SocketInv, LoopInv, loop \in Steps, UNCHANGED <<loop, CurrentState, currentSocket>>,
         NEW s \in Sockets, \A q \in Sockets : q # s => sockets'[q] = sockets[q],
         Sound(sockets'[s]),
         sockets[s].at \notin {"unused", "connecting"} =>
           /\ sockets'[s].at \notin {"unused", "connecting"}
           /\ sockets'[s].events \cap {"CONNECT", "FAILED"} \subseteq sockets[s].events
  PROVE  SocketInv' /\ LoopInv'
<1>1. \A q \in Sockets : Sound(sockets'[q])
  BY DEF SocketInv
<1>a. SocketInv'
  BY <1>1, SoundThen
<1>2. loop.at = "handle" => loop.sock \in Sockets
  BY LoopFacts
<1>3. loop.at = "handle" =>
        /\ sockets'[loop.sock].at \notin {"unused", "connecting"}
        /\ sockets'[loop.sock].events \cap {"CONNECT", "FAILED"} = {}
  <2>1. SUFFICES ASSUME loop.at = "handle"
                 PROVE  /\ sockets'[loop.sock].at \notin {"unused", "connecting"}
                        /\ sockets'[loop.sock].events \cap {"CONNECT", "FAILED"} = {}
    OBVIOUS
  <2>2. /\ sockets[loop.sock].at \notin {"unused", "connecting"}
        /\ sockets[loop.sock].events \cap {"CONNECT", "FAILED"} = {}
    BY <2>1 DEF LoopInv
  <2>3. CASE loop.sock = s
    BY <2>2, <2>3
  <2>4. CASE loop.sock # s
    BY <1>2, <2>1, <2>2, <2>4
  <2>5. QED
    BY <2>3, <2>4
<1>4. LoopInv'
  BY <1>3 DEF LoopInv, Idle
<1>5. QED
  BY <1>a, <1>4

(* A step that takes a new connection, the loop apart.                      *)
LEMMA WorldConnects ==
  ASSUME SocketInv, LoopInv, loop \in Steps, SocketsOK, WhereOK, NEW server \in Servers,
         ConnectToServer(server), loop' = loop, CurrentState' # ROUTINE
  PROVE  SocketInv' /\ LoopInv'
<1>1. /\ NextSocket \in Sockets /\ sockets[NextSocket].at = "unused"
      /\ sockets'[NextSocket] = Connecting(server)
      /\ \A q \in Sockets : q # NextSocket => sockets'[q] = sockets[q]
  BY ConnectTo
<1>2. SocketInv'
  <2>1. \A q \in Sockets : Sound(sockets'[q])
    BY <1>1, SoundFresh DEF SocketInv
  <2>2. QED
    BY <2>1, SoundThen
<1>3. loop.at = "handle" => loop.sock \in Sockets /\ sockets'[loop.sock] = sockets[loop.sock]
  <2>1. loop.at = "handle" => loop.sock \in Sockets /\ sockets[loop.sock].at # "unused"
    BY LoopFacts DEF LoopInv
  <2>2. QED
    BY <1>1, <2>1
<1>4. LoopInv'
  BY <1>3 DEF LoopInv, Idle
<1>5. QED
  BY <1>2, <1>4

LEMMA WorldNetwork ==
  ASSUME Typed, SocketInv, LoopInv, NEW s \in Sockets, Network(s)
  PROVE  SocketInv' /\ LoopInv'
<1> USE DEF Typed
<1>1. Sound(sockets[s]) /\ sockets[s].events \in SUBSET Events
  BY DEF SocketInv, SocketsOK, Connections
<1>2. CASE Accepted(s)
  <2>1. UNCHANGED <<loop, CurrentState, currentSocket>> /\ Happens(s, "up", "CONNECT")
    BY <1>2 DEF Accepted, threadVars
  <2>2. Sound(sockets'[s]) /\ sockets[s].at = "connecting"
    <3>1. sockets[s].at = "connecting" /\ sockets[s].events = {}
      BY <1>1, <1>2 DEF Accepted, Sound
    <3>2. sockets'[s].at = "up" /\ sockets'[s].events = sockets[s].events \cup {"CONNECT"}
      BY <2>1, HappensTo
    <3>3. QED
      BY <3>1, <3>2 DEF Sound
  <2>3. QED
    BY <2>1, <2>2, HappensTo, WorldKept
<1>3. CASE Refused(s)
  <2>1. UNCHANGED <<loop, CurrentState, currentSocket>> /\ Happens(s, "failed", "FAILED")
    BY <1>3 DEF Refused, threadVars
  <2>2. Sound(sockets'[s]) /\ sockets[s].at = "connecting"
    <3>1. sockets[s].at = "connecting" /\ sockets[s].events = {}
      BY <1>1, <1>3 DEF Refused, Sound
    <3>2. sockets'[s].at = "failed" /\ sockets'[s].events = sockets[s].events \cup {"FAILED"}
      BY <2>1, HappensTo
    <3>3. QED
      BY <3>1, <3>2 DEF Sound
  <2>3. QED
    BY <2>1, <2>2, HappensTo, WorldKept
<1>4. CASE PeerCloses(s)
  <2>1. UNCHANGED <<loop, CurrentState, currentSocket>> /\ Happens(s, "shut", "CLOSE")
    BY <1>4 DEF PeerCloses, threadVars
  <2>2. sockets[s].at \in {"up", "leaving"}
    BY <1>4 DEF PeerCloses
  <2>4. /\ sockets'[s].at = "shut" /\ sockets'[s].events = sockets[s].events \cup {"CLOSE"}
        /\ \A q \in Sockets : q # s => sockets'[q] = sockets[q]
    BY <2>1, HappensTo
  <2>3. Sound(sockets'[s])
    BY <1>1, <2>2, <2>4 DEF Sound
  <2>5. /\ sockets'[s].at \notin {"unused", "connecting"}
        /\ sockets'[s].events \cap {"CONNECT", "FAILED"} \subseteq sockets[s].events
    BY <2>4
  <2>6. QED
    BY <2>1, <2>3, <2>4, <2>5, WorldKept
<1>5. CASE LobbyStartsGame(s)
  <2>1. /\ UNCHANGED <<loop, CurrentState, currentSocket>> /\ Arrive(s, <<"GameCreate">>)
        /\ sockets[s].at = "up"
    BY <1>5 DEF LobbyStartsGame, threadVars
  <2>2. <<"GameCreate">> # <<"Login_Succeeded">>
    OBVIOUS
  <2>3. /\ sockets'[s].at = "up" /\ sockets'[s].events = sockets[s].events \cup {"READ"}
        /\ \A q \in Sockets : q # s => sockets'[q] = sockets[q]
    <3>1. \A a : Arrive(s, a) =>
            /\ sockets'[s].at = IF a = <<"Login_Succeeded">> THEN "leaving" ELSE sockets[s].at
            /\ sockets'[s].events = sockets[s].events \cup {"READ"}
            /\ \A q \in Sockets : q # s => sockets'[q] = sockets[q]
      BY ArriveTo
    <3>2. QED
      BY <2>1, <2>2, <3>1
  <2>4. Sound(sockets'[s])
    BY <1>1, <2>1, <2>3 DEF Sound
  <2>5. /\ sockets'[s].at \notin {"unused", "connecting"}
        /\ sockets'[s].events \cap {"CONNECT", "FAILED"} \subseteq sockets[s].events
    BY <2>3
  <2>6. QED
    BY <2>1, <2>3, <2>4, <2>5, WorldKept
<1>6. QED
  BY <1>2, <1>3, <1>4, <1>5 DEF Network

LEMMA WorldServed ==
  ASSUME Typed, SocketInv, LoopInv, SendLoop
  PROVE  SocketInv' /\ LoopInv'
<1> USE DEF Typed
<1> DEFINE s == currentSocket
<1>1. UNCHANGED <<loop, CurrentState, currentSocket>>
  BY DEF SendLoop
<1>2. CASE UNCHANGED sockets
  <2>1. \A q \in Sockets : Sound(sockets'[q])
    BY <1>2 DEF SocketInv
  <2>2. QED
    BY <1>1, <1>2, <2>1, SoundThen DEF LoopInv, Idle
<1>3. ASSUME s \in Sockets, sockets[s].at = "up",
             NEW answers \in Reply(sockets[s].server, Head(sendQueue), s), Arrive(s, answers)
      PROVE  SocketInv' /\ LoopInv'
  <2>1. answers = <<"Login_Succeeded">> => sockets[s].server = AUTH
    BY <1>3 DEF Reply
  <2>2. /\ sockets'[s].events = sockets[s].events \cup {"READ"}
        /\ sockets'[s].at = IF answers = <<"Login_Succeeded">> THEN "leaving" ELSE "up"
        /\ sockets'[s].server = sockets[s].server
        /\ \A q \in Sockets : q # s => sockets'[q] = sockets[q]
    BY <1>3, ArriveTo
  <2>3. Sound(sockets[s])
    BY <1>3 DEF SocketInv
  <2> HIDE DEF s
  <2>4. Sound(sockets'[s])
    BY <1>3, <2>1, <2>2, <2>3 DEF Sound
  <2>5. /\ sockets'[s].at \notin {"unused", "connecting"}
        /\ sockets'[s].events \cap {"CONNECT", "FAILED"} \subseteq sockets[s].events
    BY <2>2
  <2>6. QED
    BY <1>1, <1>3, <2>2, <2>4, <2>5, WorldKept
<1>4. QED
  BY <1>2, <1>3, SendLoopTo

LEMMA Handled ==
  ASSUME LoopInv, loop \in Steps, NEW e, e \in loop.events, NEW rest,
         rest \subseteq loop.events, loop' = Handling(rest)
  PROVE  /\ loop.at = "handle" /\ loop.sock \in Sockets
         /\ loop' = Idle \/ (rest # {} /\ loop' = [at |-> "handle", sock |-> loop.sock, events |-> rest])
         /\ rest = {} => loop' = Idle
BY LoopFacts DEF Handling

LEMMA WorldEventLoop ==
  ASSUME Typed, SocketInv, LoopInv, EventLoop
  PROVE  SocketInv' /\ LoopInv'
<1> USE DEF Typed
<1>1. CASE Wake
  <2>1. LoopInv'
    BY <1>1 DEF Wake, LoopInv, socketVars, Steps, Idle
  <2>2. QED
    BY <1>1, <2>1, SoundThen DEF Wake, socketVars, SocketInv
<1>2. CASE EnumerateFails
  <2>1. LoopInv'
    BY <1>2 DEF EnumerateFails, LoopInv, socketVars, Steps, Idle
  <2>2. QED
    BY <1>2, <2>1, SoundThen DEF EnumerateFails, socketVars, SocketInv
<1>3. CASE Enumerate
  <2> DEFINE s == loop.sock
  <2>1. /\ s \in Sockets /\ sockets'[s].events = {} /\ sockets'[s].at = sockets[s].at
        /\ sockets'[s].server = sockets[s].server
        /\ \A q \in Sockets : q # s => sockets'[q] = sockets[q]
        /\ loop' = Handling(sockets[s].events) /\ sockets[s] # Unused
    BY <1>3, EnumerateTo
  <2>2. Sound(sockets[s])
    BY <2>1 DEF SocketInv
  <2> HIDE DEF s
  <2>3. Sound(sockets'[s])
    BY <2>1, <2>2 DEF Sound
  <2>a. \A q \in Sockets : Sound(sockets'[q])
    BY <2>1, <2>3 DEF SocketInv
  <2>4. SocketInv'
    BY <2>a, SoundThen
  <2>5. UNCHANGED <<CurrentState, currentSocket>>
    BY <1>3 DEF Enumerate
  <2>6. CASE sockets[s].events = {}
    <3>1. loop' = Idle
      BY <2>1, <2>6 DEF Handling
    <3>2. QED
      BY <2>4, <2>5, <3>1 DEF LoopInv, Idle
  <2>7. CASE sockets[s].events # {}
    <3>1. loop' = [at |-> "handle", sock |-> s, events |-> sockets[s].events]
      BY <2>1, <2>7 DEF Handling, s
    <3>2. sockets[s].at \notin {"unused", "connecting"}
      BY <2>1, <2>2, <2>7 DEF Sound
    <3>3. "FAILED" \in sockets[s].events => sockets[s].events = {"FAILED"}
      BY <2>2 DEF Sound
    <3>4. s # 0 /\ (CurrentState = ROUTINE => s \in {0, currentSocket})
      BY <2>1, SocketTypes DEF LoopInv, s
    <3>5. QED
      BY <2>1, <2>4, <2>5, <2>7, <3>1, <3>2, <3>3, <3>4 DEF LoopInv, Idle
  <2>8. QED
    BY <2>6, <2>7
<1>4. CASE HandleConnect \/ ReceiveEnds
  <2>1. PICK e \in {"CONNECT", "READ"} : e \in loop.events /\ loop' = Handling(loop.events \ {e})
    BY <1>4 DEF HandleConnect, ReceiveEnds
  <2>2. UNCHANGED <<CurrentState, currentSocket, sockets>>
    BY <1>4 DEF HandleConnect, ReceiveEnds, socketVars
  <2>3. /\ loop.at = "handle" /\ loop.sock \in Sockets
        /\ \/ loop' = Idle
           \/ /\ loop.events \ {e} # {}
              /\ loop' = [at |-> "handle", sock |-> loop.sock, events |-> loop.events \ {e}]
    BY <2>1, Handled
  <2>4. LoopInv'
    BY <2>1, <2>2, <2>3 DEF LoopInv, Idle
  <2>5. QED
    BY <2>2, <2>4, SoundThen DEF SocketInv
<1>5. CASE HandleFailure
  <2>1. loop.events = {"FAILED"} /\ loop' = Handling({})
    <3>1. loop.events = {"FAILED"}
      BY <1>5 DEF HandleFailure, LoopInv
    <3>2. loop.events \ {"FAILED"} = {}
      BY <3>1
    <3>3. QED
      BY <1>5, <3>1, <3>2 DEF HandleFailure
  <2>2. loop' = Idle
    BY <2>1 DEF Handling
  <2>3. \A q \in Sockets : sockets'[q] \in {Unused, sockets[q]}
    BY <1>5, CloseTo, SocketTypes DEF HandleFailure, WhereOK
  <2>a. \A q \in Sockets : Sound(sockets'[q])
    BY <2>3, SoundFresh DEF SocketInv
  <2>4. SocketInv'
    BY <2>a, SoundThen
  <2>5. QED
    BY <2>2, <2>4 DEF LoopInv, Idle
<1>6. ASSUME NEW k \in 1 .. 2, Receive(k) PROVE SocketInv' /\ LoopInv'
  <2> DEFINE s == currentSocket
  <2>1. /\ s \in Sockets /\ sockets'[s].events = sockets[s].events /\ sockets'[s].at = sockets[s].at
        /\ sockets'[s].server = sockets[s].server /\ k \in 1 .. Len(sockets[s].inbox)
        /\ \A q \in Sockets : q # s => sockets'[q] = sockets[q]
    BY <1>6, ReceiveTo
  <2>2. UNCHANGED <<loop, CurrentState, currentSocket>>
    BY <1>6 DEF Receive
  <2>3. Sound(sockets[s]) /\ sockets[s].inbox # <<>>
    BY <2>1, EmptySeq DEF SocketInv
  <2> HIDE DEF s
  <2>4. Sound(sockets'[s])
    BY <2>1, <2>3 DEF Sound, Unused
  <2>5. QED
    BY <2>1, <2>2, <2>4, WorldKept
<1>7. CASE HandleClose
  <2>1. loop' = Idle /\ currentSocket # 0
    BY <1>7 DEF HandleClose
  <2>2. \A q \in Sockets : Closed(currentSocket)[q] \in {Unused, sockets[q]}
    BY CloseTo, SocketTypes DEF WhereOK
  <2>3. \A q \in Sockets : sockets'[q] \in {Unused, sockets[q], Connecting(ROUTINE)}
    <3>1. CASE CurrentState = LOBBY
      <4>1. /\ sockets' = [Closed(currentSocket) EXCEPT ![NextSocket] = Connecting(ROUTINE)]
            /\ Closed(currentSocket) \in [Sockets -> Connections]
        BY <1>7, <3>1, CloseTo DEF HandleClose, WhereOK
      <4>2. QED
        BY <2>2, <4>1
    <3>2. CASE CurrentState # LOBBY
      BY <1>7, <2>2, <3>2 DEF HandleClose
    <3>3. QED
      BY <3>1, <3>2
  <2>4. Sound(Unused) /\ Sound(Connecting(ROUTINE))
    BY SoundFresh DEF Servers
  <2>a. \A q \in Sockets : Sound(sockets'[q])
    BY <2>3, <2>4 DEF SocketInv
  <2>5. SocketInv'
    BY <2>a, SoundThen
  <2>6. QED
    BY <2>1, <2>5 DEF LoopInv, Idle
<1>8. QED
  BY <1>1, <1>2, <1>3, <1>4, <1>5, <1>6, <1>7 DEF EventLoop

-----------------------------------------------------------------------------
(* One thing at a time on the way into the lobby *)

Cur     == Link(currentSocket)
Find    == "FindAccountServer"
Logged  == "Login_Succeeded"
ToAuth  == Job("SUCESS_ROUTINEAUTH", "none")
ToLobby == Job("SUCESS_GAMELOBBY", "none")
Storing == Job("StoreLobby", "none")

(* How far the launcher is: its connection to the routing server, question, *)
(* answer, and job; the same with the auth server.                          *)
There(p) ==
  \/ p = 1 /\ CurrentState = ROUTINE
           /\ (Cur.at = "connecting" \/ "CONNECT" \in Cur.events \/ "CONNECT" \in loop.events)
  \/ p = 2 /\ In(sendQueue, Find)
  \/ p = 3 /\ In(Cur.inbox, Find)
  \/ p = 4 /\ In(data_queue, Find)
  \/ p = 5 /\ In(jobs, ToAuth)
  \/ p = 6 /\ Cur.server = AUTH /\ Cur.at \in {"connecting", "up"}
  \/ p = 7 /\ In(Cur.inbox, Logged)
  \/ p = 8 /\ In(data_queue, Logged)
  \/ p = 9 /\ In(jobs, ToLobby)
  \/ p = 10 /\ In(jobs, Storing)

Chain ==
  /\ \A p, q \in 1 .. 10 : There(p) /\ There(q) => p = q
  /\ \A p \in 1 .. 10 : There(p) => CurrentState = (IF p <= 5 THEN ROUTINE ELSE AUTH)

OnceThere ==
  /\ Once(sendQueue, Find) /\ Once(Cur.inbox, Find) /\ Once(data_queue, Find)
  /\ Once(Cur.inbox, Logged) /\ Once(data_queue, Logged)
  /\ Once(jobs, ToAuth) /\ Once(jobs, ToLobby) /\ Once(jobs, Storing)

LEMMA ServerNames == ROUTINE # AUTH /\ ROUTINE # LOBBY /\ AUTH # LOBBY
BY DEF ROUTINE, AUTH, LOBBY

LEMMA CurIs ==
  /\ currentSocket = 0 => Cur = Unused
  /\ currentSocket # 0 => Cur = sockets[currentSocket]
  /\ currentSocket' = 0 => Cur' = Unused
  /\ currentSocket' # 0 => Cur' = sockets'[currentSocket']
BY DEF Cur, Link, Unused

LEMMA ThereIs ==
  /\ There(1) <=> CurrentState = ROUTINE
                    /\ (Cur.at = "connecting" \/ "CONNECT" \in Cur.events \/ "CONNECT" \in loop.events)
  /\ There(2) <=> In(sendQueue, Find)
  /\ There(3) <=> In(Cur.inbox, Find)
  /\ There(4) <=> In(data_queue, Find)
  /\ There(5) <=> In(jobs, ToAuth)
  /\ There(6) <=> Cur.server = AUTH /\ Cur.at \in {"connecting", "up"}
  /\ There(7) <=> In(Cur.inbox, Logged)
  /\ There(8) <=> In(data_queue, Logged)
  /\ There(9) <=> In(jobs, ToLobby)
  /\ There(10) <=> In(jobs, Storing)
BY DEF There

LEMMA ThereThen ==
  /\ There(1)' <=> CurrentState' = ROUTINE
                     /\ ((Cur').at = "connecting" \/ "CONNECT" \in (Cur').events
                                                  \/ "CONNECT" \in (loop').events)
  /\ There(2)' <=> In(sendQueue', Find)
  /\ There(3)' <=> In((Cur').inbox, Find)
  /\ There(4)' <=> In(data_queue', Find)
  /\ There(5)' <=> In(jobs', ToAuth)
  /\ There(6)' <=> (Cur').server = AUTH /\ (Cur').at \in {"connecting", "up"}
  /\ There(7)' <=> In((Cur').inbox, Logged)
  /\ There(8)' <=> In(data_queue', Logged)
  /\ There(9)' <=> In(jobs', ToLobby)
  /\ There(10)' <=> In(jobs', Storing)
BY DEF There, In, Find, Logged, ToAuth, ToLobby, Storing, Job

LEMMA OnceThen ==
  OnceThere' <=>
    /\ Once(sendQueue', Find) /\ Once((Cur').inbox, Find) /\ Once(data_queue', Find)
    /\ Once((Cur').inbox, Logged) /\ Once(data_queue', Logged)
    /\ Once(jobs', ToAuth) /\ Once(jobs', ToLobby) /\ Once(jobs', Storing)
BY DEF OnceThere, Once, Find, Logged, ToAuth, ToLobby, Storing, Job

LEMMA Steps10 == \A p \in 1 .. 10 : p \in {1, 2, 3, 4, 5, 6, 7, 8, 9, 10}
OBVIOUS

LEMMA ChainStays ==
  ASSUME Chain, CurrentState' = CurrentState, \A q \in 1 .. 10 : There(q)' => There(q)
  PROVE  Chain'
BY DEF Chain

LEMMA ChainMoves ==
  ASSUME Chain, NEW p \in 1 .. 10, NEW n \in 1 .. 10, There(p), ~There(p)',
         \A q \in 1 .. 10 : q # n => (There(q)' => There(q)),
         CurrentState' = IF n <= 5 THEN ROUTINE ELSE AUTH
  PROVE  Chain'
<1>1. \A q \in 1 .. 10 : There(q)' => q = n
  BY DEF Chain
<1>2. QED
  BY <1>1 DEF Chain

(* t holds no more of e than s.                                             *)
Less(s, t, e) == (In(t, e) => In(s, e)) /\ (Once(s, e) => Once(t, e))

LEMMA LessOrGone ==
  /\ \A s, e : Less(s, s, e)
  /\ \A s, e : Less(s, <<>>, e)
BY EmptyStreams DEF Less, In, Once

(* The step gains nothing, but for what connections and loop show.          *)
LEMMA NothingGained ==
  ASSUME Chain, OnceThere, CurrentState' = CurrentState,
         There(1)' => There(1), There(6)' => There(6),
         Less(sendQueue, sendQueue', Find),
         Less(Cur.inbox, (Cur').inbox, Find), Less(Cur.inbox, (Cur').inbox, Logged),
         Less(data_queue, data_queue', Find), Less(data_queue, data_queue', Logged),
         Less(jobs, jobs', ToAuth), Less(jobs, jobs', ToLobby), Less(jobs, jobs', Storing)
  PROVE  Chain' /\ OnceThere'
<1>1. \A q \in 1 .. 10 : There(q)' => There(q)
  BY ThereIs, ThereThen, Steps10 DEF Less
<1>2. OnceThere'
  BY OnceThen DEF OnceThere, Less
<1>3. QED
  BY <1>1, <1>2, ChainStays

LEMMA ChainInit == Init => Chain /\ OnceThere
<1> SUFFICES ASSUME Init PROVE Chain /\ OnceThere
  OBVIOUS
<1>1. /\ sendQueue = <<>> /\ data_queue = <<>> /\ jobs = <<>> /\ CurrentState = ROUTINE
      /\ Cur = Connecting(ROUTINE)
  BY CurIs, LauncherAssumption DEF Init, Sockets
<1>2. Cur.inbox = <<>> /\ Cur.server # AUTH
  BY <1>1, SoundFresh, ServerNames DEF Servers
<1>3. \A e : ~In(<<>>, e) /\ Once(<<>>, e)
  BY EmptyStreams DEF In, Once
<1>4. OnceThere
  BY <1>1, <1>2, <1>3 DEF OnceThere
<1>5. \A p \in 1 .. 10 : There(p) => p = 1
  BY <1>1, <1>2, <1>3, ThereIs, Steps10
<1>6. QED
  BY <1>1, <1>4, <1>5 DEF Chain

(* The lists of things passed on, changed by one.                           *)
LEMMA LessLists ==
  ASSUME QueuesOK, NEW e
  PROVE  /\ \A j \in Jobs : j # e => Less(jobs, Append(jobs, j), e)
         /\ \A i \in DOMAIN jobs : Less(jobs, RemoveAt(jobs, i), e)
         /\ \A i \in DOMAIN jobs : Once(jobs, e) /\ jobs[i] = e => ~In(RemoveAt(jobs, i), e)
         /\ \A j \in Jobs : Once(jobs, e) /\ ~In(jobs, e) => Once(Append(jobs, j), e)
         /\ \A p \in Requests : p # e => Less(sendQueue, Append(sendQueue, p), e)
         /\ sendQueue # <<>> => Less(sendQueue, Tail(sendQueue), e)
         /\ sendQueue # <<>> /\ Head(sendQueue) = e =>
              In(sendQueue, e) /\ (Once(sendQueue, e) => ~In(Tail(sendQueue), e))
         /\ data_queue # <<>> => Less(data_queue, Tail(data_queue), e)
         /\ data_queue # <<>> /\ Head(data_queue) = e =>
              In(data_queue, e) /\ (Once(data_queue, e) => ~In(Tail(data_queue), e))
<1>1. ASSUME NEW j \in Jobs PROVE /\ j # e => Less(jobs, Append(jobs, j), e)
                                  /\ Once(jobs, e) /\ ~In(jobs, e) => Once(Append(jobs, j), e)
  BY AppendedIn DEF QueuesOK, Less
<1>2. ASSUME NEW i \in DOMAIN jobs
      PROVE  /\ Less(jobs, RemoveAt(jobs, i), e)
             /\ Once(jobs, e) /\ jobs[i] = e => ~In(RemoveAt(jobs, i), e)
  BY RemovedIn DEF QueuesOK, Less
<1>3. ASSUME NEW p \in Requests, p # e PROVE Less(sendQueue, Append(sendQueue, p), e)
  BY <1>3, AppendedIn DEF QueuesOK, Less
<1>4. ASSUME sendQueue # <<>>
      PROVE  /\ Less(sendQueue, Tail(sendQueue), e)
             /\ Head(sendQueue) = e =>
                  In(sendQueue, e) /\ (Once(sendQueue, e) => ~In(Tail(sendQueue), e))
  <2>1. Tail(sendQueue) = After(sendQueue, 1) /\ 1 \in 1 .. Len(sendQueue)
    BY <1>4, Tailed DEF QueuesOK
  <2>2. /\ In(sendQueue, Head(sendQueue))
        /\ In(After(sendQueue, 1), e) => In(sendQueue, e)
        /\ Once(sendQueue, e) => Once(After(sendQueue, 1), e)
                                 /\ ~(Head(sendQueue) = e /\ In(After(sendQueue, 1), e))
    BY <2>1, RestIn DEF QueuesOK
  <2>3. QED
    BY <2>1, <2>2 DEF Less
<1>5. ASSUME data_queue # <<>>
      PROVE  /\ Less(data_queue, Tail(data_queue), e)
             /\ Head(data_queue) = e =>
                  In(data_queue, e) /\ (Once(data_queue, e) => ~In(Tail(data_queue), e))
  <2>1. Tail(data_queue) = After(data_queue, 1) /\ 1 \in 1 .. Len(data_queue)
    BY <1>5, Tailed DEF QueuesOK
  <2>2. /\ In(data_queue, Head(data_queue))
        /\ In(After(data_queue, 1), e) => In(data_queue, e)
        /\ Once(data_queue, e) => Once(After(data_queue, 1), e)
                                  /\ ~(Head(data_queue) = e /\ In(After(data_queue, 1), e))
    BY <2>1, RestIn DEF QueuesOK
  <2>3. QED
    BY <2>1, <2>2 DEF Less
<1>6. QED
  BY <1>1, <1>2, <1>3, <1>4, <1>5

(* A step that changes one connection at most, and passes nothing on.       *)
LEMMA ChainKept ==
  ASSUME Typed, Chain, OnceThere,
         UNCHANGED <<loop, CurrentState, currentSocket, sendQueue, data_queue, jobs>>,
         NEW s \in Sockets, \A q \in Sockets : q # s => sockets'[q] = sockets[q],
         sockets'[s].server = sockets[s].server,
         Less(sockets[s].inbox, sockets'[s].inbox, Find),
         Less(sockets[s].inbox, sockets'[s].inbox, Logged),
         sockets'[s].at = "connecting" \/ "CONNECT" \in sockets'[s].events =>
           sockets[s].at = "connecting" \/ "CONNECT" \in sockets[s].events,
         sockets'[s].at \in {"connecting", "up"} => sockets[s].at \in {"connecting", "up"}
  PROVE  Chain' /\ OnceThere'
<1> USE DEF Typed
<1>1. Cur' = Cur \/ (Cur = sockets[s] /\ Cur' = sockets'[s])
  <2>1. CASE currentSocket = 0
    BY <2>1, CurIs
  <2>2. CASE currentSocket # 0 /\ currentSocket # s
    <3>1. currentSocket \in Sockets
      BY <2>2, SocketTypes DEF WhereOK
    <3>2. QED
      BY <2>2, <3>1, CurIs
  <2>3. CASE currentSocket # 0 /\ currentSocket = s
    BY <2>3, CurIs
  <2>4. QED
    BY <2>1, <2>2, <2>3
<1>2. Less(Cur.inbox, (Cur').inbox, Find) /\ Less(Cur.inbox, (Cur').inbox, Logged)
  BY <1>1, LessOrGone
<1>3. (There(1)' => There(1)) /\ (There(6)' => There(6))
  BY <1>1, ThereIs, ThereThen
<1>4. /\ Less(sendQueue, sendQueue', Find)
      /\ Less(data_queue, data_queue', Find) /\ Less(data_queue, data_queue', Logged)
      /\ Less(jobs, jobs', ToAuth) /\ Less(jobs, jobs', ToLobby) /\ Less(jobs, jobs', Storing)
  BY LessOrGone
<1>5. QED
  BY <1>2, <1>3, <1>4, NothingGained

LEMMA AnswersLess ==
  ASSUME NEW in \in Seq(Answers), NEW more \in Seq(Answers), NEW e,
         \A i \in DOMAIN more : more[i] # e
  PROVE  Less(in, in \o more, e)
<1> DEFINE t == in \o more
<1>1. /\ Len(in) \in Nat /\ Len(more) \in Nat /\ DOMAIN in = 1 .. Len(in) /\ DOMAIN more = 1 .. Len(more)
  BY LenProperties
<1>2. /\ t \in Seq(Answers) /\ Len(t) = Len(in) + Len(more)
      /\ \A i \in 1 .. Len(in) + Len(more) : t[i] = IF i <= Len(in) THEN in[i] ELSE more[i - Len(in)]
  BY ConcatProperties
<1>3. DOMAIN t = 1 .. Len(in) + Len(more)
  BY <1>2, LenProperties
<1> HIDE DEF t
<1>4. ASSUME NEW i \in DOMAIN t, t[i] = e PROVE i \in DOMAIN in /\ in[i] = e
  <2>1. CASE i <= Len(in)
    BY <1>1, <1>2, <1>3, <1>4, <2>1
  <2>2. CASE ~(i <= Len(in))
    <3>1. i - Len(in) \in DOMAIN more /\ t[i] = more[i - Len(in)]
      BY <1>1, <1>2, <1>3, <2>2
    <3>2. QED
      BY <1>4, <3>1
  <2>3. QED
    BY <2>1, <2>2
<1>5. In(t, e) => In(in, e)
  BY <1>4 DEF In
<1>6. Once(in, e) => Once(t, e)
  BY <1>4 DEF Once
<1>7. QED
  BY <1>5, <1>6 DEF Less, t

LEMMA AnswersOne ==
  ASSUME NEW in \in Seq(Answers), NEW e \in Answers, Once(in, e), ~In(in, e)
  PROVE  Once(in \o <<e>>, e) /\ \A d : d # e => Less(in, in \o <<e>>, d)
<1>1. in \o <<e>> = Append(in, e)
  BY AppendIsConcat
<1>2. Once(Append(in, e), e)
  BY AppendedIn
<1>3. ASSUME NEW d, d # e PROVE Less(in, Append(in, e), d)
  BY <1>3, AppendedIn DEF Less
<1>4. QED
  BY <1>1, <1>2, <1>3

LEMMA ChainNetwork ==
  ASSUME Typed, Chain, OnceThere, NEW s \in Sockets, Network(s)
  PROVE  Chain' /\ OnceThere'
<1> USE DEF Typed
<1>1. CASE Accepted(s) \/ Refused(s) \/ PeerCloses(s)
  <2>1. UNCHANGED <<loop, CurrentState, currentSocket, sendQueue, data_queue, jobs>>
    BY <1>1 DEF Accepted, Refused, PeerCloses, threadVars
  <2>2. \E at, event : /\ Happens(s, at, event)
                       /\ \/ at \in {"up", "failed"} /\ sockets[s].at = "connecting"
                          \/ at = "shut" /\ event = "CLOSE"
    BY <1>1 DEF Accepted, Refused, PeerCloses
  <2>3. /\ sockets'[s].server = sockets[s].server /\ sockets'[s].inbox = sockets[s].inbox
        /\ sockets'[s].at = "connecting" \/ "CONNECT" \in sockets'[s].events =>
             sockets[s].at = "connecting" \/ "CONNECT" \in sockets[s].events
        /\ sockets'[s].at \in {"connecting", "up"} => sockets[s].at \in {"connecting", "up"}
        /\ \A q \in Sockets : q # s => sockets'[q] = sockets[q]
    <3>1. PICK at, event : /\ Happens(s, at, event)
                           /\ \/ at \in {"up", "failed"} /\ sockets[s].at = "connecting"
                              \/ at = "shut" /\ event = "CLOSE"
      BY <2>2
    <3>2. /\ sockets'[s].at = at /\ sockets'[s].events = sockets[s].events \cup {event}
          /\ sockets'[s].server = sockets[s].server /\ sockets'[s].inbox = sockets[s].inbox
          /\ \A q \in Sockets : q # s => sockets'[q] = sockets[q]
      BY <3>1, HappensTo
    <3>3. QED
      BY <3>1, <3>2
  <2>4. QED
    BY <2>1, <2>3, LessOrGone, ChainKept
<1>2. CASE LobbyStartsGame(s)
  <2>1. UNCHANGED <<loop, CurrentState, currentSocket, sendQueue, data_queue, jobs>>
    BY <1>2 DEF LobbyStartsGame, threadVars
  <2>2. /\ sockets'[s].inbox = sockets[s].inbox \o <<"GameCreate">>
        /\ sockets'[s].events = sockets[s].events \cup {"READ"}
        /\ sockets'[s].server = sockets[s].server
        /\ sockets'[s].at \in {"leaving", sockets[s].at}
        /\ \A q \in Sockets : q # s => sockets'[q] = sockets[q]
    <3>1. \A a : Arrive(s, a) =>
            /\ sockets'[s].inbox = sockets[s].inbox \o a
            /\ sockets'[s].events = sockets[s].events \cup {"READ"}
            /\ sockets'[s].server = sockets[s].server
            /\ sockets'[s].at = IF a = <<"Login_Succeeded">> THEN "leaving" ELSE sockets[s].at
            /\ \A q \in Sockets : q # s => sockets'[q] = sockets[q]
      BY ArriveTo
    <3>2. QED
      BY <1>2, <3>1 DEF LobbyStartsGame
  <2>3. sockets[s].inbox \in Seq(Answers) /\ <<"GameCreate">> \in Seq(Answers)
    BY DEF SocketsOK, Connections, Answers
  <2>4. \A i \in DOMAIN <<"GameCreate">> : <<"GameCreate">>[i] # Find /\ <<"GameCreate">>[i] # Logged
    BY DEF Find, Logged
  <2>5. Less(sockets[s].inbox, sockets'[s].inbox, Find) /\ Less(sockets[s].inbox, sockets'[s].inbox, Logged)
    BY <2>2, <2>3, <2>4, AnswersLess
  <2>6. QED
    BY <2>1, <2>2, <2>5, ChainKept
<1>3. QED
  BY <1>1, <1>2 DEF Network

LEMMA ChainServed ==
  ASSUME Typed, Chain, OnceThere, SendLoop
  PROVE  Chain' /\ OnceThere'
<1> USE DEF Typed
<1> DEFINE in == sockets[currentSocket].inbox
<1>1. /\ UNCHANGED <<loop, CurrentState, currentSocket, data_queue, jobs>>
      /\ sendQueue # <<>> /\ sendQueue' = Tail(sendQueue)
  BY DEF SendLoop
<1>2. /\ Less(sendQueue, sendQueue', Find)
      /\ Less(data_queue, data_queue', Find) /\ Less(data_queue, data_queue', Logged)
      /\ Less(jobs, jobs', ToAuth) /\ Less(jobs, jobs', ToLobby) /\ Less(jobs, jobs', Storing)
  BY <1>1, LessOrGone, LessLists
<1>3. CASE UNCHANGED sockets
  <2>1. Cur' = Cur
    BY <1>1, <1>3, CurIs
  <2>2. QED
    BY <1>1, <1>2, <2>1, LessOrGone, NothingGained, ThereIs, ThereThen
<1>4. ASSUME currentSocket \in Sockets, sockets[currentSocket].at = "up",
             NEW answers \in Reply(sockets[currentSocket].server, Head(sendQueue), currentSocket),
             Arrive(currentSocket, answers)
      PROVE  Chain' /\ OnceThere'
  <2>1. Cur = sockets[currentSocket] /\ Cur' = sockets'[currentSocket]
    BY <1>1, <1>4, CurIs, SocketTypes
  <2>2. in \in Seq(Answers) /\ answers \in Seq(Answers)
    BY <1>4, Replies DEF SocketsOK, Connections
  <2>3. /\ Cur.inbox = in /\ (Cur').inbox = in \o answers
        /\ (Cur').events = Cur.events \cup {"READ"} /\ (Cur').server = Cur.server
        /\ (Cur').at = IF answers = <<"Login_Succeeded">> THEN "leaving" ELSE "up"
    BY <1>4, <2>1, ArriveTo
  <2>4. /\ There(1)' => There(1)
        /\ There(6)' => There(6)
        /\ answers = <<"Login_Succeeded">> => ~There(6)'
    BY <1>1, <1>4, <2>1, <2>3, ThereIs, ThereThen
  <2>5. CASE answers = <<"FindAccountServer">>
    <3>1. Head(sendQueue) = Find
      BY <1>4, <2>5 DEF Reply, Find
    <3>2. There(2) /\ ~There(2)' /\ CurrentState' = ROUTINE
      <4>1. In(sendQueue, Find) /\ ~In(sendQueue', Find)
        BY <1>1, <3>1, LessLists DEF OnceThere
      <4>2. QED
        BY <1>1, <4>1, ThereIs, ThereThen DEF Chain
    <3>3. ~In(in, Find) /\ Find \in Answers /\ answers = <<Find>> /\ Find # Logged
      <4>1. ~There(3)
        BY <3>2 DEF Chain
      <4>2. QED
        BY <2>3, <2>5, <4>1, ThereIs DEF Find, Logged, Answers
    <3>4. Once((Cur').inbox, Find) /\ Less(Cur.inbox, (Cur').inbox, Logged)
      BY <2>2, <2>3, <3>3, AnswersOne DEF OnceThere
    <3>5. \A q \in 1 .. 10 : q # 3 => (There(q)' => There(q))
      BY <1>2, <2>4, <3>4, ThereIs, ThereThen, Steps10 DEF Less
    <3>6. Chain'
      <4>1. 2 \in 1 .. 10 /\ 3 \in 1 .. 10 /\ CurrentState' = IF 3 <= 5 THEN ROUTINE ELSE AUTH
        BY <3>2
      <4>2. QED
        BY <3>2, <3>5, <4>1, ChainMoves
    <3>7. OnceThere'
      BY <1>2, <3>4, OnceThen DEF OnceThere, Less
    <3>8. QED
      BY <3>6, <3>7
  <2>6. CASE answers = <<"Login_Succeeded">>
    <3>1. sockets[currentSocket].server = AUTH
      BY <1>4, <2>6 DEF Reply
    <3>2. There(6) /\ ~There(6)' /\ CurrentState' = AUTH
      <4>1. There(6)
        BY <1>4, <2>1, <3>1, ThereIs
      <4>2. QED
        BY <1>1, <2>4, <2>6, <4>1 DEF Chain
    <3>3. ~In(in, Logged) /\ Logged \in Answers /\ answers = <<Logged>> /\ Find # Logged
      <4>1. ~There(7)
        BY <3>2 DEF Chain
      <4>2. QED
        BY <2>3, <2>6, <4>1, ThereIs DEF Find, Logged, Answers
    <3>4. Once((Cur').inbox, Logged) /\ Less(Cur.inbox, (Cur').inbox, Find)
      BY <2>2, <2>3, <3>3, AnswersOne DEF OnceThere
    <3>5. \A q \in 1 .. 10 : q # 7 => (There(q)' => There(q))
      BY <1>2, <2>4, <3>4, ThereIs, ThereThen, Steps10 DEF Less
    <3>6. Chain'
      <4>1. 6 \in 1 .. 10 /\ 7 \in 1 .. 10 /\ CurrentState' = IF 7 <= 5 THEN ROUTINE ELSE AUTH
        BY <3>2
      <4>2. QED
        BY <3>2, <3>5, <4>1, ChainMoves
    <3>7. OnceThere'
      BY <1>2, <3>4, OnceThen DEF OnceThere, Less
    <3>8. QED
      BY <3>6, <3>7
  <2>7. CASE answers \notin {<<"FindAccountServer">>, <<"Login_Succeeded">>}
    <3>1. answers \in {<<>>, <<"Login_Failed">>, <<"CheckSession_Succeeded">>,
                       <<"JoinRoom_Succeeded">>, <<"GameCreate", "JoinRoom_Succeeded">>}
      BY <1>4, <2>7 DEF Reply
    <3>2. \A i \in DOMAIN answers : answers[i] # Find /\ answers[i] # Logged
      BY <3>1, EmptyStreams DEF Find, Logged
    <3>3. Less(Cur.inbox, (Cur').inbox, Find) /\ Less(Cur.inbox, (Cur').inbox, Logged)
      BY <2>2, <2>3, <3>2, AnswersLess
    <3>4. QED
      BY <1>1, <1>2, <2>4, <3>3, NothingGained
  <2>8. QED
    BY <2>5, <2>6, <2>7
<1>5. QED
  BY <1>3, <1>4, SendLoopTo

(* The two answers that matter leave the connection for data_queue.         *)
LEMMA ChainReceived ==
  ASSUME Typed, Chain, OnceThere, NEW k \in 1 .. 2, Receive(k)
  PROVE  Chain' /\ OnceThere'
<1> USE DEF Typed
<1> DEFINE in == sockets[currentSocket].inbox
<1>1. UNCHANGED <<loop, CurrentState, currentSocket, sendQueue, jobs>>
  BY DEF Receive
<1>2. /\ currentSocket \in Sockets
      /\ sockets'[currentSocket].events = sockets[currentSocket].events
      /\ sockets'[currentSocket].at = sockets[currentSocket].at
      /\ sockets'[currentSocket].server = sockets[currentSocket].server
      /\ sockets'[currentSocket].inbox = After(in, k)
      /\ data_queue' = Append(data_queue, Head(in))
      /\ in \in Seq(Answers) /\ k \in 1 .. Len(in)
  BY ReceiveTo
<1>3. Cur = sockets[currentSocket] /\ Cur' = sockets'[currentSocket]
  BY <1>1, <1>2, CurIs, SocketTypes
<1> DEFINE x == Head(in)
<1>4. x \in Answers /\ data_queue \in Seq(Answers)
  BY <1>2, Rest DEF QueuesOK
<1>5. \A e : Less(Cur.inbox, (Cur').inbox, e) /\ (x = e => In(Cur.inbox, e))
             /\ (Once(Cur.inbox, e) => ~(x = e /\ In((Cur').inbox, e)))
  <2>1. ASSUME NEW e
        PROVE  /\ In(in, Head(in))
               /\ In(After(in, k), e) => In(in, e)
               /\ Once(in, e) => Once(After(in, k), e) /\ ~(Head(in) = e /\ In(After(in, k), e))
    BY <1>2, RestIn
  <2>2. Cur.inbox = in /\ (Cur').inbox = After(in, k)
    BY <1>2, <1>3
  <2> HIDE DEF in
  <2>3. QED
    BY <2>1, <2>2 DEF Less
<1>6. (There(1)' <=> There(1)) /\ (There(6)' <=> There(6))
  BY <1>1, <1>2, <1>3, ThereIs, ThereThen
<1>7. /\ Less(sendQueue, sendQueue', Find)
      /\ Less(jobs, jobs', ToAuth) /\ Less(jobs, jobs', ToLobby) /\ Less(jobs, jobs', Storing)
  BY <1>1, LessOrGone
<1>8. data_queue' = Append(data_queue, x)
  BY <1>2
<1> HIDE DEF x, in
<1>9. \A e : /\ x # e => Less(data_queue, data_queue', e)
             /\ Once(data_queue, e) /\ ~In(data_queue, e) => Once(data_queue', e)
  BY <1>4, <1>8, AppendedIn DEF Less
<1>10. Find # Logged
  BY DEF Find, Logged
<1>11. CASE x = Find
  <2>1. There(3) /\ ~There(3)' /\ CurrentState' = ROUTINE
    <3>1. In(Cur.inbox, Find) /\ ~In((Cur').inbox, Find)
      BY <1>5, <1>11 DEF OnceThere
    <3>2. QED
      BY <1>1, <3>1, ThereIs, ThereThen DEF Chain
  <2>2. Less(data_queue, data_queue', Logged) /\ Once(data_queue', Find)
    <3>1. ~There(4)
      BY <2>1 DEF Chain
    <3>2. QED
      BY <1>9, <1>10, <1>11, <3>1, ThereIs DEF OnceThere
  <2>3. \A q \in 1 .. 10 : q # 4 => (There(q)' => There(q))
    BY <1>5, <1>6, <1>7, <2>2, ThereIs, ThereThen, Steps10 DEF Less
  <2>4. Chain'
    <3>1. 3 \in 1 .. 10 /\ 4 \in 1 .. 10 /\ CurrentState' = IF 4 <= 5 THEN ROUTINE ELSE AUTH
      BY <2>1
    <3>2. QED
      BY <2>1, <2>3, <3>1, ChainMoves
  <2>5. OnceThere'
    BY <1>5, <1>7, <2>2, OnceThen DEF OnceThere, Less
  <2>6. QED
    BY <2>4, <2>5
<1>12. CASE x = Logged
  <2>1. There(7) /\ ~There(7)' /\ CurrentState' = AUTH
    <3>1. In(Cur.inbox, Logged) /\ ~In((Cur').inbox, Logged)
      BY <1>5, <1>12 DEF OnceThere
    <3>2. QED
      BY <1>1, <3>1, ThereIs, ThereThen DEF Chain
  <2>2. Less(data_queue, data_queue', Find) /\ Once(data_queue', Logged)
    <3>1. ~There(8)
      BY <2>1 DEF Chain
    <3>2. QED
      BY <1>9, <1>10, <1>12, <3>1, ThereIs DEF OnceThere
  <2>3. \A q \in 1 .. 10 : q # 8 => (There(q)' => There(q))
    BY <1>5, <1>6, <1>7, <2>2, ThereIs, ThereThen, Steps10 DEF Less
  <2>4. Chain'
    <3>1. 7 \in 1 .. 10 /\ 8 \in 1 .. 10 /\ CurrentState' = IF 8 <= 5 THEN ROUTINE ELSE AUTH
      BY <2>1
    <3>2. QED
      BY <2>1, <2>3, <3>1, ChainMoves
  <2>5. OnceThere'
    BY <1>5, <1>7, <2>2, OnceThen DEF OnceThere, Less
  <2>6. QED
    BY <2>4, <2>5
<1>13. CASE x # Find /\ x # Logged
  BY <1>1, <1>5, <1>6, <1>7, <1>9, <1>13, NothingGained
<1>14. QED
  BY <1>11, <1>12, <1>13

LEMMA JobNames ==
  /\ ToAuth # ToLobby /\ ToAuth # Storing /\ ToLobby # Storing
  /\ ToAuth \in Jobs /\ ToLobby \in Jobs /\ Storing \in Jobs
  /\ \A j \in Jobs : /\ j.event = "SUCESS_ROUTINEAUTH" <=> j = ToAuth
                     /\ j.event = "SUCESS_GAMELOBBY" <=> j = ToLobby
                     /\ j.event = "StoreLobby" <=> j = Storing
BY DEF ToAuth, ToLobby, Storing, Job, Jobs, Screens

(* Nothing but the list of threads changes, and it gains none of the three. *)
LEMMA ChainJobs ==
  ASSUME Typed, Chain, OnceThere,
         UNCHANGED <<loop, CurrentState, currentSocket, sockets>>,
         Less(data_queue, data_queue', Find), Less(data_queue, data_queue', Logged),
         Less(sendQueue, sendQueue', Find),
         \/ jobs' = jobs
         \/ \E j \in Jobs : jobs' = Append(jobs, j) /\ j \notin {ToAuth, ToLobby, Storing}
         \/ \E i \in DOMAIN jobs : jobs' = RemoveAt(jobs, i)
  PROVE  Chain' /\ OnceThere'
<1> USE DEF Typed
<1>1. Cur' = Cur
  BY CurIs
<1>2. (There(1)' => There(1)) /\ (There(6)' => There(6))
  BY <1>1, ThereIs, ThereThen
<1>3. Less(jobs, jobs', ToAuth) /\ Less(jobs, jobs', ToLobby) /\ Less(jobs, jobs', Storing)
  BY LessLists, LessOrGone
<1>4. QED
  BY <1>1, <1>2, <1>3, LessOrGone, NothingGained

LEMMA ChainHeard ==
  ASSUME Typed, Chain, OnceThere, HandleReceivedPacket
  PROVE  Chain' /\ OnceThere'
<1> USE DEF Typed
<1> DEFINE x == Head(data_queue)
<1>1. /\ UNCHANGED <<loop, CurrentState, currentSocket, sockets, sendQueue>>
      /\ data_queue # <<>> /\ data_queue' = Tail(data_queue)
  BY DEF HandleReceivedPacket, socketVars
<1>2. /\ Less(data_queue, data_queue', Find) /\ Less(data_queue, data_queue', Logged)
      /\ Less(sendQueue, sendQueue', Find)
  BY <1>1, LessOrGone, LessLists
<1>3. Cur' = Cur
  BY <1>1, CurIs
<1>4. /\ (There(1)' => There(1)) /\ (There(6)' => There(6))
      /\ Less(Cur.inbox, (Cur').inbox, Find) /\ Less(Cur.inbox, (Cur').inbox, Logged)
  BY <1>1, <1>3, ThereIs, ThereThen, LessOrGone
<1>5. \/ x = "FindAccountServer" /\ jobs' = Append(jobs, ToAuth)
      \/ x = "Login_Succeeded" /\ jobs' = Append(jobs, ToLobby)
      \/ jobs' = jobs
      \/ \E j \in Jobs : jobs' = Append(jobs, j) /\ j \notin {ToAuth, ToLobby, Storing}
  <2>1. \/ x = "FindAccountServer" /\ jobs' = Append(jobs, ToAuth)
        \/ x = "Login_Succeeded" /\ jobs' = Append(jobs, ToLobby)
        \/ jobs' = jobs
        \/ jobs' = Append(jobs, Job("STARTGAME", "none"))
        \/ \E to \in Screens : jobs' = Append(jobs, Job("CHANGE_UI_TYPE", to))
    BY DEF HandleReceivedPacket, Triggers, ToAuth, ToLobby, Screens
  <2>2. /\ \A to \in Screens : Job("CHANGE_UI_TYPE", to) \notin {ToAuth, ToLobby, Storing}
        /\ Job("STARTGAME", "none") \notin {ToAuth, ToLobby, Storing}
    BY DEF ToAuth, ToLobby, Storing, Job
  <2>3. QED
    BY <2>1, <2>2, JobTypes
<1>6. CASE x = "FindAccountServer" /\ jobs' = Append(jobs, ToAuth)
  <2>1. There(4) /\ ~There(4)' /\ CurrentState' = ROUTINE
    <3>1. In(data_queue, Find) /\ ~In(data_queue', Find)
      BY <1>1, <1>6, LessLists DEF OnceThere, Find
    <3>2. QED
      BY <1>1, <3>1, ThereIs, ThereThen DEF Chain
  <2>2. /\ Once(jobs', ToAuth) /\ Less(jobs, jobs', ToLobby) /\ Less(jobs, jobs', Storing)
    <3>1. ~There(5)
      BY <2>1 DEF Chain
    <3>2. QED
      BY <1>6, <3>1, ThereIs, JobNames, LessLists DEF OnceThere
  <2>3. \A q \in 1 .. 10 : q # 5 => (There(q)' => There(q))
    BY <1>2, <1>4, <2>2, ThereIs, ThereThen, Steps10 DEF Less
  <2>4. Chain'
    <3>1. 4 \in 1 .. 10 /\ 5 \in 1 .. 10 /\ CurrentState' = IF 5 <= 5 THEN ROUTINE ELSE AUTH
      BY <2>1
    <3>2. QED
      BY <2>1, <2>3, <3>1, ChainMoves
  <2>5. OnceThere'
    BY <1>2, <1>4, <2>2, OnceThen DEF OnceThere, Less
  <2>6. QED
    BY <2>4, <2>5
<1>7. CASE x = "Login_Succeeded" /\ jobs' = Append(jobs, ToLobby)
  <2>1. There(8) /\ ~There(8)' /\ CurrentState' = AUTH
    <3>1. In(data_queue, Logged) /\ ~In(data_queue', Logged)
      BY <1>1, <1>7, LessLists DEF OnceThere, Logged
    <3>2. QED
      BY <1>1, <3>1, ThereIs, ThereThen DEF Chain
  <2>2. /\ Once(jobs', ToLobby) /\ Less(jobs, jobs', ToAuth) /\ Less(jobs, jobs', Storing)
    <3>1. ~There(9)
      BY <2>1 DEF Chain
    <3>2. QED
      BY <1>7, <3>1, ThereIs, JobNames, LessLists DEF OnceThere
  <2>3. \A q \in 1 .. 10 : q # 9 => (There(q)' => There(q))
    BY <1>2, <1>4, <2>2, ThereIs, ThereThen, Steps10 DEF Less
  <2>4. Chain'
    <3>1. 8 \in 1 .. 10 /\ 9 \in 1 .. 10 /\ CurrentState' = IF 9 <= 5 THEN ROUTINE ELSE AUTH
      BY <2>1
    <3>2. QED
      BY <2>1, <2>3, <3>1, ChainMoves
  <2>5. OnceThere'
    BY <1>2, <1>4, <2>2, OnceThen DEF OnceThere, Less
  <2>6. QED
    BY <2>4, <2>5
<1>8. CASE \/ jobs' = jobs
           \/ \E j \in Jobs : jobs' = Append(jobs, j) /\ j \notin {ToAuth, ToLobby, Storing}
  BY <1>1, <1>2, <1>8, ChainJobs
<1>9. QED
  BY <1>5, <1>6, <1>7, <1>8

LEMMA ChainEventLoop ==
  ASSUME Typed, SocketInv, LoopInv, Chain, OnceThere, EventLoop
  PROVE  Chain' /\ OnceThere'
<1> USE DEF Typed
<1> DEFINE Others == /\ Less(data_queue, data_queue', Find) /\ Less(data_queue, data_queue', Logged)
                     /\ Less(jobs, jobs', ToAuth) /\ Less(jobs, jobs', ToLobby)
                     /\ Less(jobs, jobs', Storing)
<1>1. CASE Wake \/ EnumerateFails \/ ReceiveEnds
  <2>1. /\ UNCHANGED <<CurrentState, currentSocket, sockets, data_queue, sendQueue, jobs>>
        /\ (loop').events \subseteq loop.events
    <3>1. UNCHANGED <<CurrentState, currentSocket, sockets, data_queue, sendQueue, jobs>>
      BY <1>1 DEF Wake, EnumerateFails, ReceiveEnds, socketVars
    <3>2. CASE Wake \/ EnumerateFails
      <4>1. (loop').events = loop.events
        BY <3>2 DEF Wake, EnumerateFails, Steps
      <4>2. QED
        BY <3>1, <4>1
    <3>3. CASE ReceiveEnds
      <4>1. (loop').events = loop.events \ {"READ"}
        BY <3>3 DEF ReceiveEnds, Handling, Idle
      <4>2. QED
        BY <3>1, <4>1
    <3>4. QED
      BY <1>1, <3>2, <3>3
  <2>2. Cur' = Cur
    BY <2>1, CurIs
  <2>3. (There(1)' => There(1)) /\ (There(6)' => There(6))
    BY <2>1, <2>2, ThereIs, ThereThen
  <2>4. QED
    BY <2>1, <2>2, <2>3, LessOrGone, NothingGained
<1>2. CASE Enumerate
  <2> DEFINE s == loop.sock
  <2>1. /\ s \in Sockets /\ sockets'[s].events = {} /\ sockets'[s].at = sockets[s].at
        /\ sockets'[s].server = sockets[s].server /\ sockets'[s].inbox = sockets[s].inbox
        /\ \A q \in Sockets : q # s => sockets'[q] = sockets[q]
        /\ loop' = Handling(sockets[s].events)
    BY <1>2, EnumerateTo
  <2>2. UNCHANGED <<CurrentState, currentSocket, data_queue, sendQueue, jobs>>
    BY <1>2 DEF Enumerate
  <2>3. \/ Cur' = Cur /\ currentSocket # s
        \/ /\ currentSocket = s /\ Cur = sockets[s] /\ (Cur').events = {} /\ (Cur').at = Cur.at
           /\ (Cur').server = Cur.server /\ (Cur').inbox = Cur.inbox
    <3>1. CASE currentSocket = s
      BY <2>1, <2>2, <3>1, CurIs, SocketTypes
    <3>2. CASE currentSocket # s
      <4>1. currentSocket = 0 \/ currentSocket \in Sockets
        BY SocketTypes DEF WhereOK
      <4>2. QED
        BY <2>1, <2>2, <3>2, <4>1, CurIs, SocketTypes
    <3>3. QED
      BY <3>1, <3>2
  <2>4. (loop').events = sockets[s].events
    BY <2>1 DEF Handling, Idle
  <2>5. CurrentState = ROUTINE => currentSocket = s
    BY <2>1, SocketTypes DEF LoopInv
  <2> HIDE DEF s
  <2>6. (There(1)' => There(1)) /\ (There(6)' => There(6))
    BY <2>2, <2>3, <2>4, <2>5, ThereIs, ThereThen
  <2>7. Less(Cur.inbox, (Cur').inbox, Find) /\ Less(Cur.inbox, (Cur').inbox, Logged)
    BY <2>3, LessOrGone
  <2>8. QED
    BY <2>2, <2>6, <2>7, LessOrGone, NothingGained
<1>3. CASE HandleConnect
  <2>1. /\ UNCHANGED <<CurrentState, currentSocket, sockets, data_queue, jobs>>
        /\ sendQueue' = sendQueue \o Asks /\ "CONNECT" \in loop.events
        /\ loop' = Handling(loop.events \ {"CONNECT"})
    BY <1>3 DEF HandleConnect, socketVars
  <2>2. Cur' = Cur /\ (loop').events = loop.events \ {"CONNECT"}
    BY <2>1, CurIs DEF Handling, Idle
  <2>3. (There(1)' => There(1)) /\ (There(6)' => There(6))
    BY <2>1, <2>2, ThereIs, ThereThen
  <2>4. Others /\ Less(Cur.inbox, (Cur').inbox, Find) /\ Less(Cur.inbox, (Cur').inbox, Logged)
    BY <2>1, <2>2, LessOrGone
  <2>5. CASE CurrentState = ROUTINE
    <3>1. sendQueue' = Append(sendQueue, Find) /\ Find \in Requests
      <4>1. Asks = <<Find>> /\ Find \in Requests
        <5>1. Asks = <<"FindAccountServer">>
          BY <2>5, ServerNames DEF Asks, ScreenOK
        <5>2. "FindAccountServer" \in Requests
          BY DEF Requests
        <5>3. QED
          BY <5>1, <5>2 DEF Find
      <4>2. QED
        BY <2>1, <4>1, AppendIsConcat DEF QueuesOK
    <3>2. loop.sock = currentSocket /\ loop.sock \in Sockets /\ loop.at = "handle"
      BY <2>1, <2>5, LoopFacts, SocketTypes DEF LoopInv
    <3>3. Cur = sockets[loop.sock] /\ Cur.at # "connecting" /\ "CONNECT" \notin Cur.events
      BY <3>2, CurIs, SocketTypes DEF LoopInv
    <3>4. There(1) /\ ~There(1)'
      BY <2>1, <2>2, <2>5, <3>3, ThereIs, ThereThen
    <3>5. Once(sendQueue', Find)
      <4>1. ~There(2)
        BY <3>4 DEF Chain
      <4>2. ~In(sendQueue, Find) /\ Once(sendQueue, Find)
        BY <4>1, ThereIs DEF OnceThere
      <4>3. QED
        BY <3>1, <4>2, AppendedIn DEF QueuesOK
    <3>6. \A q \in 1 .. 10 : q # 2 => (There(q)' => There(q))
      BY <2>3, <2>4, ThereIs, ThereThen, Steps10 DEF Less
    <3>7. Chain'
      <4>1. 1 \in 1 .. 10 /\ 2 \in 1 .. 10 /\ CurrentState' = IF 2 <= 5 THEN ROUTINE ELSE AUTH
        BY <2>1, <2>5
      <4>2. QED
        BY <3>4, <3>6, <4>1, ChainMoves
    <3>8. OnceThere'
      BY <2>4, <3>5, OnceThen DEF OnceThere, Less
    <3>9. QED
      BY <3>7, <3>8
  <2>6. CASE CurrentState # ROUTINE
    <3>1. Asks \in {<<"TryConnect">>, <<>>}
      BY <2>6 DEF Asks
    <3>2. /\ sendQueue \o <<>> = sendQueue
          /\ sendQueue \o <<"TryConnect">> = Append(sendQueue, "TryConnect")
          /\ "TryConnect" \in Requests /\ "TryConnect" # Find
      BY ConcatEmptySeq, AppendIsConcat DEF QueuesOK, Requests, Find
    <3>3. Less(sendQueue, sendQueue', Find)
      BY <2>1, <3>1, <3>2, LessOrGone, LessLists
    <3>4. QED
      BY <2>1, <2>3, <2>4, <3>3, NothingGained
  <2>7. QED
    BY <2>5, <2>6
<1>4. ASSUME UNCHANGED <<data_queue, sendQueue, jobs>>, CurrentState' = CurrentState,
             currentSocket' = 0, loop' = Idle
      PROVE  Chain' /\ OnceThere'
  <2>1. /\ Cur' = Unused /\ (Cur').inbox = <<>> /\ (Cur').at = "unused" /\ (Cur').events = {}
        /\ (loop').events = {}
    BY <1>4, CurIs, SoundFresh DEF Idle
  <2>2. (There(1)' => There(1)) /\ (There(6)' => There(6))
    BY <2>1, ThereThen
  <2>3. QED
    BY <1>4, <2>1, <2>2, LessOrGone, NothingGained
<1>5. CASE HandleFailure
  <2>1. loop' = Idle
    <3>1. loop.events = {"FAILED"}
      BY <1>5 DEF HandleFailure, LoopInv
    <3>2. loop.events \ {"FAILED"} = {}
      BY <3>1
    <3>3. QED
      BY <1>5, <3>2 DEF HandleFailure, Handling
  <2>2. QED
    BY <1>4, <1>5, <2>1 DEF HandleFailure
<1>6. ASSUME NEW k \in 1 .. 2, Receive(k) PROVE Chain' /\ OnceThere'
  BY <1>6, ChainReceived
<1>7. CASE HandleClose /\ CurrentState # LOBBY
  BY <1>4, <1>7 DEF HandleClose
<1>8. CASE HandleClose /\ CurrentState = LOBBY
  <2>1. /\ UNCHANGED <<data_queue, sendQueue, jobs>> /\ CurrentState' = ROUTINE
        /\ Cur' = Connecting(ROUTINE)
    <3>1. /\ FreeSockets # {} /\ currentSocket' = NextSocket
          /\ sockets' = [Closed(currentSocket) EXCEPT ![NextSocket] = Connecting(ROUTINE)]
      BY <1>8 DEF HandleClose
    <3>2. NextSocket \in Sockets /\ NextSocket # 0 /\ Closed(currentSocket) \in [Sockets -> Connections]
      BY <3>1, NextFree, SocketTypes, CloseTo DEF WhereOK
    <3>3. sockets'[NextSocket] = Connecting(ROUTINE)
      BY <3>1, <3>2
    <3>4. QED
      BY <1>8, <3>1, <3>2, <3>3, CurIs DEF HandleClose
  <2>2. (Cur').inbox = <<>> /\ (Cur').server # AUTH
    BY <2>1, SoundFresh, ServerNames DEF Servers
  <2>3. \A p \in 1 .. 10 : ~There(p)
    BY <1>8, ServerNames DEF Chain
  <2>4. \A e : ~In(<<>>, e) /\ Once(<<>>, e)
    BY EmptyStreams DEF In, Once
  <2>5. \A p \in 1 .. 10 : There(p)' => p = 1
    BY <2>1, <2>2, <2>3, <2>4, ThereIs, ThereThen, Steps10
  <2>6. Chain'
    BY <2>1, <2>5 DEF Chain
  <2>7. OnceThere'
    BY <2>1, <2>2, <2>4, OnceThen DEF OnceThere
  <2>8. QED
    BY <2>6, <2>7
<1>9. QED
  BY <1>1, <1>2, <1>3, <1>5, <1>6, <1>7, <1>8 DEF EventLoop

LEMMA ChainTriggered ==
  ASSUME Typed, Chain, OnceThere, NEW i \in DOMAIN jobs, Triggered(i)
  PROVE  Chain' /\ OnceThere'
<1> USE DEF Typed
<1>1. jobs[i] \in Jobs
  BY JobsChange
<1>2. CASE SetUitype(i) \/ SendPacket(i) \/ ProcessRunner(i) \/ (ConnectToGameLobbyServer(i) /\ ~m_isConnected)
  <2>1. /\ UNCHANGED <<loop, CurrentState, currentSocket, sockets, data_queue>>
        /\ jobs' = RemoveAt(jobs, i)
    BY <1>2 DEF SetUitype, SendPacket, ProcessRunner, ConnectToGameLobbyServer, socketVars
  <2>2. Less(sendQueue, sendQueue', Find)
    <3>1. CASE SendPacket(i)
      <4>1. jobs[i].arg \in Buttons /\ sendQueue' = Append(sendQueue, jobs[i].arg)
        BY <1>1, <3>1, JobTypes DEF SendPacket
      <4>2. jobs[i].arg \in Requests /\ jobs[i].arg # Find
        BY <4>1, JobTypes DEF Buttons, Find
      <4>3. QED
        BY <4>1, <4>2, LessLists
    <3>2. CASE SetUitype(i) \/ ProcessRunner(i) \/ (ConnectToGameLobbyServer(i) /\ ~m_isConnected)
      BY <3>2, LessOrGone DEF SetUitype, ProcessRunner, ConnectToGameLobbyServer
    <3>3. QED
      BY <1>2, <3>1, <3>2
  <2>3. QED
    BY <2>1, <2>2, LessOrGone, ChainJobs
<1>3. CASE StoreLobby(i)
  <2>1. /\ UNCHANGED <<loop, currentSocket, sockets, data_queue, sendQueue>> /\ jobs[i] = Storing
        /\ jobs' = RemoveAt(jobs, i) /\ CurrentState' = LOBBY
    BY <1>1, <1>3, JobNames DEF StoreLobby
  <2>2. Cur' = Cur
    BY <2>1, CurIs
  <2>3. There(10) /\ ~There(10)'
    <3>1. In(jobs, Storing) /\ ~In(jobs', Storing)
      BY <2>1, LessLists DEF OnceThere, In
    <3>2. QED
      BY <3>1, ThereIs, ThereThen
  <2>4. /\ Less(jobs, jobs', ToAuth) /\ Less(jobs, jobs', ToLobby) /\ Less(jobs, jobs', Storing)
        /\ Less(data_queue, data_queue', Find) /\ Less(data_queue, data_queue', Logged)
        /\ Less(Cur.inbox, (Cur').inbox, Find) /\ Less(Cur.inbox, (Cur').inbox, Logged)
        /\ Less(sendQueue, sendQueue', Find)
    BY <2>1, <2>2, LessLists, LessOrGone
  <2>5. \A q \in 1 .. 10 : There(q)' => There(q)
    BY <2>1, <2>2, <2>4, ServerNames, ThereIs, ThereThen, Steps10 DEF Less
  <2>6. \A q \in 1 .. 10 : ~There(q)'
    BY <2>3, <2>5 DEF Chain
  <2>7. Chain'
    BY <2>6 DEF Chain
  <2>8. OnceThere'
    BY <2>4, OnceThen DEF OnceThere, Less
  <2>9. QED
    BY <2>7, <2>8
<1>4. CASE ConnectToAuthServer(i)
  <2>1. /\ UNCHANGED <<loop, data_queue, sendQueue>> /\ jobs[i] = ToAuth
        /\ jobs' = RemoveAt(jobs, i) /\ CurrentState' = AUTH /\ ConnectToServer(AUTH)
    BY <1>1, <1>4, JobNames DEF ConnectToAuthServer
  <2>2. (Cur').inbox = <<>>
    <3>1. currentSocket' # 0 /\ sockets'[currentSocket'] = Connecting(AUTH) /\ AUTH \in Servers
      BY <2>1, ConnectTo DEF Servers
    <3>2. QED
      BY <3>1, CurIs, SoundFresh
  <2>3. There(5) /\ ~There(5)'
    <3>1. In(jobs, ToAuth) /\ ~In(jobs', ToAuth)
      BY <2>1, LessLists DEF OnceThere, In
    <3>2. QED
      BY <3>1, ThereIs, ThereThen
  <2>4. /\ Less(jobs, jobs', ToAuth) /\ Less(jobs, jobs', ToLobby) /\ Less(jobs, jobs', Storing)
        /\ Less(data_queue, data_queue', Find) /\ Less(data_queue, data_queue', Logged)
        /\ Less(Cur.inbox, (Cur').inbox, Find) /\ Less(Cur.inbox, (Cur').inbox, Logged)
        /\ Less(sendQueue, sendQueue', Find)
    BY <2>1, <2>2, LessLists, LessOrGone
  <2>5. \A q \in 1 .. 10 : q # 6 => (There(q)' => There(q))
    BY <2>1, <2>4, ServerNames, ThereIs, ThereThen, Steps10 DEF Less
  <2>6. Chain'
    <3>1. 5 \in 1 .. 10 /\ 6 \in 1 .. 10 /\ CurrentState' = IF 6 <= 5 THEN ROUTINE ELSE AUTH
      BY <2>1
    <3>2. QED
      BY <2>3, <2>5, <3>1, ChainMoves
  <2>7. OnceThere'
    BY <2>4, OnceThen DEF OnceThere, Less
  <2>8. QED
    BY <2>6, <2>7
<1>5. CASE ConnectToGameLobbyServer(i) /\ m_isConnected
  <2>1. /\ UNCHANGED <<loop, data_queue, sendQueue, CurrentState>> /\ jobs[i] = ToLobby
        /\ jobs' = [jobs EXCEPT ![i] = Storing] /\ ConnectToServer(LOBBY)
    <3>1. /\ UNCHANGED <<loop, data_queue, sendQueue, CurrentState>> /\ jobs[i] = ToLobby
          /\ ConnectToServer(LOBBY) /\ jobs' = [jobs EXCEPT ![i] = [jobs[i] EXCEPT !.event = "StoreLobby"]]
      BY <1>1, <1>5, JobNames DEF ConnectToGameLobbyServer
    <3>2. [jobs[i] EXCEPT !.event = "StoreLobby"] = Storing
      BY <1>1, <1>5, JobTypes DEF ConnectToGameLobbyServer, Storing
    <3>3. QED
      BY <3>1, <3>2
  <2>2. (Cur').inbox = <<>> /\ (Cur').server # AUTH
    <3>1. currentSocket' # 0 /\ sockets'[currentSocket'] = Connecting(LOBBY) /\ LOBBY \in Servers
      BY <2>1, ConnectTo DEF Servers
    <3>2. QED
      BY <3>1, CurIs, SoundFresh, ServerNames
  <2>3. There(9) /\ CurrentState' = AUTH
    <3>1. In(jobs, ToLobby)
      BY <2>1 DEF In
    <3>2. QED
      BY <2>1, <3>1, ThereIs DEF Chain
  <2>4. DOMAIN jobs' = DOMAIN jobs /\ \A j \in DOMAIN jobs : jobs'[j] = IF j = i THEN Storing ELSE jobs[j]
    BY <2>1 DEF QueuesOK
  <2>5. ~In(jobs', ToLobby) /\ Once(jobs', ToLobby) /\ Less(jobs, jobs', ToAuth) /\ Once(jobs', Storing)
    <3>1. ~In(jobs', ToLobby)
      BY <2>1, <2>4, JobNames DEF OnceThere, In, Once
    <3>2. ~In(jobs, Storing)
      BY <2>3, ThereIs DEF Chain
    <3>3. Once(jobs', Storing)
      BY <2>4, <3>2 DEF In, Once
    <3>4. Less(jobs, jobs', ToAuth)
      BY <2>4, JobNames DEF Less, In, Once
    <3>5. QED
      BY <3>1, <3>3, <3>4 DEF In, Once
  <2>6. /\ Less(data_queue, data_queue', Find) /\ Less(data_queue, data_queue', Logged)
        /\ Less(Cur.inbox, (Cur').inbox, Find) /\ Less(Cur.inbox, (Cur').inbox, Logged)
        /\ Less(sendQueue, sendQueue', Find)
    BY <2>1, <2>2, LessOrGone
  <2>7. ~There(9)'
    BY <2>5, ThereThen
  <2>8. \A q \in 1 .. 10 : q # 10 => (There(q)' => There(q))
    BY <2>2, <2>3, <2>5, <2>6, ServerNames, ThereIs, ThereThen, Steps10 DEF Less
  <2>9. Chain'
    <3>1. 9 \in 1 .. 10 /\ 10 \in 1 .. 10 /\ CurrentState' = IF 10 <= 5 THEN ROUTINE ELSE AUTH
      BY <2>3
    <3>2. QED
      BY <2>3, <2>7, <2>8, <3>1, ChainMoves
  <2>10. OnceThere'
    BY <2>5, <2>6, OnceThen DEF OnceThere, Less
  <2>11. QED
    BY <2>9, <2>10
<1>6. CASE ConnectToGameLobbyServer(i)
  <2>1. CASE m_isConnected
    BY <1>5, <1>6, <2>1
  <2>2. CASE ~m_isConnected
    BY <1>2, <1>6, <2>2
  <2>3. QED
    BY <2>1, <2>2
<1>7. QED
  BY <1>2, <1>3, <1>4, <1>6 DEF Triggered

LEMMA ChainUser ==
  ASSUME Typed, Chain, OnceThere, User
  PROVE  Chain' /\ OnceThere'
<1> USE DEF Typed
<1>1. UNCHANGED <<loop, CurrentState, currentSocket, sockets, data_queue, sendQueue>>
  BY DEF User, PressLogin, PressBack, PressRequest, socketVars, threadVars
<1>2. \/ jobs' = jobs
      \/ \E j \in Jobs : jobs' = Append(jobs, j) /\ j \notin {ToAuth, ToLobby, Storing}
  <2>1. jobs' = jobs \/ \E p \in Buttons : jobs' = Append(jobs, Job("SendPacket", p))
    BY DEF User, PressLogin, PressBack, PressRequest, Triggers, threadVars
  <2>2. \A p \in Buttons : Job("SendPacket", p) \notin {ToAuth, ToLobby, Storing}
    BY DEF Job, ToAuth, ToLobby, Storing
  <2>3. QED
    BY <2>1, <2>2, JobTypes
<1>3. QED
  BY <1>1, <1>2, LessOrGone, ChainJobs

WayInv == SocketInv /\ LoopInv /\ Chain /\ OnceThere

LEMMA WayNext == ASSUME Typed, WayInv, [Next]_vars PROVE WayInv'
<1> USE DEF Typed, WayInv
<1>1. ASSUME UNCHANGED <<loop, CurrentState, currentSocket, sockets>> PROVE SocketInv' /\ LoopInv'
  <2>1. \A q \in Sockets : Sound(sockets'[q])
    BY <1>1 DEF SocketInv
  <2>2. LoopInv'
    BY <1>1 DEF LoopInv, Idle
  <2>3. QED
    BY <2>1, <2>2, SoundThen
<1>2. CASE UNCHANGED vars
  <2>1. UNCHANGED <<loop, CurrentState, currentSocket, sockets, data_queue, sendQueue, jobs>>
    BY <1>2 DEF vars, threadVars, socketVars
  <2>2. QED
    BY <1>1, <2>1, LessOrGone, ChainJobs
<1>3. ASSUME NEW s \in Sockets, Network(s) PROVE WayInv'
  BY <1>3, WorldNetwork, ChainNetwork
<1>4. CASE EventLoop
  BY <1>4, WorldEventLoop, ChainEventLoop
<1>5. CASE SendLoop
  BY <1>5, WorldServed, ChainServed
<1>6. CASE HandleReceivedPacket
  <2>1. UNCHANGED <<loop, CurrentState, currentSocket, sockets>>
    BY <1>6 DEF HandleReceivedPacket, socketVars
  <2>2. QED
    BY <1>1, <1>6, <2>1, ChainHeard
<1>7. ASSUME NEW i \in DOMAIN jobs, Triggered(i) PROVE WayInv'
  <2>1. CASE SetUitype(i) \/ SendPacket(i) \/ ProcessRunner(i)
    <3>1. UNCHANGED <<loop, CurrentState, currentSocket, sockets>>
      BY <2>1 DEF SetUitype, SendPacket, ProcessRunner, socketVars
    <3>2. QED
      BY <1>1, <1>7, <3>1, ChainTriggered
  <2>2. CASE StoreLobby(i)
    <3>1. UNCHANGED <<loop, currentSocket, sockets>> /\ CurrentState' = LOBBY
      BY <2>2 DEF StoreLobby
    <3>2. LoopInv'
      BY <3>1, ServerNames DEF LoopInv, Idle
    <3>3. \A q \in Sockets : Sound(sockets'[q])
      BY <3>1 DEF SocketInv
    <3>4. QED
      BY <1>7, <3>2, <3>3, SoundThen, ChainTriggered
  <2>3. CASE ConnectToAuthServer(i)
    <3>1. ConnectToServer(AUTH) /\ loop' = loop /\ CurrentState' # ROUTINE /\ AUTH \in Servers
      BY <2>3, ServerNames DEF ConnectToAuthServer, Servers
    <3>2. QED
      BY <1>7, <3>1, WorldConnects, ChainTriggered
  <2>4. CASE ConnectToGameLobbyServer(i)
    <3>1. CASE m_isConnected
      <4>1. In(jobs, ToLobby)
        BY <2>4, JobsChange, JobNames DEF ConnectToGameLobbyServer, In
      <4>2. CurrentState = AUTH
        BY <4>1, ThereIs DEF Chain
      <4>3. ConnectToServer(LOBBY) /\ loop' = loop /\ CurrentState' # ROUTINE /\ LOBBY \in Servers
        BY <2>4, <3>1, <4>2, ServerNames DEF ConnectToGameLobbyServer, Servers
      <4>4. QED
        BY <1>7, <4>3, WorldConnects, ChainTriggered
    <3>2. CASE ~m_isConnected
      <4>1. UNCHANGED <<loop, CurrentState, currentSocket, sockets>>
        BY <2>4, <3>2 DEF ConnectToGameLobbyServer
      <4>2. QED
        BY <1>1, <1>7, <4>1, ChainTriggered
    <3>3. QED
      BY <3>1, <3>2
  <2>5. QED
    BY <1>7, <2>1, <2>2, <2>3, <2>4 DEF Triggered
<1>8. CASE User
  <2>1. UNCHANGED <<loop, CurrentState, currentSocket, sockets>>
    BY <1>8 DEF User, PressLogin, PressBack, PressRequest, socketVars, threadVars
  <2>2. QED
    BY <1>1, <1>8, <2>1, ChainUser
<1>9. QED
  BY <1>2, <1>3, <1>4, <1>5, <1>6, <1>7, <1>8 DEF Next

-----------------------------------------------------------------------------
(* Admission asked *)

(* The loop handles the event of the present connection, or will.           *)
Coming(e) ==
  \/ e \in Cur.events /\ (signalled \/ (loop.at = "enumerate" /\ loop.sock = currentSocket))
  \/ loop.at = "handle" /\ loop.sock = currentSocket /\ e \in loop.events

(* A connection to the lobby, whose end, if it came, will be handled.       *)
LobbyWay ==
  /\ currentSocket # 0 /\ Cur.server = LOBBY
  /\ Cur.at = "shut" => Coming("CLOSE")
  /\ Cur.at = "failed" => Coming("FAILED")

(* The connection is yet to be handled; or is, and its question is asked.   *)
Early == Cur.at \in {"connecting", "failed"} \/ Coming("CONNECT")
Late  == Early \/ Cur.at = "shut" \/ In(sendQueue, "TryConnect") \/ tried = currentSocket

AdmissionInv ==
  /\ In(jobs, Storing) \/ CurrentState = LOBBY => m_isConnected
  /\ In(jobs, Storing) /\ cause = "none" => LobbyWay /\ Early
  /\ CurrentState = LOBBY /\ cause = "none" => LobbyWay /\ Late

LEMMA ComingThen ==
  ASSUME NEW e
  PROVE  Coming(e)' <=>
    \/ e \in (Cur').events /\ (signalled' \/ ((loop').at = "enumerate" /\ (loop').sock = currentSocket'))
    \/ (loop').at = "handle" /\ (loop').sock = currentSocket' /\ e \in (loop').events
BY DEF Coming

LEMMA LobbyWayThen ==
  LobbyWay' <=>
    /\ currentSocket' # 0 /\ (Cur').server = LOBBY
    /\ (Cur').at = "shut" => Coming("CLOSE")'
    /\ (Cur').at = "failed" => Coming("FAILED")'
BY DEF LobbyWay, LOBBY

LEMMA EarlyThen ==
  /\ Early' <=> (Cur').at \in {"connecting", "failed"} \/ Coming("CONNECT")'
  /\ Late' <=> Early' \/ (Cur').at = "shut" \/ In(sendQueue', "TryConnect") \/ tried' = currentSocket'
BY DEF Early, Late, In

LEMMA AdmissionThen ==
  AdmissionInv' <=>
    /\ In(jobs', Storing) \/ CurrentState' = LOBBY => m_isConnected'
    /\ In(jobs', Storing) /\ cause' = "none" => LobbyWay' /\ Early'
    /\ CurrentState' = LOBBY /\ cause' = "none" => LobbyWay' /\ Late'
BY DEF AdmissionInv, In, Storing, Job, LOBBY

LEMMA AdmissionInit == Init => AdmissionInv
<1> SUFFICES ASSUME Init PROVE AdmissionInv
  OBVIOUS
<1>1. CurrentState # LOBBY /\ ~In(jobs, Storing)
  BY EmptyStreams, ServerNames DEF Init, In
<1>2. QED
  BY <1>1 DEF AdmissionInv

(* No connection changes hands, and none of the three parts gets worse.     *)
LEMMA AdmissionKept ==
  ASSUME AdmissionInv, CurrentState' = CurrentState,
         In(jobs', Storing) => In(jobs, Storing),
         m_isConnected => m_isConnected',
         cause' = "none" => cause = "none",
         LobbyWay /\ cause' = "none" => LobbyWay',
         LobbyWay /\ cause' = "none" /\ Early => Early' \/ CurrentState = LOBBY,
         LobbyWay /\ cause' = "none" /\ Late /\ CurrentState = LOBBY => Late',
         In(jobs, Storing) => CurrentState # LOBBY
  PROVE  AdmissionInv'
<1>1. In(jobs', Storing) \/ CurrentState' = LOBBY => m_isConnected'
  BY DEF AdmissionInv
<1>2. In(jobs', Storing) /\ cause' = "none" => LobbyWay' /\ Early'
  BY DEF AdmissionInv
<1>3. CurrentState' = LOBBY /\ cause' = "none" => LobbyWay' /\ Late'
  BY DEF AdmissionInv
<1>4. QED
  BY <1>1, <1>2, <1>3, AdmissionThen

(* Neither the connection nor what the loop has of it is lost.              *)
LEMMA StillComing ==
  ASSUME UNCHANGED <<currentSocket, loop>>, signalled => signalled',
         (Cur').at = Cur.at, (Cur').server = Cur.server, Cur.events \subseteq (Cur').events
  PROVE  /\ \A e : Coming(e) => Coming(e)'
         /\ LobbyWay => LobbyWay'
         /\ Early => Early'
<1>1. \A e : Coming(e) => Coming(e)'
  BY ComingThen DEF Coming
<1>2. LobbyWay => LobbyWay'
  BY <1>1, LobbyWayThen DEF LobbyWay
<1>3. Early => Early'
  BY <1>1, EarlyThen DEF Early
<1>4. QED
  BY <1>1, <1>2, <1>3

LEMMA StoringAtAuth ==
  ASSUME Chain
  PROVE  In(jobs, Storing) => CurrentState = AUTH /\ CurrentState # LOBBY /\ ~In(jobs, ToAuth)
                              /\ ~In(jobs, ToLobby)
BY ThereIs, ServerNames DEF Chain

LEMMA AdmissionNetwork ==
  ASSUME Typed, WayInv, AdmissionInv, NEW s \in Sockets, Network(s)
  PROVE  AdmissionInv'
<1> USE DEF Typed, WayInv
<1>1. UNCHANGED <<CurrentState, currentSocket, loop, jobs, sendQueue, cause, tried, m_isConnected>>
  BY DEF Network, Accepted, Refused, PeerCloses, LobbyStartsGame, threadVars, lobbyVars
<1>2. /\ signalled' /\ \A q \in Sockets : q # s => sockets'[q] = sockets[q]
      /\ sockets'[s].server = sockets[s].server /\ sockets[s].events \subseteq sockets'[s].events
      /\ \/ sockets'[s].at = sockets[s].at
         \/ sockets'[s].at = "up" /\ "CONNECT" \in sockets'[s].events /\ sockets[s].at = "connecting"
         \/ sockets'[s].at = "failed" /\ "FAILED" \in sockets'[s].events /\ sockets[s].at = "connecting"
         \/ sockets'[s].at = "shut" /\ "CLOSE" \in sockets'[s].events
              /\ sockets[s].at \in {"up", "leaving"}
  <2>1. CASE Accepted(s)
    <3>1. Happens(s, "up", "CONNECT") /\ sockets[s].at = "connecting"
      BY <2>1 DEF Accepted
    <3>2. /\ sockets'[s].at = "up" /\ sockets'[s].events = sockets[s].events \cup {"CONNECT"}
          /\ sockets'[s].server = sockets[s].server /\ signalled' = TRUE
          /\ \A q \in Sockets : q # s => sockets'[q] = sockets[q]
      BY <3>1, HappensTo
    <3>3. QED
      BY <3>1, <3>2
  <2>2. CASE Refused(s)
    <3>1. Happens(s, "failed", "FAILED") /\ sockets[s].at = "connecting"
      BY <2>2 DEF Refused
    <3>2. QED
      BY <3>1, HappensTo
  <2>3. CASE PeerCloses(s)
    <3>1. Happens(s, "shut", "CLOSE") /\ sockets[s].at \in {"up", "leaving"}
      BY <2>3 DEF PeerCloses
    <3>2. QED
      BY <3>1, HappensTo
  <2>4. CASE LobbyStartsGame(s)
    <3>1. \A a : Arrive(s, a) =>
            /\ sockets'[s].events = sockets[s].events \cup {"READ"}
            /\ sockets'[s].server = sockets[s].server /\ signalled'
            /\ sockets'[s].at = IF a = <<"Login_Succeeded">> THEN "leaving" ELSE sockets[s].at
            /\ \A q \in Sockets : q # s => sockets'[q] = sockets[q]
      BY ArriveTo
    <3>2. <<"GameCreate">> # <<"Login_Succeeded">>
      OBVIOUS
    <3>3. QED
      BY <2>4, <3>1, <3>2 DEF LobbyStartsGame
  <2>5. QED
    BY <2>1, <2>2, <2>3, <2>4 DEF Network
<1>3. \/ Cur' = Cur
      \/ Cur = sockets[s] /\ Cur' = sockets'[s]
  <2>1. currentSocket = 0 \/ currentSocket \in Sockets
    BY SocketTypes DEF WhereOK
  <2>2. QED
    BY <1>1, <1>2, <2>1, CurIs, SocketTypes
<1>4. (LobbyWay => LobbyWay') /\ (Early => Early') /\ (Late => Late')
  <2>1. CASE (Cur').at = Cur.at
    <3>1. (Cur').server = Cur.server /\ Cur.events \subseteq (Cur').events
      BY <1>2, <1>3
    <3>2. (LobbyWay => LobbyWay') /\ (Early => Early')
      BY <1>1, <1>2, <2>1, <3>1, StillComing
    <3>3. QED
      BY <1>1, <2>1, <3>2, EarlyThen DEF Late
  <2>2. CASE (Cur').at # Cur.at
    <3>1. /\ (Cur').server = Cur.server /\ Cur.events \subseteq (Cur').events
          /\ \/ (Cur').at = "up" /\ "CONNECT" \in (Cur').events /\ Cur.at = "connecting"
             \/ (Cur').at = "failed" /\ "FAILED" \in (Cur').events /\ Cur.at = "connecting"
             \/ (Cur').at = "shut" /\ "CLOSE" \in (Cur').events /\ Cur.at \in {"up", "leaving"}
      BY <1>2, <1>3, <2>2
    <3>2. \A e : e \in (Cur').events => Coming(e)'
      BY <1>2, ComingThen
    <3>3. \A e : Coming(e) => Coming(e)'
      BY <1>1, <1>2, <3>1, ComingThen DEF Coming
    <3>4. LobbyWay => LobbyWay'
      BY <1>1, <3>1, <3>2, LobbyWayThen DEF LobbyWay
    <3>5. Early => Early'
      BY <3>1, <3>2, <3>3, EarlyThen DEF Early
    <3>6. Late => Late'
      BY <1>1, <3>1, <3>5, EarlyThen DEF Late
    <3>7. QED
      BY <3>4, <3>5, <3>6
  <2>3. QED
    BY <2>1, <2>2
<1>5. QED
  BY <1>1, <1>4, StoringAtAuth, AdmissionKept

LEMMA AdmissionServed ==
  ASSUME Typed, WayInv, AdmissionInv, SendLoop
  PROVE  AdmissionInv'
<1> USE DEF Typed, WayInv
<1>1. /\ UNCHANGED <<CurrentState, currentSocket, loop, jobs, cause, m_isConnected>>
      /\ sendQueue # <<>> /\ sendQueue' = Tail(sendQueue)
  BY DEF SendLoop
<1>2. Head(sendQueue) # "TryConnect" /\ In(sendQueue, "TryConnect") => In(sendQueue', "TryConnect")
  <2>1. sendQueue' = After(sendQueue, 1) /\ 1 \in 1 .. Len(sendQueue)
    BY <1>1, Tailed DEF QueuesOK
  <2>2. In(sendQueue, "TryConnect") =>
          Head(sendQueue) = "TryConnect" \/ In(After(sendQueue, 1), "TryConnect")
          \/ \E j \in 2 .. 1 : sendQueue[j] = "TryConnect"
    BY <2>1, RestIn DEF QueuesOK
  <2>3. QED
    BY <2>1, <2>2
<1>3. /\ (Cur').server = Cur.server /\ Cur.events \subseteq (Cur').events /\ (signalled => signalled')
      /\ Cur.server = LOBBY => (Cur').at = Cur.at
  <2>1. CASE UNCHANGED <<sockets, signalled>>
    <3>1. Cur' = Cur
      BY <1>1, <2>1, CurIs
    <3>2. QED
      BY <2>1, <3>1
  <2>2. ASSUME currentSocket \in Sockets, sockets[currentSocket].at = "up",
               NEW answers \in Reply(sockets[currentSocket].server, Head(sendQueue), currentSocket),
               Arrive(currentSocket, answers)
        PROVE  /\ (Cur').server = Cur.server /\ Cur.events \subseteq (Cur').events
               /\ (signalled => signalled') /\ (Cur.server = LOBBY => (Cur').at = Cur.at)
    <3>1. Cur = sockets[currentSocket] /\ Cur' = sockets'[currentSocket]
      BY <1>1, <2>2, CurIs, SocketTypes
    <3>2. answers = <<"Login_Succeeded">> => Cur.server # LOBBY
      BY <2>2, <3>1, ServerNames DEF Reply
    <3>3. /\ (Cur').server = Cur.server /\ (Cur').events = Cur.events \cup {"READ"}
          /\ (Cur').at = IF answers = <<"Login_Succeeded">> THEN "leaving" ELSE Cur.at
          /\ signalled' = TRUE
      BY <2>2, <3>1, ArriveTo
    <3>4. QED
      BY <3>2, <3>3
  <2>3. QED
    BY <2>1, <2>2, SendLoopTo
<1>4. /\ Head(sendQueue) # "TryConnect" => tried' = tried
      /\ Head(sendQueue) = "TryConnect" /\ Cur.at = "up" /\ Cur.server = LOBBY => tried' = currentSocket
  <2>1. Cur = Link(currentSocket)
    BY DEF Cur
  <2>2. QED
    BY <2>1, SendLoopTo
<1>5. LobbyWay => Cur.at \in {"connecting", "failed", "shut", "up"}
  <2>1. SUFFICES ASSUME LobbyWay PROVE Cur.at \in {"connecting", "failed", "shut", "up"}
    OBVIOUS
  <2>2. Cur = sockets[currentSocket] /\ currentSocket \in Sockets
    BY <2>1, CurIs, SocketTypes DEF LobbyWay, WhereOK
  <2>3. Sound(Cur) /\ Cur.at \in Stages
    BY <2>2 DEF SocketInv, SocketsOK, Connections
  <2>4. Cur.at # "unused" /\ Cur.at # "leaving"
    BY <2>1, <2>3, SoundFresh, ServerNames DEF LobbyWay, Sound
  <2>5. QED
    BY <2>3, <2>4 DEF Stages
<1>6. LobbyWay => LobbyWay' /\ (Early => Early')
  <2>1. SUFFICES ASSUME LobbyWay PROVE LobbyWay' /\ (Early => Early')
    OBVIOUS
  <2>2. (Cur').at = Cur.at
    BY <1>3, <2>1 DEF LobbyWay
  <2>3. QED
    BY <1>1, <1>3, <2>1, <2>2, StillComing
<1>7. LobbyWay /\ Late => Late'
  <2>1. SUFFICES ASSUME LobbyWay, Late PROVE Late'
    OBVIOUS
  <2>2. (Cur').at = Cur.at /\ Cur.server = LOBBY
    BY <1>3, <2>1 DEF LobbyWay
  <2>3. CASE Early \/ Cur.at = "shut"
    BY <1>6, <2>1, <2>2, <2>3, EarlyThen
  <2>4. CASE ~Early /\ Cur.at # "shut"
    <3>1. Cur.at = "up"
      BY <1>5, <2>1, <2>4 DEF Early
    <3>2. In(sendQueue', "TryConnect") \/ tried' = currentSocket'
      BY <1>1, <1>2, <1>4, <2>1, <2>2, <2>4, <3>1 DEF Late
    <3>3. QED
      BY <3>2, EarlyThen
  <2>5. QED
    BY <2>3, <2>4
<1>8. QED
  BY <1>1, <1>6, <1>7, StoringAtAuth, AdmissionKept

LEMMA LobbyWaySocket ==
  ASSUME WhereOK, LobbyWay
  PROVE  currentSocket \in Sockets /\ Cur = sockets[currentSocket] /\ Cur # Unused
<1>1. currentSocket \in Sockets /\ Cur = sockets[currentSocket]
  BY CurIs, SocketTypes DEF LobbyWay, WhereOK
<1>2. Cur # Unused
  BY SoundFresh, ServerNames DEF LobbyWay
<1>3. QED
  BY <1>1, <1>2

(* What the launcher had to do with the connection to the lobby, it still   *)
(* has, or it knows the cause.                                              *)
LEMMA AdmissionHandled ==
  ASSUME Chain, AdmissionInv, UNCHANGED <<CurrentState, currentSocket, jobs, m_isConnected, tried>>,
         cause' = "none" => cause = "none",
         LobbyWay /\ cause' = "none" => (Cur').at = Cur.at /\ (Cur').server = Cur.server,
         LobbyWay /\ cause' = "none" => \A e \in {"CLOSE", "FAILED"} : Coming(e) => Coming(e)',
         LobbyWay /\ cause' = "none" /\ Coming("CONNECT") => Coming("CONNECT")' \/ CurrentState = LOBBY,
         LobbyWay /\ cause' = "none" /\ CurrentState = LOBBY =>
           \/ Coming("CONNECT") => Coming("CONNECT")'
           \/ In(sendQueue', "TryConnect"),
         In(sendQueue, "TryConnect") => In(sendQueue', "TryConnect")
  PROVE  AdmissionInv'
<1>1. LobbyWay /\ cause' = "none" => LobbyWay'
  BY LobbyWayThen DEF LobbyWay
<1>2. LobbyWay /\ cause' = "none" /\ Early => Early' \/ CurrentState = LOBBY
  BY EarlyThen DEF Early
<1>3. LobbyWay /\ cause' = "none" /\ Late /\ CurrentState = LOBBY => Late'
  BY EarlyThen DEF Early, Late
<1>4. QED
  BY <1>1, <1>2, <1>3, StoringAtAuth, AdmissionKept

LEMMA AdmissionEnumerated ==
  ASSUME Typed, WayInv, AdmissionInv, Wake \/ EnumerateFails \/ Enumerate
  PROVE  AdmissionInv'
<1> USE DEF Typed, WayInv
<1>1. UNCHANGED <<CurrentState, currentSocket, jobs, sendQueue, tried, m_isConnected>>
  BY DEF Wake, EnumerateFails, Enumerate, socketVars, lobbyVars
<1>2. ASSUME Wake \/ EnumerateFails PROVE AdmissionInv'
  <2>1. UNCHANGED <<sockets, signalled, cause>> /\ Cur' = Cur
    BY <1>1, <1>2, CurIs DEF Wake, EnumerateFails, socketVars
  <2>2. LobbyWay => \A e : Coming(e) => Coming(e)'
    <3>1. SUFFICES ASSUME LobbyWay, NEW e, Coming(e) PROVE Coming(e)'
      OBVIOUS
    <3>2. loop.at \in {"wait", "enumerate"} /\ (loop.at = "enumerate" => loop.sock # currentSocket)
      BY <1>2, <3>1, LobbyWaySocket DEF Wake, EnumerateFails, Cur
    <3>3. e \in Cur.events /\ signalled
      BY <3>1, <3>2 DEF Coming
    <3>4. QED
      BY <2>1, <3>3, ComingThen
  <2>3. QED
    BY <1>1, <2>1, <2>2, AdmissionHandled
<1>3. ASSUME Enumerate PROVE AdmissionInv'
  <2>1. /\ loop.at = "enumerate"
        /\ cause' = "none" => cause = "none"
        /\ cause' = "none" /\ Cur.server = LOBBY => loop.sock = currentSocket \/ Cur.events = {}
    BY <1>3 DEF Enumerate, Because, Cur
  <2>2. /\ loop.sock \in Sockets /\ loop' = Handling(sockets[loop.sock].events)
        /\ sockets'[loop.sock].at = sockets[loop.sock].at
        /\ sockets'[loop.sock].server = sockets[loop.sock].server
        /\ \A q \in Sockets : q # loop.sock => sockets'[q] = sockets[q]
    BY <1>3, EnumerateTo
  <2>3. LobbyWay => currentSocket \in Sockets /\ Cur = sockets[currentSocket]
                    /\ Cur' = sockets'[currentSocket] /\ Cur.server = LOBBY
    BY <1>1, LobbyWaySocket, CurIs DEF LobbyWay
  <2>4. LobbyWay => (Cur').at = Cur.at /\ (Cur').server = Cur.server
    BY <2>2, <2>3
  <2>5. LobbyWay /\ cause' = "none" => \A e : Coming(e) => Coming(e)'
    <3>1. SUFFICES ASSUME LobbyWay, cause' = "none", NEW e, Coming(e) PROVE Coming(e)'
      OBVIOUS
    <3>2. e \in Cur.events
      BY <2>1, <3>1 DEF Coming
    <3>3. loop.sock = currentSocket
      BY <2>1, <2>3, <3>1, <3>2
    <3>4. (loop').at = "handle" /\ (loop').sock = currentSocket /\ (loop').events = Cur.events
      BY <2>2, <2>3, <3>1, <3>2, <3>3 DEF Handling
    <3>5. QED
      BY <1>1, <3>2, <3>4, ComingThen
  <2>6. QED
    BY <1>1, <2>1, <2>4, <2>5, AdmissionHandled
<1>4. QED
  BY <1>2, <1>3

(* The loop is done with some event; the others it still has.               *)
LEMMA ComingRest ==
  ASSUME WayInv, loop \in Steps, NEW e, e \in loop.events, loop' = Handling(loop.events \ {e}),
         UNCHANGED <<currentSocket, sockets, signalled>>
  PROVE  /\ Cur' = Cur
         /\ \A f : f # e /\ Coming(f) => Coming(f)'
         /\ loop.sock # currentSocket /\ Coming(e) => Coming(e)'
<1>1. loop.at = "handle"
  BY LoopFacts DEF WayInv
<1>2. Cur' = Cur
  BY CurIs
<1>3. ASSUME NEW f, f # e \/ loop.sock # currentSocket, Coming(f) PROVE Coming(f)'
  <2>1. CASE f \in Cur.events /\ signalled
    BY <1>2, <2>1, ComingThen
  <2>2. CASE loop.sock = currentSocket /\ f \in loop.events
    <3>1. loop' = [at |-> "handle", sock |-> loop.sock, events |-> loop.events \ {e}]
      BY <1>3, <2>2 DEF Handling
    <3>2. QED
      BY <1>3, <2>2, <3>1, ComingThen
  <2>3. QED
    BY <1>1, <1>3, <2>1, <2>2 DEF Coming
<1>4. QED
  BY <1>2, <1>3

LEMMA AdmissionConnected ==
  ASSUME Typed, WayInv, AdmissionInv, HandleConnect
  PROVE  AdmissionInv'
<1> USE DEF Typed
<1>1. /\ UNCHANGED <<CurrentState, currentSocket, jobs, tried, m_isConnected, sockets, signalled>>
      /\ "CONNECT" \in loop.events /\ loop' = Handling(loop.events \ {"CONNECT"})
      /\ sendQueue' = sendQueue \o Asks
  BY DEF HandleConnect, socketVars, lobbyVars
<1>2. /\ Cur' = Cur
      /\ \A f : f # "CONNECT" /\ Coming(f) => Coming(f)'
      /\ loop.sock # currentSocket /\ Coming("CONNECT") => Coming("CONNECT")'
  BY <1>1, ComingRest
<1>3. /\ cause' = "none" => cause = "none"
      /\ cause' = "none" /\ Cur.server = LOBBY => loop.sock # currentSocket \/ CurrentState = LOBBY
  BY DEF HandleConnect, Because, Cur
<1>4. /\ In(sendQueue, "TryConnect") => In(sendQueue', "TryConnect")
      /\ CurrentState = LOBBY /\ m_isConnected => In(sendQueue', "TryConnect")
  <2>1. /\ Asks \in {<<"FindAccountServer">>, <<"TryConnect">>, <<>>}
        /\ CurrentState = LOBBY /\ m_isConnected => Asks = <<"TryConnect">>
    BY ServerNames DEF Asks, ScreenOK
  <2>2. /\ sendQueue \o <<>> = sendQueue
        /\ \A p \in Requests : sendQueue \o <<p>> = Append(sendQueue, p)
        /\ "TryConnect" \in Requests /\ "FindAccountServer" \in Requests
    BY ConcatEmptySeq, AppendIsConcat DEF QueuesOK, Requests
  <2>3. \A p \in Requests : In(Append(sendQueue, p), "TryConnect") <=>
                             In(sendQueue, "TryConnect") \/ p = "TryConnect"
    BY AppendedIn DEF QueuesOK
  <2>4. QED
    BY <1>1, <2>1, <2>2, <2>3
<1>5. LobbyWay /\ cause' = "none" /\ Coming("CONNECT") => Coming("CONNECT")' \/ CurrentState = LOBBY
  BY <1>2, <1>3 DEF LobbyWay
<1>6. LobbyWay /\ cause' = "none" /\ CurrentState = LOBBY => In(sendQueue', "TryConnect")
  BY <1>3, <1>4 DEF AdmissionInv
<1>7. QED
  BY <1>1, <1>2, <1>3, <1>4, <1>5, <1>6, AdmissionHandled DEF WayInv

LEMMA AdmissionRead ==
  ASSUME Typed, WayInv, AdmissionInv, ReceiveEnds \/ \E k \in 1 .. 2 : Receive(k)
  PROVE  AdmissionInv'
<1> USE DEF Typed
<1>1. CASE ReceiveEnds
  <2>1. /\ UNCHANGED <<CurrentState, currentSocket, jobs, tried, m_isConnected, sockets, signalled,
                       cause, sendQueue>>
        /\ "READ" \in loop.events /\ loop' = Handling(loop.events \ {"READ"})
    BY <1>1 DEF ReceiveEnds, socketVars, lobbyVars
  <2>2. Cur' = Cur /\ \A f : f # "READ" /\ Coming(f) => Coming(f)'
    BY <2>1, ComingRest
  <2>3. QED
    BY <2>1, <2>2, AdmissionHandled DEF WayInv
<1>2. ASSUME NEW k \in 1 .. 2, Receive(k) PROVE AdmissionInv'
  <2>1. UNCHANGED <<CurrentState, currentSocket, jobs, tried, m_isConnected, signalled, loop, cause,
                    sendQueue>>
    BY <1>2 DEF Receive, lobbyVars
  <2>2. /\ currentSocket \in Sockets
        /\ sockets'[currentSocket].events = sockets[currentSocket].events
        /\ sockets'[currentSocket].at = sockets[currentSocket].at
        /\ sockets'[currentSocket].server = sockets[currentSocket].server
    BY <1>2, ReceiveTo
  <2>3. (Cur').events = Cur.events /\ (Cur').at = Cur.at /\ (Cur').server = Cur.server
    BY <2>1, <2>2, CurIs, SocketTypes
  <2>4. \A e : Coming(e) => Coming(e)'
    BY <2>1, <2>3, StillComing
  <2>5. QED
    BY <2>1, <2>3, <2>4, AdmissionHandled DEF WayInv
<1>3. QED
  BY <1>1, <1>2

LEMMA AdmissionFailed ==
  ASSUME Typed, WayInv, AdmissionInv, HandleFailure
  PROVE  AdmissionInv'
<1>1. UNCHANGED <<CurrentState, jobs, m_isConnected>>
  BY DEF HandleFailure
<1>2. /\ cause' = "none" => cause = "none"
      /\ cause = "none" /\ Cur.server = LOBBY => cause' # "none"
  BY DEF HandleFailure, Blame, Because, Cur
<1>3. LobbyWay => cause' # "none"
  BY <1>2 DEF LobbyWay
<1>4. QED
  BY <1>1, <1>2, <1>3, AdmissionThen DEF AdmissionInv

LEMMA AdmissionClosed ==
  ASSUME Typed, WayInv, AdmissionInv, HandleClose
  PROVE  AdmissionInv'
<1> USE DEF Typed
<1>1. /\ UNCHANGED <<jobs, m_isConnected>> /\ loop.events = {"CLOSE"}
      /\ CurrentState' = IF CurrentState = LOBBY THEN ROUTINE ELSE CurrentState
  BY DEF HandleClose
<1>2. /\ cause' = "none" => cause = "none"
      /\ cause' = "none" /\ Cur.server = LOBBY => loop.sock = currentSocket
  BY DEF HandleClose, Blame, Because, Cur
<1>3. CurrentState' # LOBBY
  BY <1>1, ServerNames
<1>4. In(jobs', Storing) => cause' # "none"
  <2>1. SUFFICES ASSUME In(jobs, Storing), cause' = "none" PROVE FALSE
    BY <1>1
  <2>2. LobbyWay /\ Early
    BY <1>2, <2>1 DEF AdmissionInv
  <2>3. loop.at = "handle" /\ loop.sock = currentSocket /\ Cur = sockets[currentSocket]
    <3>1. loop.at = "handle"
      BY <1>1, LoopFacts DEF WayInv
    <3>2. Cur = sockets[currentSocket] /\ Cur.server = LOBBY
      BY <2>2, LobbyWaySocket DEF LobbyWay
    <3>3. QED
      BY <1>2, <2>1, <3>1, <3>2
  <2>4. Cur.at # "connecting" /\ "CONNECT" \notin Cur.events /\ "FAILED" \notin Cur.events
    BY <2>3 DEF LoopInv, WayInv
  <2>5. ~Coming("CONNECT") /\ ~Coming("FAILED")
    BY <1>1, <2>4 DEF Coming
  <2>6. QED
    BY <2>2, <2>4, <2>5 DEF LobbyWay, Early
<1>5. In(jobs', Storing) => m_isConnected'
  BY <1>1 DEF AdmissionInv
<1>6. QED
  BY <1>3, <1>4, <1>5, AdmissionThen

LEMMA AdmissionEventLoop ==
  ASSUME Typed, WayInv, AdmissionInv, EventLoop
  PROVE  AdmissionInv'
<1>1. CASE Wake \/ EnumerateFails \/ Enumerate
  BY <1>1, AdmissionEnumerated
<1>2. CASE HandleConnect
  BY <1>2, AdmissionConnected
<1>3. CASE ReceiveEnds \/ \E k \in 1 .. 2 : Receive(k)
  BY <1>3, AdmissionRead
<1>4. CASE HandleFailure
  BY <1>4, AdmissionFailed
<1>5. CASE HandleClose
  BY <1>5, AdmissionClosed
<1>6. QED
  BY <1>1, <1>2, <1>3, <1>4, <1>5 DEF EventLoop

(* A step that leaves connections, event loop and state alone.              *)
LEMMA AdmissionAside ==
  ASSUME Typed, WayInv, AdmissionInv,
         UNCHANGED <<socketVars, loop, tried, cause>>, m_isConnected => m_isConnected',
         In(jobs', Storing) => In(jobs, Storing),
         In(sendQueue, "TryConnect") => In(sendQueue', "TryConnect")
  PROVE  AdmissionInv'
<1>1. UNCHANGED <<CurrentState, currentSocket, sockets, signalled, loop, cause, tried>> /\ Cur' = Cur
  BY CurIs DEF socketVars
<1>2. (LobbyWay => LobbyWay') /\ (Early => Early')
  BY <1>1, StillComing
<1>3. Late => Late'
  BY <1>1, <1>2, EarlyThen DEF Late
<1>4. QED
  BY <1>1, <1>2, <1>3, StoringAtAuth, AdmissionKept DEF WayInv

LEMMA AdmissionHeard ==
  ASSUME Typed, WayInv, AdmissionInv, HandleReceivedPacket
  PROVE  AdmissionInv'
<1> USE DEF Typed
<1>1. UNCHANGED <<socketVars, loop, tried, cause, sendQueue>>
  BY DEF HandleReceivedPacket, lobbyVars
<1>2. m_isConnected => m_isConnected'
  BY DEF HandleReceivedPacket
<1>3. jobs' = jobs \/ \E j \in Jobs : jobs' = Append(jobs, j) /\ j # Storing
  <2>1. \/ jobs' = jobs
        \/ \E j \in {ToAuth, ToLobby, Job("STARTGAME", "none")}
                     \cup {Job("CHANGE_UI_TYPE", to) : to \in {"Matching", "Lobby"}} :
             jobs' = Append(jobs, j)
    BY DEF HandleReceivedPacket, Triggers, ToAuth, ToLobby
  <2>2. \A j \in {ToAuth, ToLobby, Job("STARTGAME", "none")}
                 \cup {Job("CHANGE_UI_TYPE", to) : to \in {"Matching", "Lobby"}} :
          j \in Jobs /\ j # Storing
    BY DEF ToAuth, ToLobby, Storing, Job, Jobs, Screens
  <2>3. QED
    BY <2>1, <2>2
<1>4. In(jobs', Storing) => In(jobs, Storing)
  BY <1>3, LessLists DEF Less
<1>5. QED
  BY <1>1, <1>2, <1>4, AdmissionAside

LEMMA AdmissionUser ==
  ASSUME Typed, WayInv, AdmissionInv, User
  PROVE  AdmissionInv'
<1> USE DEF Typed
<1>1. UNCHANGED <<socketVars, loop, tried, cause, sendQueue, m_isConnected>>
  BY DEF User, PressLogin, PressBack, PressRequest, threadVars, lobbyVars
<1>2. jobs' = jobs \/ \E p \in Buttons : jobs' = Append(jobs, Job("SendPacket", p))
  BY DEF User, PressLogin, PressBack, PressRequest, Triggers, threadVars
<1>3. \A p \in Buttons : Job("SendPacket", p) \in Jobs /\ Job("SendPacket", p) # Storing
  BY JobTypes DEF Job, Storing
<1>4. In(jobs', Storing) => In(jobs, Storing)
  BY <1>2, <1>3, LessLists DEF Less
<1>5. QED
  BY <1>1, <1>4, AdmissionAside

LEMMA AdmissionTriggered ==
  ASSUME Typed, WayInv, AdmissionInv, NEW i \in DOMAIN jobs, Triggered(i)
  PROVE  AdmissionInv'
<1> USE DEF Typed
<1>1. jobs[i] \in Jobs /\ (jobs' = RemoveAt(jobs, i) => (In(jobs', Storing) => In(jobs, Storing)))
  BY JobsChange, LessLists DEF Less
<1>2. CASE SetUitype(i) \/ ProcessRunner(i) \/ SendPacket(i)
  <2>1. UNCHANGED <<socketVars, loop, tried, cause, m_isConnected>> /\ jobs' = RemoveAt(jobs, i)
    BY <1>2 DEF SetUitype, ProcessRunner, SendPacket, lobbyVars
  <2>2. In(sendQueue, "TryConnect") => In(sendQueue', "TryConnect")
    <3>1. CASE SendPacket(i)
      <4>1. sendQueue' = Append(sendQueue, jobs[i].arg) /\ jobs[i].arg \in Requests
        BY <1>1, <3>1, JobTypes DEF SendPacket
      <4>2. QED
        BY <4>1, AppendedIn DEF QueuesOK
    <3>2. CASE SetUitype(i) \/ ProcessRunner(i)
      BY <3>2 DEF SetUitype, ProcessRunner
    <3>3. QED
      BY <1>2, <3>1, <3>2
  <2>3. QED
    BY <1>1, <2>1, <2>2, AdmissionAside
<1>3. CASE StoreLobby(i)
  <2>1. /\ UNCHANGED <<currentSocket, sockets, signalled, loop, cause, tried, m_isConnected>>
        /\ jobs[i] = Storing /\ jobs' = RemoveAt(jobs, i) /\ CurrentState' = LOBBY
    BY <1>1, <1>3, JobNames DEF StoreLobby, lobbyVars
  <2>2. In(jobs, Storing) /\ ~In(jobs', Storing)
    BY <2>1, LessLists DEF OnceThere, WayInv, In
  <2>3. cause' = "none" => LobbyWay' /\ Early'
    <3>1. (LobbyWay => LobbyWay') /\ (Early => Early')
      BY <2>1, CurIs, StillComing
    <3>2. QED
      BY <2>1, <2>2, <3>1 DEF AdmissionInv
  <2>4. QED
    BY <2>1, <2>2, <2>3, EarlyThen, AdmissionThen DEF AdmissionInv
<1>4. CASE ConnectToAuthServer(i)
  <2>1. jobs[i] = ToAuth /\ jobs' = RemoveAt(jobs, i) /\ CurrentState' = AUTH
    BY <1>1, <1>4, JobNames DEF ConnectToAuthServer
  <2>2. ~In(jobs', Storing) /\ CurrentState' # LOBBY
    BY <1>1, <2>1, StoringAtAuth, ServerNames DEF WayInv, In
  <2>3. QED
    BY <2>2, AdmissionThen
<1>5. CASE ConnectToGameLobbyServer(i)
  <2>1. jobs[i] = ToLobby /\ CurrentState' = CurrentState /\ m_isConnected' = m_isConnected
    BY <1>1, <1>5, JobNames DEF ConnectToGameLobbyServer
  <2>2. CurrentState' # LOBBY /\ ~In(jobs, Storing)
    <3>1. In(jobs, ToLobby)
      BY <2>1 DEF In
    <3>2. QED
      BY <2>1, <3>1, ThereIs, StoringAtAuth, ServerNames DEF Chain, WayInv
  <2>3. CASE m_isConnected
    <3>1. ConnectToServer(LOBBY) /\ LOBBY \in Servers
      BY <1>5, <2>3 DEF ConnectToGameLobbyServer, Servers
    <3>2. currentSocket' # 0 /\ sockets'[currentSocket'] = Connecting(LOBBY)
      BY <3>1, ConnectTo
    <3>3. (Cur').at = "connecting" /\ (Cur').server = LOBBY
      BY <3>1, <3>2, CurIs, SoundFresh
    <3>4. LobbyWay' /\ Early'
      BY <3>2, <3>3, LobbyWayThen, EarlyThen
    <3>5. QED
      BY <2>1, <2>2, <2>3, <3>4, AdmissionThen
  <2>4. CASE ~m_isConnected
    <3>1. jobs' = RemoveAt(jobs, i)
      BY <1>5, <2>4 DEF ConnectToGameLobbyServer
    <3>2. QED
      BY <1>1, <2>2, <3>1, AdmissionThen
  <2>5. QED
    BY <2>3, <2>4
<1>6. QED
  BY <1>2, <1>3, <1>4, <1>5 DEF Triggered

LEMMA AdmissionNext == ASSUME Typed, WayInv, AdmissionInv, [Next]_vars PROVE AdmissionInv'
<1>1. CASE UNCHANGED vars
  <2>1. /\ UNCHANGED <<socketVars, loop, tried, cause, m_isConnected>>
        /\ UNCHANGED <<jobs, sendQueue>>
    BY <1>1 DEF vars, threadVars, lobbyVars
  <2>2. QED
    BY <2>1, AdmissionAside
<1>2. CASE \E s \in Sockets : Network(s)
  BY <1>2, AdmissionNetwork
<1>3. CASE EventLoop
  BY <1>3, AdmissionEventLoop
<1>4. CASE SendLoop
  BY <1>4, AdmissionServed
<1>5. CASE HandleReceivedPacket
  BY <1>5, AdmissionHeard
<1>6. CASE \E i \in DOMAIN jobs : Triggered(i)
  BY <1>6, AdmissionTriggered
<1>7. CASE User
  BY <1>7, AdmissionUser
<1>8. QED
  BY <1>1, <1>2, <1>3, <1>4, <1>5, <1>6, <1>7 DEF Next

(* With nothing left to handle, the lobby was asked.                        *)
LEMMA AskedAtRest ==
  ASSUME Typed, WayInv, AdmissionInv
  PROVE  AdmissionAsked
<1> SUFFICES ASSUME CurrentState = LOBBY, AtRest, Cur.at # "connecting", cause = "none"
             PROVE  currentSocket # 0 /\ tried = currentSocket
  BY DEF AdmissionAsked, Cur
<1>1. LobbyWay /\ Late
  BY DEF AdmissionInv
<1>2. \A e : ~Coming(e)
  BY DEF Coming, AtRest, WayInv, LoopInv, Idle
<1>3. ~In(sendQueue, "TryConnect")
  BY DEF AtRest, In
<1>4. Cur.at # "shut" /\ Cur.at # "failed"
  BY <1>1, <1>2 DEF LobbyWay
<1>5. QED
  BY <1>1, <1>2, <1>3, <1>4 DEF LobbyWay, Late, Early

(* A launcher at rest in the lobby's state has asked the lobby for          *)
(* admission, or the first thing that went wrong on the way is recorded:    *)
(* there are these four causes and no fifth.  EventLoop, StartConnection.   *)
THEOREM AdmissionIsAsked == Spec => []AdmissionAsked
<1> DEFINE Inv == Typed /\ WayInv /\ AdmissionInv
<1>1. Init => Inv
  BY TypeOKInit, TypeParts, WorldInit, ChainInit, AdmissionInit DEF Typed, WayInv
<1>2. Inv /\ [Next]_vars => Inv'
  BY TypedNext, WayNext, AdmissionNext
<1>3. Inv => AdmissionAsked
  BY AskedAtRest
<1> HIDE DEF Inv
<1>4. QED
  BY <1>1, <1>2, <1>3, PTL DEF Spec
==============================================================================
