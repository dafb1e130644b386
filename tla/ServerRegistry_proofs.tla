------------------------ MODULE ServerRegistry_proofs ------------------------
(***************************************************************************)
(* Proofs about ServerRegistry for any set of socket numbers.  IInv says   *)
(* of each connection where its one packet and its one heartbeat can be,   *)
(* who still holds its record, and what the sweep found of it.             *)
(***************************************************************************)
EXTENDS ServerRegistry, TLAPS

LEMMA TypeOKInit == Init => TypeOK
<1> SUFFICES ASSUME Init PROVE TypeOK
  OBVIOUS
<1>1. inbox \in [Sockets -> Seq(Packets)]
  BY DEF Init
<1>2. asked \in [Sockets -> Nat] /\ age \in [Sockets -> Ages]
  BY DEF Init, Ages
<1>3. QED
  BY <1>1, <1>2 DEF Init, TypeOK, Ages

LEMMA TypeOKNext == TypeOK /\ [Next]_vars => TypeOK'
<1> SUFFICES ASSUME TypeOK, [Next]_vars PROVE TypeOK'
  OBVIOUS
<1> USE DEF connVars, recordVars, sweepVars, historyVars
<1>1. ASSUME NEW fd \in Sockets, RecvConnectionCheck(fd) PROVE TypeOK'
  BY <1>1 DEF TypeOK, RecvConnectionCheck, Receive, Refresh, Ages
<1>2. ASSUME NEW fd \in Sockets, RecvHeartbeat(fd) PROVE TypeOK'
  <2>1. inbox' \in [Sockets -> Seq(Packets)] /\ ready' \subseteq Sockets
    BY <1>2 DEF TypeOK, RecvHeartbeat, Receive
  <2>2. /\ age' \in [Sockets -> Ages]
        /\ sendHeartbeat' \subseteq Sockets /\ renewed' \subseteq Sockets
    BY <1>2 DEF TypeOK, RecvHeartbeat, Refresh, Ages
  <2>3. QED
    BY <1>2, <2>1, <2>2 DEF TypeOK, RecvHeartbeat, Receive
<1>3. ASSUME NEW fd \in Sockets, RemoveConnection(fd) PROVE TypeOK'
  BY <1>3 DEF TypeOK, RemoveConnection, RecvEnd
<1>4. CASE CloseSocket
  BY <1>4 DEF TypeOK, CloseSocket
<1>5. CASE SweepCollect
  BY <1>5 DEF TypeOK, SweepCollect
<1>6. ASSUME NEW fd \in Sockets, SweepLook(fd) PROVE TypeOK'
  BY <1>6 DEF TypeOK, SweepLook
<1>7. ASSUME NEW fd \in Sockets, SweepExpire(fd) PROVE TypeOK'
  BY <1>7 DEF TypeOK, SweepExpire
<1>8. CASE SweepCheck
  <2>1. looking \in Sockets
    BY <1>8 DEF SweepCheck, TypeOK
  <2>2. asked' \in [Sockets -> Nat] /\ ready' \subseteq Sockets
    <3>1. \/ UNCHANGED <<asked, ready>>
          \/ asked' = [asked EXCEPT ![looking] = @ + 1] /\ ready' = ready
          \/ asked' = asked /\ ready' = ready \cup {looking}
      BY <1>8 DEF SweepCheck, Ask, SendHeartbeat
    <3>2. asked[looking] + 1 \in Nat
      BY <2>1 DEF TypeOK
    <3>3. QED
      BY <2>1, <3>1, <3>2 DEF TypeOK
  <2>3. sendHeartbeat' \subseteq Sockets
    BY <1>8, <2>1 DEF SweepCheck, Ask, TypeOK
  <2>4. QED
    BY <1>8, <2>1, <2>2, <2>3 DEF SweepCheck, TypeOK
<1>9. ASSUME NEW fd \in Sockets, AcceptConnection(fd) PROVE TypeOK'
  BY <1>9 DEF TypeOK, AcceptConnection
<1>10. ASSUME NEW fd \in Sockets, ConnectRoutingServer(fd) PROVE TypeOK'
  BY <1>10 DEF TypeOK, ConnectRoutingServer, Arrives, Packets
<1>11. ASSUME NEW fd \in Sockets, EchoHeartbeat(fd) PROVE TypeOK'
  BY <1>11 DEF TypeOK, EchoHeartbeat, Arrives, Packets
<1>12. ASSUME NEW fd \in Sockets, NEW fin \in BOOLEAN, PeerGone(fd, fin) PROVE TypeOK'
  BY <1>12 DEF TypeOK, PeerGone
<1>13. ASSUME NEW fd \in Sockets, TimePasses(fd) PROVE TypeOK'
  <2>1. age[fd] \in Ages /\ age[fd] < TimedOut
    BY <1>13 DEF TypeOK, TimePasses
  <2>2. age[fd] + 1 \in Ages
    BY <2>1 DEF Ages, Fresh, Due, TimedOut
  <2>3. QED
    BY <1>13, <2>2 DEF TypeOK, TimePasses
<1>14. CASE UNCHANGED vars
  BY <1>14 DEF TypeOK, vars
<1>15. QED
  BY <1>1, <1>2, <1>3, <1>4, <1>5, <1>6, <1>7, <1>8, <1>9, <1>10, <1>11, <1>12, <1>13, <1>14
  DEF Next, recvWorkerThread, sendWorkerThread, Environment

(* Type correctness of the register.                                        *)
THEOREM TypeCorrect == Spec => []TypeOK
BY TypeOKInit, TypeOKNext, PTL DEF Spec

-----------------------------------------------------------------------------
(* The inductive invariant                                                  *)

(* Nothing waits on a closed socket, and the one being closed is marked.    *)
ClosedAreSilent ==
  /\ \A fd \in Sockets : peer[fd] = "none" => inbox[fd] = <<>>
  /\ closing # NoSocket =>
       peer[closing] = "gone" /\ inbox[closing] = <<>> /\ closing \notin used

(* A connection registers once and then has one heartbeat at a time: asked, *)
(* answered, or noted in sendHeartbeat.                                     *)
Exchange ==
  ~reused => \A fd \in Sockets :
    /\ inbox[fd] \in {<<>>, <<"ConnectionCheck">>, <<"Heartbeat">>}
    /\ asked[fd] \in {0, 1}
    /\ asked[fd] = 1 => inbox[fd] = <<>>
    /\ asked[fd] = 1 \/ inbox[fd] = <<"Heartbeat">> => fd \in sendHeartbeat \/ fd \notin listed
    /\ peer[fd] = "connected" => inbox[fd] = <<>>
    /\ peer[fd] = "connected" \/ inbox[fd] = <<"ConnectionCheck">> =>
         asked[fd] = 0 /\ fd \notin listed

(* A record is out of use, and a heartbeat without one, only after the end  *)
(* of the connection or when a sweep has given the server up.               *)
Kept ==
  ~reused => \A fd \in Sockets \ givenUp :
    /\ inbox[fd] = <<"Heartbeat">> \/ (Up(fd) /\ asked[fd] > 0) => fd \in listed
    /\ fd \in listed \ used => inbox[fd] = <<>> /\ ~Up(fd)

(* Every record the sweep found timed out still is, or was renewed after    *)
(* the sweep had read its age.                                              *)
FoundSilent ==
  /\ \A fd \in socketsToRemove : age[fd] = TimedOut \/ fd \in renewed
  /\ looking # NoSocket /\ seenAge = TimedOut =>
       age[looking] = TimedOut \/ looking \in renewed

(* A registered server is offered until a sweep gives it up.                *)
Attended ==
  ~reused => \A fd \in Sockets :
    peer[fd] = "registered" /\ inbox[fd] # <<"ConnectionCheck">> =>
      fd \in Offered \cup givenUp

IInv ==
  /\ TypeOK /\ PointersLive /\ ClosedAreSilent /\ OfferedAreOpen
  /\ Exchange /\ Kept /\ CrashExplained /\ FoundSilent /\ Attended

LEMMA IInvInit == Init => IInv
<1> SUFFICES ASSUME Init PROVE IInv
  OBVIOUS
<1>1. PointersLive /\ ClosedAreSilent /\ OfferedAreOpen /\ Exchange /\ Kept /\ CrashExplained
  BY DEF Init, PointersLive, ClosedAreSilent, OfferedAreOpen, Exchange, Kept, CrashExplained,
         Offered, Up
<1>2. FoundSilent /\ Attended
  BY DEF Init, FoundSilent, Attended
<1>3. QED
  BY <1>1, <1>2, TypeOKInit DEF IInv

(* Only a sweep that holds no pointer erases a record.                      *)
LEMMA PointersNext == IInv /\ [Next]_vars => PointersLive'
<1> SUFFICES ASSUME TypeOK, PointersLive, [Next]_vars PROVE PointersLive'
  BY DEF IInv
<1> USE DEF connVars, recordVars, sweepVars, historyVars
<1>1. CASE recvWorkerThread
  <2>1. listed \subseteq listed' /\ UNCHANGED sweepVars
    BY <1>1 DEF recvWorkerThread, RecvConnectionCheck, RecvHeartbeat, Receive, RemoveConnection,
                RecvEnd, CloseSocket
  <2>2. QED
    BY <2>1 DEF PointersLive
<1>2. CASE SweepCollect
  BY <1>2 DEF SweepCollect, SweepIdle, PointersLive
<1>3. ASSUME NEW fd \in Sockets, SweepLook(fd) PROVE PointersLive'
  BY <1>3 DEF SweepLook, PointersLive
<1>4. ASSUME NEW fd \in Sockets, SweepExpire(fd) PROVE PointersLive'
  BY <1>4 DEF SweepExpire, PointersLive
<1>5. CASE SweepCheck
  BY <1>5 DEF SweepCheck, PointersLive
<1>6. CASE Environment \/ UNCHANGED vars
  <2>1. UNCHANGED <<listed, sweepVars>>
    BY <1>6 DEF Environment, AcceptConnection, ConnectRoutingServer, EchoHeartbeat, PeerGone,
                TimePasses, vars
  <2>2. QED
    BY <2>1 DEF PointersLive
<1>7. QED
  BY <1>1, <1>2, <1>3, <1>4, <1>5, <1>6 DEF Next, sendWorkerThread

(* The receiver marks a record before it closes the socket.                 *)
LEMMA ClosedNext == IInv /\ [Next]_vars => ClosedAreSilent' /\ OfferedAreOpen'
<1> SUFFICES ASSUME TypeOK, PointersLive, ClosedAreSilent, OfferedAreOpen, [Next]_vars
             PROVE  ClosedAreSilent' /\ OfferedAreOpen'
  BY DEF IInv
<1> USE DEF connVars, recordVars, sweepVars, historyVars, Offered
<1>1. ASSUME NEW fd \in Sockets, RecvConnectionCheck(fd)
      PROVE  ClosedAreSilent' /\ OfferedAreOpen'
  BY <1>1 DEF RecvConnectionCheck, Receive, TypeOK, ClosedAreSilent, OfferedAreOpen
<1>2. ASSUME NEW fd \in Sockets, RecvHeartbeat(fd)
      PROVE  ClosedAreSilent' /\ OfferedAreOpen'
  BY <1>2 DEF RecvHeartbeat, Receive, TypeOK, ClosedAreSilent, OfferedAreOpen
<1>3. ASSUME NEW fd \in Sockets, RemoveConnection(fd)
      PROVE  ClosedAreSilent' /\ OfferedAreOpen'
  BY <1>3 DEF RemoveConnection, RecvEnd, TypeOK, ClosedAreSilent, OfferedAreOpen
<1>4. CASE CloseSocket
  BY <1>4, SocketsAssumption DEF CloseSocket, TypeOK, ClosedAreSilent, OfferedAreOpen
<1>5. CASE sendWorkerThread
  <2>1. /\ UNCHANGED <<peer, inbox, closing>>
        /\ used' \subseteq used /\ listed' \subseteq listed
    BY <1>5 DEF sendWorkerThread, SweepCollect, SweepLook, SweepExpire, SweepCheck
  <2>2. QED
    BY <2>1 DEF ClosedAreSilent, OfferedAreOpen
<1>6. ASSUME NEW fd \in Sockets, AcceptConnection(fd)
      PROVE  ClosedAreSilent' /\ OfferedAreOpen'
  BY <1>6 DEF AcceptConnection, TypeOK, ClosedAreSilent, OfferedAreOpen
<1>7. ASSUME NEW fd \in Sockets, ConnectRoutingServer(fd)
      PROVE  ClosedAreSilent' /\ OfferedAreOpen'
  BY <1>7 DEF ConnectRoutingServer, Arrives, TypeOK, ClosedAreSilent, OfferedAreOpen
<1>8. ASSUME NEW fd \in Sockets, EchoHeartbeat(fd)
      PROVE  ClosedAreSilent' /\ OfferedAreOpen'
  BY <1>8 DEF EchoHeartbeat, Arrives, Up, TypeOK, ClosedAreSilent, OfferedAreOpen
<1>9. ASSUME NEW fd \in Sockets, NEW fin \in BOOLEAN, PeerGone(fd, fin)
      PROVE  ClosedAreSilent' /\ OfferedAreOpen'
  BY <1>9 DEF PeerGone, Up, TypeOK, ClosedAreSilent, OfferedAreOpen
<1>10. ASSUME NEW fd \in Sockets, TimePasses(fd)
       PROVE  ClosedAreSilent' /\ OfferedAreOpen'
  BY <1>10 DEF TimePasses, ClosedAreSilent, OfferedAreOpen
<1>11. CASE UNCHANGED vars
  BY <1>11 DEF vars, ClosedAreSilent, OfferedAreOpen
<1>12. QED
  BY <1>1, <1>2, <1>3, <1>4, <1>5, <1>6, <1>7, <1>8, <1>9, <1>10, <1>11
  DEF Next, recvWorkerThread, Environment

(* What a step may do to the connections, and which steps may.              *)
LEMMA ConnectionFrame ==
  ASSUME [Next]_vars
  PROVE  \/ \E fd \in Sockets : RecvConnectionCheck(fd) \/ RecvHeartbeat(fd)
         \/ \E fd \in Sockets : AcceptConnection(fd) \/ ConnectRoutingServer(fd) \/ EchoHeartbeat(fd)
         \/ SweepCheck
         \/ /\ \A fd \in Sockets : peer'[fd] = peer[fd] \/ peer'[fd] \in {"gone", "none"}
            /\ UNCHANGED <<inbox, asked, sendHeartbeat, reused>>
            /\ listed' \subseteq listed
<1> USE DEF connVars, recordVars, sweepVars, historyVars
<1>1. CASE \/ \E fd \in Sockets : RemoveConnection(fd) \/ TimePasses(fd)
           \/ sendWorkerThread /\ ~SweepCheck
           \/ UNCHANGED vars
  BY <1>1 DEF RemoveConnection, RecvEnd, TimePasses, sendWorkerThread, SweepCollect, SweepLook,
              SweepExpire, vars
<1>2. CASE CloseSocket
  BY <1>2 DEF CloseSocket
<1>3. ASSUME NEW fd \in Sockets, NEW fin \in BOOLEAN, PeerGone(fd, fin)
      PROVE  /\ \A s \in Sockets : peer'[s] = peer[s] \/ peer'[s] \in {"gone", "none"}
             /\ UNCHANGED <<inbox, asked, sendHeartbeat, reused>>
             /\ listed' \subseteq listed
  BY <1>3 DEF PeerGone
<1>4. QED
  BY <1>1, <1>2, <1>3 DEF Next, recvWorkerThread, Environment

LEMMA Distinct ==
  /\ <<>> # <<"ConnectionCheck">> /\ <<>> # <<"Heartbeat">>
  /\ <<"ConnectionCheck">> # <<"Heartbeat">>
<1>1. <<"ConnectionCheck">>[1] # <<"Heartbeat">>[1]
  OBVIOUS
<1>2. Len(<<>>) # Len(<<"ConnectionCheck">>) /\ Len(<<>>) # Len(<<"Heartbeat">>)
  OBVIOUS
<1>3. QED
  BY <1>1, <1>2

LEMMA ExchangeNext == IInv /\ [Next]_vars => Exchange'
<1> SUFFICES ASSUME IInv, [Next]_vars, ~reused', NEW s \in Sockets
             PROVE /\ inbox'[s] \in {<<>>, <<"ConnectionCheck">>, <<"Heartbeat">>}
                   /\ asked'[s] \in {0, 1}
                   /\ asked'[s] = 1 => inbox'[s] = <<>>
                   /\ asked'[s] = 1 \/ inbox'[s] = <<"Heartbeat">> =>
                        s \in sendHeartbeat' \/ s \notin listed'
                   /\ peer'[s] = "connected" => inbox'[s] = <<>>
                   /\ peer'[s] = "connected" \/ inbox'[s] = <<"ConnectionCheck">> =>
                        asked'[s] = 0 /\ s \notin listed'
  BY DEF Exchange
<1> DEFINE Good ==
             /\ inbox'[s] \in {<<>>, <<"ConnectionCheck">>, <<"Heartbeat">>}
             /\ asked'[s] \in {0, 1}
             /\ asked'[s] = 1 => inbox'[s] = <<>>
             /\ asked'[s] = 1 \/ inbox'[s] = <<"Heartbeat">> =>
                  s \in sendHeartbeat' \/ s \notin listed'
             /\ peer'[s] = "connected" => inbox'[s] = <<>>
             /\ peer'[s] = "connected" \/ inbox'[s] = <<"ConnectionCheck">> =>
                  asked'[s] = 0 /\ s \notin listed'
<1> USE DEF connVars, recordVars, sweepVars, historyVars
<1>1. ~reused
  BY DEF Next, recvWorkerThread, sendWorkerThread, Environment, RecvConnectionCheck, RecvHeartbeat,
         Receive, RemoveConnection, RecvEnd, CloseSocket, SweepCollect, SweepLook, SweepExpire,
         SweepCheck, AcceptConnection, ConnectRoutingServer, EchoHeartbeat, PeerGone, TimePasses,
         vars
<1>2. TypeOK /\ Exchange
  BY DEF IInv
<1>3. ASSUME NEW fd \in Sockets, RecvConnectionCheck(fd) PROVE Good
  <2>1. inbox[fd] = <<"ConnectionCheck">>
    BY <1>1, <1>2, <1>3 DEF RecvConnectionCheck, Receive, Exchange
  <2>2. QED
    BY <1>1, <1>2, <1>3, <2>1 DEF RecvConnectionCheck, Receive, Refresh, Exchange, TypeOK
<1>4. ASSUME NEW fd \in Sockets, RecvHeartbeat(fd) PROVE Good
  <2>1. inbox[fd] = <<"Heartbeat">>
    BY <1>1, <1>2, <1>4 DEF RecvHeartbeat, Receive, Exchange
  <2>2. QED
    BY <1>1, <1>2, <1>4, <2>1 DEF RecvHeartbeat, Receive, Refresh, Exchange, TypeOK
<1>5. ASSUME NEW fd \in Sockets, AcceptConnection(fd) PROVE Good
  BY <1>1, <1>2, <1>5 DEF AcceptConnection, Exchange, TypeOK
<1>6. ASSUME NEW fd \in Sockets, ConnectRoutingServer(fd) PROVE Good
  <2>1. inbox[fd] = <<>> /\ asked[fd] = 0 /\ fd \notin listed
    BY <1>1, <1>2, <1>6 DEF ConnectRoutingServer, Exchange
  <2>2. inbox'[fd] = <<"ConnectionCheck">>
    BY <1>2, <1>6, <2>1 DEF ConnectRoutingServer, Arrives, TypeOK
  <2>3. UNCHANGED <<asked, sendHeartbeat, listed>> /\ peer'[fd] = "registered"
    BY <1>2, <1>6 DEF ConnectRoutingServer, TypeOK
  <2>4. CASE s = fd
    <3>1. /\ inbox'[s] = <<"ConnectionCheck">> /\ asked'[s] = 0
          /\ peer'[s] = "registered" /\ s \notin listed'
      BY <2>1, <2>2, <2>3, <2>4
    <3>2. inbox'[s] # <<>> /\ inbox'[s] # <<"Heartbeat">>
      BY <3>1, Distinct
    <3>3. QED
      BY <3>1, <3>2
  <2>5. CASE s # fd
    <3>1. inbox'[s] = inbox[s] /\ peer'[s] = peer[s]
      BY <1>2, <1>6, <2>5 DEF ConnectRoutingServer, Arrives, TypeOK
    <3>2. QED
      BY <1>1, <1>2, <2>3, <3>1 DEF Exchange
  <2>6. QED
    BY <2>4, <2>5
<1>7. ASSUME NEW fd \in Sockets, EchoHeartbeat(fd) PROVE Good
  <2>1. asked[fd] = 1 /\ inbox[fd] = <<>>
    BY <1>1, <1>2, <1>7 DEF EchoHeartbeat, Exchange
  <2>2. inbox'[fd] = <<"Heartbeat">> /\ asked'[fd] = 0
    BY <1>2, <1>7, <2>1 DEF EchoHeartbeat, Arrives, TypeOK
  <2>3. UNCHANGED <<peer, sendHeartbeat, listed>>
    BY <1>7 DEF EchoHeartbeat
  <2>4. fd \in sendHeartbeat \/ fd \notin listed
    BY <1>1, <1>2, <2>1 DEF Exchange
  <2>5. CASE s = fd
    <3>1. peer[fd] # "connected"
      BY <1>1, <1>2, <2>1 DEF Exchange
    <3>2. QED
      <4>1. /\ inbox'[s] = <<"Heartbeat">> /\ asked'[s] = 0 /\ peer'[s] # "connected"
            /\ s \in sendHeartbeat' \/ s \notin listed'
        BY <2>2, <2>3, <2>4, <2>5, <3>1
      <4>2. inbox'[s] # <<>> /\ inbox'[s] # <<"ConnectionCheck">>
        BY <4>1, Distinct
      <4>3. QED
        BY <4>1, <4>2
  <2>6. CASE s # fd
    <3>1. inbox'[s] = inbox[s] /\ asked'[s] = asked[s]
      BY <1>2, <1>7, <2>6 DEF EchoHeartbeat, Arrives, TypeOK
    <3>2. QED
      BY <1>1, <1>2, <2>3, <3>1 DEF Exchange
  <2>7. QED
    BY <2>5, <2>6
<1>8. CASE SweepCheck
  <2>1. looking \in Sockets /\ looking \in listed
    BY <1>8 DEF SweepCheck, IInv, TypeOK, PointersLive
  <2>2. CASE MustAsk /\ Ask
    <3>1. looking \notin sendHeartbeat /\ asked[looking] = 0 /\ inbox[looking] = <<>>
      <4>1. /\ inbox[looking] \in {<<>>, <<"ConnectionCheck">>, <<"Heartbeat">>}
            /\ asked[looking] \in {0, 1}
            /\ asked[looking] = 1 \/ inbox[looking] = <<"Heartbeat">> =>
                 looking \in sendHeartbeat \/ looking \notin listed
            /\ inbox[looking] = <<"ConnectionCheck">> => looking \notin listed
        BY <1>1, <1>2, <2>1 DEF Exchange
      <4>2. looking \notin sendHeartbeat
        BY <2>2 DEF MustAsk
      <4>3. QED
        BY <2>1, <4>1, <4>2
    <3>2. /\ sendHeartbeat' = sendHeartbeat \cup {looking}
          /\ asked' = [asked EXCEPT ![looking] = 1] \/ asked' = asked
      BY <2>2, <3>1 DEF Ask, SendHeartbeat
    <3>3. QED
      BY <1>1, <1>2, <1>8, <2>1, <3>1, <3>2 DEF SweepCheck, Exchange, TypeOK
  <2>3. CASE UNCHANGED <<asked, sendHeartbeat>>
    BY <1>1, <1>2, <1>8, <2>3 DEF SweepCheck, Exchange
  <2>4. QED
    BY <1>8, <2>2, <2>3 DEF SweepCheck
<1>9. CASE /\ \A fd \in Sockets : peer'[fd] = peer[fd] \/ peer'[fd] \in {"gone", "none"}
           /\ UNCHANGED <<inbox, asked, sendHeartbeat, reused>>
           /\ listed' \subseteq listed
  BY <1>1, <1>2, <1>9 DEF Exchange
<1>10. Good
  BY <1>3, <1>4, <1>5, <1>6, <1>7, <1>8, <1>9, ConnectionFrame
<1>11. QED
  BY <1>10

LEMMA KeptNext == IInv /\ [Next]_vars => Kept'
<1> SUFFICES ASSUME IInv, [Next]_vars, ~reused', NEW s \in Sockets \ givenUp'
             PROVE  /\ inbox'[s] = <<"Heartbeat">> \/ (Up(s)' /\ asked'[s] > 0) => s \in listed'
                    /\ s \in listed' \ used' => inbox'[s] = <<>> /\ ~Up(s)'
  BY DEF Kept
<1> DEFINE Good ==
             /\ inbox'[s] = <<"Heartbeat">> \/ (Up(s)' /\ asked'[s] > 0) => s \in listed'
             /\ s \in listed' \ used' => inbox'[s] = <<>> /\ ~Up(s)'
<1> USE DEF connVars, recordVars, sweepVars, historyVars, Up
<1>1. ~reused
  BY DEF Next, recvWorkerThread, sendWorkerThread, Environment, RecvConnectionCheck, RecvHeartbeat,
         Receive, RemoveConnection, RecvEnd, CloseSocket, SweepCollect, SweepLook, SweepExpire,
         SweepCheck, AcceptConnection, ConnectRoutingServer, EchoHeartbeat, PeerGone, TimePasses,
         vars
<1>2. TypeOK /\ Exchange /\ Kept
  BY DEF IInv
<1>3. ASSUME NEW fd \in Sockets, RecvConnectionCheck(fd) PROVE Good
  BY <1>1, <1>2, <1>3, Distinct DEF RecvConnectionCheck, Receive, Kept, TypeOK
<1>4. ASSUME NEW fd \in Sockets, RecvHeartbeat(fd) PROVE Good
  <2>1. /\ inbox' = [inbox EXCEPT ![fd] = <<>>]
        /\ UNCHANGED <<peer, asked, listed, used, givenUp>>
    BY <1>4 DEF RecvHeartbeat, Receive
  <2>2. QED
    BY <1>1, <1>2, <2>1, Distinct DEF Kept, TypeOK
<1>5. ASSUME NEW fd \in Sockets, RemoveConnection(fd) PROVE Good
  BY <1>1, <1>2, <1>5 DEF RemoveConnection, RecvEnd, Kept
<1>6. CASE CloseSocket
  BY <1>1, <1>2, <1>6 DEF CloseSocket, Kept, TypeOK
<1>7. CASE SweepCollect
  BY <1>1, <1>2, <1>7, Distinct DEF SweepCollect, Kept
<1>8. ASSUME NEW fd \in Sockets, SweepLook(fd) \/ TimePasses(fd) PROVE Good
  BY <1>1, <1>2, <1>8 DEF SweepLook, TimePasses, Kept
<1>9. CASE SweepCheck
  <2>1. looking \in Sockets /\ looking \in listed
    BY <1>9 DEF SweepCheck, IInv, TypeOK, PointersLive
  <2>2. /\ UNCHANGED <<peer, inbox, listed, used, givenUp>>
        /\ asked'[s] = asked[s] \/ s = looking
    BY <1>2, <1>9, <2>1 DEF SweepCheck, Ask, SendHeartbeat, TypeOK
  <2>3. QED
    BY <1>1, <1>2, <2>1, <2>2 DEF Kept
<1>10. ASSUME NEW fd \in Sockets, SweepExpire(fd) PROVE Good
  BY <1>1, <1>2, <1>10 DEF SweepExpire, Kept
<1>11. ASSUME NEW fd \in Sockets, AcceptConnection(fd) PROVE Good
  <2>1. fd \notin listed /\ UNCHANGED <<listed, used>>
    BY <1>11 DEF AcceptConnection
  <2>2. CASE s = fd
    <3>1. inbox'[s] = <<>> /\ asked'[s] = 0
      BY <1>2, <1>11, <2>2 DEF AcceptConnection, TypeOK
    <3>2. QED
      BY <2>1, <2>2, <3>1, Distinct
  <2>3. CASE s # fd
    <3>1. /\ inbox'[s] = inbox[s] /\ asked'[s] = asked[s] /\ peer'[s] = peer[s]
          /\ s \notin givenUp
      BY <1>2, <1>11, <2>3 DEF AcceptConnection, TypeOK
    <3>2. QED
      BY <1>1, <1>2, <2>1, <3>1 DEF Kept
  <2>4. QED
    BY <2>2, <2>3
<1>12. ASSUME NEW fd \in Sockets, ConnectRoutingServer(fd) PROVE Good
  <2>1. inbox[fd] = <<>> /\ asked[fd] = 0 /\ fd \notin listed
    BY <1>1, <1>2, <1>12 DEF ConnectRoutingServer, Exchange
  <2>2. inbox'[fd] = <<"ConnectionCheck">>
    BY <1>2, <1>12, <2>1 DEF ConnectRoutingServer, Arrives, TypeOK
  <2>3. UNCHANGED <<asked, listed, used, givenUp>>
    BY <1>12 DEF ConnectRoutingServer
  <2>4. CASE s = fd
    BY <2>1, <2>2, <2>3, <2>4, Distinct
  <2>5. CASE s # fd
    <3>1. inbox'[s] = inbox[s] /\ peer'[s] = peer[s]
      BY <1>2, <1>12, <2>5 DEF ConnectRoutingServer, Arrives, TypeOK
    <3>2. QED
      BY <1>1, <1>2, <2>3, <3>1 DEF Kept
  <2>6. QED
    BY <2>4, <2>5
<1>13. ASSUME NEW fd \in Sockets, EchoHeartbeat(fd) PROVE Good
  <2>1. UNCHANGED <<peer, listed, used, givenUp>>
    BY <1>13 DEF EchoHeartbeat
  <2>2. CASE s = fd
    BY <1>1, <1>2, <1>13, <2>1, <2>2 DEF EchoHeartbeat, Kept
  <2>3. CASE s # fd
    <3>1. inbox'[s] = inbox[s] /\ asked'[s] = asked[s]
      BY <1>2, <1>13, <2>3 DEF EchoHeartbeat, Arrives, TypeOK
    <3>2. QED
      BY <1>1, <1>2, <2>1, <3>1 DEF Kept
  <2>4. QED
    BY <2>2, <2>3
<1>14. ASSUME NEW fd \in Sockets, NEW fin \in BOOLEAN, PeerGone(fd, fin) PROVE Good
  BY <1>1, <1>2, <1>14 DEF PeerGone, Kept, TypeOK
<1>15. CASE UNCHANGED vars
  BY <1>1, <1>2, <1>15 DEF vars, Kept
<1>16. Good
  BY <1>3, <1>4, <1>5, <1>6, <1>7, <1>8, <1>9, <1>10, <1>11, <1>12, <1>13, <1>14, <1>15
  DEF Next, recvWorkerThread, sendWorkerThread, Environment
<1>17. QED
  BY <1>16

LEMMA CrashNext == IInv /\ [Next]_vars => CrashExplained'
<1> SUFFICES ASSUME IInv, [Next]_vars, crashed' PROVE givenUp' # {} \/ reused'
  BY DEF CrashExplained
<1> USE DEF connVars, recordVars, sweepVars, historyVars
<1>1. CASE crashed
  <2>1. UNCHANGED <<givenUp, reused>>
    BY <1>1 DEF Next, recvWorkerThread, sendWorkerThread, Environment, RecvConnectionCheck,
                RecvHeartbeat, Receive, RemoveConnection, RecvEnd, CloseSocket, SweepCollect,
                SweepLook, SweepExpire, SweepCheck, AcceptConnection, ConnectRoutingServer,
                EchoHeartbeat, PeerGone, TimePasses, vars
  <2>2. QED
    BY <1>1, <2>1 DEF IInv, CrashExplained
<1>2. CASE ~crashed
  <2>1. PICK fd \in Sockets : RecvHeartbeat(fd) /\ fd \notin listed
    BY <1>2 DEF Next, recvWorkerThread, sendWorkerThread, Environment, RecvConnectionCheck,
                RecvHeartbeat, Receive, RemoveConnection, RecvEnd, CloseSocket, SweepCollect,
                SweepLook, SweepExpire, SweepCheck, AcceptConnection, ConnectRoutingServer,
                EchoHeartbeat, PeerGone, TimePasses, vars
  <2>2. UNCHANGED <<givenUp, reused>>
    BY <2>1 DEF RecvHeartbeat, Receive
  <2>3. CASE ~reused
    <3>1. inbox[fd] = <<"Heartbeat">>
      BY <2>1, <2>3 DEF RecvHeartbeat, Receive, IInv, Exchange
    <3>2. fd \in givenUp
      BY <2>1, <2>3, <3>1 DEF IInv, Kept
    <3>3. QED
      BY <2>2, <3>2
  <2>4. QED
    BY <2>2, <2>3
<1>3. QED
  BY <1>1, <1>2

(* What is heard of a record the sweep holds goes into renewed, and time    *)
(* only ages a record.                                                      *)
LEMMA FoundSilentNext == IInv /\ [Next]_vars => FoundSilent'
<1> SUFFICES ASSUME TypeOK, FoundSilent, [Next]_vars PROVE FoundSilent'
  BY DEF IInv
<1> USE DEF connVars, recordVars, sweepVars, historyVars
<1>1. ASSUME NEW fd \in Sockets, RecvConnectionCheck(fd) PROVE FoundSilent'
  BY <1>1 DEF RecvConnectionCheck, Receive, Refresh, FoundSilent, TypeOK
<1>2. ASSUME NEW fd \in Sockets, RecvHeartbeat(fd) PROVE FoundSilent'
  BY <1>2 DEF RecvHeartbeat, Receive, Refresh, FoundSilent, TypeOK
<1>3. ASSUME NEW fd \in Sockets, SweepLook(fd) PROVE FoundSilent'
  BY <1>3 DEF SweepLook, FoundSilent
<1>4. CASE SweepCheck
  BY <1>4 DEF SweepCheck, FoundSilent
<1>5. ASSUME NEW fd \in Sockets, SweepExpire(fd) PROVE FoundSilent'
  BY <1>5 DEF SweepExpire, FoundSilent
<1>6. ASSUME NEW fd \in Sockets, TimePasses(fd) PROVE FoundSilent'
  <2>1. \A s \in Sockets : age[s] = TimedOut => age'[s] = TimedOut
    BY <1>6 DEF TimePasses, TypeOK, Ages, TimedOut
  <2>2. UNCHANGED <<sweepVars, renewed>>
    BY <1>6 DEF TimePasses
  <2>3. QED
    BY <2>1, <2>2 DEF FoundSilent, TypeOK
<1>7. CASE \/ SweepCollect \/ CloseSocket \/ UNCHANGED vars
           \/ \E fd \in Sockets :
                \/ RemoveConnection(fd)
                \/ AcceptConnection(fd) \/ ConnectRoutingServer(fd) \/ EchoHeartbeat(fd)
                \/ \E fin \in BOOLEAN : PeerGone(fd, fin)
  <2>1. UNCHANGED <<age, looking, seenAge, socketsToRemove, renewed>>
    BY <1>7 DEF SweepCollect, CloseSocket, RemoveConnection, RecvEnd, AcceptConnection,
                ConnectRoutingServer, EchoHeartbeat, PeerGone, vars
  <2>2. QED
    BY <2>1 DEF FoundSilent
<1>8. QED
  BY <1>1, <1>2, <1>3, <1>4, <1>5, <1>6, <1>7
  DEF Next, recvWorkerThread, sendWorkerThread, Environment

(* A registered server loses its record, or its use, only to a sweep: the   *)
(* receiver takes either from a server that is gone.                        *)
LEMMA AttendedNext == IInv /\ [Next]_vars => Attended'
<1> SUFFICES ASSUME IInv, [Next]_vars, ~reused', NEW s \in Sockets,
                    peer'[s] = "registered", inbox'[s] # <<"ConnectionCheck">>
             PROVE  s \in Offered' \cup givenUp'
  BY DEF Attended
<1> USE DEF connVars, recordVars, sweepVars, historyVars, Offered
<1>1. ~reused
  BY DEF Next, recvWorkerThread, sendWorkerThread, Environment, RecvConnectionCheck, RecvHeartbeat,
         Receive, RemoveConnection, RecvEnd, CloseSocket, SweepCollect, SweepLook, SweepExpire,
         SweepCheck, AcceptConnection, ConnectRoutingServer, EchoHeartbeat, PeerGone, TimePasses,
         vars
<1>2. TypeOK /\ Exchange /\ Attended
  BY DEF IInv
<1> DEFINE Good == s \in Offered' \cup givenUp'
           Was == peer[s] = "registered" /\ inbox[s] # <<"ConnectionCheck">>
<1>3. Was => s \in Offered \cup givenUp
  BY <1>1, <1>2 DEF Attended
<1>4. ASSUME NEW fd \in Sockets, RecvConnectionCheck(fd) PROVE Good
  <2>1. /\ listed' = listed \cup {fd} /\ used' = used \cup {fd}
        /\ UNCHANGED <<peer, givenUp>> /\ inbox' = [inbox EXCEPT ![fd] = <<>>]
    BY <1>4 DEF RecvConnectionCheck, Receive
  <2>2. s # fd => Was
    BY <1>2, <2>1 DEF TypeOK
  <2>3. QED
    BY <1>3, <2>1, <2>2
<1>5. ASSUME NEW fd \in Sockets, RecvHeartbeat(fd) PROVE Good
  <2>1. inbox[fd] = <<"Heartbeat">>
    BY <1>1, <1>2, <1>5 DEF RecvHeartbeat, Receive, Exchange
  <2>2. /\ UNCHANGED <<peer, listed, used, givenUp>>
        /\ inbox' = [inbox EXCEPT ![fd] = <<>>]
    BY <1>5 DEF RecvHeartbeat, Receive
  <2>3. Was
    BY <1>2, <2>1, <2>2, Distinct DEF TypeOK
  <2>4. QED
    BY <1>3, <2>2, <2>3
<1>6. ASSUME NEW fd \in Sockets, RemoveConnection(fd) PROVE Good
  BY <1>3, <1>6 DEF RemoveConnection, RecvEnd
<1>7. CASE CloseSocket
  BY <1>2, <1>3, <1>7 DEF CloseSocket, TypeOK
<1>8. CASE SweepCollect
  BY <1>3, <1>8 DEF SweepCollect
<1>9. ASSUME NEW fd \in Sockets, SweepLook(fd) \/ TimePasses(fd) \/ SweepExpire(fd) PROVE Good
  <2>1. CASE SweepLook(fd) \/ TimePasses(fd)
    BY <1>3, <2>1 DEF SweepLook, TimePasses
  <2>2. CASE SweepExpire(fd)
    <3>1. /\ UNCHANGED <<peer, inbox, listed>>
          /\ used' = used \ {fd} /\ givenUp' = givenUp \cup {fd}
      BY <2>2 DEF SweepExpire
    <3>2. QED
      BY <1>3, <3>1
  <2>3. QED
    BY <1>9, <2>1, <2>2
<1>10. CASE SweepCheck \/ UNCHANGED vars
  BY <1>3, <1>10 DEF SweepCheck, vars
<1>11. ASSUME NEW fd \in Sockets, AcceptConnection(fd) PROVE Good
  BY <1>2, <1>3, <1>11 DEF AcceptConnection, TypeOK
<1>12. ASSUME NEW fd \in Sockets, ConnectRoutingServer(fd) PROVE Good
  <2>1. inbox[fd] = <<>>
    BY <1>1, <1>2, <1>12 DEF ConnectRoutingServer, Exchange
  <2>2. s # fd
    <3>1. inbox'[fd] = <<"ConnectionCheck">>
      BY <1>2, <1>12, <2>1 DEF ConnectRoutingServer, Arrives, TypeOK
    <3>2. QED
      BY <3>1
  <2>3. Was /\ UNCHANGED <<listed, used, givenUp>>
    BY <1>2, <1>12, <2>2 DEF ConnectRoutingServer, Arrives, TypeOK
  <2>4. QED
    BY <1>3, <2>3
<1>13. ASSUME NEW fd \in Sockets, EchoHeartbeat(fd) PROVE Good
  <2>1. inbox[fd] = <<>>
    BY <1>1, <1>2, <1>13 DEF EchoHeartbeat, Exchange
  <2>2. UNCHANGED <<peer, listed, used, givenUp>>
    BY <1>13 DEF EchoHeartbeat
  <2>3. Was
    BY <1>2, <1>13, <2>1, <2>2, Distinct DEF EchoHeartbeat, Arrives, TypeOK
  <2>4. QED
    BY <1>3, <2>2, <2>3
<1>14. ASSUME NEW fd \in Sockets, NEW fin \in BOOLEAN, PeerGone(fd, fin) PROVE Good
  BY <1>2, <1>3, <1>14 DEF PeerGone, TypeOK
<1>15. Good
  BY <1>4, <1>5, <1>6, <1>7, <1>8, <1>9, <1>10, <1>11, <1>12, <1>13, <1>14
  DEF Next, recvWorkerThread, sendWorkerThread, Environment
<1>16. QED
  BY <1>15

THEOREM Invariance == Spec => []IInv
<1>1. IInv /\ [Next]_vars => IInv'
  BY TypeOKNext, PointersNext, ClosedNext, ExchangeNext, KeptNext, CrashNext, FoundSilentNext,
     AttendedNext DEF IInv
<1>2. QED
  BY <1>1, IInvInit, PTL DEF Spec

-----------------------------------------------------------------------------
(* What holds of the register in every behaviour                            *)

(* The sweeper's raw pointers never dangle.                                 *)
THEOREM PointersStayLive == Spec => []PointersLive
<1>1. IInv => PointersLive
  BY DEF IInv
<1>2. QED
  BY <1>1, Invariance, PTL

(* No address of a closed connection is handed out.                         *)
THEOREM OfferedStayOpen == Spec => []OfferedAreOpen
<1>1. IInv => OfferedAreOpen
  BY DEF IInv
<1>2. QED
  BY <1>1, Invariance, PTL

(* Only a given-up server or a reused number brings the registry down.      *)
THEOREM CrashesExplained == Spec => []CrashExplained
<1>1. IInv => CrashExplained
  BY DEF IInv
<1>2. QED
  BY <1>1, Invariance, PTL

(* A server that is there loses its place only to a sweep that had found it *)
(* silent.                                                                  *)
THEOREM DropsAreForSilence == Spec => []DroppedForSilence
<1>1. IInv => DroppedForSilence
  BY DEF IInv, FoundSilent, Attended, DroppedForSilence
<1>2. QED
  BY <1>1, Invariance, PTL

(* A connection has one heartbeat under way at most.                        *)
THEOREM HeartbeatsOneByOne == Spec => []OneHeartbeatInFlight
<1>1. IInv => OneHeartbeatInFlight
  <2> SUFFICES ASSUME IInv, ~reused, NEW fd \in Sockets
               PROVE  /\ asked[fd] <= 1
                      /\ \A i, j \in Answers(fd) : i = j /\ asked[fd] = 0
    BY DEF OneHeartbeatInFlight
  <2>1. /\ inbox[fd] \in {<<>>, <<"ConnectionCheck">>, <<"Heartbeat">>}
        /\ asked[fd] \in {0, 1}
        /\ asked[fd] = 1 => inbox[fd] = <<>>
    BY DEF IInv, Exchange
  <2>2. Answers(fd) \subseteq {1}
    BY <2>1 DEF Answers
  <2>3. inbox[fd] = <<>> => Answers(fd) = {}
    BY DEF Answers
  <2>4. QED
    BY <2>1, <2>2, <2>3
<1>2. QED
  BY <1>1, Invariance, PTL
=============================================================================
