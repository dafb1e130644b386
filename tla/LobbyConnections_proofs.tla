------------------------ MODULE LobbyConnections_proofs ------------------------
(***************************************************************************)
(* Proofs about LobbyConnections for any number of clients, numbers,       *)
(* records and connections: Base is the types and the pool, Ends what      *)
(* records and connections have to do with each other, Marks what a record *)
(* marked by the heartbeat waits for.                                      *)
(***************************************************************************)
EXTENDS LobbyConnections, PacketStreams, FiniteSetTheorems

Entry  == [isLast : BOOLEAN, conn : 0..MaxConnections]
Numbers == 0..MaxConnections

NetOK ==
  /\ accepted \in Numbers /\ who \in [Connections -> Clients \cup {None}]
  /\ peer \in [Sockets -> Numbers] /\ eof \in [Sockets -> {"no", "event", "missed", "seen"}]
  /\ admitted \subseteq Connections /\ asked \subseteq Sockets /\ session \subseteq Clients
RecordOK ==
  /\ players \in [Clients -> Objects \cup {None, Null}]
  /\ PlayerSocket \in [Objects -> Sockets \cup {None}] /\ LastHeartbeat \in [Objects -> Ages]
  /\ sendHeartbeat \subseteq Objects /\ ingame \subseteq Objects /\ pool \in Seq(Objects)
MapOK ==
  /\ heatbeatforplayer \in [Clients -> Objects \cup {None, Null}]
  /\ socketToHash \in [Sockets -> Clients \cup {None}]
QueueOK ==
  /\ send_queues \in [Sockets -> Seq(Entry)] /\ armed \subseteq Sockets
  /\ responses \subseteq Sockets /\ logouts \subseteq Sockets \X Connections
ThreadOK ==
  /\ recv \in [pc : {"idle", "cleanup", "close"}, fd : Sockets \cup {None}, conn : Numbers]
  /\ reg \in [pc : {"idle", "find", "enter"}, fd : Sockets \cup {None}, conn : Numbers,
              h : Clients \cup {None}]
  /\ resp \in {IdleResp} \cup [pc : {"store"}, h : Clients]
  /\ send \in [pc : {"idle", "send"}, fd : Sockets \cup {None}, queue : Seq(Entry)]
HeartOK ==
  /\ heart \in [pc : {"idle", "mark", "close"}, o : Objects \cup {None},
                fd : Sockets \cup {None}, conn : Numbers, late : BOOLEAN]
  /\ crashed \in BOOLEAN
HistoryOK ==
  /\ cause \in [Objects -> Causes] /\ outrun \in BOOLEAN
  /\ overtaken \subseteq Objects /\ home \in [Objects -> Numbers] /\ goodbye \subseteq Connections
  /\ gone \in BOOLEAN /\ unfound \subseteq Clients

(* What a thread works on at its step, it has; accepted connections have    *)
(* their client.                                                            *)
Held ==
  /\ recv.pc # "idle" => recv.fd \in Sockets /\ recv.conn \in 0..accepted
  /\ reg.pc # "idle" => reg.fd \in Sockets /\ reg.conn \in 1..accepted /\ reg.h = who[reg.conn]
  /\ send.pc = "send" => send.fd \in Sockets /\ send.queue # <<>>
  /\ send.pc = "idle" => send = IdleSend
  /\ heart.pc # "idle" => heart.o \in Objects /\ heart.fd \in Sockets
  /\ \A c \in 1..accepted : who[c] \in Clients
  /\ \A fd \in Sockets : peer[fd] \in 0..accepted

(* A record is in the pool once, or one player's.                           *)
PoolInv ==
  /\ \A o \in Objects : Once(pool, o) /\ (In(pool, o) \/ \E h \in Clients : players[h] = o)
  /\ \A h \in Clients, o \in Objects : players[h] = o => ~In(pool, o)
  /\ \A h, g \in Clients, o \in Objects : players[h] = o /\ players[g] = o => h = g

USE DEF nullVars

Typed == /\ NetOK /\ RecordOK /\ MapOK /\ QueueOK /\ ThreadOK /\ HeartOK /\ HistoryOK

LEMMA TypeParts == TypeOK <=> Typed
BY DEF TypeOK, Typed, NetOK, RecordOK, MapOK, QueueOK, ThreadOK, HeartOK, HistoryOK, Entry, Numbers

LEMMA Names ==
  /\ None \notin Clients /\ None \notin Sockets /\ None \notin Objects /\ Null \notin Objects
  /\ Null # None /\ MaxConnections \in Nat /\ 0 \in Numbers /\ Connections \subseteq Numbers
  /\ IdleResp.pc = "idle" /\ IdleResp.h = None
BY ConnectionsAssumption DEF Numbers, Connections, IdleResp

LEMMA EmptyStream == \A S : <<>> \in Seq(S) /\ DOMAIN <<>> = {}
BY EmptySeq, LenProperties

-----------------------------------------------------------------------------
(* The steps' common parts *)

LEMMA DisconnectTo ==
  ASSUME NetOK, QueueOK, NEW fd, Disconnect(fd)
  PROVE  /\ peer' \in [Sockets -> Numbers] /\ eof' \in [Sockets -> {"no", "event", "missed", "seen"}]
         /\ admitted' \subseteq admitted /\ asked' = asked \ {fd} /\ armed' \subseteq armed
         /\ send_queues' \in [Sockets -> Seq(Entry)]
         /\ \A g \in Sockets : g = fd => peer'[g] = 0 /\ eof'[g] = "no" /\ send_queues'[g] = <<>>
         /\ \A g \in Sockets : g # fd => /\ peer'[g] = peer[g] /\ eof'[g] = eof[g]
                                         /\ send_queues'[g] = send_queues[g]
         /\ admitted' = admitted \ {peer[fd]}
BY EmptyStream, Names DEF Disconnect, NetOK, QueueOK

LEMMA PushTo ==
  ASSUME NetOK, QueueOK, NEW fd \in Sockets, NEW m \in Entry, Push(fd, m)
  PROVE  /\ send_queues' \in [Sockets -> Seq(Entry)] /\ armed' \subseteq Sockets
         /\ send_queues'[fd] = Append(send_queues[fd], m)
         /\ \A g \in Sockets : g # fd => send_queues'[g] = send_queues[g]
<1>1. Append(send_queues[fd], m) \in Seq(Entry)
  BY AppendProperties DEF QueueOK
<1>2. QED
  BY <1>1 DEF Push, QueueOK, NetOK

LEMMA EntryTypes == Request \in Entry /\ \A c \in Connections : LogoutResponse(c) \in Entry
BY Names DEF Request, LogoutResponse, Entry, Numbers, Connections

LEMMA AstrayTo ==
  ASSUME HistoryOK, NEW fd, NEW meant
  PROVE  /\ Astray(fd, meant) \in [Objects -> Causes]
         /\ \A o \in Objects : Astray(fd, meant)[o] = "none" =>
              cause[o] = "none" /\ (peer[fd] = meant \/ o \notin Using(fd))
BY DEF Astray, HistoryOK, Causes

(* What becomes of the records, of o's and of the others.                   *)
LEMMA DeleteTo ==
  ASSUME RecordOK, MapOK, HistoryOK, NEW h \in Clients \cup {None}, DeletePlayer(h)
  PROVE  \/ UNCHANGED <<recordVars, mapVars, cause, overtaken, home>>
            /\ (Found(h) => players[h] \in ingame)
         \/ \E o \in Objects :
              /\ h \in Clients /\ players[h] = o /\ players'[h] = None /\ pool' = Append(pool, o)
              /\ o \notin ingame /\ ingame' = ingame
              /\ \A g \in Clients : g # h => /\ players'[g] = players[g]
                                             /\ heatbeatforplayer'[g] = heatbeatforplayer[g]
              /\ \A p \in Objects : p # o =>
                   /\ PlayerSocket'[p] = PlayerSocket[p] /\ home'[p] = home[p]
                   /\ p \in sendHeartbeat' <=> p \in sendHeartbeat
                   /\ p \in overtaken' <=> p \in overtaken
                   /\ cause'[p] = "none" => cause[p] = "none" /\ p \notin Using(PlayerSocket[o])
              /\ \A fd \in Sockets : fd # PlayerSocket[o] => socketToHash'[fd] = socketToHash[fd]
              /\ players' \in [Clients -> Objects \cup {None, Null}]
              /\ heatbeatforplayer' \in [Clients -> Objects \cup {None, Null}]
              /\ socketToHash' \in [Sockets -> Clients \cup {None}]
              /\ PlayerSocket' \in [Objects -> Sockets \cup {None}]
              /\ LastHeartbeat' \in [Objects -> Ages] /\ home' \in [Objects -> Numbers]
              /\ cause' \in [Objects -> Causes]
              /\ sendHeartbeat' = sendHeartbeat \ {o} /\ overtaken' = overtaken \ {o}
<1>1. CASE Found(h) /\ players[h] \notin ingame
  <2> DEFINE o == players[h]
  <2>1. o \in Objects /\ h \in Clients
    BY <1>1 DEF Found, RecordOK
  <2>2. /\ players' = [players EXCEPT ![h] = None] /\ pool' = Append(pool, o)
        /\ heatbeatforplayer' = [heatbeatforplayer EXCEPT ![h] = None]
        /\ socketToHash' = [socketToHash EXCEPT ![PlayerSocket[o]] = None]
        /\ PlayerSocket' = [PlayerSocket EXCEPT ![o] = None]
        /\ LastHeartbeat' = [LastHeartbeat EXCEPT ![o] = "recent"]
        /\ sendHeartbeat' = sendHeartbeat \ {o} /\ overtaken' = overtaken \ {o}
        /\ home' = [home EXCEPT ![o] = 0] /\ cause' = Unmapped(o) /\ ingame' = ingame
    BY <1>1 DEF DeletePlayer, EraseSocket
  <2>3. /\ cause' \in [Objects -> Causes]
        /\ \A p \in Objects : p # o /\ cause'[p] = "none" =>
             cause[p] = "none" /\ p \notin Using(PlayerSocket[o])
    <3>1. cause' = [p \in Objects |-> IF p = o THEN "none"
                                      ELSE IF p \in Using(PlayerSocket[o]) /\ cause[p] = "none"
                                      THEN "stray" ELSE cause[p]]
      BY <2>2 DEF Unmapped
    <3>2. cause \in [Objects -> Causes] /\ "none" \in Causes /\ "stray" \in Causes /\ "stray" # "none"
      BY DEF HistoryOK, Causes
    <3> HIDE DEF o
    <3>3. QED
      BY <3>1, <3>2
  <2>4. /\ players' \in [Clients -> Objects \cup {None, Null}]
        /\ heatbeatforplayer' \in [Clients -> Objects \cup {None, Null}]
        /\ socketToHash' \in [Sockets -> Clients \cup {None}]
        /\ PlayerSocket' \in [Objects -> Sockets \cup {None}]
        /\ LastHeartbeat' \in [Objects -> Ages] /\ home' \in [Objects -> Numbers]
    BY <2>1, <2>2, Names DEF RecordOK, MapOK, HistoryOK, Ages
  <2>5. /\ players'[h] = None
        /\ \A g \in Clients : g # h => /\ players'[g] = players[g]
                                       /\ heatbeatforplayer'[g] = heatbeatforplayer[g]
        /\ \A p \in Objects : p # o =>
             /\ PlayerSocket'[p] = PlayerSocket[p] /\ home'[p] = home[p]
             /\ p \in sendHeartbeat' <=> p \in sendHeartbeat
             /\ p \in overtaken' <=> p \in overtaken
        /\ \A fd \in Sockets : fd # PlayerSocket[o] => socketToHash'[fd] = socketToHash[fd]
    BY <2>1, <2>2 DEF RecordOK, MapOK, HistoryOK
  <2>6. QED
    BY <1>1, <2>1, <2>2, <2>3, <2>4, <2>5
<1>2. CASE ~(Found(h) /\ players[h] \notin ingame)
  BY <1>2 DEF DeletePlayer
<1>3. QED
  BY <1>1, <1>2

(* The pool is never empty for a player without a record.                   *)
LEMMA PoolNotEmpty ==
  ASSUME RecordOK, PoolInv, NEW h \in Clients, ~Found(h)
  PROVE  pool # <<>> /\ Head(pool) \in Objects
<1>1. pool # <<>>
  <2>1. SUFFICES ASSUME pool = <<>> PROVE FALSE
    OBVIOUS
  <2> DEFINE D == {g \in Clients : Found(g)}
             f == [g \in D |-> players[g]]
  <2>2. \A o \in Objects : \E g \in Clients : players[g] = o
    BY <2>1, EmptyStream DEF PoolInv, In
  <2>3. \A o \in Objects : \E g \in D : f[g] = o
    BY <2>2, Names DEF Found
  <2>4. f \in Surjection(D, Objects)
    BY <2>3 DEF Surjection, Found
  <2>5. D \in SUBSET (Clients \ {h})
    OBVIOUS
  <2>6. /\ IsFiniteSet(Clients \ {h}) /\ Cardinality(Clients \ {h}) = Cardinality(Clients) - 1
        /\ Cardinality(Clients) \in Nat /\ Cardinality(Objects) \in Nat
    BY ConnectionsAssumption, FS_RemoveElement, FS_CardinalityType
  <2> HIDE DEF D, f
  <2>7. IsFiniteSet(D) /\ Cardinality(D) <= Cardinality(Clients \ {h}) /\ Cardinality(D) \in Nat
    BY <2>5, <2>6, FS_Subset, FS_CardinalityType
  <2>8. Cardinality(Objects) <= Cardinality(D)
    BY <2>4, <2>7, FS_Surjection
  <2>9. QED
    BY <2>6, <2>7, <2>8, ConnectionsAssumption
<1>2. QED
  BY <1>1 DEF RecordOK

-----------------------------------------------------------------------------
(* Type correctness *)

LEMMA TypedInit == Init => Typed /\ Held /\ PoolInv
<1> SUFFICES ASSUME Init PROVE Typed /\ Held /\ PoolInv
  OBVIOUS
<1>1. pool \in Seq(Objects)
  <2>1. Cardinality(Objects) \in Nat
    BY ConnectionsAssumption, FS_CardinalityType
  <2>2. pool \in [1..Cardinality(Objects) -> Objects]
    BY DEF Init
  <2>3. QED
    BY <2>1, <2>2, SeqDef
<1>2. NetOK
  BY Names DEF Init, NetOK, Numbers, Connections
<1>3. RecordOK
  BY <1>1, Names DEF Init, RecordOK, Ages
<1>4. MapOK /\ QueueOK /\ HistoryOK
  BY EmptyStream, Names DEF Init, MapOK, QueueOK, HistoryOK, Causes
<1>5. ThreadOK /\ HeartOK
  BY EmptyStream, Names DEF Init, ThreadOK, HeartOK, IdleRecv, IdleReg, IdleSend, IdleHeart
<1>6. Held
  BY Names DEF Init, Held, IdleRecv, IdleReg, IdleSend, IdleHeart
<1>7. PoolInv
  <2>1. Cardinality(Objects) \in Nat /\ pool \in [1..Cardinality(Objects) -> Objects]
        /\ \A i, j \in DOMAIN pool : pool[i] = pool[j] => i = j
    BY ConnectionsAssumption, FS_CardinalityType DEF Init
  <2>2. \A o \in Objects : Once(pool, o)
    BY <2>1 DEF Once
  <2>3. \A o \in Objects : In(pool, o)
    <3>1. pool \in Injection(1..Cardinality(Objects), Objects)
      BY <2>1 DEF Injection, IsInjective
    <3>2. IsFiniteSet(1..Cardinality(Objects)) /\ Cardinality(1..Cardinality(Objects)) = Cardinality(Objects)
      BY <2>1, FS_Interval
    <3>3. pool \in Surjection(1..Cardinality(Objects), Objects)
      BY <3>1, <3>2, FS_Injection, ConnectionsAssumption
    <3>4. QED
      BY <2>1, <3>3 DEF Surjection, In
  <2>4. \A h \in Clients : players[h] = None
    BY DEF Init
  <2>5. QED
    BY <2>2, <2>3, <2>4, Names DEF PoolInv
<1>8. QED
  BY <1>2, <1>3, <1>4, <1>5, <1>6, <1>7 DEF Typed

Threads == <<recv, reg, resp, send>>

LEMMA Frame ==
  ASSUME Typed, Held, PoolInv
  PROVE  /\ UNCHANGED <<netVars, session>> => NetOK'
         /\ UNCHANGED recordVars => RecordOK' /\ PoolInv'
         /\ UNCHANGED mapVars => MapOK'
         /\ UNCHANGED <<queueVars, packetVars>> => QueueOK'
         /\ UNCHANGED Threads => ThreadOK'
         /\ UNCHANGED <<heart, crashed>> => HeartOK'
         /\ UNCHANGED historyVars => HistoryOK'
         /\ UNCHANGED <<recv, reg, send, heart, accepted, who, peer>> => Held'
         /\ UNCHANGED <<recv, reg, send, heart, netVars>> => Held'
         /\ UNCHANGED <<players, pool>> => PoolInv'
<1> USE DEF Typed
<1>1. UNCHANGED <<netVars, session>> => NetOK'
  BY DEF netVars, NetOK
<1>2. UNCHANGED recordVars => RecordOK'
  BY DEF recordVars, RecordOK
<1>3. (UNCHANGED mapVars => MapOK') /\ (UNCHANGED <<queueVars, packetVars>> => QueueOK')
  BY DEF mapVars, MapOK, queueVars, packetVars, QueueOK
<1>4. (UNCHANGED Threads => ThreadOK') /\ (UNCHANGED <<heart, crashed>> => HeartOK')
  BY DEF Threads, ThreadOK, HeartOK
<1>5. UNCHANGED historyVars => HistoryOK'
  BY DEF historyVars, HistoryOK
<1>6. UNCHANGED <<recv, reg, send, heart, accepted, who, peer>> => Held'
  BY DEF Held, IdleSend
<1>7. UNCHANGED <<players, pool>> => PoolInv'
  BY DEF PoolInv, In, Once
<1>8. /\ UNCHANGED recordVars => PoolInv'
      /\ UNCHANGED <<recv, reg, send, heart, netVars>> => Held'
  BY <1>6, <1>7 DEF recordVars, netVars
<1>9. QED
  BY <1>1, <1>2, <1>3, <1>4, <1>5, <1>6, <1>7, <1>8

Base == Typed /\ Held /\ PoolInv

LEMMA BaseClients ==
  ASSUME Base, NEW fd \in Sockets,
         \/ \E h \in Clients : AcceptConnection(h, fd)
         \/ ClientLeaves(fd) \/ RecvAnswer(fd) \/ RecvLogout(fd)
  PROVE  Base'
<1> USE DEF Base, Typed
<1>1. ASSUME NEW h \in Clients, AcceptConnection(h, fd) PROVE Base'
  <2>1. /\ accepted' = accepted + 1 /\ accepted + 1 \in Connections /\ accepted + 1 \in Numbers
        /\ 0..accepted \subseteq 0..(accepted + 1)
        /\ \A c \in 1..(accepted + 1) : c = accepted + 1 \/ c \in 1..accepted
        /\ \A c \in 1..accepted : c \in 1..(accepted + 1) /\ c # accepted + 1
    BY <1>1, Names DEF AcceptConnection, NetOK, Numbers, Connections
  <2>2. /\ who' = [who EXCEPT ![accepted + 1] = h] /\ peer' = [peer EXCEPT ![fd] = accepted + 1]
        /\ UNCHANGED <<eof, admitted, asked, session>>
    BY <1>1 DEF AcceptConnection
  <2>3. NetOK'
    BY <2>1, <2>2 DEF NetOK
  <2>4. Held'
    <3>1. UNCHANGED <<recv, reg, send, heart>>
      BY <1>1 DEF AcceptConnection
    <3>2. \A c \in 1..(accepted + 1) : who'[c] \in Clients
      <4>1. \A c \in Connections : who'[c] = IF c = accepted + 1 THEN h ELSE who[c]
        BY <2>2 DEF NetOK
      <4>2. 1..(accepted + 1) \subseteq Connections
        <5>1. accepted \in Nat /\ accepted + 1 \in 1..MaxConnections /\ MaxConnections \in Nat
          BY <2>1, Names DEF NetOK, Numbers, Connections
        <5> HIDE DEF Typed, Base
        <5>2. QED
          BY <5>1 DEF Connections
      <4>3. QED
        BY <2>1, <4>1, <4>2 DEF Held
    <3>5. \A g \in Sockets : peer'[g] \in 0..(accepted + 1)
      <4>1. accepted + 1 \in 0..(accepted + 1)
        BY DEF NetOK, Numbers
      <4>2. QED
        BY <2>1, <2>2, <4>1 DEF Held, NetOK
    <3>3. reg.pc # "idle" => reg.conn \in 1..accepted' /\ who'[reg.conn] = who[reg.conn]
      BY <2>1, <2>2 DEF Held, NetOK
    <3>4. QED
      BY <2>1, <3>1, <3>2, <3>3, <3>5 DEF Held, IdleSend
  <2>5. QED
    BY <1>1, <2>3, <2>4, Frame DEF AcceptConnection, Threads
<1>2. CASE ClientLeaves(fd)
  <2>1. NetOK'
    BY <1>2 DEF ClientLeaves, NetOK
  <2>2. QED
    BY <1>2, <2>1, Frame DEF ClientLeaves, Threads
<1>3. CASE RecvAnswer(fd)
  <2>1. NetOK'
    BY <1>3 DEF RecvAnswer, NetOK
  <2>2. QueueOK'
    BY <1>3 DEF RecvAnswer, QueueOK, queueVars
  <2>3. QED
    BY <1>3, <2>1, <2>2, Frame DEF RecvAnswer, Threads
<1>4. CASE RecvLogout(fd)
  <2>1. QueueOK'
    BY <1>4 DEF RecvLogout, QueueOK, queueVars, NetOK
  <2>2. QED
    BY <1>4, <2>1, Frame DEF RecvLogout, Threads, netVars
<1>5. QED
  BY <1>1, <1>2, <1>3, <1>4

LEMMA Disconnected ==
  ASSUME Base, NEW fd, Disconnect(fd), UNCHANGED <<accepted, who, session, packetVars>>
  PROVE  /\ NetOK' /\ QueueOK' /\ \A g \in Sockets : peer'[g] \in 0..accepted'
<1> USE DEF Base, Typed
<1>1. /\ peer' \in [Sockets -> Numbers] /\ eof' \in [Sockets -> {"no", "event", "missed", "seen"}]
      /\ admitted' \subseteq admitted /\ asked' = asked \ {fd} /\ armed' \subseteq armed
      /\ send_queues' \in [Sockets -> Seq(Entry)]
      /\ \A g \in Sockets : peer'[g] = 0 \/ peer'[g] = peer[g]
  BY DisconnectTo
<1>2. NetOK' /\ QueueOK'
  BY <1>1 DEF NetOK, QueueOK, packetVars
<1>3. \A g \in Sockets : peer'[g] \in 0..accepted'
  <2>1. 0 \in 0..accepted /\ accepted' = accepted
    BY Names DEF NetOK, Numbers
  <2>2. QED
    BY <1>1, <2>1 DEF Held
<1>4. QED
  BY <1>2, <1>3

(* The pool when a record goes back to it.                                  *)
LEMMA Deleted ==
  ASSUME Base, NEW h \in Clients \cup {None}, DeletePlayer(h)
  PROVE  /\ RecordOK' /\ MapOK' /\ PoolInv'
         /\ cause' \in [Objects -> Causes] /\ overtaken' \subseteq Objects
         /\ home' \in [Objects -> Numbers] /\ gone' \in BOOLEAN
<1> USE DEF Base, Typed
<1>0. gone' \in BOOLEAN
  BY DEF DeletePlayer, HistoryOK
<1>1. CASE UNCHANGED <<recordVars, mapVars, cause, overtaken, home>>
  BY <1>1, <1>0, Frame DEF recordVars, HistoryOK
<1>2. ASSUME NEW o \in Objects,
             h \in Clients /\ players[h] = o /\ players'[h] = None /\ pool' = Append(pool, o),
             ingame' = ingame, \A g \in Clients : g # h => players'[g] = players[g],
             players' \in [Clients -> Objects \cup {None, Null}],
             heatbeatforplayer' \in [Clients -> Objects \cup {None, Null}],
             socketToHash' \in [Sockets -> Clients \cup {None}],
             PlayerSocket' \in [Objects -> Sockets \cup {None}],
             LastHeartbeat' \in [Objects -> Ages], home' \in [Objects -> Numbers],
             cause' \in [Objects -> Causes],
             sendHeartbeat' = sendHeartbeat \ {o}, overtaken' = overtaken \ {o}
      PROVE  /\ RecordOK' /\ MapOK' /\ PoolInv'
             /\ cause' \in [Objects -> Causes] /\ overtaken' \subseteq Objects
             /\ home' \in [Objects -> Numbers]
  <2>1. pool' \in Seq(Objects) /\ pool \in Seq(Objects)
    BY <1>2, AppendProperties DEF RecordOK
  <2>2. RecordOK' /\ MapOK' /\ overtaken' \subseteq Objects
    BY <1>2, <2>1 DEF RecordOK, MapOK, HistoryOK
  <2>3. \A p \in Objects : /\ In(pool', p) <=> In(pool, p) \/ o = p
                           /\ Once(pool, p) /\ ~(o = p /\ In(pool, p)) => Once(pool', p)
    BY <1>2, <2>1, AppendedIn
  <2>4. \A p \in Objects : Once(pool', p)
    BY <1>2, <2>3 DEF PoolInv
  <2>5. \A p \in Objects : In(pool', p) \/ \E g \in Clients : players'[g] = p
    BY <1>2, <2>3 DEF PoolInv
  <2>6. \A g \in Clients, p \in Objects : players'[g] = p => players[g] = p /\ g # h /\ p # o
    BY <1>2, Names DEF PoolInv
  <2>7. PoolInv'
    <3>1. \A g \in Clients, p \in Objects : players'[g] = p => ~In(pool', p)
      BY <2>3, <2>6 DEF PoolInv
    <3>2. \A f, g \in Clients, p \in Objects : players'[f] = p /\ players'[g] = p => f = g
      BY <2>6 DEF PoolInv
    <3>3. QED
      BY <2>4, <2>5, <3>1, <3>2 DEF PoolInv, In, Once
  <2>8. QED
    BY <1>2, <2>2, <2>7
<1>3. QED
  BY <1>1, <1>2, <1>0, DeleteTo

LEMMA BaseReceiver == ASSUME Base, Receiver PROVE Base'
<1> USE DEF Base, Typed
<1>1. ASSUME NEW fd \in Sockets, RecvEnd(fd) PROVE Base'
  <2>1. peer[fd] \in Numbers /\ recv' = [pc |-> "cleanup", fd |-> fd, conn |-> peer[fd]]
        /\ eof' = [eof EXCEPT ![fd] = "seen"]
    BY <1>1 DEF RecvEnd, NetOK
  <2>2. NetOK' /\ ThreadOK'
    BY <1>1, <2>1 DEF RecvEnd, NetOK, ThreadOK
  <2>3. Held'
    BY <1>1, <2>1 DEF RecvEnd, Held, IdleSend
  <2>4. QED
    BY <1>1, <2>2, <2>3, Frame DEF RecvEnd
<1>2. CASE CleanupforSocket
  <2>1. /\ recv.pc = "cleanup" /\ recv.fd \in Sockets /\ recv' = [recv EXCEPT !.pc = "close"]
        /\ socketToHash[recv.fd] \in Clients \cup {None} /\ DeletePlayer(socketToHash[recv.fd])
        /\ session' \subseteq session
    BY <1>2 DEF CleanupforSocket, Held, MapOK
  <2>2. NetOK' /\ ThreadOK'
    BY <1>2, <2>1 DEF CleanupforSocket, netVars, NetOK, ThreadOK
  <2>3. HistoryOK'
    BY <1>2, <2>1, Deleted DEF CleanupforSocket, HistoryOK
  <2>4. Held'
    BY <1>2, <2>1 DEF CleanupforSocket, netVars, Held, ThreadOK, IdleSend
  <2>5. QED
    BY <1>2, <2>1, <2>2, <2>3, <2>4, Deleted, Frame DEF CleanupforSocket
<1>3. CASE RemoveConnection
  <2>1. /\ Disconnect(recv.fd) /\ cause' = Astray(recv.fd, recv.conn) /\ recv' = IdleRecv
        /\ UNCHANGED <<accepted, who, session, packetVars>>
    BY <1>3 DEF RemoveConnection
  <2>2. HistoryOK'
    BY <1>3, <2>1, AstrayTo DEF RemoveConnection, HistoryOK
  <2>3. ThreadOK'
    BY <1>3, Names DEF RemoveConnection, ThreadOK, IdleRecv
  <2>4. Held'
    BY <1>3, <2>1, Disconnected DEF RemoveConnection, Held, IdleRecv, IdleSend
  <2>5. QED
    BY <1>3, <2>1, <2>2, <2>3, <2>4, Disconnected, Frame DEF RemoveConnection
<1>4. QED
  BY <1>1, <1>2, <1>3 DEF Receiver

LEMMA BaseSender == ASSUME Base, Sender PROVE Base'
<1> USE DEF Base, Typed
<1>1. ASSUME NEW fd \in Sockets, SendTake(fd) PROVE Base'
  <2>1. QueueOK'
    BY <1>1, EmptyStream DEF SendTake, QueueOK, packetVars
  <2>2. ThreadOK' /\ Held'
    <3>1. CASE send' = send
      BY <1>1, <3>1 DEF SendTake, ThreadOK, Held, netVars, IdleSend
    <3>2. CASE send' = [pc |-> "send", fd |-> fd, queue |-> send_queues[fd]] /\ send_queues[fd] # <<>>
      <4>1. send_queues[fd] \in Seq(Entry)
        BY DEF QueueOK
      <4>2. ThreadOK'
        BY <1>1, <3>2, <4>1 DEF SendTake, ThreadOK
      <4>3. Held'
        BY <1>1, <3>2 DEF SendTake, Held, netVars, IdleSend
      <4>4. QED
        BY <4>2, <4>3
    <3>3. QED
      BY <1>1, <3>1, <3>2 DEF SendTake
  <2>3. QED
    BY <1>1, <2>1, <2>2, Frame DEF SendTake
<1>2. CASE SendEntry
  <2>1. send.pc = "send" /\ send.fd \in Sockets /\ send.queue \in Seq(Entry) /\ send.queue # <<>>
    BY <1>2 DEF SendEntry, Held, ThreadOK
  <2>2. Tail(send.queue) \in Seq(Entry)
    BY <2>1, HeadTailProperties
  <2>3. send' = IdleSend \/ (Tail(send.queue) # <<>> /\ send' = [send EXCEPT !.queue = Tail(send.queue)])
    BY <1>2 DEF SendEntry
  <2>4. ThreadOK'
    BY <1>2, <2>1, <2>2, <2>3, EmptyStream DEF SendEntry, ThreadOK, IdleSend
  <2>5. /\ send'.pc = "send" => send'.fd \in Sockets /\ send'.queue # <<>>
        /\ send'.pc = "idle" => send' = IdleSend
    BY <2>1, <2>3 DEF IdleSend, ThreadOK
  <2>6. NetOK' /\ QueueOK' /\ (\A g \in Sockets : peer'[g] \in 0..accepted') /\ HistoryOK'
    <3>1. CASE Head(send.queue).isLast
      <4>1. Disconnect(send.fd) /\ UNCHANGED <<accepted, who, session, packetVars>>
            /\ cause' = Astray(send.fd, Head(send.queue).conn)
        BY <1>2, <3>1 DEF SendEntry
      <4>2. HistoryOK'
        BY <1>2, <4>1, AstrayTo DEF SendEntry, HistoryOK
      <4>3. QED
        BY <4>1, <4>2, Disconnected
    <3>2. CASE ~Head(send.queue).isLast
      <4>1. asked' \in {asked, asked \cup {send.fd}}
            /\ UNCHANGED <<accepted, who, session, peer, eof, admitted, queueVars, packetVars, cause>>
        BY <1>2, <3>2 DEF SendEntry
      <4>2. NetOK' /\ QueueOK' /\ \A g \in Sockets : peer'[g] \in 0..accepted'
        BY <2>1, <4>1, Frame DEF NetOK, Held
      <4>3. HistoryOK'
        BY <1>2, <4>1 DEF SendEntry, HistoryOK
      <4>4. QED
        BY <4>2, <4>3
    <3>3. QED
      BY <3>1, <3>2
  <2>7. Held'
    BY <1>2, <2>5, <2>6 DEF SendEntry, Held
  <2>8. QED
    BY <1>2, <2>4, <2>6, <2>7, Frame DEF SendEntry
<1>3. QED
  BY <1>1, <1>2 DEF Sender

(* The record that leaves the pool for a player who has none.               *)
Fresh == Head(pool)

LEMMA RegisterTo ==
  ASSUME Base, RegisterPlayer
  PROVE  /\ Fresh \in Objects /\ reg.pc = "find"
         /\ reg.h \in Clients /\ reg.fd \in Sockets /\ reg.conn \in 1..accepted
         /\ reg' = [reg EXCEPT !.pc = "enter"] /\ pool' = Tail(pool) /\ pool # <<>>
         /\ players' = [players EXCEPT ![reg.h] = Fresh]
         /\ PlayerSocket' = [PlayerSocket EXCEPT ![Fresh] = reg.fd]
         /\ LastHeartbeat' = [LastHeartbeat EXCEPT ![Fresh] = "recent"]
         /\ sendHeartbeat' = sendHeartbeat \ {Fresh} /\ ingame' = ingame \ {Fresh}
         /\ cause' = [cause EXCEPT ![Fresh] = "none"] /\ home' = [home EXCEPT ![Fresh] = reg.conn]
         /\ overtaken' = overtaken \ {Fresh}
         /\ outrun' = (outrun \/ (heart.o = Fresh /\ heart.pc = "mark"))
         /\ In(pool, Fresh) /\ ~In(pool', Fresh)
         /\ \A p \in Objects : Once(pool', p) /\ (p # Fresh => (In(pool', p) <=> In(pool, p)))
         /\ \A g \in Clients : players[g] # Fresh
<1> USE DEF Base, Typed
<1>1. reg.pc = "find" /\ ~Found(reg.h) /\ reg.fd \in Sockets /\ reg.conn \in 1..accepted /\ reg.h \in Clients
  BY DEF RegisterPlayer, Held
<1>2. pool # <<>> /\ Fresh \in Objects /\ pool \in Seq(Objects)
  BY <1>1, PoolNotEmpty DEF RecordOK, Fresh
<1>3. Tail(pool) = After(pool, 1) /\ 1 \in 1..Len(pool)
  BY <1>2, Tailed
<1>4. /\ In(pool, Fresh)
      /\ \A p \in Objects :
           /\ In(After(pool, 1), p) => In(pool, p)
           /\ Once(pool, p) => Once(After(pool, 1), p) /\ ~(Fresh = p /\ In(After(pool, 1), p))
           /\ In(pool, p) => Fresh = p \/ In(After(pool, 1), p) \/ \E j \in 2..1 : pool[j] = p
  BY <1>2, <1>3, RestIn DEF Fresh
<1>5. /\ ~In(Tail(pool), Fresh) /\ (\A p \in Objects : p # Fresh => (In(Tail(pool), p) <=> In(pool, p)))
      /\ \A p \in Objects : Once(Tail(pool), p)
  <2>1. \A p \in Objects : Once(pool, p)
    BY DEF PoolInv
  <2>2. ~\E j \in 2..1 : TRUE
    OBVIOUS
  <2> HIDE DEF Base, Typed
  <2>3. QED
    BY <1>2, <1>3, <1>4, <2>1, <2>2
<1>6. \A g \in Clients : players[g] # Fresh
  BY <1>2, <1>4 DEF PoolInv
<1>7. /\ reg' = [reg EXCEPT !.pc = "enter"] /\ pool' = Tail(pool)
      /\ players' = [players EXCEPT ![reg.h] = Fresh]
      /\ PlayerSocket' = [PlayerSocket EXCEPT ![Fresh] = reg.fd]
      /\ LastHeartbeat' = [LastHeartbeat EXCEPT ![Fresh] = "recent"]
      /\ sendHeartbeat' = sendHeartbeat \ {Fresh} /\ ingame' = ingame \ {Fresh}
      /\ cause' = [cause EXCEPT ![Fresh] = "none"] /\ home' = [home EXCEPT ![Fresh] = reg.conn]
      /\ overtaken' = overtaken \ {Fresh}
      /\ outrun' = (outrun \/ (heart.o = Fresh /\ heart.pc = "mark"))
  BY DEF RegisterPlayer, Fresh
<1>8. QED
  BY <1>1, <1>2, <1>4, <1>5, <1>6, <1>7

LEMMA BaseLogin ==
  ASSUME Base
  PROVE  /\ \A fd \in Sockets : TakeLogin(fd) => Base'
         /\ \A h \in Clients : SendGameStart(h) => Base'
         /\ \A fd \in Sockets, c \in Connections : HandleLogout(fd, c) => Base'
<1> USE DEF Base, Typed
<1>1. ASSUME NEW fd \in Sockets, TakeLogin(fd) PROVE Base'
  <2>1. /\ peer[fd] \in 1..accepted /\ peer[fd] \in Connections /\ peer[fd] \in Numbers
        /\ who[peer[fd]] \in Clients
    BY <1>1, Names DEF TakeLogin, Held, NetOK, Numbers, Connections
  <2>2. /\ reg' = [pc |-> "find", fd |-> fd, conn |-> peer[fd], h |-> who[peer[fd]]]
        /\ admitted' = admitted \cup {peer[fd]} /\ session' = session \cup {who[peer[fd]]}
    BY <1>1 DEF TakeLogin, Owner
  <2>3. NetOK' /\ ThreadOK'
    BY <1>1, <2>1, <2>2 DEF TakeLogin, NetOK, ThreadOK
  <2>4. Held'
    BY <1>1, <2>1, <2>2 DEF TakeLogin, Held, IdleSend
  <2>5. QED
    BY <1>1, <2>3, <2>4, Frame DEF TakeLogin
<1>2. ASSUME NEW h \in Clients, SendGameStart(h) PROVE Base'
  <2>1. RecordOK'
    BY <1>2 DEF SendGameStart, RecordOK, Found
  <2>2. QED
    BY <1>2, <2>1, Frame DEF SendGameStart, Threads
<1>3. ASSUME NEW fd \in Sockets, NEW c \in Connections, HandleLogout(fd, c) PROVE Base'
  <2>1. who[c] \in Clients \cup {None} /\ DeletePlayer(who[c]) /\ Push(fd, LogoutResponse(c))
    BY <1>3 DEF HandleLogout, NetOK
  <2>2. QueueOK'
    BY <1>3, <2>1, PushTo, EntryTypes DEF HandleLogout, QueueOK
  <2>3. HistoryOK'
    BY <1>3, <2>1, Deleted DEF HandleLogout, HistoryOK
  <2>4. NetOK'
    BY <1>3 DEF HandleLogout, netVars, NetOK
  <2>5. QED
    BY <1>3, <2>1, <2>2, <2>3, <2>4, Deleted, Frame DEF HandleLogout, Threads
<1>4. QED
  BY <1>1, <1>2, <1>3

LEMMA BaseRegister == ASSUME Base, Register PROVE Base'
<1> USE DEF Base, Typed
<1>1. CASE HandleExistingPlayer
  <2>1. ThreadOK' /\ Held'
    BY <1>1, Names DEF HandleExistingPlayer, ThreadOK, Held, IdleReg, IdleSend, netVars
  <2>2. QED
    BY <1>1, <2>1, Frame DEF HandleExistingPlayer
<1>2. CASE RegisterPlayer
  <2>1. RecordOK'
    <3>1. Tail(pool) \in Seq(Objects)
      BY <1>2, RegisterTo, HeadTailProperties DEF RecordOK
    <3>2. QED
      <4>1. /\ Fresh \in Objects /\ reg.fd \in Sockets /\ pool' = Tail(pool)
            /\ players' = [players EXCEPT ![reg.h] = Fresh]
            /\ PlayerSocket' = [PlayerSocket EXCEPT ![Fresh] = reg.fd]
            /\ LastHeartbeat' = [LastHeartbeat EXCEPT ![Fresh] = "recent"]
            /\ sendHeartbeat' = sendHeartbeat \ {Fresh} /\ ingame' = ingame \ {Fresh}
        BY <1>2, RegisterTo
      <4>2. QED
        BY <3>1, <4>1 DEF RecordOK, Ages
  <2>2. HistoryOK'
    <3>1. outrun' \in BOOLEAN
      BY <1>2 DEF RegisterPlayer
    <3>2. /\ cause' = [cause EXCEPT ![Fresh] = "none"] /\ home' = [home EXCEPT ![Fresh] = reg.conn]
          /\ overtaken' = overtaken \ {Fresh} /\ UNCHANGED <<goodbye, nullVars>>
      BY <1>2, RegisterTo DEF RegisterPlayer
    <3>3. reg.conn \in Numbers
      BY DEF ThreadOK
    <3>4. QED
      BY <3>1, <3>2, <3>3 DEF HistoryOK, Causes
  <2>3. ThreadOK' /\ Held'
    BY <1>2, RegisterTo DEF RegisterPlayer, ThreadOK, Held, netVars, IdleSend
  <2>4. PoolInv'
    <3>1. /\ Fresh \in Objects /\ In(pool, Fresh) /\ ~In(pool', Fresh)
          /\ \A p \in Objects : Once(pool', p) /\ (p # Fresh => (In(pool', p) <=> In(pool, p)))
          /\ \A g \in Clients : players[g] # Fresh
          /\ players' = [players EXCEPT ![reg.h] = Fresh] /\ reg.h \in Clients
      BY <1>2, RegisterTo
    <3>2. players'[reg.h] = Fresh /\ \A g \in Clients : g # reg.h => players'[g] = players[g]
      BY <3>1 DEF RecordOK
    <3>3. ~Found(reg.h)
      BY <1>2 DEF RegisterPlayer
    <3>4. \A p \in Objects : In(pool', p) \/ \E g \in Clients : players'[g] = p
      BY <3>1, <3>2, <3>3, Names DEF PoolInv, Found
    <3>5. \A g \in Clients, p \in Objects : players'[g] = p => ~In(pool', p)
      BY <3>1, <3>2 DEF PoolInv
    <3>6. \A f, g \in Clients, p \in Objects : players'[f] = p /\ players'[g] = p => f = g
      BY <3>1, <3>2 DEF PoolInv
    <3>7. QED
      BY <3>1, <3>4, <3>5, <3>6 DEF PoolInv, In, Once
  <2>5. QED
    BY <1>2, <2>1, <2>2, <2>3, <2>4, Frame DEF RegisterPlayer
<1>3. CASE EnterMaps
  <2> DEFINE o == IF players[reg.h] = None THEN Null ELSE players[reg.h]
  <2>1. /\ reg.h \in Clients /\ reg.fd \in Sockets /\ o \in Objects \cup {Null} /\ reg' = IdleReg
        /\ players' = [players EXCEPT ![reg.h] = o]
        /\ heatbeatforplayer' = [heatbeatforplayer EXCEPT ![reg.h] = o]
        /\ socketToHash' = [socketToHash EXCEPT ![reg.fd] = reg.h]
        /\ UNCHANGED <<PlayerSocket, LastHeartbeat, sendHeartbeat, ingame, pool, outrun, overtaken, home,
                       goodbye, gone>>
        /\ unfound' \in {unfound, unfound \cup {reg.h}}
        /\ cause' \in {cause, [cause EXCEPT ![o] = "late"]}
    BY <1>3 DEF EnterMaps, Held, RecordOK
  <2> HIDE DEF o
  <2>2. RecordOK' /\ MapOK' /\ HistoryOK'
    BY <2>1 DEF RecordOK, MapOK, HistoryOK, Causes
  <2>3. ThreadOK' /\ Held'
    BY <1>3, Names DEF EnterMaps, ThreadOK, Held, IdleReg, IdleSend, netVars
  <2>4. PoolInv'
    <3>1. \A g \in Clients, p \in Objects : players'[g] = p <=> players[g] = p
      BY <2>1, Names DEF RecordOK, o
    <3>2. pool' = pool
      BY <2>1
    <3>3. QED
      BY <3>1, <3>2 DEF PoolInv, In, Once
  <2>5. QED
    BY <1>3, <2>2, <2>3, <2>4, Frame DEF EnterMaps
<1>4. QED
  BY <1>1, <1>2, <1>3 DEF Register

LEMMA BaseRespond == ASSUME Base, Respond PROVE Base'
<1> USE DEF Base, Typed
<1>1. ASSUME NEW fd \in Sockets, LookupHash(fd) PROVE Base'
  <2>1. ThreadOK'
    BY <1>1, Names DEF LookupHash, ThreadOK, MapOK
  <2>2. QueueOK'
    BY <1>1 DEF LookupHash, QueueOK, queueVars
  <2>3. HistoryOK'
    BY <1>1 DEF LookupHash, HistoryOK
  <2>4. QED
    BY <1>1, <2>1, <2>2, <2>3, Frame DEF LookupHash
<1>2. CASE ResponseHeartbeat
  <2>1. ThreadOK'
    BY <1>2 DEF ResponseHeartbeat, ThreadOK
  <2>2. RecordOK' /\ PoolInv'
    <3>1. LastHeartbeat' \in [Objects -> Ages] /\ sendHeartbeat' \subseteq sendHeartbeat
      BY <1>2 DEF ResponseHeartbeat, RecordOK, Ages
    <3>2. QED
      BY <1>2, <3>1, Frame DEF ResponseHeartbeat, RecordOK
  <2>3. HeartOK' /\ HistoryOK'
    <3>1. crashed' \in BOOLEAN /\ outrun' \in BOOLEAN /\ overtaken' \subseteq overtaken
      BY <1>2 DEF ResponseHeartbeat, HeartOK, HistoryOK
    <3>2. QED
      BY <1>2, <3>1 DEF ResponseHeartbeat, HeartOK, HistoryOK
  <2>4. QED
    BY <1>2, <2>1, <2>2, <2>3, Frame DEF ResponseHeartbeat
<1>3. QED
  BY <1>1, <1>2 DEF Respond

LEMMA BaseHeart ==
  ASSUME Base, HeatbeatWoker \/ \E o \in Objects : Heartbeat(o) \/ TimePasses(o)
  PROVE  Base'
<1> USE DEF Base, Typed
<1>1. ASSUME NEW o \in Objects, Heartbeat(o) PROVE Base'
  <2> DEFINE fd == PlayerSocket[o]
             conn == IF o \in Using(fd) THEN peer[fd] ELSE 0
             late == LastHeartbeat[o] = "late"
  <2>1. fd \in Sockets /\ conn \in Numbers /\ late \in BOOLEAN
    BY <1>1, Names DEF Heartbeat, RecordOK, NetOK
  <2>2. \E pc \in {"mark", "close"} : heart' = [pc |-> pc, o |-> o, fd |-> fd, late |-> late, conn |-> conn]
    BY <1>1 DEF Heartbeat
  <2>3. Push(fd, Request) \/ UNCHANGED queueVars
    BY <1>1 DEF Heartbeat
  <2>4. QueueOK'
    <3>1. CASE Push(fd, Request)
      BY <1>1, <2>1, <3>1, PushTo, EntryTypes DEF Heartbeat, QueueOK, packetVars
    <3>2. CASE UNCHANGED queueVars
      BY <1>1, <3>2, Frame DEF Heartbeat
    <3>3. QED
      BY <2>3, <3>1, <3>2
  <2> HIDE DEF fd, conn, late
  <2>5. HeartOK' /\ HistoryOK'
    <3>1. HeartOK'
      BY <1>1, <2>1, <2>2 DEF Heartbeat, HeartOK
    <3>2. HistoryOK'
      BY <1>1 DEF Heartbeat, HistoryOK
    <3>3. QED
      BY <3>1, <3>2
  <2>6. Held'
    BY <1>1, <2>1, <2>2 DEF Heartbeat, Held, netVars, IdleSend
  <2>7. QED
    BY <1>1, <2>4, <2>5, <2>6, Frame DEF Heartbeat, Threads
<1>2. ASSUME NEW o \in Objects, TimePasses(o) PROVE Base'
  <2>1. RecordOK'
    BY <1>2 DEF TimePasses, RecordOK, Ages
  <2>2. QED
    BY <1>2, <2>1, Frame DEF TimePasses, Threads
<1>3. CASE HeartbeatNull
  <2>1. HeartOK'
    BY <1>3 DEF HeartbeatNull, HeartOK
  <2>2. QED
    BY <1>3, <2>1, Frame DEF HeartbeatNull, Threads
<1>4. CASE MarkRecord
  <2>1. heart.o \in Objects
    BY <1>4 DEF MarkRecord, Held
  <2>2. RecordOK' /\ PoolInv'
    BY <1>4, <2>1, Frame DEF MarkRecord, RecordOK
  <2>3. HeartOK' /\ HistoryOK' /\ Held'
    <3>1. heart' \in {IdleHeart, [heart EXCEPT !.pc = "close"]}
      BY <1>4 DEF MarkRecord
    <3>2. HeartOK'
      BY <1>4, <3>1, Names DEF MarkRecord, HeartOK, IdleHeart
    <3>3. HistoryOK'
      BY <1>4, <2>1 DEF MarkRecord, HistoryOK
    <3>4. Held'
      BY <1>4, <3>1 DEF MarkRecord, Held, IdleHeart, IdleSend, netVars, HeartOK
    <3>5. QED
      BY <3>2, <3>3, <3>4
  <2>4. QED
    BY <1>4, <2>2, <2>3, Frame DEF MarkRecord, Threads
<1>5. CASE TimeoutDisconnect
  <2>1. /\ Disconnect(heart.fd) /\ heart' = IdleHeart
        /\ UNCHANGED <<accepted, who, session, packetVars>>
    BY <1>5 DEF TimeoutDisconnect
  <2>2. cause' \in [Objects -> Causes]
    <3>1. Astray(heart.fd, heart.conn) \in [Objects -> Causes]
      BY AstrayTo
    <3>2. [o \in Objects |-> IF o \in Using(heart.fd) /\ cause[o] = "none" THEN "timeout" ELSE cause[o]]
            \in [Objects -> Causes]
      BY DEF HistoryOK, Causes
    <3>3. QED
      BY <1>5, <3>1, <3>2 DEF TimeoutDisconnect
  <2>3. HistoryOK' /\ HeartOK'
    BY <1>5, <2>2, Names DEF TimeoutDisconnect, HistoryOK, HeartOK, IdleHeart
  <2>4. Held'
    BY <1>5, <2>1, Disconnected DEF TimeoutDisconnect, Held, IdleHeart, IdleSend
  <2>5. QED
    BY <1>5, <2>1, <2>3, <2>4, Disconnected, Frame DEF TimeoutDisconnect, Threads
<1>6. QED
  BY <1>1, <1>2, <1>3, <1>4, <1>5 DEF HeatbeatWoker

LEMMA BaseNext == Base /\ [Next]_vars => Base'
<1> SUFFICES ASSUME Base, [Next]_vars PROVE Base'
  OBVIOUS
<1>1. CASE UNCHANGED vars
  BY <1>1, Frame DEF vars, Base, Typed, Threads
<1>2. CASE Next
  BY <1>2, BaseClients, BaseLogin, BaseReceiver, BaseSender, BaseRegister, BaseRespond, BaseHeart DEF Next
<1>3. QED
  BY <1>1, <1>2

(* The network's, the records' and the threads' variables hold what their   *)
(* declarations say; a record that is registered comes out of the pool,     *)
(* which is never empty then: RegisterPlayer, MemoryPool.                   *)
THEOREM TypeCorrect == Spec => []TypeOK
<1>1. Init => Base
  BY TypedInit DEF Base
<1>2. Base => TypeOK
  BY TypeParts DEF Base
<1>3. QED
  BY <1>1, <1>2, BaseNext, PTL DEF Spec

-----------------------------------------------------------------------------
(* Records and their connections *)

Entering(h) == reg.pc = "enter" /\ reg.h = h
Tied(o) == peer[PlayerSocket[o]] = home[o]

(* A connection has one number; the receiver and the worker that registers  *)
(* mean their number's connection or one that is over.                      *)
NumberInv ==
  /\ \A f, g \in Sockets : peer[f] = peer[g] /\ peer[f] # 0 => f = g
  /\ \A c \in admitted : c \in 1..accepted
  /\ recv.pc # "idle" /\ recv.conn # 0 => \A fd \in Sockets : peer[fd] = recv.conn => fd = recv.fd
  /\ reg.pc # "idle" => /\ peer[reg.fd] = reg.conn => reg.conn \in admitted
                        /\ peer[reg.fd] \in admitted => peer[reg.fd] = reg.conn

(* The record o of h was registered with a connection of h.                 *)
RecordOf(h, o) ==
  /\ home[o] \in 1..accepted /\ who[home[o]] = h /\ PlayerSocket[o] \in Sockets
  /\ Tied(o) => home[o] \in admitted
  /\ Entering(h) => home[o] = reg.conn /\ PlayerSocket[o] = reg.fd
  /\ ~Entering(h) => heatbeatforplayer[h] = o

RecordInv == \A h \in Clients, o \in Objects : players[h] = o => RecordOf(h, o)

(* While the connection lasts its number leads to h, and it lasts until     *)
(* somebody sees to the record, but for the causes.                         *)
KeptBy(h, o) ==
  /\ Tied(o) => socketToHash[PlayerSocket[o]] = h
  /\ o \notin ingame => /\ Tied(o) /\ home[o] \notin goodbye
                        /\ ~(recv.pc = "close" /\ recv.conn = home[o])

OrphanInv == \A h \in Clients, o \in Objects :
               players[h] = o /\ ~Entering(h) /\ cause[o] = "none" => KeptBy(h, o)

(* A connection whose last packet is queued has logged out.                 *)
LastInv ==
  /\ \A fd \in Sockets : \A i \in DOMAIN send_queues[fd] :
       send_queues[fd][i].isLast => send_queues[fd][i].conn \in goodbye
  /\ \A i \in DOMAIN send.queue : send.queue[i].isLast => send.queue[i].conn \in goodbye

Ends == NumberInv /\ RecordInv /\ OrphanInv /\ LastInv

LEMMA EndsInit == Init => Ends
<1> SUFFICES ASSUME Init PROVE Ends
  OBVIOUS
<1>1. NumberInv
  BY DEF Init, NumberInv, IdleRecv, IdleReg
<1>2. \A h \in Clients : players[h] = None
  BY DEF Init
<1>3. RecordInv /\ OrphanInv
  BY <1>2, Names DEF RecordInv, OrphanInv
<1>4. LastInv
  BY EmptyStream DEF Init, LastInv, IdleSend
<1>5. QED
  BY <1>1, <1>3, <1>4 DEF Ends

LEMMA UsingTied ==
  ASSUME RecordInv, NEW h \in Clients, NEW o \in Objects, players[h] = o
  PROVE  /\ \A fd : o \in Using(fd) <=> fd = PlayerSocket[o] /\ Tied(o)
         /\ PlayerSocket[o] \in Sockets /\ home[o] \in 1..accepted
<1>1. PlayerSocket[o] \in Sockets /\ home[o] \in 1..accepted
  BY DEF RecordInv, RecordOf
<1>2. QED
  BY <1>1 DEF Using, Tied

LEMMA NumberDisconnected ==
  ASSUME Base, NumberInv, NEW fd \in Sockets, Disconnect(fd), UNCHANGED <<accepted, reg>>,
         recv' = recv \/ recv' = IdleRecv
  PROVE  NumberInv'
<1>1. /\ \A g \in Sockets : peer'[g] = 0 \/ (g # fd /\ peer'[g] = peer[g])
      /\ admitted' = admitted \ {peer[fd]}
  BY DisconnectTo DEF Base, Typed
<1>2. \A f, g \in Sockets : peer'[f] = peer'[g] /\ peer'[f] # 0 => f = g
  BY <1>1 DEF NumberInv
<1>3. recv'.pc # "idle" /\ recv'.conn # 0 => \A g \in Sockets : peer'[g] = recv'.conn => g = recv'.fd
  BY <1>1 DEF NumberInv, IdleRecv
<1>4. ASSUME reg.pc # "idle"
      PROVE  /\ peer'[reg.fd] = reg.conn => reg.conn \in admitted'
             /\ peer'[reg.fd] \in admitted' => peer'[reg.fd] = reg.conn
  <2>1. reg.fd \in Sockets /\ reg.conn # 0
    BY <1>4 DEF Base, Held
  <2>2. 0 \notin admitted
    BY DEF NumberInv
  <2>3. peer'[reg.fd] = reg.conn => reg.conn \in admitted'
    BY <1>1, <1>4, <2>1 DEF NumberInv
  <2>4. peer'[reg.fd] \in admitted' => peer'[reg.fd] = reg.conn
    BY <1>1, <1>4, <2>1, <2>2 DEF NumberInv
  <2>5. QED
    BY <2>3, <2>4
<1>5. QED
  BY <1>1, <1>2, <1>3, <1>4 DEF NumberInv

LEMMA NumberFrame ==
  ASSUME Base, NumberInv, UNCHANGED <<peer, admitted, accepted>>,
         \/ recv' = recv
         \/ recv' = [recv EXCEPT !.pc = "close"] /\ recv.pc = "cleanup",
         \/ reg' = reg \/ reg' = IdleReg
         \/ reg' = [reg EXCEPT !.pc = "enter"] /\ reg.pc = "find"
  PROVE  NumberInv'
<1>1. recv'.pc # "idle" => recv.pc # "idle" /\ recv'.fd = recv.fd /\ recv'.conn = recv.conn
  BY DEF Base, Typed, ThreadOK
<1>2. reg'.pc # "idle" => reg.pc # "idle" /\ reg'.fd = reg.fd /\ reg'.conn = reg.conn
  BY DEF Base, Typed, ThreadOK, IdleReg
<1>3. QED
  BY <1>1, <1>2 DEF NumberInv

LEMMA NumberNext == ASSUME Base, NumberInv, [Next]_vars PROVE NumberInv'
<1>1. ASSUME UNCHANGED netVars,
             recv' = recv \/ (recv' = [recv EXCEPT !.pc = "close"] /\ recv.pc = "cleanup"),
             reg' = reg \/ reg' = IdleReg \/ (reg' = [reg EXCEPT !.pc = "enter"] /\ reg.pc = "find")
      PROVE  NumberInv'
  <2>1. UNCHANGED <<peer, admitted, accepted>>
    BY <1>1 DEF netVars
  <2>2. QED
    BY <1>1, <2>1, NumberFrame
<1> USE DEF Base, Typed
<1>2. CASE UNCHANGED vars
  BY <1>1, <1>2 DEF vars
<1>3. ASSUME NEW h \in Clients, NEW fd \in Sockets, AcceptConnection(h, fd) PROVE NumberInv'
  <2>1. /\ accepted' = accepted + 1 /\ accepted + 1 # 0 /\ accepted + 1 \notin 0..accepted
        /\ 1..accepted \subseteq 1..(accepted + 1) /\ 1..accepted \subseteq 0..accepted
        /\ peer'[fd] = accepted + 1 /\ peer[fd] = 0
        /\ \A g \in Sockets : g # fd => peer'[g] = peer[g]
        /\ UNCHANGED <<admitted, recv, reg>>
    BY <1>3, Names DEF AcceptConnection, NetOK, Numbers
  <2>2. \A g \in Sockets : peer[g] \in 0..accepted
    BY DEF Held
  <2>3. \A f, g \in Sockets : peer'[f] = peer'[g] /\ peer'[f] # 0 => f = g
    BY <2>1, <2>2 DEF NumberInv
  <2>4. recv.pc # "idle" /\ recv.conn # 0 => \A g \in Sockets : peer'[g] = recv.conn => g = recv.fd
    BY <2>1 DEF NumberInv, Held
  <2>5. reg.pc # "idle" => /\ peer'[reg.fd] = reg.conn => reg.conn \in admitted
                           /\ peer'[reg.fd] \in admitted => peer'[reg.fd] = reg.conn
    BY <2>1 DEF NumberInv, Held
  <2>6. QED
    BY <2>1, <2>3, <2>4, <2>5 DEF NumberInv
<1>4. ASSUME NEW fd \in Sockets, ClientLeaves(fd) \/ RecvAnswer(fd) PROVE NumberInv'
  <2>1. UNCHANGED <<peer, admitted, accepted, recv, reg>>
    BY <1>4 DEF ClientLeaves, RecvAnswer
  <2> HIDE DEF Base, Typed
  <2>2. QED
    BY <2>1, NumberFrame
<1>5. ASSUME NEW fd \in Sockets, RecvLogout(fd) \/ SendTake(fd) \/ LookupHash(fd) PROVE NumberInv'
  BY <1>1, <1>5 DEF RecvLogout, SendTake, LookupHash
<1>6. ASSUME NEW fd \in Sockets, RecvEnd(fd) PROVE NumberInv'
  <2>1. recv' = [pc |-> "cleanup", fd |-> fd, conn |-> peer[fd]]
        /\ UNCHANGED <<peer, admitted, accepted, reg>>
    BY <1>6 DEF RecvEnd
  <2>2. recv'.fd = fd /\ recv'.conn = peer[fd]
    BY <2>1
  <2>3. QED
    BY <2>1, <2>2 DEF NumberInv
<1>7. CASE CleanupforSocket
  BY <1>1, <1>7 DEF CleanupforSocket
<1>8. CASE RemoveConnection
  <2>1. recv.fd \in Sockets /\ Disconnect(recv.fd) /\ UNCHANGED <<accepted, reg>> /\ recv' = IdleRecv
    BY <1>8 DEF RemoveConnection, Held
  <2>2. QED
    BY <2>1, NumberDisconnected
<1>9. CASE SendEntry
  <2>1. send.fd \in Sockets /\ UNCHANGED <<accepted, reg, recv>>
    BY <1>9 DEF SendEntry, Held
  <2>2. Disconnect(send.fd) \/ UNCHANGED <<peer, admitted>>
    BY <1>9 DEF SendEntry
  <2> HIDE DEF Base, Typed
  <2>3. CASE Disconnect(send.fd)
    BY <2>1, <2>3, NumberDisconnected
  <2>4. CASE UNCHANGED <<peer, admitted>>
    BY <2>1, <2>4, NumberFrame
  <2>5. QED
    BY <2>2, <2>3, <2>4
<1>10. ASSUME NEW fd \in Sockets, TakeLogin(fd) PROVE NumberInv'
  <2>1. /\ peer[fd] # 0 /\ UNCHANGED <<peer, accepted, recv>> /\ admitted' = admitted \cup {peer[fd]}
        /\ reg'.fd = fd /\ reg'.conn = peer[fd]
    BY <1>10 DEF TakeLogin
  <2>2. peer[fd] \in 1..accepted
    BY <2>1, Names DEF Held, NetOK, Numbers
  <2>3. QED
    BY <2>1, <2>2 DEF NumberInv
<1>11. CASE Register
  BY <1>1, <1>11 DEF Register, HandleExistingPlayer, RegisterPlayer, EnterMaps
<1>12. ASSUME NEW h \in Clients, SendGameStart(h) PROVE NumberInv'
  BY <1>1, <1>12 DEF SendGameStart
<1>13. ASSUME NEW fd \in Sockets, NEW c \in Connections, HandleLogout(fd, c) PROVE NumberInv'
  BY <1>1, <1>13 DEF HandleLogout
<1>14. CASE ResponseHeartbeat \/ HeartbeatNull \/ MarkRecord
  BY <1>1, <1>14 DEF ResponseHeartbeat, HeartbeatNull, MarkRecord
<1>15. CASE \E o \in Objects : TimePasses(o) \/ Heartbeat(o)
  BY <1>1, <1>15 DEF TimePasses, Heartbeat
<1>16. CASE TimeoutDisconnect
  <2>1. heart.fd \in Sockets /\ Disconnect(heart.fd) /\ UNCHANGED <<accepted, reg, recv>>
    BY <1>16 DEF TimeoutDisconnect, Held
  <2>2. QED
    BY <2>1, NumberDisconnected
<1>17. QED
  BY <1>2, <1>3, <1>4, <1>5, <1>6, <1>7, <1>8, <1>9, <1>10, <1>11, <1>12, <1>13, <1>14, <1>15, <1>16
  DEF Next, Receiver, Sender, Respond, HeatbeatWoker
-----------------------------------------------------------------------------
(* The steps that leave the records and their maps alone: a connection may  *)
(* end, one whose record nobody saw to only with a cause.                   *)
LEMMA Undisturbed ==
  ASSUME RecordInv, OrphanInv,
         UNCHANGED <<players, PlayerSocket, home, mapVars, goodbye>>,
         \A c \in 1..accepted : c \in 1..accepted' /\ who'[c] = who[c],
         reg' = reg \/ (reg.pc # "enter" /\ reg'.pc # "enter"),
         ingame \subseteq ingame',
         recv'.pc = "close" => recv.pc = "close" /\ recv'.conn = recv.conn,
         \A fd \in Sockets, c \in 1..accepted :
           peer'[fd] = c => peer[fd] = c /\ (c \in admitted => c \in admitted'),
         \A o \in Objects : cause'[o] = "none" => cause[o] = "none",
         \A h \in Clients, o \in Objects :
           players[h] = o /\ cause'[o] = "none" /\ Tied(o) /\ home[o] \notin goodbye
             /\ ~(recv.pc = "close" /\ recv.conn = home[o])
           => peer'[PlayerSocket[o]] = home[o]
  PROVE  RecordInv' /\ OrphanInv'
<1>1. \A h : Entering(h)' <=> Entering(h)
  BY DEF Entering
<1>2. UNCHANGED <<heatbeatforplayer, socketToHash>>
  BY DEF mapVars
<1>3. ASSUME NEW h \in Clients, NEW o \in Objects, players'[h] = o PROVE RecordOf(h, o)'
  <2>1. players[h] = o /\ RecordOf(h, o)
    BY <1>3 DEF RecordInv
  <2>2. UNCHANGED <<home[o], PlayerSocket[o], heatbeatforplayer[h]>>
    BY <1>2
  <2>3. home[o] \in 1..accepted' /\ who'[home[o]] = h /\ PlayerSocket[o] \in Sockets
        /\ home[o] \in 1..accepted
    BY <2>1 DEF RecordOf
  <2>4. peer'[PlayerSocket[o]] = home[o] => home[o] \in admitted'
    BY <2>1, <2>3 DEF RecordOf, Tied
  <2>5. Entering(h) => home[o] = reg'.conn /\ PlayerSocket[o] = reg'.fd
    BY <2>1 DEF RecordOf, Entering
  <2>6. ~Entering(h) => heatbeatforplayer[h] = o
    BY <2>1 DEF RecordOf
  <2>7. QED
    BY <1>1, <2>2, <2>3, <2>4, <2>5, <2>6 DEF RecordOf, Tied
<1>4. ASSUME NEW h \in Clients, NEW o \in Objects,
             players'[h] = o, ~Entering(h)', cause'[o] = "none"
      PROVE  KeptBy(h, o)'
  <2>1. players[h] = o /\ RecordOf(h, o) /\ KeptBy(h, o)
    BY <1>1, <1>4 DEF RecordInv, OrphanInv
  <2>2. UNCHANGED <<home[o], PlayerSocket[o], socketToHash[PlayerSocket[o]]>>
    BY <1>2
  <2>3. peer'[PlayerSocket[o]] = home[o] => socketToHash[PlayerSocket[o]] = h
    BY <2>1 DEF RecordOf, KeptBy, Tied
  <2>4. o \notin ingame' => /\ peer'[PlayerSocket[o]] = home[o] /\ home[o] \notin goodbye
                            /\ ~(recv'.pc = "close" /\ recv'.conn = home[o])
    BY <1>4, <2>1 DEF KeptBy
  <2>5. QED
    BY <2>2, <2>3, <2>4 DEF KeptBy, Tied
<1>5. QED
  BY <1>3, <1>4 DEF RecordInv, OrphanInv

(* What a thread closes, besides its own connection, is marked stray.       *)
LEMMA Closed ==
  ASSUME Base, NumberInv, RecordInv, NEW fd \in Sockets, Disconnect(fd)
  PROVE  /\ \A g \in Sockets, c \in 1..accepted :
              peer'[g] = c => peer[g] = c /\ (c \in admitted => c \in admitted')
         /\ \A h \in Clients, o \in Objects :
              players[h] = o /\ Tied(o) /\ o \notin Using(fd) => peer'[PlayerSocket[o]] = home[o]
         /\ \A h \in Clients, o \in Objects :
              players[h] = o /\ Tied(o) /\ o \in Using(fd) => peer[fd] = home[o] /\ peer[fd] # 0
<1>1. /\ \A g \in Sockets : (g = fd /\ peer'[g] = 0) \/ (g # fd /\ peer'[g] = peer[g])
      /\ admitted' = admitted \ {peer[fd]}
  BY DisconnectTo DEF Base, Typed
<1>2. \A g \in Sockets, c \in 1..accepted :
        peer'[g] = c => peer[g] = c /\ (c \in admitted => c \in admitted')
  BY <1>1 DEF NumberInv
<1>3. ASSUME NEW h \in Clients, NEW o \in Objects, players[h] = o, Tied(o)
      PROVE  /\ o \notin Using(fd) => peer'[PlayerSocket[o]] = home[o]
             /\ o \in Using(fd) => peer[fd] = home[o] /\ peer[fd] # 0
  <2>1. o \in Using(fd) <=> fd = PlayerSocket[o]
    BY <1>3, UsingTied
  <2>2. PlayerSocket[o] \in Sockets /\ home[o] # 0
    BY <1>3, UsingTied
  <2>3. QED
    BY <1>1, <1>3, <2>1, <2>2 DEF Tied
<1>4. QED
  BY <1>2, <1>3

(* DeletePlayer takes a record with it and keeps the others', of which the  *)
(* steps that call it end no connection.                                    *)
LEMMA OthersKept ==
  ASSUME Base, RecordInv, OrphanInv, NEW h \in Clients \cup {None}, DeletePlayer(h),
         UNCHANGED <<accepted, who, peer, admitted, reg>>,
         \A g \in Clients, o \in Objects :
           players[g] = o /\ g # h /\ KeptBy(g, o) /\ o \notin ingame
           => home[o] \notin goodbye' /\ ~(recv'.pc = "close" /\ recv'.conn = home[o])
  PROVE  RecordInv' /\ OrphanInv'
<1> USE DEF Base, Typed
<1>1. \A g : Entering(g)' <=> Entering(g)
  BY DEF Entering
<1>2. CASE UNCHANGED <<recordVars, mapVars, cause, overtaken, home>> /\ (Found(h) => players[h] \in ingame)
  <2>1. UNCHANGED <<players, PlayerSocket, ingame, home, cause, heatbeatforplayer, socketToHash>>
    BY <1>2 DEF recordVars, mapVars
  <2>2. RecordInv'
    BY <1>1, <2>1 DEF RecordInv, RecordOf, Tied, Entering
  <2>3. ASSUME NEW g \in Clients, NEW o \in Objects,
               players'[g] = o, ~Entering(g)', cause'[o] = "none"
        PROVE  KeptBy(g, o)'
    <3>1. players[g] = o /\ KeptBy(g, o)
      BY <1>1, <2>1, <2>3 DEF OrphanInv
    <3>2. g = h => o \in ingame
      BY <1>2, <3>1, Names DEF Found
    <3>3. QED
      BY <2>1, <3>1, <3>2 DEF KeptBy, Tied
  <2>4. QED
    BY <2>2, <2>3 DEF OrphanInv
<1>3. ASSUME NEW o \in Objects,
             h \in Clients, players[h] = o, players'[h] = None, ingame' = ingame,
             \A g \in Clients : g # h => /\ players'[g] = players[g]
                                         /\ heatbeatforplayer'[g] = heatbeatforplayer[g],
             \A p \in Objects : p # o =>
               /\ PlayerSocket'[p] = PlayerSocket[p] /\ home'[p] = home[p]
               /\ cause'[p] = "none" => cause[p] = "none" /\ p \notin Using(PlayerSocket[o]),
             \A fd \in Sockets : fd # PlayerSocket[o] => socketToHash'[fd] = socketToHash[fd]
      PROVE  RecordInv' /\ OrphanInv'
  <2>1. ASSUME NEW g \in Clients, NEW p \in Objects, players'[g] = p
        PROVE  /\ g # h /\ p # o /\ players[g] = p /\ RecordOf(g, p)
               /\ UNCHANGED <<home[p], PlayerSocket[p], heatbeatforplayer[g]>>
    <3>1. g # h /\ players[g] = p
      BY <1>3, <2>1, Names
    <3>2. p # o
      BY <1>3, <3>1 DEF PoolInv
    <3>3. QED
      BY <1>3, <3>1, <3>2 DEF RecordInv
  <2>2. ASSUME NEW g \in Clients, NEW p \in Objects, players'[g] = p PROVE RecordOf(g, p)'
    BY <1>1, <2>1, <2>2 DEF RecordOf, Tied, Entering
  <2>3. ASSUME NEW g \in Clients, NEW p \in Objects,
               players'[g] = p, ~Entering(g)', cause'[p] = "none"
        PROVE  KeptBy(g, p)'
    <3>1. g # h /\ p # o /\ players[g] = p /\ UNCHANGED <<home[p], PlayerSocket[p]>>
      BY <2>1, <2>3
    <3>2. cause[p] = "none" /\ p \notin Using(PlayerSocket[o])
      BY <1>3, <2>3, <3>1
    <3>3. KeptBy(g, p)
      BY <1>1, <2>3, <3>1, <3>2 DEF OrphanInv
    <3>4. PlayerSocket[p] \in Sockets /\ (Tied(p) => PlayerSocket[p] # PlayerSocket[o])
      BY <3>1, <3>2, UsingTied
    <3>5. Tied(p) => socketToHash'[PlayerSocket[p]] = g
      BY <1>3, <3>3, <3>4 DEF KeptBy
    <3>6. p \notin ingame => /\ Tied(p) /\ home[p] \notin goodbye'
                             /\ ~(recv'.pc = "close" /\ recv'.conn = home[p])
      BY <3>1, <3>3 DEF KeptBy
    <3>7. QED
      BY <1>3, <3>1, <3>5, <3>6 DEF KeptBy, Tied
  <2>4. QED
    BY <2>2, <2>3 DEF RecordInv, OrphanInv
<1>4. QED
  BY <1>2, <1>3, DeleteTo
LEMMA RegisteredEnds ==
  ASSUME Base, NumberInv, RecordInv, OrphanInv, RegisterPlayer
  PROVE  RecordInv' /\ OrphanInv'
<1>1. /\ Fresh \in Objects /\ reg.pc = "find"
      /\ reg.h \in Clients /\ reg.fd \in Sockets /\ reg.conn \in 1..accepted
      /\ reg' = [reg EXCEPT !.pc = "enter"]
      /\ players' = [players EXCEPT ![reg.h] = Fresh]
      /\ PlayerSocket' = [PlayerSocket EXCEPT ![Fresh] = reg.fd]
      /\ ingame' = ingame \ {Fresh}
      /\ cause' = [cause EXCEPT ![Fresh] = "none"] /\ home' = [home EXCEPT ![Fresh] = reg.conn]
      /\ \A g \in Clients : players[g] # Fresh
  BY RegisterTo
<1>2. UNCHANGED <<accepted, who, peer, admitted, heatbeatforplayer, socketToHash, goodbye, recv>>
  BY DEF RegisterPlayer, netVars, mapVars
<1>3. /\ reg'.pc = "enter" /\ reg'.h = reg.h /\ reg'.fd = reg.fd /\ reg'.conn = reg.conn
      /\ reg.h = who[reg.conn]
  BY <1>1 DEF Base, Typed, ThreadOK, Held
<1>4. (\A g : ~Entering(g)) /\ \A g : Entering(g)' <=> g = reg.h
  BY <1>1, <1>3 DEF Entering
<1>5. /\ players'[reg.h] = Fresh /\ home'[Fresh] = reg.conn /\ PlayerSocket'[Fresh] = reg.fd
      /\ \A g \in Clients : g # reg.h => players'[g] = players[g]
      /\ \A p \in Objects : p # Fresh => home'[p] = home[p] /\ PlayerSocket'[p] = PlayerSocket[p]
                                         /\ cause'[p] = cause[p]
  BY <1>1 DEF Base, Typed, RecordOK, HistoryOK
<1>6. peer[reg.fd] = reg.conn => reg.conn \in admitted
  BY <1>1 DEF NumberInv
<1>7. ASSUME NEW g \in Clients, NEW p \in Objects, g = reg.h, p = Fresh PROVE RecordOf(g, p)'
  <2>1. home'[p] = reg.conn /\ PlayerSocket'[p] = reg.fd /\ Entering(g)'
    BY <1>4, <1>5, <1>7
  <2>2. home'[p] \in 1..accepted' /\ who'[home'[p]] = g /\ PlayerSocket'[p] \in Sockets
    BY <1>1, <1>2, <1>3, <1>7, <2>1
  <2>3. peer'[PlayerSocket'[p]] = home'[p] => home'[p] \in admitted'
    BY <1>2, <1>6, <2>1
  <2>4. QED
    BY <1>3, <2>1, <2>2, <2>3 DEF RecordOf, Tied
<1>8. ASSUME NEW g \in Clients, NEW p \in Objects, players'[g] = p, g # reg.h
      PROVE  /\ players[g] = p /\ p # Fresh /\ RecordOf(g, p)'
             /\ UNCHANGED <<home[p], PlayerSocket[p], cause[p]>>
  <2>1. players[g] = p /\ p # Fresh /\ RecordOf(g, p)
    BY <1>1, <1>5, <1>8 DEF RecordInv
  <2>2. UNCHANGED <<home[p], PlayerSocket[p], cause[p]>>
    BY <1>5, <2>1
  <2>3. ~Entering(g) /\ ~Entering(g)'
    BY <1>4, <1>8
  <2>4. RecordOf(g, p)'
    BY <1>2, <2>1, <2>2, <2>3 DEF RecordOf, Tied
  <2>5. QED
    BY <2>1, <2>2, <2>4
<1>9. RecordInv'
  BY <1>5, <1>7, <1>8 DEF RecordInv
<1>10. ASSUME NEW g \in Clients, NEW p \in Objects,
              players'[g] = p, ~Entering(g)', cause'[p] = "none"
       PROVE  KeptBy(g, p)'
  <2>1. g # reg.h /\ players[g] = p /\ p # Fresh
        /\ UNCHANGED <<home[p], PlayerSocket[p], cause[p]>>
    BY <1>4, <1>8, <1>10
  <2>2. KeptBy(g, p)
    BY <1>4, <1>10, <2>1 DEF OrphanInv
  <2>3. QED
    BY <1>1, <1>2, <2>1, <2>2 DEF KeptBy, Tied
<1>11. QED
  BY <1>9, <1>10 DEF OrphanInv

LEMMA EnteredEnds ==
  ASSUME Base, NumberInv, RecordInv, OrphanInv, EnterMaps
  PROVE  RecordInv' /\ OrphanInv'
<1> DEFINE o == IF players[reg.h] = None THEN Null ELSE players[reg.h]
<1>1. /\ reg.pc = "enter" /\ reg' = IdleReg
      /\ players' = [players EXCEPT ![reg.h] = o]
      /\ heatbeatforplayer' = [heatbeatforplayer EXCEPT ![reg.h] = o]
      /\ cause' = IF TooLate /\ o # Null /\ cause[o] = "none" THEN [cause EXCEPT ![o] = "late"] ELSE cause
      /\ socketToHash' = [socketToHash EXCEPT ![reg.fd] = reg.h]
      /\ UNCHANGED <<PlayerSocket, ingame, home, goodbye, recv, accepted, who, peer, admitted>>
  BY DEF EnterMaps, netVars
<1>2. reg.h \in Clients /\ reg.fd \in Sockets /\ reg.conn \in 1..accepted /\ reg.h = who[reg.conn]
  BY <1>1 DEF Base, Held
<1>3. /\ \A g : Entering(g) <=> g = reg.h
      /\ \A g : ~Entering(g)'
  BY <1>1 DEF Entering, IdleReg
<1>4. o \in Objects => players[reg.h] = o
  BY Names
<1>5. o \notin Objects => o = Null
  BY <1>2 DEF Base, Typed, RecordOK
<1> HIDE DEF o
<1>6. /\ players'[reg.h] = o /\ heatbeatforplayer'[reg.h] = o /\ socketToHash'[reg.fd] = reg.h
      /\ \A g \in Clients : g # reg.h => players'[g] = players[g]
                                         /\ heatbeatforplayer'[g] = heatbeatforplayer[g]
      /\ \A fd \in Sockets : fd # reg.fd => socketToHash'[fd] = socketToHash[fd]
  BY <1>1, <1>2 DEF Base, Typed, RecordOK, MapOK
<1>7. \A p \in Objects : /\ cause'[p] = "none" => cause[p] = "none"
                         /\ cause'[p] = "none" /\ p = o => ~TooLate
  <2>1. "late" # "none" /\ (o \in Objects => o # Null)
    BY Names
  <2>2. QED
    BY <1>1, <2>1 DEF Base, Typed, HistoryOK
<1>8. ASSUME NEW g \in Clients, NEW p \in Objects, players'[g] = p PROVE RecordOf(g, p)'
  <2>1. players[g] = p
    BY <1>4, <1>6, <1>8
  <2>2. RecordOf(g, p) /\ heatbeatforplayer'[g] = p
    BY <1>3, <1>6, <1>8, <2>1 DEF RecordInv, RecordOf
  <2>3. QED
    BY <1>1, <1>3, <2>2 DEF RecordOf, Tied
<1>9. ASSUME NEW g \in Clients, NEW p \in Objects, players'[g] = p, cause'[p] = "none"
      PROVE  KeptBy(g, p)'
  <2>1. players[g] = p /\ cause[p] = "none" /\ RecordOf(g, p)
    BY <1>4, <1>6, <1>7, <1>9 DEF RecordInv
  <2>2. CASE g = reg.h
    <3>1. home[p] = reg.conn /\ PlayerSocket[p] = reg.fd
      BY <1>3, <2>1, <2>2 DEF RecordOf
    <3>2. ~TooLate
      BY <1>6, <1>7, <1>9, <2>2
    <3>3. QED
      BY <1>1, <1>6, <2>2, <3>1, <3>2 DEF KeptBy, Tied, TooLate
  <2>3. CASE g # reg.h
    <3>1. KeptBy(g, p)
      BY <1>3, <2>1, <2>3 DEF OrphanInv
    <3>2. Tied(p) => PlayerSocket[p] # reg.fd
      <4>1. ASSUME Tied(p), PlayerSocket[p] = reg.fd PROVE FALSE
        <5>1. peer[reg.fd] = home[p] /\ home[p] \in admitted
          BY <2>1, <4>1 DEF RecordOf, Tied
        <5>2. home[p] = reg.conn
          BY <1>1, <5>1 DEF NumberInv
        <5>3. QED
          BY <1>2, <2>1, <2>3, <5>2 DEF RecordOf
      <4>2. QED
        BY <4>1
    <3>3. PlayerSocket[p] \in Sockets
      BY <2>1 DEF RecordOf
    <3>4. QED
      BY <1>1, <1>6, <3>1, <3>2, <3>3 DEF KeptBy, Tied
  <2>4. QED
    BY <2>2, <2>3
<1>10. QED
  BY <1>8, <1>9 DEF RecordInv, OrphanInv

(* The last packets in the queues, one by one.                              *)
LEMMA LastNext == ASSUME Base, LastInv, [Next]_vars PROVE LastInv'
<1> USE DEF Base, Typed
<1>1. ASSUME UNCHANGED <<send_queues, send>>, goodbye \subseteq goodbye' PROVE LastInv'
  BY <1>1 DEF LastInv
<1>2. ASSUME NEW fd \in Sockets, Disconnect(fd), UNCHANGED <<send, goodbye>> PROVE LastInv'
  <2>1. \A g \in Sockets : send_queues'[g] = <<>> \/ send_queues'[g] = send_queues[g]
    BY <1>2, DisconnectTo
  <2>2. QED
    BY <1>2, <2>1, EmptyStream DEF LastInv
<1>3. ASSUME NEW fd \in Sockets, NEW m \in Entry, Push(fd, m), UNCHANGED send,
             goodbye \subseteq goodbye', m.isLast => m.conn \in goodbye'
      PROVE  LastInv'
  <2>1. /\ send_queues'[fd] = Append(send_queues[fd], m)
        /\ \A g \in Sockets : g # fd => send_queues'[g] = send_queues[g]
    BY <1>3, PushTo
  <2>2. \A i \in DOMAIN send_queues'[fd] :
          (i \in DOMAIN send_queues[fd] /\ send_queues'[fd][i] = send_queues[fd][i]) \/ send_queues'[fd][i] = m
    BY <2>1, AppendProperties, LenProperties DEF QueueOK
  <2>3. \A g \in Sockets : \A i \in DOMAIN send_queues'[g] :
          send_queues'[g][i].isLast => send_queues'[g][i].conn \in goodbye'
    BY <1>3, <2>1, <2>2 DEF LastInv
  <2>4. QED
    BY <1>3, <2>3 DEF LastInv
<1>4. CASE UNCHANGED vars
  BY <1>1, <1>4 DEF vars, queueVars, historyVars
<1>5. ASSUME NEW h \in Clients, (\E fd \in Sockets : AcceptConnection(h, fd)) \/ SendGameStart(h)
      PROVE  LastInv'
  BY <1>1, <1>5 DEF AcceptConnection, SendGameStart, queueVars, historyVars
<1>6. ASSUME NEW fd \in Sockets, ClientLeaves(fd) \/ RecvAnswer(fd) \/ RecvLogout(fd) \/ TakeLogin(fd)
      PROVE  LastInv'
  BY <1>1, <1>6 DEF ClientLeaves, RecvAnswer, RecvLogout, TakeLogin, queueVars, historyVars
<1>7. ASSUME NEW fd \in Sockets, NEW c \in Connections, HandleLogout(fd, c) PROVE LastInv'
  <2>1. /\ Push(fd, LogoutResponse(c)) /\ UNCHANGED send /\ goodbye' = goodbye \cup {c}
        /\ LogoutResponse(c).conn = c
    BY <1>7 DEF HandleLogout, LogoutResponse
  <2>2. QED
    BY <1>3, <2>1, EntryTypes
<1>8. ASSUME NEW o \in Objects, TimePasses(o) \/ Heartbeat(o) PROVE LastInv'
  <2>1. CASE TimePasses(o)
    BY <1>1, <2>1 DEF TimePasses, queueVars, historyVars
  <2>2. CASE Heartbeat(o)
    <3>1. /\ PlayerSocket[o] \in Sockets /\ UNCHANGED <<send, goodbye>> /\ ~Request.isLast
          /\ Push(PlayerSocket[o], Request) \/ UNCHANGED queueVars
      BY <2>2, Names DEF Heartbeat, RecordOK, Request
    <3>2. QED
      BY <1>1, <1>3, <3>1, EntryTypes DEF queueVars
  <2>3. QED
    BY <1>8, <2>1, <2>2
<1>9. CASE Receiver
  <2>1. CASE RemoveConnection
    BY <1>2, <2>1 DEF RemoveConnection, Held
  <2>2. ASSUME NEW fd \in Sockets, RecvEnd(fd) PROVE LastInv'
    BY <1>1, <2>2 DEF RecvEnd, queueVars, historyVars
  <2>3. CASE CleanupforSocket
    BY <1>1, <2>3 DEF CleanupforSocket, queueVars
  <2>4. QED
    BY <1>9, <2>1, <2>2, <2>3 DEF Receiver
<1>10. ASSUME NEW fd \in Sockets, SendTake(fd) PROVE LastInv'
  <2>1. /\ \A g \in Sockets : send_queues'[g] = <<>> \/ send_queues'[g] = send_queues[g]
        /\ send' = send \/ send'.queue = send_queues[fd]
        /\ UNCHANGED goodbye
    BY <1>10 DEF SendTake, QueueOK, historyVars
  <2>2. QED
    BY <2>1, EmptyStream DEF LastInv
<1>11. CASE SendEntry
  <2>1. send.fd \in Sockets /\ send.queue # <<>> /\ send.queue \in Seq(Entry) /\ UNCHANGED goodbye
    BY <1>11 DEF SendEntry, Held, ThreadOK
  <2>2. \A g \in Sockets : send_queues'[g] = <<>> \/ send_queues'[g] = send_queues[g]
    <3>1. CASE Disconnect(send.fd)
      BY <2>1, <3>1, DisconnectTo
    <3>2. CASE UNCHANGED queueVars
      BY <3>2 DEF queueVars
    <3>3. QED
      BY <1>11, <3>1, <3>2 DEF SendEntry
  <2>3. \A i \in DOMAIN Tail(send.queue) : \E j \in DOMAIN send.queue : Tail(send.queue)[i] = send.queue[j]
    BY <2>1, Tailed, Rest
  <2>4. send'.queue = <<>> \/ send'.queue = Tail(send.queue)
    BY <1>11 DEF SendEntry, IdleSend, ThreadOK
  <2>5. \A i \in DOMAIN send'.queue : send'.queue[i].isLast => send'.queue[i].conn \in goodbye
    BY <2>3, <2>4, EmptyStream DEF LastInv
  <2>6. QED
    BY <2>1, <2>2, <2>5, EmptyStream DEF LastInv
<1>12. CASE Register
  BY <1>1, <1>12 DEF Register, HandleExistingPlayer, RegisterPlayer, EnterMaps, queueVars, historyVars
<1>13. CASE Respond
  BY <1>1, <1>13 DEF Respond, LookupHash, ResponseHeartbeat, queueVars, historyVars
<1>14. CASE HeatbeatWoker
  <2>1. CASE TimeoutDisconnect
    BY <1>2, <2>1 DEF TimeoutDisconnect, Held
  <2>2. CASE HeartbeatNull \/ MarkRecord
    BY <1>1, <2>2 DEF HeartbeatNull, MarkRecord, queueVars, historyVars
  <2>3. QED
    BY <1>14, <2>1, <2>2 DEF HeatbeatWoker
<1>15. QED
  BY <1>4, <1>5, <1>6, <1>7, <1>8, <1>9, <1>10, <1>11, <1>12, <1>13, <1>14 DEF Next, Sender
(* The steps that close no connection.                                      *)
LEMMA NothingEnds ==
  ASSUME RecordInv, OrphanInv,
         UNCHANGED <<players, PlayerSocket, home, mapVars, goodbye, cause>>,
         \A c \in 1..accepted : c \in 1..accepted' /\ who'[c] = who[c],
         reg' = reg \/ (reg.pc # "enter" /\ reg'.pc # "enter"),
         ingame \subseteq ingame', admitted \subseteq admitted',
         recv'.pc = "close" => recv' = recv,
         \A fd \in Sockets, c \in 1..accepted : peer'[fd] = c <=> peer[fd] = c
  PROVE  RecordInv' /\ OrphanInv'
<1>1. \A h \in Clients, o \in Objects : players[h] = o /\ Tied(o) => peer'[PlayerSocket[o]] = home[o]
  BY UsingTied DEF Tied
<1>2. QED
  BY <1>1, Undisturbed

LEMMA EndsNext == ASSUME Base, Ends, [Next]_vars PROVE Ends'
<1>1. NumberInv /\ RecordInv /\ OrphanInv /\ LastInv /\ NumberInv' /\ LastInv'
  BY NumberNext, LastNext DEF Ends
<1>2. SUFFICES RecordInv' /\ OrphanInv'
  BY <1>1 DEF Ends
<1>3. ASSUME UNCHANGED <<netVars, players, PlayerSocket, ingame, home, mapVars, goodbye, cause, recv, reg>>
      PROVE  RecordInv' /\ OrphanInv'
  <2>1. UNCHANGED <<accepted, who, peer, admitted>>
    BY <1>3 DEF netVars
  <2>2. QED
    BY <1>1, <1>3, <2>1, NothingEnds
<1>4. CASE UNCHANGED vars
  BY <1>3, <1>4 DEF vars, recordVars, historyVars
<1>5. ASSUME NEW h \in Clients, NEW fd \in Sockets, AcceptConnection(h, fd)
      PROVE  RecordInv' /\ OrphanInv'
  <2>1. /\ accepted' = accepted + 1 /\ accepted \in Nat /\ accepted + 1 \notin 1..accepted
        /\ \A c \in 1..accepted : c \in 1..(accepted + 1) /\ c # accepted + 1 /\ c \in Connections /\ c # 0
    BY <1>5, Names DEF AcceptConnection, Base, Typed, NetOK, Numbers, Connections
  <2>2. /\ who' = [who EXCEPT ![accepted + 1] = h] /\ peer' = [peer EXCEPT ![fd] = accepted + 1]
        /\ peer[fd] = 0
        /\ UNCHANGED <<admitted, players, PlayerSocket, ingame, home, mapVars, goodbye, cause, recv, reg>>
    BY <1>5 DEF AcceptConnection, recordVars, historyVars
  <2>3. /\ \A c \in 1..accepted : who'[c] = who[c]
        /\ \A g \in Sockets, c \in 1..accepted : peer'[g] = c <=> peer[g] = c
    BY <2>1, <2>2 DEF Base, Typed, NetOK
  <2>4. QED
    BY <1>1, <2>1, <2>2, <2>3, NothingEnds
<1>6. ASSUME NEW fd \in Sockets, ClientLeaves(fd) \/ RecvAnswer(fd) PROVE RecordInv' /\ OrphanInv'
  <2>1. UNCHANGED <<accepted, who, peer, admitted, players, PlayerSocket, ingame, home, mapVars,
                    goodbye, cause, recv, reg>>
    BY <1>6 DEF ClientLeaves, RecvAnswer, recordVars, historyVars
  <2>2. QED
    BY <1>1, <2>1, NothingEnds
<1>7. ASSUME NEW fd \in Sockets, RecvLogout(fd) \/ SendTake(fd) \/ LookupHash(fd)
      PROVE  RecordInv' /\ OrphanInv'
  BY <1>3, <1>7 DEF RecvLogout, SendTake, LookupHash, recordVars, historyVars
<1>8. ASSUME NEW fd \in Sockets, RecvEnd(fd) PROVE RecordInv' /\ OrphanInv'
  <2>1. /\ UNCHANGED <<accepted, who, peer, admitted, players, PlayerSocket, ingame, home, mapVars,
                       goodbye, cause, reg>>
        /\ recv'.pc # "close"
    BY <1>8 DEF RecvEnd, recordVars, historyVars
  <2>2. QED
    BY <1>1, <2>1, NothingEnds
<1>9. ASSUME NEW fd \in Sockets, TakeLogin(fd) PROVE RecordInv' /\ OrphanInv'
  <2>1. /\ UNCHANGED <<accepted, who, peer, players, PlayerSocket, ingame, home, mapVars,
                       goodbye, cause, recv>>
        /\ admitted \subseteq admitted' /\ reg.pc # "enter" /\ reg'.pc # "enter"
    BY <1>9 DEF TakeLogin, recordVars, historyVars
  <2>2. QED
    BY <1>1, <2>1, NothingEnds
<1>10. CASE HandleExistingPlayer
  <2>1. /\ UNCHANGED <<accepted, who, peer, admitted, players, PlayerSocket, ingame, home, mapVars,
                       goodbye, cause, recv>>
        /\ reg.pc # "enter" /\ reg'.pc # "enter"
    BY <1>10 DEF HandleExistingPlayer, netVars, recordVars, historyVars, IdleReg
  <2>2. QED
    BY <1>1, <2>1, NothingEnds
<1>11. CASE RegisterPlayer
  BY <1>1, <1>11, RegisteredEnds
<1>12. CASE EnterMaps
  BY <1>1, <1>12, EnteredEnds
<1>13. ASSUME NEW h \in Clients, SendGameStart(h) PROVE RecordInv' /\ OrphanInv'
  <2>1. /\ UNCHANGED <<accepted, who, peer, admitted, players, PlayerSocket, home, mapVars,
                       goodbye, cause, recv, reg>>
        /\ ingame \subseteq ingame'
    BY <1>13 DEF SendGameStart, netVars, historyVars
  <2>2. QED
    BY <1>1, <2>1, NothingEnds
<1>14. ASSUME NEW o \in Objects, TimePasses(o) \/ Heartbeat(o) PROVE RecordInv' /\ OrphanInv'
  BY <1>3, <1>14 DEF TimePasses, Heartbeat, recordVars, historyVars
<1>15. CASE ResponseHeartbeat \/ HeartbeatNull \/ MarkRecord
  BY <1>3, <1>15 DEF ResponseHeartbeat, HeartbeatNull, MarkRecord, recordVars, historyVars
<1>16. CASE CleanupforSocket
  <2> DEFINE h == socketToHash[recv.fd]
  <2>1. recv.pc = "cleanup" /\ recv.fd \in Sockets /\ h \in Clients \cup {None}
    BY <1>16 DEF CleanupforSocket, Base, Typed, Held, MapOK
  <2>2. /\ DeletePlayer(h) /\ recv' = [recv EXCEPT !.pc = "close"]
        /\ UNCHANGED <<accepted, who, peer, admitted, reg, goodbye>>
    BY <1>16 DEF CleanupforSocket, netVars
  <2>3. recv'.conn = recv.conn
    BY <2>2 DEF Base, Typed, ThreadOK
  <2>4. ASSUME NEW g \in Clients, NEW o \in Objects,
               players[g] = o, g # h, KeptBy(g, o), o \notin ingame
        PROVE  home[o] \notin goodbye' /\ ~(recv'.pc = "close" /\ recv'.conn = home[o])
    <3>1. /\ Tied(o) /\ home[o] \notin goodbye /\ socketToHash[PlayerSocket[o]] = g
          /\ PlayerSocket[o] \in Sockets /\ home[o] # 0
      BY <1>1, <2>4, UsingTied DEF KeptBy
    <3>2. recv.conn = home[o] => PlayerSocket[o] = recv.fd
      BY <1>1, <2>1, <3>1 DEF NumberInv, Tied
    <3>3. QED
      BY <2>2, <2>3, <2>4, <3>1, <3>2
  <2> HIDE DEF h
  <2>5. QED
    BY <1>1, <2>1, <2>2, <2>4, OthersKept
<1>17. ASSUME NEW fd \in Sockets, NEW c \in Connections, HandleLogout(fd, c)
       PROVE  RecordInv' /\ OrphanInv'
  <2> DEFINE h == who[c]
  <2>1. /\ DeletePlayer(h) /\ goodbye' = goodbye \cup {c}
        /\ UNCHANGED <<accepted, who, peer, admitted, reg, recv>>
    BY <1>17 DEF HandleLogout, netVars
  <2>2. h \in Clients \cup {None}
    BY DEF Base, Typed, NetOK
  <2>3. ASSUME NEW g \in Clients, NEW o \in Objects,
               players[g] = o, g # h, KeptBy(g, o), o \notin ingame
        PROVE  home[o] \notin goodbye' /\ ~(recv'.pc = "close" /\ recv'.conn = home[o])
    <3>1. who[home[o]] = g
      BY <1>1, <2>3 DEF RecordInv, RecordOf
    <3>2. QED
      BY <2>1, <2>3, <3>1 DEF KeptBy
  <2> HIDE DEF h
  <2>4. QED
    BY <1>1, <2>1, <2>2, <2>3, OthersKept
<1>18. ASSUME NEW fd \in Sockets, Disconnect(fd),
              UNCHANGED <<accepted, who, players, PlayerSocket, ingame, home, mapVars, goodbye, reg>>,
              recv'.pc = "close" => recv' = recv,
              \A o \in Objects : cause'[o] = "none" => cause[o] = "none",
              \A o \in Objects : cause'[o] = "none" /\ o \in Using(fd) =>
                home[o] \in goodbye \/ (recv.pc = "close" /\ recv.conn = home[o])
       PROVE  RecordInv' /\ OrphanInv'
  <2>1. \A g \in Sockets, c \in 1..accepted :
          peer'[g] = c => peer[g] = c /\ (c \in admitted => c \in admitted')
    BY <1>1, <1>18, Closed
  <2>2. \A h \in Clients, o \in Objects :
          players[h] = o /\ cause'[o] = "none" /\ Tied(o) /\ home[o] \notin goodbye
            /\ ~(recv.pc = "close" /\ recv.conn = home[o])
          => peer'[PlayerSocket[o]] = home[o]
    BY <1>1, <1>18, Closed
  <2>3. QED
    BY <1>1, <1>18, <2>1, <2>2, Undisturbed
<1>19. CASE RemoveConnection
  <2>1. /\ recv.fd \in Sockets /\ Disconnect(recv.fd) /\ cause' = Astray(recv.fd, recv.conn)
        /\ recv.pc = "close" /\ recv'.pc # "close"
        /\ UNCHANGED <<accepted, who, players, PlayerSocket, ingame, home, mapVars, goodbye, reg>>
    BY <1>19 DEF RemoveConnection, Base, Held, recordVars, IdleRecv
  <2>2. \A o \in Objects : cause'[o] = "none" =>
          cause[o] = "none" /\ (peer[recv.fd] = recv.conn \/ o \notin Using(recv.fd))
    BY <2>1, AstrayTo DEF Base, Typed
  <2>3. \A o \in Objects : o \in Using(recv.fd) => home[o] = peer[recv.fd]
    BY DEF Using
  <2>4. QED
    BY <1>18, <2>1, <2>2, <2>3
<1>20. CASE SendEntry
  <2>1. /\ send.pc = "send" /\ send.fd \in Sockets /\ send.queue # <<>> /\ send.queue \in Seq(Entry)
        /\ UNCHANGED <<accepted, who, players, PlayerSocket, ingame, home, mapVars, goodbye, recv, reg>>
    BY <1>20 DEF SendEntry, Base, Typed, Held, ThreadOK, recordVars
  <2>2. CASE Head(send.queue).isLast
    <3> DEFINE meant == Head(send.queue).conn
    <3>1. Disconnect(send.fd) /\ cause' = Astray(send.fd, meant)
      BY <1>20, <2>2 DEF SendEntry
    <3>2. meant \in goodbye
      <4>1. Head(send.queue) = send.queue[1] /\ 1 \in DOMAIN send.queue
        BY <2>1, Tailed, Rest
      <4>2. QED
        BY <1>1, <2>2, <4>1 DEF LastInv
    <3> HIDE DEF meant
    <3>3. \A o \in Objects : cause'[o] = "none" =>
            cause[o] = "none" /\ (peer[send.fd] = meant \/ o \notin Using(send.fd))
      BY <3>1, AstrayTo DEF Base, Typed
    <3>4. \A o \in Objects : o \in Using(send.fd) => home[o] = peer[send.fd]
      BY DEF Using
    <3>5. QED
      BY <1>18, <2>1, <3>1, <3>2, <3>3, <3>4
  <2>3. CASE ~Head(send.queue).isLast
    <3>1. UNCHANGED <<peer, admitted, cause>>
      BY <1>20, <2>3 DEF SendEntry
    <3>2. QED
      BY <1>1, <2>1, <3>1, NothingEnds
  <2>4. QED
    BY <2>2, <2>3
<1>21. CASE TimeoutDisconnect
  <2>1. /\ heart.fd \in Sockets /\ Disconnect(heart.fd)
        /\ UNCHANGED <<accepted, who, players, PlayerSocket, ingame, home, mapVars, goodbye, recv, reg>>
    BY <1>21 DEF TimeoutDisconnect, Base, Held, recordVars
  <2>2. \A o \in Objects : cause'[o] = "none" => cause[o] = "none" /\ o \notin Using(heart.fd)
    <3>1. CASE heart.conn # 0 /\ peer[heart.fd] = heart.conn
      <4>1. cause' = [o \in Objects |-> IF o \in Using(heart.fd) /\ cause[o] = "none"
                                        THEN "timeout" ELSE cause[o]]
        BY <1>21, <3>1 DEF TimeoutDisconnect
      <4>2. QED
        BY <4>1
    <3>2. CASE ~(heart.conn # 0 /\ peer[heart.fd] = heart.conn)
      <4>1. cause' = Astray(heart.fd, heart.conn)
        BY <1>21, <3>2 DEF TimeoutDisconnect
      <4>2. \A o \in Objects : o \in Using(heart.fd) => peer[heart.fd] # 0
        BY DEF Using
      <4>3. QED
        BY <3>2, <4>1, <4>2, AstrayTo DEF Base, Typed
    <3>3. QED
      BY <3>1, <3>2
  <2>3. QED
    BY <1>18, <2>1, <2>2
<1>22. QED
  BY <1>4, <1>5, <1>6, <1>7, <1>8, <1>9, <1>10, <1>11, <1>12, <1>13, <1>14, <1>15, <1>16, <1>17,
     <1>19, <1>20, <1>21
  DEF Next, Receiver, Sender, Register, Respond, HeatbeatWoker

(* A player out of a game whose record has lost its connection lost it to   *)
(* the heartbeat, to a thread that was done with an earlier connection, or  *)
(* was registered when it was over: CleanupforSocket and HandleLogout take  *)
(* the record of every other connection that ends.                          *)
THEOREM OrphansAreExplained == Spec => []OrphansExplained
<1>1. Init => Base /\ Ends
  BY TypedInit, EndsInit DEF Base
<1>2. (Base /\ Ends) /\ [Next]_vars => (Base /\ Ends)'
  BY BaseNext, EndsNext
<1>3. Base /\ Ends => OrphansExplained
  <2>1. SUFFICES ASSUME Base, Ends, NEW h \in Clients, Found(h),
                        players[h] \notin Using(PlayerSocket[players[h]])
                 PROVE  reg.h = h \/ players[h] \in ingame \/ cause[players[h]] # "none"
    BY DEF OrphansExplained
  <2>2. players[h] \in Objects /\ RecordInv /\ OrphanInv
    BY <2>1 DEF Found, Ends
  <2>3. ~Tied(players[h])
    BY <2>1, <2>2, UsingTied
  <2>4. QED
    BY <2>2, <2>3 DEF OrphanInv, KeptBy, Entering
<1>4. QED
  BY <1>1, <1>2, <1>3, PTL DEF Spec
-----------------------------------------------------------------------------
(* Marks and what they wait for *)

Marked(o) == (o \in sendHeartbeat /\ o \notin overtaken) \/ (heart.pc = "mark" /\ heart.o = o /\ ~outrun)

(* A request to the number, its answer, or the end of the client's stream.  *)
InFlight(fd) ==
  \/ eof[fd] # "no"
  \/ In(send_queues[fd], Request)
  \/ send.fd = fd /\ In(send.queue, Request)
  \/ fd \in asked \cup responses

UnderWay(h, o) == ~Tied(o) \/ cause[o] # "none" \/ InFlight(PlayerSocket[o]) \/ resp.h = h

(* The heartbeat's map has a record of players or none.                     *)
HeatInv == \A h \in Clients, o \in Objects :
             heatbeatforplayer[h] = o => players[h] = o /\ ~Entering(h)

MarkInv == \A h \in Clients, o \in Objects :
             players[h] = o /\ Marked(o) => ~Entering(h) /\ UnderWay(h, o)

Marks == HeatInv /\ MarkInv

LEMMA MarksInit == Init => Marks
<1> SUFFICES ASSUME Init PROVE Marks
  OBVIOUS
<1>1. \A h \in Clients : players[h] = None /\ heatbeatforplayer[h] = None
  BY DEF Init
<1>2. QED
  BY <1>1, Names DEF Marks, HeatInv, MarkInv

(* The steps that register nobody and mark nobody keep what a mark waits    *)
(* for, or the connection is over.                                          *)
LEMMA MarksKept ==
  ASSUME Marks,
         reg' = reg \/ (reg.pc # "enter" /\ reg'.pc # "enter"),
         \A h \in Clients, o \in Objects : players'[h] = o =>
           /\ players[h] = o /\ UNCHANGED <<PlayerSocket[o], home[o]>>
           /\ cause'[o] = "none" => cause[o] = "none",
         \A h \in Clients, o \in Objects :
           heatbeatforplayer'[h] = o => heatbeatforplayer[h] = o /\ players'[h] = players[h],
         \A o \in Objects : Marked(o)' => Marked(o),
         \A h \in Clients, o \in Objects :
           /\ players[h] = o /\ players'[h] = o /\ Marked(o) /\ Marked(o)' /\ ~Entering(h)
           /\ peer'[PlayerSocket[o]] = home[o] /\ cause[o] = "none" /\ UnderWay(h, o)
           => InFlight(PlayerSocket[o])' \/ resp'.h = h
  PROVE  Marks'
<1>1. \A h : Entering(h)' <=> Entering(h)
  BY DEF Entering
<1>2. HeatInv'
  BY <1>1 DEF Marks, HeatInv
<1>3. ASSUME NEW h \in Clients, NEW o \in Objects, players'[h] = o, Marked(o)'
      PROVE  ~Entering(h)' /\ UnderWay(h, o)'
  <2>1. players[h] = o /\ Marked(o) /\ UNCHANGED <<PlayerSocket[o], home[o]>>
    BY <1>3
  <2>2. ~Entering(h) /\ UnderWay(h, o)
    BY <2>1 DEF Marks, MarkInv
  <2>3. CASE peer'[PlayerSocket[o]] = home[o] /\ cause'[o] = "none"
    <3>1. cause[o] = "none"
      BY <1>3, <2>3
    <3>2. InFlight(PlayerSocket[o])' \/ resp'.h = h
      BY <1>3, <2>1, <2>2, <2>3, <3>1
    <3>3. QED
      BY <1>1, <2>2, <3>2 DEF UnderWay
  <2>4. CASE ~(peer'[PlayerSocket[o]] = home[o] /\ cause'[o] = "none")
    BY <1>1, <2>1, <2>2, <2>4 DEF UnderWay, Tied
  <2>5. QED
    BY <2>3, <2>4
<1>4. QED
  BY <1>2, <1>3 DEF Marks, MarkInv

(* ... of a number that is not closed or accepted anew.                     *)
LEMMA FlightsKept ==
  ASSUME Marks, RecordInv, resp' = resp,
         reg' = reg \/ (reg.pc # "enter" /\ reg'.pc # "enter"),
         \A h \in Clients, o \in Objects : players'[h] = o =>
           /\ players[h] = o /\ UNCHANGED <<PlayerSocket[o], home[o]>>
           /\ cause'[o] = "none" => cause[o] = "none",
         \A h \in Clients, o \in Objects :
           heatbeatforplayer'[h] = o => heatbeatforplayer[h] = o /\ players'[h] = players[h],
         \A o \in Objects : Marked(o)' => Marked(o),
         \A fd \in Sockets :
           \/ peer'[fd] \notin 1..accepted
           \/ peer'[fd] = peer[fd] /\ (InFlight(fd) => InFlight(fd)')
  PROVE  Marks'
<1>1. ASSUME NEW h \in Clients, NEW o \in Objects, players[h] = o, players'[h] = o,
             peer'[PlayerSocket[o]] = home[o], cause[o] = "none", UnderWay(h, o)
      PROVE  InFlight(PlayerSocket[o])' \/ resp'.h = h
  <2> DEFINE fd == PlayerSocket[o]
  <2>1. fd \in Sockets /\ home[o] \in 1..accepted
    BY <1>1 DEF RecordInv, RecordOf
  <2>2. peer[fd] = home[o] /\ (InFlight(fd) => InFlight(fd)')
    <3>1. UNCHANGED <<PlayerSocket[o]>>
      BY <1>1
    <3>2. \A g \in Sockets : peer'[g] = home[o] => peer[g] = home[o] /\ (InFlight(g) => InFlight(g)')
      BY <2>1
    <3>3. QED
      BY <1>1, <2>1, <3>1, <3>2 DEF InFlight
  <2>3. InFlight(fd) \/ resp.h = h
    BY <1>1, <2>2 DEF UnderWay, Tied
  <2>4. QED
    BY <2>2, <2>3
<1>2. QED
  BY <1>1, MarksKept
LEMMA FlightsOnly ==
  ASSUME Marks, RecordInv, UNCHANGED <<resp, players, PlayerSocket, home, mapVars, sendHeartbeat,
                                       overtaken, heart, outrun>>,
         reg' = reg \/ (reg.pc # "enter" /\ reg'.pc # "enter"),
         \A o \in Objects : cause'[o] = "none" => cause[o] = "none",
         \A fd \in Sockets :
           \/ peer'[fd] \notin 1..accepted
           \/ peer'[fd] = peer[fd] /\ (InFlight(fd) => InFlight(fd)')
  PROVE  Marks'
<1>1. \A o \in Objects : Marked(o)' => Marked(o)
  BY DEF Marked
<1>2. UNCHANGED heatbeatforplayer
  BY DEF mapVars
<1>3. QED
  BY <1>1, <1>2, FlightsKept

(* A closed number has no connection, the others keep what they have.       *)
LEMMA FlightsClosed ==
  ASSUME Base, NEW fd \in Sockets, Disconnect(fd), UNCHANGED responses,
         \A g \in Sockets : g # fd => (send.fd = g => send' = send)
  PROVE  \A g \in Sockets :
           \/ peer'[g] \notin 1..accepted
           \/ peer'[g] = peer[g] /\ (InFlight(g) => InFlight(g)')
<1>1. /\ asked' = asked \ {fd} /\ peer'[fd] = 0 /\ 0 \notin 1..accepted
      /\ \A g \in Sockets : g # fd => /\ peer'[g] = peer[g] /\ eof'[g] = eof[g]
                                      /\ send_queues'[g] = send_queues[g]
  BY DisconnectTo DEF Base, Typed
<1>2. ASSUME NEW g \in Sockets, g # fd, InFlight(g) PROVE InFlight(g)'
  BY <1>1, <1>2 DEF InFlight
<1>3. QED
  BY <1>1, <1>2

LEMMA MarksOfClients ==
  ASSUME Base, Marks, RecordInv,
         \/ \E h \in Clients : (\E fd \in Sockets : AcceptConnection(h, fd)) \/ SendGameStart(h)
         \/ \E fd \in Sockets : ClientLeaves(fd) \/ RecvAnswer(fd) \/ RecvLogout(fd) \/ TakeLogin(fd)
         \/ \E o \in Objects : TimePasses(o)
  PROVE  Marks'
<1>1. ASSUME NEW h \in Clients, NEW fd \in Sockets, AcceptConnection(h, fd) PROVE Marks'
  <2>1. /\ UNCHANGED <<resp, players, PlayerSocket, home, mapVars, sendHeartbeat, overtaken, heart,
                       outrun, reg, cause, eof, asked, send_queues, send, responses>>
        /\ peer' = [peer EXCEPT ![fd] = accepted + 1]
    BY <1>1 DEF AcceptConnection, recordVars, historyVars, queueVars, packetVars
  <2>2. accepted + 1 \notin 1..accepted
    BY DEF Base, Typed, NetOK, Numbers
  <2>3. \A g \in Sockets : peer'[g] \notin 1..accepted \/ peer'[g] = peer[g]
    BY <2>1, <2>2 DEF Base, Typed, NetOK
  <2>4. \A g \in Sockets : InFlight(g) => InFlight(g)'
    BY <2>1 DEF InFlight
  <2>5. QED
    BY <2>1, <2>3, <2>4, FlightsOnly
<1>2. ASSUME NEW h \in Clients, SendGameStart(h) PROVE Marks'
  <2>1. UNCHANGED <<resp, players, PlayerSocket, home, mapVars, sendHeartbeat, overtaken, heart,
                    outrun, reg, cause, peer, eof, asked, send_queues, send, responses>>
    BY <1>2 DEF SendGameStart, netVars, historyVars, queueVars, packetVars
  <2>2. \A g \in Sockets : InFlight(g) => InFlight(g)'
    BY <2>1 DEF InFlight
  <2>3. QED
    BY <2>1, <2>2, FlightsOnly
<1>3. ASSUME NEW fd \in Sockets, ClientLeaves(fd) \/ RecvAnswer(fd) PROVE Marks'
  <2>1. UNCHANGED <<resp, players, PlayerSocket, home, mapVars, sendHeartbeat, overtaken, heart,
                    outrun, reg, cause, peer, send_queues, send>>
    BY <1>3 DEF ClientLeaves, RecvAnswer, recordVars, historyVars, queueVars
  <2>2. /\ \A g \in Sockets : eof[g] # "no" => eof'[g] # "no"
        /\ \A g \in Sockets : g \in asked \cup responses => g \in asked' \cup responses' \/ eof'[g] # "no"
    <3>1. CASE ClientLeaves(fd)
      BY <3>1 DEF ClientLeaves, packetVars, Base, Typed, NetOK
    <3>2. CASE RecvAnswer(fd)
      BY <3>2 DEF RecvAnswer, Base, Typed, NetOK
    <3>3. QED
      BY <1>3, <3>1, <3>2
  <2>3. \A g \in Sockets : InFlight(g) => InFlight(g)'
    BY <2>1, <2>2 DEF InFlight
  <2>4. QED
    BY <2>1, <2>3, FlightsOnly
<1>4. ASSUME NEW fd \in Sockets, RecvLogout(fd) \/ TakeLogin(fd) PROVE Marks'
  <2>1. UNCHANGED <<resp, players, PlayerSocket, home, mapVars, sendHeartbeat, overtaken, heart,
                    outrun, cause, peer, eof, asked, send_queues, send, responses>>
    BY <1>4 DEF RecvLogout, TakeLogin, netVars, recordVars, historyVars, queueVars, packetVars
  <2>2. reg' = reg \/ (reg.pc # "enter" /\ reg'.pc # "enter")
    BY <1>4 DEF RecvLogout, TakeLogin
  <2>3. \A g \in Sockets : InFlight(g) => InFlight(g)'
    BY <2>1 DEF InFlight
  <2>4. QED
    BY <2>1, <2>2, <2>3, FlightsOnly
<1>5. ASSUME NEW o \in Objects, TimePasses(o) PROVE Marks'
  <2>1. UNCHANGED <<resp, players, PlayerSocket, home, mapVars, sendHeartbeat, overtaken, heart,
                    outrun, reg, cause, peer, eof, asked, send_queues, send, responses>>
    BY <1>5 DEF TimePasses, netVars, historyVars, queueVars, packetVars
  <2>2. \A g \in Sockets : InFlight(g) => InFlight(g)'
    BY <2>1 DEF InFlight
  <2>3. QED
    BY <2>1, <2>2, FlightsOnly
<1>6. QED
  BY <1>1, <1>2, <1>3, <1>4, <1>5

LEMMA MarksOfSender == ASSUME Base, Marks, RecordInv, Sender PROVE Marks'
<1> USE DEF Base, Typed
<1>1. ASSUME NEW fd \in Sockets, SendTake(fd) PROVE Marks'
  <2>1. UNCHANGED <<resp, players, PlayerSocket, home, mapVars, sendHeartbeat, overtaken, heart,
                    outrun, reg, cause, peer, eof, asked, responses>>
    BY <1>1 DEF SendTake, netVars, recordVars, historyVars, packetVars
  <2>2. /\ send = IdleSend /\ IdleSend.queue = <<>>
        /\ send_queues[fd] # <<>> => send'.fd = fd /\ send'.queue = send_queues[fd]
        /\ \A g \in Sockets : g # fd => send_queues'[g] = send_queues[g]
    BY <1>1 DEF SendTake, QueueOK, Held, IdleSend
  <2>3. ~In(send.queue, Request) /\ (send_queues[fd] = <<>> => ~In(send_queues[fd], Request))
    BY <2>2, EmptyStream DEF In
  <2>4. \A g \in Sockets : InFlight(g) => InFlight(g)'
    <3>1. ASSUME NEW g \in Sockets, In(send_queues[g], Request)
          PROVE  In(send_queues'[g], Request) \/ (send'.fd = g /\ In(send'.queue, Request))
      BY <2>2, <2>3, <3>1
    <3>2. QED
      BY <2>1, <2>3, <3>1 DEF InFlight
  <2>5. QED
    BY <2>1, <2>4, FlightsOnly
<1>2. CASE SendEntry
  <2>1. /\ UNCHANGED <<resp, players, PlayerSocket, home, mapVars, sendHeartbeat, overtaken, heart,
                       outrun, reg, responses>>
        /\ send.fd \in Sockets /\ send.queue # <<>> /\ send.queue \in Seq(Entry)
    BY <1>2 DEF SendEntry, recordVars, packetVars, Held, ThreadOK
  <2>2. CASE Head(send.queue).isLast
    <3>1. Disconnect(send.fd) /\ cause' = Astray(send.fd, Head(send.queue).conn)
      BY <1>2, <2>2 DEF SendEntry
    <3>2. \A o \in Objects : cause'[o] = "none" => cause[o] = "none"
      BY <3>1, AstrayTo
    <3>3. QED
      BY <2>1, <3>1, <3>2, FlightsClosed, FlightsOnly
  <2>3. CASE ~Head(send.queue).isLast
    <3>1. /\ UNCHANGED <<peer, eof, send_queues, cause>> /\ asked \subseteq asked'
          /\ peer[send.fd] # 0 /\ eof[send.fd] = "no" => send.fd \in asked'
      BY <1>2, <2>3 DEF SendEntry, queueVars
    <3>2. ASSUME NEW g \in Sockets, peer[g] # 0, InFlight(g) PROVE InFlight(g)'
      BY <2>1, <3>1, <3>2 DEF InFlight
    <3>3. \A g \in Sockets : peer'[g] \notin 1..accepted
                             \/ (peer'[g] = peer[g] /\ (InFlight(g) => InFlight(g)'))
      BY <3>1, <3>2
    <3>4. QED
      BY <2>1, <3>1, <3>3, FlightsOnly
  <2>4. QED
    BY <2>2, <2>3
<1>3. QED
  BY <1>1, <1>2 DEF Sender
(* DeletePlayer and what may be queued with it.                             *)
LEMMA MarksDeleted ==
  ASSUME Base, Marks, RecordInv, NEW h \in Clients \cup {None}, DeletePlayer(h),
         UNCHANGED <<resp, heart, outrun, reg, peer>>,
         \A g \in Sockets : InFlight(g) => InFlight(g)'
  PROVE  Marks'
<1> USE DEF Base, Typed
<1>1. CASE UNCHANGED <<recordVars, mapVars, cause, overtaken, home>>
  <2>1. UNCHANGED <<players, PlayerSocket, home, mapVars, sendHeartbeat, overtaken, cause>>
    BY <1>1 DEF recordVars
  <2>2. QED
    BY <2>1, FlightsOnly
<1>2. ASSUME NEW o \in Objects, h \in Clients, players[h] = o, players'[h] = None,
             heatbeatforplayer'[h] = None,
             \A g \in Clients : g # h => /\ players'[g] = players[g]
                                         /\ heatbeatforplayer'[g] = heatbeatforplayer[g],
             \A p \in Objects : p # o =>
               /\ PlayerSocket'[p] = PlayerSocket[p] /\ home'[p] = home[p]
               /\ cause'[p] = "none" => cause[p] = "none",
             sendHeartbeat' = sendHeartbeat \ {o}, overtaken' = overtaken \ {o}
      PROVE  Marks'
  <2>1. ASSUME NEW g \in Clients, NEW p \in Objects, players'[g] = p
        PROVE  /\ players[g] = p /\ UNCHANGED <<PlayerSocket[p], home[p]>>
               /\ cause'[p] = "none" => cause[p] = "none"
    <3>1. players[g] = p /\ g # h
      BY <1>2, <2>1, Names
    <3>2. p # o
      BY <1>2, <3>1 DEF PoolInv
    <3>3. QED
      BY <1>2, <3>1, <3>2
  <2>2. \A g \in Clients, p \in Objects :
          heatbeatforplayer'[g] = p => heatbeatforplayer[g] = p /\ players'[g] = players[g]
    BY <1>2, Names
  <2>3. \A p \in Objects : Marked(p)' => Marked(p)
    BY <1>2 DEF Marked
  <2>4. QED
    BY <2>1, <2>2, <2>3, FlightsKept
<1>3. QED
  <2>1. ASSUME NEW o \in Objects, h \in Clients, players[h] = o, o \notin ingame
        PROVE  heatbeatforplayer'[h] = None
    <3>1. Found(h)
      BY <2>1, Names DEF Found
    <3>2. QED
      BY <2>1, <3>1 DEF DeletePlayer, MapOK
  <2>2. QED
    BY <1>1, <1>2, <2>1, DeleteTo

LEMMA MarksOfReceiver == ASSUME Base, Marks, RecordInv, Receiver PROVE Marks'
<1> USE DEF Base, Typed
<1>1. ASSUME NEW fd \in Sockets, RecvEnd(fd) PROVE Marks'
  <2>1. /\ UNCHANGED <<resp, players, PlayerSocket, home, mapVars, sendHeartbeat, overtaken, heart,
                       outrun, reg, cause, peer, asked, send_queues, send, responses>>
        /\ \A g \in Sockets : eof[g] # "no" => eof'[g] # "no"
    BY <1>1 DEF RecvEnd, recordVars, historyVars, queueVars, packetVars, NetOK
  <2>2. \A g \in Sockets : InFlight(g) => InFlight(g)'
    BY <2>1 DEF InFlight
  <2>3. QED
    BY <2>1, <2>2, FlightsOnly
<1>2. CASE CleanupforSocket
  <2> DEFINE h == socketToHash[recv.fd]
  <2>1. h \in Clients \cup {None} /\ DeletePlayer(h)
    BY <1>2 DEF CleanupforSocket, Held, MapOK
  <2>2. UNCHANGED <<resp, heart, outrun, reg, peer, eof, asked, send_queues, send, responses>>
    BY <1>2 DEF CleanupforSocket, netVars, queueVars, packetVars
  <2>3. \A g \in Sockets : InFlight(g) => InFlight(g)'
    BY <2>2 DEF InFlight
  <2> HIDE DEF h
  <2>4. QED
    BY <2>1, <2>2, <2>3, MarksDeleted
<1>3. CASE RemoveConnection
  <2>1. /\ UNCHANGED <<resp, players, PlayerSocket, home, mapVars, sendHeartbeat, overtaken, heart,
                       outrun, reg, responses, send>>
        /\ recv.fd \in Sockets /\ Disconnect(recv.fd) /\ cause' = Astray(recv.fd, recv.conn)
    BY <1>3 DEF RemoveConnection, recordVars, packetVars, Held
  <2>2. \A o \in Objects : cause'[o] = "none" => cause[o] = "none"
    BY <2>1, AstrayTo
  <2>3. QED
    BY <2>1, <2>2, FlightsClosed, FlightsOnly
<1>4. QED
  BY <1>1, <1>2, <1>3 DEF Receiver

LEMMA QueueGrows ==
  ASSUME Base, NEW fd \in Sockets, NEW m \in Entry, Push(fd, m)
  PROVE  /\ \A g \in Sockets : In(send_queues[g], Request) => In(send_queues'[g], Request)
         /\ m = Request => In(send_queues'[fd], Request)
<1>1. /\ send_queues'[fd] = Append(send_queues[fd], m) /\ send_queues[fd] \in Seq(Entry)
      /\ \A g \in Sockets : g # fd => send_queues'[g] = send_queues[g]
  BY PushTo DEF Base, Typed, QueueOK
<1>2. In(Append(send_queues[fd], m), Request) <=> In(send_queues[fd], Request) \/ m = Request
  BY <1>1, AppendedIn
<1>3. QED
  BY <1>1, <1>2

LEMMA MarksOfLogout ==
  ASSUME Base, Marks, RecordInv, NEW fd \in Sockets, NEW c \in Connections, HandleLogout(fd, c)
  PROVE  Marks'
<1>1. who[c] \in Clients \cup {None} /\ DeletePlayer(who[c])
  BY DEF HandleLogout, Base, Typed, NetOK
<1>2. /\ UNCHANGED <<resp, heart, outrun, reg, peer, eof, asked, send, responses>>
      /\ Push(fd, LogoutResponse(c))
  BY DEF HandleLogout, netVars
<1>3. \A g \in Sockets : InFlight(g) => InFlight(g)'
  BY <1>2, QueueGrows, EntryTypes DEF InFlight
<1>4. QED
  BY <1>1, <1>2, <1>3, MarksDeleted

LEMMA MarksOfRegister == ASSUME Base, Marks, RecordInv, Register PROVE Marks'
<1> USE DEF Base, Typed
<1>1. ASSUME UNCHANGED <<peer, eof, asked, send_queues, send, responses>>
      PROVE  \A g : (InFlight(g) => InFlight(g)')
  BY <1>1 DEF InFlight
<1>2. CASE HandleExistingPlayer
  <2>1. /\ UNCHANGED <<resp, players, PlayerSocket, home, mapVars, sendHeartbeat, overtaken, heart,
                       outrun, cause, peer, eof, asked, send_queues, send, responses>>
        /\ reg.pc # "enter" /\ reg'.pc # "enter"
    BY <1>2 DEF HandleExistingPlayer, netVars, recordVars, historyVars, queueVars, packetVars, IdleReg
  <2>2. QED
    BY <1>1, <2>1, FlightsOnly
<1>3. CASE RegisterPlayer
  <2>1. /\ Fresh \in Objects /\ reg.pc = "find" /\ reg.h \in Clients
        /\ reg' = [reg EXCEPT !.pc = "enter"]
        /\ players' = [players EXCEPT ![reg.h] = Fresh]
        /\ PlayerSocket' = [PlayerSocket EXCEPT ![Fresh] = reg.fd]
        /\ sendHeartbeat' = sendHeartbeat \ {Fresh} /\ overtaken' = overtaken \ {Fresh}
        /\ cause' = [cause EXCEPT ![Fresh] = "none"] /\ home' = [home EXCEPT ![Fresh] = reg.conn]
        /\ outrun' = (outrun \/ (heart.o = Fresh /\ heart.pc = "mark"))
        /\ \A g \in Clients : players[g] # Fresh
    BY <1>3, RegisterTo
  <2>2. UNCHANGED <<resp, heart, heatbeatforplayer, peer, eof, asked, send_queues, send, responses>>
        /\ ~Found(reg.h)
    BY <1>3 DEF RegisterPlayer, netVars, mapVars, queueVars, packetVars
  <2>3. (\A g : ~Entering(g)) /\ \A g : Entering(g)' <=> g = reg.h
    BY <2>1 DEF Entering, ThreadOK
  <2>4. HeatInv'
    <3>1. ASSUME NEW g \in Clients, NEW o \in Objects, heatbeatforplayer'[g] = o
          PROVE  players'[g] = o /\ ~Entering(g)'
      <4>1. players[g] = o
        BY <2>2, <3>1 DEF Marks, HeatInv
      <4>2. g # reg.h
        BY <2>2, <4>1, Names DEF Found
      <4>3. QED
        BY <2>1, <2>3, <4>1, <4>2 DEF RecordOK
    <3>2. QED
      BY <3>1 DEF HeatInv
  <2>5. /\ \A o \in Objects : Marked(o)' => Marked(o)
        /\ \A o \in Objects : o = Fresh => ~Marked(o)'
    BY <2>1, <2>2 DEF Marked, HistoryOK
  <2>6. ASSUME NEW g \in Clients, NEW o \in Objects, players'[g] = o, Marked(o)'
        PROVE  ~Entering(g)' /\ UnderWay(g, o)'
    <3>1. o # Fresh /\ g # reg.h /\ players[g] = o
      BY <2>1, <2>5, <2>6 DEF RecordOK
    <3>2. UNCHANGED <<PlayerSocket[o], home[o], cause[o]>>
      BY <2>1, <3>1 DEF RecordOK, HistoryOK
    <3>3. UnderWay(g, o)
      BY <2>5, <2>6, <3>1 DEF Marks, MarkInv
    <3>4. InFlight(PlayerSocket[o]) => InFlight(PlayerSocket[o])'
      BY <2>2, <3>2 DEF InFlight
    <3>5. QED
      BY <2>2, <2>3, <3>1, <3>2, <3>3, <3>4 DEF UnderWay, Tied
  <2>7. QED
    BY <2>4, <2>6 DEF Marks, MarkInv
<1>4. CASE EnterMaps
  <2> DEFINE r == IF players[reg.h] = None THEN Null ELSE players[reg.h]
  <2>1. /\ reg.pc = "enter" /\ reg' = IdleReg
        /\ players' = [players EXCEPT ![reg.h] = r]
        /\ heatbeatforplayer' = [heatbeatforplayer EXCEPT ![reg.h] = r]
        /\ cause' = IF TooLate /\ r # Null /\ cause[r] = "none" THEN [cause EXCEPT ![r] = "late"] ELSE cause
        /\ UNCHANGED <<PlayerSocket, home, sendHeartbeat, overtaken, heart, outrun, resp, peer, eof,
                       asked, send_queues, send, responses>>
    BY <1>4 DEF EnterMaps, netVars, queueVars, packetVars
  <2>2. reg.h \in Clients /\ (r \in Objects => players[reg.h] = r) /\ (r \notin Objects => r = Null)
    BY <2>1, Names DEF Held, RecordOK
  <2>3. (\A g : Entering(g) <=> g = reg.h) /\ \A g : ~Entering(g)'
    BY <2>1 DEF Entering, IdleReg
  <2> HIDE DEF r
  <2>4. /\ players'[reg.h] = r /\ heatbeatforplayer'[reg.h] = r
        /\ \A g \in Clients : g # reg.h => players'[g] = players[g]
                                           /\ heatbeatforplayer'[g] = heatbeatforplayer[g]
    BY <2>1, <2>2 DEF RecordOK, MapOK
  <2>5. \A o \in Objects : cause'[o] = "none" => cause[o] = "none"
    <3>1. "late" # "none"
      OBVIOUS
    <3>2. QED
      BY <2>1, <3>1 DEF HistoryOK
  <2>6. HeatInv'
    BY <2>3, <2>4 DEF Marks, HeatInv
  <2>7. ASSUME NEW g \in Clients, NEW o \in Objects, players'[g] = o, Marked(o)'
        PROVE  ~Entering(g)' /\ UnderWay(g, o)'
    <3>1. players[g] = o /\ Marked(o)
      BY <2>1, <2>2, <2>4, <2>7 DEF Marked
    <3>2. UnderWay(g, o)
      BY <3>1 DEF Marks, MarkInv
    <3>3. InFlight(PlayerSocket[o]) => InFlight(PlayerSocket[o])'
      BY <2>1 DEF InFlight
    <3>4. QED
      BY <2>1, <2>3, <2>5, <3>2, <3>3 DEF UnderWay, Tied
  <2>8. QED
    BY <2>6, <2>7 DEF Marks, MarkInv
<1>5. QED
  BY <1>2, <1>3, <1>4 DEF Register
LEMMA MarksOfRespond == ASSUME Base, Marks, RecordInv, OrphanInv, Respond PROVE Marks'
<1> USE DEF Base, Typed
<1>1. ASSUME NEW fd \in Sockets, LookupHash(fd) PROVE Marks'
  <2>1. /\ resp = IdleResp /\ responses' = responses \ {fd}
        /\ resp' = IF socketToHash[fd] = None THEN IdleResp ELSE [pc |-> "store", h |-> socketToHash[fd]]
        /\ UNCHANGED <<players, PlayerSocket, home, mapVars, sendHeartbeat, overtaken, heart, outrun,
                       reg, cause, peer, eof, asked, send_queues, send>>
    BY <1>1 DEF LookupHash, ThreadOK, netVars, recordVars, historyVars, queueVars
  <2>2. (\A o \in Objects : Marked(o)' => Marked(o)) /\ UNCHANGED heatbeatforplayer
    BY <2>1 DEF Marked, mapVars
  <2>3. ASSUME NEW h \in Clients, NEW o \in Objects, players[h] = o, ~Entering(h),
               peer'[PlayerSocket[o]] = home[o], cause[o] = "none", UnderWay(h, o)
        PROVE  InFlight(PlayerSocket[o])' \/ resp'.h = h
    <3>1. socketToHash[PlayerSocket[o]] = h
      BY <2>1, <2>3 DEF OrphanInv, KeptBy, Tied
    <3>2. InFlight(PlayerSocket[o])
      BY <2>1, <2>3, Names DEF UnderWay, Tied
    <3>3. CASE PlayerSocket[o] = fd
      BY <2>1, <3>1, <3>3, Names
    <3>4. CASE PlayerSocket[o] # fd
      BY <2>1, <3>2, <3>4 DEF InFlight
    <3>5. QED
      BY <3>3, <3>4
  <2>4. QED
    BY <2>1, <2>2, <2>3, MarksKept
<1>2. CASE ResponseHeartbeat
  <2> DEFINE r == heatbeatforplayer[resp.h]
  <2>1. /\ resp.pc = "store" /\ resp' = IdleResp
        /\ r \in Objects => /\ sendHeartbeat' = sendHeartbeat \ {r} /\ overtaken' = overtaken \ {r}
                            /\ outrun' = (outrun \/ (heart.o = r /\ heart.pc = "mark"))
        /\ r \notin Objects => UNCHANGED <<sendHeartbeat, overtaken, outrun>>
        /\ UNCHANGED <<players, PlayerSocket, home, mapVars, heart, reg, cause, peer, eof, asked,
                       send_queues, send, responses>>
    BY <1>2 DEF ResponseHeartbeat, netVars, queueVars, packetVars
  <2> HIDE DEF r
  <2>2. ASSUME NEW o \in Objects, Marked(o)' PROVE Marked(o) /\ o # r
    <3>1. CASE r \in Objects
      <4>1. heart' = heart /\ sendHeartbeat' = sendHeartbeat \ {r} /\ overtaken' = overtaken \ {r}
            /\ (outrun' <=> outrun \/ (heart.o = r /\ heart.pc = "mark"))
        BY <2>1, <3>1 DEF HistoryOK
      <4>2. o \in sendHeartbeat' /\ o \notin overtaken' => Marked(o) /\ o # r
        BY <4>1 DEF Marked
      <4>3. heart'.pc = "mark" /\ heart'.o = o /\ ~outrun' => Marked(o) /\ o # r
        BY <4>1 DEF Marked
      <4>4. QED
        BY <2>2, <4>2, <4>3 DEF Marked
    <3>2. CASE r \notin Objects
      BY <2>1, <2>2, <3>2 DEF Marked
    <3>3. QED
      BY <3>1, <3>2
  <2>3. ASSUME NEW h \in Clients, NEW o \in Objects, players[h] = o, Marked(o)', ~Entering(h),
               peer'[PlayerSocket[o]] = home[o], cause[o] = "none", UnderWay(h, o)
        PROVE  InFlight(PlayerSocket[o])' \/ resp'.h = h
    <3>1. heatbeatforplayer[h] = o
      BY <2>3 DEF RecordInv, RecordOf
    <3>2. resp.h # h
      BY <2>2, <2>3, <3>1 DEF r
    <3>3. InFlight(PlayerSocket[o])
      BY <2>1, <2>3, <3>2 DEF UnderWay, Tied
    <3>4. QED
      BY <2>1, <3>3 DEF InFlight
  <2>4. UNCHANGED heatbeatforplayer
    BY <2>1 DEF mapVars
  <2>5. QED
    BY <2>1, <2>2, <2>3, <2>4, MarksKept
<1>3. QED
  BY <1>1, <1>2 DEF Respond

LEMMA MarksOfHeart ==
  ASSUME Base, Marks, RecordInv, HeatbeatWoker \/ \E o \in Objects : Heartbeat(o)
  PROVE  Marks'
<1> USE DEF Base, Typed
<1>1. ASSUME NEW o \in Objects, Heartbeat(o) PROVE Marks'
  <2> DEFINE fd == PlayerSocket[o]
  <2>1. /\ fd \in Sockets /\ outrun' = FALSE /\ heart.pc = "idle"
        /\ \E h \in Clients : heatbeatforplayer[h] = o
        /\ UNCHANGED <<resp, players, PlayerSocket, home, mapVars, sendHeartbeat, overtaken, reg, cause,
                       peer, eof, asked, send, responses>>
    BY <1>1, Names DEF Heartbeat, RecordOK, netVars, recordVars, packetVars
  <2>2. \/ heart'.pc = "mark" /\ heart'.o = o /\ Push(fd, Request)
        \/ heart'.pc = "close" /\ UNCHANGED queueVars
    BY <1>1 DEF Heartbeat
  <2>3. /\ \A g \in Sockets : In(send_queues[g], Request) => In(send_queues'[g], Request)
        /\ heart'.pc = "mark" => In(send_queues'[fd], Request)
    BY <2>1, <2>2, QueueGrows, EntryTypes DEF queueVars
  <2>4. UNCHANGED <<heatbeatforplayer>> /\ \A h : Entering(h)' <=> Entering(h)
    BY <2>1 DEF mapVars, Entering
  <2>5. HeatInv'
    BY <2>1, <2>4 DEF Marks, HeatInv
  <2>6. ASSUME NEW h \in Clients, NEW p \in Objects, players'[h] = p, Marked(p)'
        PROVE  ~Entering(h)' /\ UnderWay(h, p)'
    <3>1. players[h] = p /\ UNCHANGED <<PlayerSocket[p]>>
      BY <2>1, <2>6
    <3>2. CASE Marked(p)
      <4>1. ~Entering(h) /\ UnderWay(h, p)
        BY <3>1, <3>2 DEF Marks, MarkInv
      <4>2. InFlight(PlayerSocket[p]) => InFlight(PlayerSocket[p])'
        <5>1. PlayerSocket[p] \in Sockets
          BY <3>1, UsingTied
        <5>2. QED
          BY <2>1, <2>3, <5>1 DEF InFlight
      <4>3. QED
        BY <2>1, <2>4, <4>1, <4>2 DEF UnderWay, Tied
    <3>3. CASE ~Marked(p)
      <4>1. p = o /\ heart'.pc = "mark"
        BY <2>1, <2>2, <2>6, <3>3 DEF Marked
      <4>2. ~Entering(h)
        BY <2>1, <3>1, <4>1 DEF Marks, HeatInv, PoolInv
      <4>3. InFlight(PlayerSocket[p])'
        BY <2>1, <2>3, <4>1 DEF InFlight
      <4>4. QED
        BY <2>4, <4>2, <4>3 DEF UnderWay
    <3>4. QED
      BY <3>2, <3>3
  <2>7. QED
    BY <2>5, <2>6 DEF Marks, MarkInv
<1>2. CASE HeartbeatNull
  <2>1. UNCHANGED <<resp, players, PlayerSocket, home, mapVars, sendHeartbeat, overtaken, heart,
                    outrun, reg, cause, peer, eof, asked, send_queues, send, responses>>
    BY <1>2 DEF HeartbeatNull, netVars, recordVars, historyVars, queueVars, packetVars
  <2>2. \A g \in Sockets : InFlight(g) => InFlight(g)'
    BY <2>1 DEF InFlight
  <2>3. QED
    BY <2>1, <2>2, FlightsOnly
<1>3. CASE MarkRecord
  <2>1. /\ UNCHANGED <<resp, players, PlayerSocket, home, mapVars, reg, cause, peer, eof, asked,
                       send_queues, send, responses>>
        /\ heart.pc = "mark" /\ heart'.pc # "mark" /\ outrun' = FALSE
        /\ sendHeartbeat' = sendHeartbeat \cup {heart.o}
        /\ overtaken' = IF outrun THEN overtaken \cup {heart.o} ELSE overtaken \ {heart.o}
    BY <1>3 DEF MarkRecord, netVars, queueVars, packetVars, HeartOK, IdleHeart
  <2>2. \A o \in Objects : Marked(o)' => Marked(o)
    BY <2>1 DEF Marked
  <2>3. (\A g \in Sockets : InFlight(g) => InFlight(g)') /\ UNCHANGED heatbeatforplayer
    BY <2>1 DEF InFlight, mapVars
  <2>4. QED
    BY <2>1, <2>2, <2>3, FlightsKept
<1>4. CASE TimeoutDisconnect
  <2>1. /\ UNCHANGED <<resp, players, PlayerSocket, home, mapVars, sendHeartbeat, overtaken, outrun,
                       reg, responses, send>>
        /\ heart.fd \in Sockets /\ Disconnect(heart.fd) /\ heart'.pc # "mark"
    BY <1>4 DEF TimeoutDisconnect, recordVars, packetVars, Held, IdleHeart
  <2>2. \A o \in Objects : cause'[o] = "none" => cause[o] = "none"
    <3>2. CASE heart.conn # 0 /\ peer[heart.fd] = heart.conn
      <4>1. cause' = [o \in Objects |-> IF o \in Using(heart.fd) /\ cause[o] = "none"
                                        THEN "timeout" ELSE cause[o]]
        BY <1>4, <3>2 DEF TimeoutDisconnect
      <4>2. QED
        BY <4>1
    <3>3. CASE ~(heart.conn # 0 /\ peer[heart.fd] = heart.conn)
      BY <1>4, <3>3, AstrayTo DEF TimeoutDisconnect
    <3>4. QED
      BY <3>2, <3>3
  <2>3. \A o \in Objects : Marked(o)' => Marked(o)
    BY <2>1 DEF Marked
  <2>4. \A g \in Sockets : peer'[g] \notin 1..accepted
                           \/ (peer'[g] = peer[g] /\ (InFlight(g) => InFlight(g)'))
    BY <2>1, FlightsClosed
  <2>5. UNCHANGED heatbeatforplayer
    BY <2>1 DEF mapVars
  <2>6. QED
    BY <2>1, <2>2, <2>3, <2>4, <2>5, FlightsKept
<1>5. QED
  BY <1>1, <1>2, <1>3, <1>4 DEF HeatbeatWoker

LEMMA MarksNext == ASSUME Base, Ends, Marks, [Next]_vars PROVE Marks'
<1>1. RecordInv /\ OrphanInv
  BY DEF Ends
<1>2. CASE UNCHANGED vars
  <2>1. UNCHANGED <<resp, players, PlayerSocket, home, mapVars, sendHeartbeat, overtaken, heart,
                    outrun, reg, cause, peer, eof, asked, send_queues, send, responses>>
    BY <1>2 DEF vars, netVars, recordVars, historyVars, queueVars, packetVars
  <2>2. \A g \in Sockets : InFlight(g) => InFlight(g)'
    BY <2>1 DEF InFlight
  <2>3. QED
    BY <1>1, <2>1, <2>2, FlightsOnly
<1>3. CASE Next
  BY <1>1, <1>3, MarksOfClients, MarksOfSender, MarksOfReceiver, MarksOfLogout, MarksOfRegister,
     MarksOfRespond, MarksOfHeart DEF Next
<1>4. QED
  BY <1>2, <1>3

(* A player marked as asked has been asked and the answer is on its way, or *)
(* has lost the connection or has a cause, or the mark was stored over the  *)
(* answer: HeatbeatWoker sets the flag after it has queued the request.     *)
THEOREM MarksAreExplained == Spec => []MarksExplained
<1>1. Init => Base /\ Ends /\ Marks
  BY TypedInit, EndsInit, MarksInit DEF Base
<1>2. (Base /\ Ends /\ Marks) /\ [Next]_vars => (Base /\ Ends /\ Marks)'
  BY BaseNext, EndsNext, MarksNext
<1>3. Base /\ Ends /\ Marks => MarksExplained
  <2> DEFINE Line(h) == PlayerSocket[players[h]]
  <2>1. SUFFICES ASSUME Base, Ends, Marks, NEW h \in Clients, Found(h), players[h] \in sendHeartbeat
                 PROVE  \/ players[h] \notin Using(Line(h)) \/ cause[players[h]] # "none"
                        \/ eof[Line(h)] # "no" \/ players[h] \in overtaken
                        \/ \E i \in DOMAIN send_queues[Line(h)] : ~send_queues[Line(h)][i].isLast
                        \/ send.fd = Line(h) /\ \E i \in DOMAIN send.queue : ~send.queue[i].isLast
                        \/ Line(h) \in asked \cup responses \/ resp.h = h
    BY DEF MarksExplained
  <2>2. players[h] \in Objects /\ RecordInv
    BY <2>1 DEF Found, Ends
  <2>3. players[h] \in overtaken \/ UnderWay(h, players[h])
    BY <2>1, <2>2 DEF Marks, MarkInv, Marked
  <2>4. ~Tied(players[h]) => players[h] \notin Using(Line(h))
    BY <2>2, UsingTied
  <2>5. \A s : In(s, Request) => \E i \in DOMAIN s : ~s[i].isLast
    BY DEF In, Request
  <2>6. QED
    BY <2>3, <2>4, <2>5 DEF UnderWay, InFlight
<1>4. QED
  BY <1>1, <1>2, <1>3, PTL DEF Spec
-----------------------------------------------------------------------------
(* Null pointers.  Whoever a number leads to is registered with it, unless  *)
(* the registration came too late for the record.                           *)

LeadsTo(fd, h) ==
  players[h] \in Objects /\ heatbeatforplayer[h] = players[h] /\ PlayerSocket[players[h]] = fd
MapsLead == \A fd \in Sockets, h \in Clients : socketToHash[fd] = h => h \in unfound \/ LeadsTo(fd, h)

Nulls == MapsLead /\ NullsExplained

LEMMA NullsInit == Init => Nulls
BY Names DEF Init, Nulls, MapsLead, NullsExplained

LEMMA NullsKept ==
  ASSUME Nulls, UNCHANGED <<players, PlayerSocket, mapVars, gone, unfound>>,
         resp' = resp \/ resp'.pc = "idle"
  PROVE  Nulls'
BY DEF Nulls, MapsLead, LeadsTo, NullsExplained, mapVars

(* An erased player's number leads to nobody, and the answer to his request *)
(* that a worker has in hand is marked.                                     *)
LEMMA NullsDeleted ==
  ASSUME Base, Nulls, NEW h \in Clients \cup {None}, DeletePlayer(h), UNCHANGED <<resp, unfound>>
  PROVE  Nulls'
<1> USE DEF Base, Typed
<1>1. CASE ~(Found(h) /\ players[h] \notin ingame)
  BY <1>1, NullsKept DEF DeletePlayer, recordVars
<1>2. CASE Found(h) /\ players[h] \notin ingame
  <2> DEFINE o == players[h]
  <2>1. h \in Clients /\ o \in Objects
    BY <1>2 DEF Found
  <2>2. /\ players' = [players EXCEPT ![h] = None]
        /\ heatbeatforplayer' = [heatbeatforplayer EXCEPT ![h] = None]
        /\ socketToHash' = [socketToHash EXCEPT ![PlayerSocket[o]] = None]
        /\ PlayerSocket' = [PlayerSocket EXCEPT ![o] = None]
        /\ gone' = (gone \/ (resp.pc = "store" /\ resp.h = h))
    BY <1>2 DEF DeletePlayer, EraseSocket
  <2>3. /\ heatbeatforplayer'[h] = None
        /\ \A g \in Clients : g # h => /\ players'[g] = players[g]
                                       /\ heatbeatforplayer'[g] = heatbeatforplayer[g]
        /\ \A p \in Objects : p # o => PlayerSocket'[p] = PlayerSocket[p]
        /\ \A fd \in Sockets : socketToHash'[fd] = IF fd = PlayerSocket[o] THEN None ELSE socketToHash[fd]
    BY <2>1, <2>2 DEF RecordOK, MapOK
  <2>4. ASSUME NEW fd \in Sockets, NEW g \in Clients, socketToHash'[fd] = g, g \notin unfound
        PROVE  LeadsTo(fd, g)'
    <3>1. fd # PlayerSocket[o] /\ LeadsTo(fd, g)
      BY <2>3, <2>4, Names DEF Nulls, MapsLead
    <3>2. g # h
      BY <3>1 DEF LeadsTo
    <3>3. players[g] # o
      BY <2>1, <3>2 DEF PoolInv
    <3>4. QED
      BY <2>3, <3>1, <3>2, <3>3 DEF LeadsTo
  <2>5. ASSUME resp.pc = "store", heatbeatforplayer'[resp.h] \notin Objects
        PROVE  gone' \/ resp.h \in unfound
    <3>1. resp.h \in Clients
      BY <2>5, Names DEF ThreadOK
    <3>2. QED
      BY <2>2, <2>3, <2>5, <3>1 DEF Nulls, NullsExplained
  <2>6. \A g \in Clients : heatbeatforplayer'[g] = Null => g \in unfound
    BY <2>3, Names DEF Nulls, NullsExplained
  <2>7. QED
    BY <2>4, <2>5, <2>6 DEF Nulls, MapsLead, NullsExplained
<1>3. QED
  BY <1>1, <1>2

LEMMA NullsOfRegister == ASSUME Base, RecordInv, Nulls, Register PROVE Nulls'
<1> USE DEF Base, Typed
<1>1. CASE HandleExistingPlayer
  BY <1>1, NullsKept DEF HandleExistingPlayer, recordVars, historyVars
<1>2. CASE RegisterPlayer
  <2>1. /\ Fresh \in Objects /\ reg.h \in Clients /\ \A g \in Clients : players[g] # Fresh
        /\ players' = [players EXCEPT ![reg.h] = Fresh]
        /\ PlayerSocket' = [PlayerSocket EXCEPT ![Fresh] = reg.fd]
    BY <1>2, RegisterTo
  <2>2. ~Found(reg.h) /\ UNCHANGED <<heatbeatforplayer, socketToHash, resp, gone, unfound>>
    BY <1>2 DEF RegisterPlayer, mapVars
  <2>3. /\ \A g \in Clients : g # reg.h => players'[g] = players[g]
        /\ \A p \in Objects : p # Fresh => PlayerSocket'[p] = PlayerSocket[p]
    BY <2>1 DEF RecordOK
  <2>4. ASSUME NEW fd \in Sockets, NEW g \in Clients, LeadsTo(fd, g) PROVE LeadsTo(fd, g)'
    <3>1. g # reg.h
      BY <2>2, <2>4, Names DEF Found, LeadsTo
    <3>2. QED
      BY <2>1, <2>2, <2>3, <2>4, <3>1 DEF LeadsTo
  <2>5. QED
    BY <2>2, <2>4 DEF Nulls, MapsLead, NullsExplained
<1>3. CASE EnterMaps
  <2> DEFINE o == IF players[reg.h] = None THEN Null ELSE players[reg.h]
  <2>1. /\ reg.pc = "enter" /\ reg.h \in Clients /\ reg.fd \in Sockets
        /\ players' = [players EXCEPT ![reg.h] = o]
        /\ heatbeatforplayer' = [heatbeatforplayer EXCEPT ![reg.h] = o]
        /\ socketToHash' = [socketToHash EXCEPT ![reg.fd] = reg.h]
        /\ unfound' = IF o = Null THEN unfound \cup {reg.h} ELSE unfound
        /\ UNCHANGED <<PlayerSocket, resp, gone>>
    BY <1>3 DEF EnterMaps, Held
  <2>2. (o \in Objects /\ players[reg.h] = o) \/ (o = Null /\ reg.h \in unfound')
    BY <2>1, Names DEF RecordOK
  <2>3. o \in Objects => PlayerSocket[o] = reg.fd
    BY <2>1, <2>2, Names DEF RecordInv, RecordOf, Entering
  <2> HIDE DEF o
  <2>4. /\ players'[reg.h] = o /\ heatbeatforplayer'[reg.h] = o
        /\ \A g \in Clients : g # reg.h => /\ players'[g] = players[g]
                                           /\ heatbeatforplayer'[g] = heatbeatforplayer[g]
        /\ \A fd \in Sockets : socketToHash'[fd] = IF fd = reg.fd THEN reg.h ELSE socketToHash[fd]
    BY <2>1 DEF RecordOK, MapOK
  <2>5. unfound \subseteq unfound' /\ (reg.h \notin unfound' => o \in Objects)
    BY <2>1, <2>2
  <2>6. ASSUME NEW fd \in Sockets, NEW g \in Clients, socketToHash'[fd] = g, g \notin unfound'
        PROVE  LeadsTo(fd, g)'
    <3>1. CASE fd = reg.fd
      BY <2>1, <2>3, <2>4, <2>5, <2>6, <3>1 DEF LeadsTo
    <3>2. CASE fd # reg.fd
      <4>1. LeadsTo(fd, g)
        BY <2>4, <2>5, <2>6, <3>2 DEF Nulls, MapsLead
      <4>2. g # reg.h
        BY <2>2, <2>3, <2>5, <2>6, <3>2, <4>1, Names DEF LeadsTo
      <4>3. QED
        BY <2>1, <2>4, <4>1, <4>2 DEF LeadsTo
    <3>3. QED
      BY <3>1, <3>2
  <2>7. ASSUME resp.pc = "store", heatbeatforplayer'[resp.h] \notin Objects
        PROVE  gone \/ resp.h \in unfound'
    <3>1. resp.h \in Clients
      BY <2>7, Names DEF ThreadOK
    <3>2. QED
      BY <2>4, <2>5, <2>7, <3>1 DEF Nulls, NullsExplained
  <2>8. \A g \in Clients : heatbeatforplayer'[g] = Null => g \in unfound'
    BY <2>4, <2>5, Names DEF Nulls, NullsExplained
  <2>9. QED
    BY <2>1, <2>6, <2>7, <2>8 DEF Nulls, MapsLead, NullsExplained
<1>4. QED
  BY <1>1, <1>2, <1>3 DEF Register

LEMMA NullsOfRespond == ASSUME Base, Nulls, Respond PROVE Nulls'
<1> USE DEF Base, Typed
<1>1. ASSUME NEW fd \in Sockets, LookupHash(fd) PROVE Nulls'
  <2>1. /\ UNCHANGED <<players, PlayerSocket, heatbeatforplayer, socketToHash, unfound>>
        /\ resp' = IF socketToHash[fd] = None THEN IdleResp ELSE [pc |-> "store", h |-> socketToHash[fd]]
    BY <1>1 DEF LookupHash, recordVars, mapVars
  <2>2. resp'.pc = "store" => /\ resp'.h \in Clients /\ resp'.h = socketToHash[fd]
    BY <2>1, Names DEF MapOK
  <2>3. resp'.pc = "store" => heatbeatforplayer[resp'.h] \in Objects \/ resp'.h \in unfound
    BY <2>2 DEF Nulls, MapsLead, LeadsTo
  <2>4. QED
    BY <2>1, <2>3 DEF Nulls, MapsLead, LeadsTo, NullsExplained
<1>2. CASE ResponseHeartbeat
  BY <1>2, NullsKept, Names DEF ResponseHeartbeat
<1>3. QED
  BY <1>1, <1>2 DEF Respond

LEMMA NullsNext == ASSUME Base, RecordInv, Nulls, [Next]_vars PROVE Nulls'
<1> USE DEF Base, Typed
<1>1. CASE UNCHANGED vars
  BY <1>1, NullsKept DEF vars, recordVars, historyVars
<1>2. ASSUME NEW fd \in Sockets,
             \/ \E h \in Clients : AcceptConnection(h, fd)
             \/ ClientLeaves(fd) \/ RecvAnswer(fd) \/ RecvLogout(fd) \/ TakeLogin(fd)
      PROVE  Nulls'
  <2>1. UNCHANGED <<players, PlayerSocket, mapVars, resp, gone, unfound>>
    BY <1>2 DEF AcceptConnection, ClientLeaves, RecvAnswer, RecvLogout, TakeLogin,
                recordVars, historyVars
  <2>2. QED
    BY <2>1, NullsKept
<1>3. ASSUME NEW h \in Clients, SendGameStart(h) PROVE Nulls'
  BY <1>3, NullsKept DEF SendGameStart, historyVars
<1>4. ASSUME NEW fd \in Sockets, NEW c \in Connections, HandleLogout(fd, c) PROVE Nulls'
  <2>1. who[c] \in Clients \cup {None} /\ DeletePlayer(who[c]) /\ UNCHANGED <<resp, unfound>>
    BY <1>4 DEF HandleLogout, NetOK
  <2>2. QED
    BY <2>1, NullsDeleted
<1>5. CASE Receiver
  <2>1. CASE CleanupforSocket
    <3>1. /\ socketToHash[recv.fd] \in Clients \cup {None} /\ DeletePlayer(socketToHash[recv.fd])
          /\ UNCHANGED <<resp, unfound>>
      BY <2>1 DEF CleanupforSocket, Held, MapOK
    <3>2. QED
      BY <3>1, NullsDeleted
  <2>2. CASE RemoveConnection \/ \E fd \in Sockets : RecvEnd(fd)
    <3>1. UNCHANGED <<players, PlayerSocket, mapVars, resp, gone, unfound>>
      BY <2>2 DEF RemoveConnection, RecvEnd, recordVars, historyVars
    <3>2. QED
      BY <3>1, NullsKept
  <2>3. QED
    BY <1>5, <2>1, <2>2 DEF Receiver
<1>6. CASE Sender
  <2>1. UNCHANGED <<players, PlayerSocket, mapVars, resp, gone, unfound>>
    BY <1>6 DEF Sender, SendTake, SendEntry, recordVars, historyVars
  <2>2. QED
    BY <2>1, NullsKept
<1>7. ASSUME HeatbeatWoker \/ \E o \in Objects : Heartbeat(o) \/ TimePasses(o) PROVE Nulls'
  <2>1. UNCHANGED <<players, PlayerSocket, mapVars, resp, gone, unfound>>
    BY <1>7 DEF HeatbeatWoker, HeartbeatNull, MarkRecord, TimeoutDisconnect, Heartbeat, TimePasses,
                recordVars, historyVars
  <2>2. QED
    BY <2>1, NullsKept
<1>8. QED
  BY <1>1, <1>2, <1>3, <1>4, <1>5, <1>6, <1>7, NullsOfRegister, NullsOfRespond DEF Next

(* ResponseHeartbeat and Heartbeat dereference what they find in            *)
(* heatbeatforplayer.  It is a null pointer only for a player who was       *)
(* erased between ResponseHeartbeat's two lookups, or between the two       *)
(* critical sections of RegisterPlayer.                                     *)
THEOREM NullsAreExplained == Spec => []NullsExplained
<1>1. Init => Base /\ Ends /\ Nulls
  BY TypedInit, EndsInit, NullsInit DEF Base
<1>2. (Base /\ Ends /\ Nulls) /\ [Next]_vars => (Base /\ Ends /\ Nulls)'
  BY BaseNext, EndsNext, NullsNext DEF Ends
<1>3. QED
  BY <1>1, <1>2, PTL DEF Spec, Nulls
=============================================================================
