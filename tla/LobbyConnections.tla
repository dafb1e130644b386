-------------------------- MODULE LobbyConnections --------------------------
(***************************************************************************)
(* The lobby's connections and its anti-cheat heartbeat.  The network      *)
(* knows a connection by its socket number only, and a closed number goes  *)
(* to the next connection; the players' records, the map from numbers to   *)
(* players, the send queues and the answers waiting for a worker all name  *)
(* numbers, and five threads use them: a receiver, a sender, a worker that *)
(* registers, a worker that handles answers, and the heartbeat thread.     *)
(*                                                                         *)
(* Connections are counted, so that the model knows which one a thread     *)
(* meant; the code does not.  Rooms are left out: a player is in the lobby *)
(* or in a game.  DeletePlayer's four critical sections are one step here, *)
(* GameServerManager takes them apart.                                     *)
(***************************************************************************)
EXTENDS Naturals, Sequences, FiniteSets

CONSTANTS
  Clients,          \* session hashes
  Sockets,          \* socket numbers
  Objects,          \* Player objects
  None,             \* no socket number, no player, no object
  Null,             \* the null pointer operator[] leaves in a map
  MaxConnections,   \* bound: connections accepted in all
  MaxLogouts        \* bound: connections whose client asks for a logout

ASSUME ConnectionsAssumption ==
  /\ IsFiniteSet(Clients) /\ IsFiniteSet(Objects)
  /\ Cardinality(Objects) >= Cardinality(Clients)
  /\ None \notin Clients \cup Sockets \cup Objects /\ Null \notin Objects \cup {None}
  /\ MaxConnections \in Nat /\ MaxLogouts \in Nat

VARIABLES
  accepted, who,          \* connections so far, and whose each is
  peer,                   \* the connection a number denotes, 0 when it is closed
  eof,                    \* what has become of the end of the client's stream
  admitted,               \* connections whose client asked for admission
  asked,                  \* numbers whose client has a request
  session,                \* session server: who is logged in
  players, PlayerSocket, LastHeartbeat, sendHeartbeat, ingame, pool,  \* Player records
  heatbeatforplayer, socketToHash,
  send_queues, armed,     \* queues by number; numbers with an EPOLLOUT event
  responses, logouts,     \* data_queue: numbers that answered; who logs out, by number
  recv, reg, resp, send, heart,   \* the threads' local variables
  crashed,                \* a null pointer was dereferenced
  cause,                  \* history: what besides its end cost a record its connection
  outrun, overtaken,      \* history: marks stored over the answer, or on another player
  home, goodbye,          \* history: a record's connection; connections that logged out
  gone, unfound           \* history: resp's player was erased since the lookup; players
                          \* whose record was erased before their registration ended

netVars     == <<accepted, who, peer, eof, admitted, asked>>
recordVars  == <<players, PlayerSocket, LastHeartbeat, sendHeartbeat, ingame, pool>>
mapVars     == <<heatbeatforplayer, socketToHash>>
queueVars   == <<send_queues, armed>>
packetVars  == <<responses, logouts>>
nullVars    == <<gone, unfound>>
historyVars == <<cause, outrun, overtaken, home, goodbye, nullVars>>
vars == <<netVars, session, recordVars, mapVars, queueVars, packetVars, recv, reg, resp, send,
          heart, crashed, historyVars>>

-----------------------------------------------------------------------------
Connections == 1..MaxConnections
Ages == {"recent", "late"}    \* up to 400 s, more
Causes == {"none", "late", "timeout", "stray"}

(* Entries of a send queue: HeartbeatRequest, and with isLast the            *)
(* LogoutResponse to a connection.                                           *)
Request == [isLast |-> FALSE, conn |-> 0]
LogoutResponse(c) == [isLast |-> TRUE, conn |-> c]

IdleRecv == [pc |-> "idle", fd |-> None, conn |-> 0]
IdleReg  == [pc |-> "idle", fd |-> None, conn |-> 0, h |-> None]
IdleResp == [pc |-> "idle", h |-> None]
IdleSend == [pc |-> "idle", fd |-> None, queue |-> <<>>]
IdleHeart == [pc |-> "idle", o |-> None, fd |-> None, conn |-> 0, late |-> FALSE]

Init ==
  /\ accepted = 0 /\ who = [c \in Connections |-> None]
  /\ peer = [fd \in Sockets |-> 0] /\ eof = [fd \in Sockets |-> "no"]
  /\ admitted = {} /\ asked = {} /\ session = {}
  /\ players = [h \in Clients |-> None]
  /\ PlayerSocket = [o \in Objects |-> None]
  /\ LastHeartbeat = [o \in Objects |-> "recent"] /\ sendHeartbeat = {} /\ ingame = {}
  /\ pool \in {s \in [1..Cardinality(Objects) -> Objects] :
                 \A i, j \in DOMAIN s : s[i] = s[j] => i = j}
  /\ heatbeatforplayer = [h \in Clients |-> None]
  /\ socketToHash = [fd \in Sockets |-> None]
  /\ send_queues = [fd \in Sockets |-> <<>>] /\ armed = {} /\ responses = {} /\ logouts = {}
  /\ recv = IdleRecv /\ reg = IdleReg /\ resp = IdleResp /\ send = IdleSend /\ heart = IdleHeart
  /\ crashed = FALSE
  /\ cause = [o \in Objects |-> "none"] /\ outrun = FALSE /\ overtaken = {} /\ goodbye = {}
  /\ home = [o \in Objects |-> 0] /\ gone = FALSE /\ unfound = {}

-----------------------------------------------------------------------------
Owner(fd) == IF fd \notin Sockets \/ peer[fd] = 0 THEN None ELSE who[peer[fd]]
Connected(h) == \E fd \in Sockets : Owner(fd) = h /\ eof[fd] = "no"

(* The records registered with the connection behind fd.                    *)
Using(fd) == {o \in Objects : PlayerSocket[o] = fd /\ peer[fd] # 0 /\ home[o] = peer[fd]}

(* Disconnect: the queue is released, the number leaves the epoll sets and  *)
(* is closed, whatever connection it has.                                   *)
Disconnect(fd) ==
  /\ send_queues' = [send_queues EXCEPT ![fd] = <<>>]
  /\ armed' = armed \ {fd}
  /\ peer' = [peer EXCEPT ![fd] = 0]
  /\ eof' = [eof EXCEPT ![fd] = "no"]
  /\ asked' = asked \ {fd} /\ admitted' = admitted \ {peer[fd]}

(* history: the records that lose their connection to a thread that meant   *)
(* another one when it looked.                                              *)
Astray(fd, meant) ==
  [o \in Objects |-> IF peer[fd] # meant /\ o \in Using(fd) /\ cause[o] = "none"
                     THEN "stray" ELSE cause[o]]

(* addToSendQueue does not ask whether the number is open; registering it   *)
(* for EPOLLOUT succeeds only then.                                         *)
Push(fd, m) ==
  /\ send_queues' = [send_queues EXCEPT ![fd] = Append(@, m)]
  /\ armed' = IF peer[fd] = 0 THEN armed ELSE armed \cup {fd}

Found(h) == h # None /\ players[h] \in Objects

(* history: the entry in socketToHash of the number of the erased record is *)
(* that of whoever uses the number now.                                     *)
Unmapped(o) ==
  [p \in Objects |-> IF p = o THEN "none"
                     ELSE IF p \in Using(PlayerSocket[o]) /\ cause[p] = "none"
                     THEN "stray" ELSE cause[p]]

(* Mutant: the number still leads to the player. *)
KeepSocket(o) == UNCHANGED socketToHash

EraseSocket(o) == socketToHash' = [socketToHash EXCEPT ![PlayerSocket[o]] = None]

(* DeletePlayer: only a player who is not in a game is erased.  init_Player *)
(* resets the fields here and not when the pool hands the record out again: *)
(* nobody reads those of a released record.                                 *)
DeletePlayer(h) ==
  IF Found(h) /\ players[h] \notin ingame
  THEN LET o == players[h] IN
       /\ players' = [players EXCEPT ![h] = None]
       /\ heatbeatforplayer' = [heatbeatforplayer EXCEPT ![h] = None]
       /\ EraseSocket(o)
       /\ PlayerSocket' = [PlayerSocket EXCEPT ![o] = None]
       /\ pool' = Append(pool, o)
       /\ LastHeartbeat' = [LastHeartbeat EXCEPT ![o] = "recent"]
       /\ sendHeartbeat' = sendHeartbeat \ {o}
       /\ overtaken' = overtaken \ {o} /\ home' = [home EXCEPT ![o] = 0]
       /\ cause' = Unmapped(o)
       /\ gone' = (gone \/ (resp.pc = "store" /\ resp.h = h))
       /\ UNCHANGED ingame
  ELSE UNCHANGED <<recordVars, mapVars, cause, overtaken, home, gone>>

-----------------------------------------------------------------------------
(* Clients and the network.                                                 *)

AcceptConnection(h, fd) ==
  /\ accepted < MaxConnections /\ ~Connected(h)
  /\ peer[fd] = 0
  /\ accepted' = accepted + 1
  /\ who' = [who EXCEPT ![accepted + 1] = h]
  /\ peer' = [peer EXCEPT ![fd] = accepted + 1]
  /\ UNCHANGED <<eof, admitted, asked, session, recordVars, mapVars, queueVars,
                 packetVars, recv, reg, resp, send, heart, crashed, historyVars>>

ClientLeaves(fd) ==
  /\ peer[fd] # 0 /\ eof[fd] = "no"
  /\ eof' = [eof EXCEPT ![fd] = "event"] /\ asked' = asked \ {fd}
  /\ UNCHANGED <<accepted, who, peer, admitted, session, recordVars, mapVars,
                 queueVars, packetVars, recv, reg, resp, send, heart, crashed, historyVars>>

(* The client answers, and the receiver reads it: one recv for an edge-     *)
(* triggered event.  The end of a stream that comes right behind the answer *)
(* has its event used up.                                                   *)
RecvAnswer(fd) ==
  /\ fd \in asked /\ eof[fd] = "no" /\ recv.pc = "idle"
  /\ asked' = asked \ {fd}
  /\ responses' = responses \cup {fd}
  /\ UNCHANGED eof \/ eof' = [eof EXCEPT ![fd] = "missed"]
  /\ UNCHANGED <<accepted, who, peer, admitted, session, recordVars, mapVars, queueVars,
                 logouts, recv, reg, resp, send, heart, crashed, historyVars>>

RecvLogout(fd) ==
  /\ recv.pc = "idle" /\ peer[fd] \in admitted \ goodbye /\ eof[fd] = "no"
  /\ Cardinality(goodbye \cup {l[2] : l \in logouts}) < MaxLogouts
  /\ logouts' = logouts \cup {<<fd, peer[fd]>>}
  /\ UNCHANGED <<netVars, session, recordVars, mapVars, queueVars, responses, recv, reg, resp,
                 send, heart, crashed, historyVars>>

RecvEnd(fd) ==
  /\ recv.pc = "idle" /\ eof[fd] = "event"
  /\ eof' = [eof EXCEPT ![fd] = "seen"]
  /\ recv' = [pc |-> "cleanup", fd |-> fd, conn |-> peer[fd]]
  /\ UNCHANGED <<accepted, who, peer, admitted, asked, session, recordVars, mapVars,
                 queueVars, packetVars, reg, resp, send, heart, crashed, historyVars>>

(* Mutant: the connection is closed and its player is not looked for. *)
RemoveWithoutCleanup ==
  /\ recv.pc = "cleanup"
  /\ recv' = [recv EXCEPT !.pc = "close"]
  /\ UNCHANGED <<netVars, session, recordVars, mapVars, queueVars, packetVars, reg, resp, send,
                 heart, crashed, historyVars>>

(* removeConnection: CleanupforSocket, then Disconnect.  A player in a game *)
(* is logged out and keeps the record.                                      *)
CleanupforSocket ==
  /\ recv.pc = "cleanup"
  /\ LET h == socketToHash[recv.fd] IN
       /\ DeletePlayer(h)
       /\ session' = IF Found(h) THEN session \ {h} ELSE session
  /\ recv' = [recv EXCEPT !.pc = "close"]
  /\ UNCHANGED <<netVars, queueVars, packetVars, reg, resp, send, heart, crashed, outrun,
                 goodbye, unfound>>

RemoveConnection ==
  /\ recv.pc = "close"
  /\ Disconnect(recv.fd) /\ cause' = Astray(recv.fd, recv.conn)
  /\ recv' = IdleRecv
  /\ UNCHANGED <<accepted, who, session, recordVars, mapVars, packetVars, reg, resp,
                 send, heart, crashed, outrun, overtaken, home, goodbye, nullVars>>

-----------------------------------------------------------------------------
(* The sender: processSendQueue.                                            *)

SendTake(fd) ==
  /\ send.pc = "idle" /\ fd \in armed
  /\ armed' = armed \ {fd}
  /\ send_queues' = [send_queues EXCEPT ![fd] = <<>>]
  /\ send' = IF send_queues[fd] = <<>> THEN send
             ELSE [pc |-> "send", fd |-> fd, queue |-> send_queues[fd]]
  /\ UNCHANGED <<netVars, session, recordVars, mapVars, packetVars, recv, reg, resp, heart,
                 crashed, historyVars>>

(* send reaches whatever connection the number has; after the last packet   *)
(* the number is closed, and the loop goes on.                              *)
SendEntry ==
  /\ send.pc = "send"
  /\ LET entry == Head(send.queue)  rest == Tail(send.queue) IN
     /\ send' = IF rest = <<>> THEN IdleSend ELSE [send EXCEPT !.queue = rest]
     /\ IF entry.isLast
        THEN Disconnect(send.fd) /\ cause' = Astray(send.fd, entry.conn)
        ELSE /\ asked' = IF peer[send.fd] # 0 /\ eof[send.fd] = "no"
                       THEN asked \cup {send.fd} ELSE asked
             /\ UNCHANGED <<peer, eof, admitted, queueVars, cause>>
  /\ UNCHANGED <<accepted, who, session, recordVars, mapVars, packetVars, recv, reg, resp, heart,
                 crashed, outrun, overtaken, home, goodbye, nullVars>>

-----------------------------------------------------------------------------
(* A worker with the session server's answer: HandleLoginAttempt.           *)

TakeLogin(fd) ==
  /\ reg.pc = "idle" /\ peer[fd] # 0 /\ peer[fd] \notin admitted /\ eof[fd] = "no"
  /\ Owner(fd) \notin session
  /\ admitted' = admitted \cup {peer[fd]}
  /\ session' = session \cup {Owner(fd)}
  /\ reg' = [pc |-> "find", fd |-> fd, conn |-> peer[fd], h |-> Owner(fd)]
  /\ UNCHANGED <<accepted, who, peer, eof, asked, recordVars, mapVars, queueVars,
                 packetVars, recv, resp, send, heart, crashed, historyVars>>

(* HandleExistingPlayer does nothing: the record keeps its number.          *)
HandleExistingPlayer ==
  /\ reg.pc = "find" /\ Found(reg.h)
  /\ reg' = IdleReg
  /\ UNCHANGED <<netVars, session, recordVars, mapVars, queueVars, packetVars, recv, resp, send,
                 heart, crashed, historyVars>>

RegisterPlayer ==
  /\ reg.pc = "find" /\ ~Found(reg.h)
  /\ LET o == Head(pool) IN
       /\ players' = [players EXCEPT ![reg.h] = o]
       /\ PlayerSocket' = [PlayerSocket EXCEPT ![o] = reg.fd]
       /\ LastHeartbeat' = [LastHeartbeat EXCEPT ![o] = "recent"]
       /\ sendHeartbeat' = sendHeartbeat \ {o} /\ ingame' = ingame \ {o}
       /\ cause' = [cause EXCEPT ![o] = "none"] /\ home' = [home EXCEPT ![o] = reg.conn]
       /\ overtaken' = overtaken \ {o}
       /\ outrun' = (outrun \/ (heart.o = o /\ heart.pc = "mark"))
  /\ pool' = Tail(pool)
  /\ reg' = [reg EXCEPT !.pc = "enter"]
  /\ UNCHANGED <<netVars, session, mapVars, queueVars, packetVars, recv, resp, send, heart,
                 crashed, goodbye, nullVars>>

(* The connection is over, or the receiver past its lookup, or the client    *)
(* logged out in the meantime.                                              *)
TooLate ==
  \/ peer[reg.fd] # reg.conn \/ reg.conn \in goodbye
  \/ recv.pc = "close" /\ recv.conn = reg.conn

(* The two maps.  A record erased since leaves null pointers in both.       *)
EnterMaps ==
  /\ reg.pc = "enter"
  /\ LET o == IF players[reg.h] = None THEN Null ELSE players[reg.h] IN
       /\ players' = [players EXCEPT ![reg.h] = o]
       /\ heatbeatforplayer' = [heatbeatforplayer EXCEPT ![reg.h] = o]
       /\ cause' = IF TooLate /\ o # Null /\ cause[o] = "none"
                   THEN [cause EXCEPT ![o] = "late"] ELSE cause
       /\ unfound' = IF o = Null THEN unfound \cup {reg.h} ELSE unfound
  /\ socketToHash' = [socketToHash EXCEPT ![reg.fd] = reg.h]
  /\ reg' = IdleReg
  /\ UNCHANGED <<netVars, session, PlayerSocket, LastHeartbeat, sendHeartbeat, ingame, pool,
                 queueVars, packetVars, recv, resp, send, heart, crashed, outrun, overtaken, home,
                 goodbye, gone>>

SendGameStart(h) ==
  /\ Found(h) /\ players[h] \notin ingame /\ heatbeatforplayer[h] = players[h]
  /\ ingame' = ingame \cup {players[h]}
  /\ UNCHANGED <<netVars, session, players, PlayerSocket, LastHeartbeat, sendHeartbeat, pool,
                 mapVars, queueVars, packetVars, recv, reg, resp, send, heart, crashed,
                 historyVars>>

(* LogoutRequest: the answer goes to the number the packet came from.       *)
HandleLogout(fd, c) ==
  /\ <<fd, c>> \in logouts
  /\ logouts' = logouts \ {<<fd, c>>}
  /\ session' = session \ {who[c]}
  /\ DeletePlayer(who[c])
  /\ Push(fd, LogoutResponse(c))
  /\ goodbye' = goodbye \cup {c}
  /\ UNCHANGED <<netVars, responses, recv, reg, resp, send, heart, crashed, outrun, unfound>>

-----------------------------------------------------------------------------
(* A worker with a HeartbeatResponse: ResponseHeartbeat.                    *)

(* Mutant: the number's hash is not checked. *)
LookupHashUnchecked(fd) ==
  /\ resp.pc = "idle" /\ fd \in responses
  /\ responses' = responses \ {fd}
  /\ resp' = [pc |-> "store", h |-> socketToHash[fd]]
  /\ gone' = FALSE
  /\ UNCHANGED <<netVars, session, recordVars, mapVars, queueVars, logouts, recv, reg, send,
                 heart, crashed, cause, outrun, overtaken, home, goodbye, unfound>>

LookupHash(fd) ==
  /\ resp.pc = "idle" /\ fd \in responses
  /\ responses' = responses \ {fd}
  /\ resp' = IF socketToHash[fd] = None THEN IdleResp
             ELSE [pc |-> "store", h |-> socketToHash[fd]]
  /\ gone' = FALSE
  /\ UNCHANGED <<netVars, session, recordVars, mapVars, queueVars, logouts, recv, reg, send,
                 heart, crashed, cause, outrun, overtaken, home, goodbye, unfound>>

(* Mutant: the time is stored and the mark stays. *)
ResponseHeartbeatMarked ==
  /\ resp.pc = "store" /\ heatbeatforplayer[resp.h] \in Objects
  /\ LastHeartbeat' = [LastHeartbeat EXCEPT ![heatbeatforplayer[resp.h]] = "recent"]
  /\ resp' = IdleResp
  /\ UNCHANGED <<netVars, session, players, PlayerSocket, sendHeartbeat, ingame, pool, mapVars,
                 queueVars, packetVars, recv, reg, send, heart, crashed, historyVars>>

(* operator[] four times, once of them under the lock: an entry that is     *)
(* gone gives a null pointer.                                               *)
ResponseHeartbeat ==
  /\ resp.pc = "store"
  /\ LET o == heatbeatforplayer[resp.h] IN
     IF o \in Objects
     THEN /\ LastHeartbeat' = [LastHeartbeat EXCEPT ![o] = "recent"]
          /\ sendHeartbeat' = sendHeartbeat \ {o}
          /\ overtaken' = overtaken \ {o}
          /\ outrun' = (outrun \/ (heart.o = o /\ heart.pc = "mark"))
          /\ UNCHANGED crashed
     ELSE /\ crashed' = TRUE
          /\ UNCHANGED <<LastHeartbeat, sendHeartbeat, overtaken, outrun>>
  /\ resp' = IdleResp
  /\ UNCHANGED <<netVars, session, players, PlayerSocket, ingame, pool, mapVars, queueVars,
                 packetVars, recv, reg, send, heart, cause, home, goodbye, nullVars>>

-----------------------------------------------------------------------------
(* The heartbeat thread.                                                    *)

TimePasses(o) ==
  /\ PlayerSocket[o] # None /\ LastHeartbeat[o] # "late"
  /\ LastHeartbeat' = [LastHeartbeat EXCEPT ![o] = "late"]
  /\ UNCHANGED <<netVars, session, players, PlayerSocket, sendHeartbeat, ingame, pool, mapVars,
                 queueVars, packetVars, recv, reg, resp, send, heart, crashed, historyVars>>

(* Mutant: who is marked is passed over, late or not. *)
HeartbeatOnce(o) ==
  /\ heart.pc = "idle" /\ \A h \in Clients : heatbeatforplayer[h] # Null
  /\ \E h \in Clients : heatbeatforplayer[h] = o
  /\ PlayerSocket[o] # None /\ o \notin sendHeartbeat /\ Push(PlayerSocket[o], Request)
  /\ heart' = [pc |-> "mark", o |-> o, fd |-> PlayerSocket[o], late |-> LastHeartbeat[o] = "late",
               conn |-> IF o \in Using(PlayerSocket[o]) THEN peer[PlayerSocket[o]] ELSE 0]
  /\ outrun' = FALSE
  /\ UNCHANGED <<netVars, session, recordVars, mapVars, packetVars, recv, reg, resp, send,
                 crashed, cause, overtaken, home, goodbye, nullVars>>

(* One record's turn in the loop over heatbeatforplayer: its number is read *)
(* and the request pushed; the 60 s may have passed at any time.  A marked  *)
(* record that is not late is passed over; a null entry ends the process.   *)
Heartbeat(o) ==
  /\ heart.pc = "idle" /\ \A h \in Clients : heatbeatforplayer[h] # Null
  /\ \E h \in Clients : heatbeatforplayer[h] = o
  /\ LET fd == PlayerSocket[o]
         late == LastHeartbeat[o] = "late"
         turn(pc) == [pc |-> pc, o |-> o, fd |-> fd, late |-> late,
                      conn |-> IF o \in Using(fd) THEN peer[fd] ELSE 0]
     IN /\ fd # None
        /\ \/ o \notin sendHeartbeat /\ Push(fd, Request) /\ heart' = turn("mark")
           \/ o \in sendHeartbeat /\ late /\ heart' = turn("close") /\ UNCHANGED queueVars
  /\ outrun' = FALSE
  /\ UNCHANGED <<netVars, session, recordVars, mapVars, packetVars, recv, reg, resp, send,
                 crashed, cause, overtaken, home, goodbye, nullVars>>

HeartbeatNull ==
  /\ heart.pc = "idle" /\ \E h \in Clients : heatbeatforplayer[h] = Null
  /\ crashed' = TRUE
  /\ UNCHANGED <<netVars, session, recordVars, mapVars, queueVars, packetVars, recv, reg, resp,
                 send, heart, historyVars>>

(* The flag is set after the request has been queued.                       *)
MarkRecord ==
  /\ heart.pc = "mark"
  /\ sendHeartbeat' = sendHeartbeat \cup {heart.o}
  /\ overtaken' = IF outrun THEN overtaken \cup {heart.o} ELSE overtaken \ {heart.o}
  /\ outrun' = FALSE
  /\ heart' = IF heart.late THEN [heart EXCEPT !.pc = "close"] ELSE IdleHeart
  /\ UNCHANGED <<netVars, session, players, PlayerSocket, LastHeartbeat, ingame, pool, mapVars,
                 queueVars, packetVars, recv, reg, resp, send, crashed, cause, home, goodbye,
                 nullVars>>

(* RequestDisconnect: the record stays.                                     *)
TimeoutDisconnect ==
  /\ heart.pc = "close"
  /\ Disconnect(heart.fd)
  /\ cause' = IF heart.conn # 0 /\ peer[heart.fd] = heart.conn
              THEN [o \in Objects |-> IF o \in Using(heart.fd) /\ cause[o] = "none"
                                      THEN "timeout" ELSE cause[o]]
              ELSE Astray(heart.fd, heart.conn)
  /\ heart' = IdleHeart
  /\ UNCHANGED <<accepted, who, session, recordVars, mapVars, packetVars, recv, reg,
                 resp, send, crashed, outrun, overtaken, home, goodbye, nullVars>>

-----------------------------------------------------------------------------
Receiver == (\E fd \in Sockets : RecvEnd(fd)) \/ CleanupforSocket \/ RemoveConnection
Sender == (\E fd \in Sockets : SendTake(fd)) \/ SendEntry
Register == HandleExistingPlayer \/ RegisterPlayer \/ EnterMaps
Respond == (\E fd \in Sockets : LookupHash(fd)) \/ ResponseHeartbeat
HeatbeatWoker == HeartbeatNull \/ MarkRecord \/ TimeoutDisconnect

Next ==
  /\ ~crashed
  /\ \/ \E h \in Clients : (\E fd \in Sockets : AcceptConnection(h, fd)) \/ SendGameStart(h)
     \/ \E fd \in Sockets : ClientLeaves(fd) \/ RecvAnswer(fd) \/ RecvLogout(fd) \/ TakeLogin(fd)
     \/ \E fd \in Sockets, c \in Connections : HandleLogout(fd, c)
     \/ \E o \in Objects : TimePasses(o)
     \/ Receiver \/ Sender \/ Register \/ Respond \/ HeatbeatWoker
     \/ \E o \in Objects : Heartbeat(o)

(* The lobby's threads run on, and the loop of the heartbeat thread comes   *)
(* to every record; nothing is assumed of clients and of time.              *)
Fairness ==
  /\ WF_vars(~crashed /\ Receiver) /\ WF_vars(~crashed /\ Sender)
  /\ WF_vars(~crashed /\ Register) /\ WF_vars(~crashed /\ Respond)
  /\ WF_vars(~crashed /\ HeatbeatWoker)
  /\ \A o \in Objects : SF_vars(~crashed /\ LastHeartbeat[o] = "late" /\ Heartbeat(o))

Spec == Init /\ [][Next]_vars /\ Fairness
-----------------------------------------------------------------------------
(* Properties *)

(* Every variable stays in its type. *)
TypeOK ==
  /\ accepted \in 0..MaxConnections /\ who \in [Connections -> Clients \cup {None}]
  /\ peer \in [Sockets -> 0..MaxConnections]
  /\ eof \in [Sockets -> {"no", "event", "missed", "seen"}]
  /\ admitted \subseteq Connections /\ asked \subseteq Sockets
  /\ session \subseteq Clients
  /\ players \in [Clients -> Objects \cup {None, Null}]
  /\ PlayerSocket \in [Objects -> Sockets \cup {None}]
  /\ LastHeartbeat \in [Objects -> Ages]
  /\ sendHeartbeat \subseteq Objects /\ ingame \subseteq Objects /\ pool \in Seq(Objects)
  /\ heatbeatforplayer \in [Clients -> Objects \cup {None, Null}]
  /\ socketToHash \in [Sockets -> Clients \cup {None}]
  /\ send_queues \in [Sockets -> Seq([isLast : BOOLEAN, conn : 0..MaxConnections])]
  /\ armed \subseteq Sockets /\ responses \subseteq Sockets
  /\ logouts \subseteq Sockets \X Connections
  /\ recv \in [pc : {"idle", "cleanup", "close"}, fd : Sockets \cup {None}, conn : 0..MaxConnections]
  /\ reg \in [pc : {"idle", "find", "enter"}, fd : Sockets \cup {None}, conn : 0..MaxConnections,
              h : Clients \cup {None}]
  /\ resp \in {IdleResp} \cup [pc : {"store"}, h : Clients]
  /\ send \in [pc : {"idle", "send"}, fd : Sockets \cup {None}, queue : Seq([isLast : BOOLEAN, conn : 0..MaxConnections])]
  /\ heart \in [pc : {"idle", "mark", "close"}, o : Objects \cup {None},
                fd : Sockets \cup {None}, conn : 0..MaxConnections, late : BOOLEAN]
  /\ crashed \in BOOLEAN /\ cause \in [Objects -> Causes] /\ outrun \in BOOLEAN
  /\ overtaken \subseteq Objects /\ home \in [Objects -> 0..MaxConnections] /\ goodbye \subseteq Connections
  /\ gone \in BOOLEAN /\ unfound \subseteq Clients

(* A record whose number is closed or somebody else's is one of a player    *)
(* who was in a game, whom the heartbeat timed out, who was registered      *)
(* after the connection was over, or whose number a thread closed that was  *)
(* done with an earlier connection of it.  The end of any other connection  *)
(* takes the record along.                                                  *)
OrphansExplained ==
  \A h \in Clients : Found(h) /\ players[h] \notin Using(PlayerSocket[players[h]]) =>
    reg.h = h \/ players[h] \in ingame \/ cause[players[h]] # "none"

(* A player who is marked as asked, and has a connection and the entries of  *)
(* both maps, has been asked: the request or its answer is under way, or    *)
(* the flag was set after the answer had been handled, and nobody will ask  *)
(* again.                                                                   *)
MarksExplained ==
  \A h \in Clients : Found(h) /\ players[h] \in sendHeartbeat =>
    LET o == players[h]  fd == PlayerSocket[players[h]] IN
    \/ o \notin Using(fd) \/ cause[o] # "none" \/ eof[fd] # "no" \/ o \in overtaken
    \/ \E i \in DOMAIN send_queues[fd] : ~send_queues[fd][i].isLast
    \/ send.fd = fd /\ \E i \in DOMAIN send.queue : ~send.queue[i].isLast
    \/ fd \in asked \cup responses \/ resp.h = h

(* Where a null pointer is about to be dereferenced, a player was erased    *)
(* between the two lookups of ResponseHeartbeat, or before the registration *)
(* ended and put null pointers into the maps.  Else whoever a number leads  *)
(* to has an entry in the heartbeat's map, whatever connections, logouts    *)
(* and timeouts came between.                                               *)
NullsExplained ==
  /\ resp.pc = "store" /\ heatbeatforplayer[resp.h] \notin Objects => gone \/ resp.h \in unfound
  /\ \A h \in Clients : heatbeatforplayer[h] = Null => h \in unfound

(* A player whose anti-cheat has been silent for 400 s is disconnected.     *)
SilentAreDisconnected ==
  \A h \in Clients, o \in Objects, c \in Connections :
    (/\ heatbeatforplayer[h] = o /\ players[h] = o /\ LastHeartbeat[o] = "late"
     /\ PlayerSocket[o] # None /\ peer[PlayerSocket[o]] = c)
    ~> (\/ LastHeartbeat[o] # "late" \/ players[h] # o \/ crashed
        \/ \A fd \in Sockets : peer[fd] # c)
=============================================================================
