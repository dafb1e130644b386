--------------------------- MODULE ServerRegistry ---------------------------
(***************************************************************************)
(* The routing server's register of auth servers.  Two of its threads work *)
(* on Serverlist: the receiver (recvWorkerThread, ProcessPacket,           *)
(* removeConnection) and the sweeper (sendWorkerThread), which drops       *)
(* unused records, then walks raw pointers to the others with no lock held.*)
(* main starts one thread of each.                                         *)
(*                                                                         *)
(* A socket number names a connection and the record kept for it; the      *)
(* kernel gives the number of a closed connection to a later one.  Time is *)
(* the age of a record's last heartbeat: 0, past heartbeatTime (1), past   *)
(* heartbeatTimeout (2).                                                   *)
(***************************************************************************)
EXTENDS Naturals, Sequences

CONSTANTS
  Sockets,   \* socket numbers
  NoSocket   \* no socket at hand

ASSUME SocketsAssumption == NoSocket \notin Sockets

VARIABLES
  peer,             \* the far end of a socket: "none" while it is closed
  inbox,            \* packets that reached a socket and were not received
  ready,            \* sockets with an edge-triggered event pending
  asked,            \* heartbeats sent to the far end and not echoed
  listed,           \* the keys of Serverlist
  used, sendHeartbeat,  \* the sockets whose ServerInfo has the flag set
  age,              \* how old the last heartbeat of each ServerInfo is
  closing,          \* receiver: the socket it is about to close
  List, looking, seenAge, socketsToRemove,   \* sweeper: its locals
  crashed,          \* a null ServerInfo was dereferenced
  givenUp,          \* history: sockets a sweep timed out since they were accepted
  renewed,          \* history: heard of since the sweep read a timed-out age of theirs
  reused            \* history: a socket was accepted while its record was listed

connVars  == <<peer, inbox, ready, asked>>
recordVars == <<listed, used, sendHeartbeat, age>>
sweepVars == <<List, looking, seenAge, socketsToRemove>>
historyVars == <<givenUp, renewed, reused>>
vars == <<connVars, recordVars, closing, sweepVars, crashed, historyVars>>

-----------------------------------------------------------------------------
Packets == {"ConnectionCheck", "Heartbeat"}
Fresh == 0
Due == 1
TimedOut == 2
Ages == {Fresh, Due, TimedOut}

Init ==
  /\ peer = [fd \in Sockets |-> "none"]
  /\ inbox = [fd \in Sockets |-> <<>>]
  /\ ready = {}
  /\ asked = [fd \in Sockets |-> 0]
  /\ listed = {} /\ used = {} /\ sendHeartbeat = {}
  /\ age = [fd \in Sockets |-> Fresh]
  /\ closing = NoSocket
  /\ List = {} /\ looking = NoSocket /\ seenAge = Fresh /\ socketsToRemove = {}
  /\ crashed = FALSE /\ givenUp = {} /\ renewed = {} /\ reused = FALSE

-----------------------------------------------------------------------------
(* The auth servers *)

Up(fd) == peer[fd] \in {"connected", "registered"}

(* A packet reaches the socket and raises an event.                         *)
Arrives(fd, packet) ==
  /\ inbox' = [inbox EXCEPT ![fd] = Append(@, packet)]
  /\ ready' = ready \cup {fd}

(* The connector sends its address once, right after connecting.            *)
ConnectRoutingServer(fd) ==
  /\ ~crashed
  /\ peer[fd] = "connected"
  /\ peer' = [peer EXCEPT ![fd] = "registered"]
  /\ Arrives(fd, "ConnectionCheck")
  /\ UNCHANGED <<asked, recordVars, closing, sweepVars, crashed, historyVars>>

(* Mutant: the worker sends heartbeats of its own.                          *)
SendOwnHeartbeat(fd) ==
  /\ ~crashed
  /\ Up(fd)
  /\ asked' = [asked EXCEPT ![fd] = @ - 1]
  /\ Arrives(fd, "Heartbeat")
  /\ UNCHANGED <<peer, recordVars, closing, sweepVars, crashed, historyVars>>

(* Its worker, started before the address is sent, echoes a heartbeat.      *)
EchoHeartbeat(fd) ==
  /\ ~crashed
  /\ Up(fd) /\ asked[fd] > 0
  /\ asked' = [asked EXCEPT ![fd] = @ - 1]
  /\ Arrives(fd, "Heartbeat")
  /\ UNCHANGED <<peer, recordVars, closing, sweepVars, crashed, historyVars>>

(* The auth server stops; fin: the end of the stream is announced, which a  *)
(* host that lost power does not do.                                        *)
PeerGone(fd, fin) ==
  /\ ~crashed
  /\ Up(fd)
  /\ peer' = [peer EXCEPT ![fd] = "gone"]
  /\ ready' = IF fin THEN ready \cup {fd} ELSE ready
  /\ UNCHANGED <<inbox, asked, recordVars, closing, sweepVars, crashed, historyVars>>

TimePasses(fd) ==
  /\ ~crashed
  /\ fd \in listed /\ age[fd] < TimedOut
  /\ age' = [age EXCEPT ![fd] = @ + 1]
  /\ UNCHANGED <<connVars, listed, used, sendHeartbeat, closing, sweepVars, crashed, historyVars>>

-----------------------------------------------------------------------------
(* The acceptor and the receiver *)

AcceptConnection(fd) ==
  /\ ~crashed
  /\ peer[fd] = "none"
  /\ peer' = [peer EXCEPT ![fd] = "connected"]
  /\ inbox' = [inbox EXCEPT ![fd] = <<>>]
  /\ ready' = ready \ {fd}
  /\ asked' = [asked EXCEPT ![fd] = 0]
  /\ givenUp' = givenUp \ {fd}
  /\ reused' = (reused \/ fd \in listed)
  /\ UNCHANGED <<recordVars, closing, sweepVars, crashed, renewed>>

(* One recv per event: it takes all the bytes that are there, and only the  *)
(* first packet in them is parsed.                                          *)
Receive(fd, packet) ==
  /\ ~crashed
  /\ closing = NoSocket
  /\ fd \in ready /\ inbox[fd] # <<>> /\ Head(inbox[fd]) = packet
  /\ inbox' = [inbox EXCEPT ![fd] = <<>>]
  /\ ready' = ready \ {fd}
  /\ UNCHANGED <<peer, asked, closing, sweepVars, givenUp, reused>>

(* Set_lastHeartbeat.  A sweep that has read a timed-out age does not see it. *)
Refresh(fd) ==
  /\ age' = [age EXCEPT ![fd] = Fresh]
  /\ sendHeartbeat' = sendHeartbeat \ {fd}
  /\ renewed' = IF fd \in socketsToRemove \/ (fd = looking /\ seenAge = TimedOut)
                THEN renewed \cup {fd} ELSE renewed

(* emplace and RegisterServerInfo, under the lock.                          *)
RecvConnectionCheck(fd) ==
  /\ Receive(fd, "ConnectionCheck")
  /\ listed' = listed \cup {fd}
  /\ used' = used \cup {fd}
  /\ Refresh(fd)
  /\ UNCHANGED crashed

(* Serverlist[fd]-> on a key that is gone is a null dereference.            *)
RecvHeartbeat(fd) ==
  /\ Receive(fd, "Heartbeat")
  /\ \/ /\ fd \in listed
        /\ Refresh(fd)
        /\ UNCHANGED <<listed, used, crashed>>
     \/ /\ fd \notin listed
        /\ crashed' = TRUE
        /\ UNCHANGED <<recordVars, renewed>>

RecvEnd(fd) ==
  /\ ~crashed
  /\ closing = NoSocket
  /\ fd \in ready /\ inbox[fd] = <<>> /\ peer[fd] = "gone"
  /\ ready' = ready \ {fd}
  /\ closing' = fd
  /\ UNCHANGED <<peer, inbox, asked, sweepVars, crashed, historyVars>>

(* Mutant: the record is left in use.                                       *)
RemoveUnmarked(fd) == RecvEnd(fd) /\ UNCHANGED recordVars

(* Mutant: the record is erased on the spot.                                *)
RemoveErased(fd) ==
  /\ RecvEnd(fd)
  /\ listed' = listed \ {fd}
  /\ UNCHANGED <<used, sendHeartbeat, age>>

(* removeConnection: the record is marked under the lock, the socket closed *)
(* after it.                                                                *)
RemoveConnection(fd) ==
  /\ RecvEnd(fd)
  /\ used' = used \ {fd}
  /\ UNCHANGED <<listed, sendHeartbeat, age>>

CloseSocket ==
  /\ ~crashed
  /\ closing # NoSocket
  /\ peer' = [peer EXCEPT ![closing] = "none"]
  /\ closing' = NoSocket
  /\ UNCHANGED <<inbox, ready, asked, recordVars, sweepVars, crashed, historyVars>>

-----------------------------------------------------------------------------
(* The sweeper *)

SweepIdle == List = {} /\ looking = NoSocket /\ socketsToRemove = {}

(* Under the lock: erase the unused, take pointers to the others.           *)
SweepCollect ==
  /\ ~crashed
  /\ SweepIdle
  /\ listed' = listed \cap used
  /\ List' = listed'
  /\ UNCHANGED <<connVars, used, sendHeartbeat, age, closing, looking, seenAge,
                 socketsToRemove, crashed, historyVars>>

(* The heartbeat's age is read once and used in both tests below.           *)
SweepLook(fd) ==
  /\ ~crashed
  /\ looking = NoSocket /\ fd \in List
  /\ looking' = fd /\ seenAge' = age[fd]
  /\ List' = List \ {fd}
  /\ UNCHANGED <<connVars, recordVars, closing, socketsToRemove, crashed, historyVars>>

(* A heartbeat for whoever is behind the socket number now; one sent to a   *)
(* connection whose far end is gone may come back as a reset, an event.     *)
SendHeartbeat(fd) ==
  \/ /\ Up(fd)
     /\ asked' = [asked EXCEPT ![fd] = @ + 1]
     /\ UNCHANGED ready
  \/ /\ peer[fd] = "gone"
     /\ ready' \in {ready, ready \cup {fd}}
     /\ UNCHANGED asked
  \/ /\ peer[fd] = "none"
     /\ UNCHANGED <<asked, ready>>

(* Mutant: the request is not noted in the record.                          *)
AskUnnoted ==
  /\ SendHeartbeat(looking)
  /\ UNCHANGED sendHeartbeat

Ask ==
  /\ SendHeartbeat(looking)
  /\ sendHeartbeat' = sendHeartbeat \cup {looking}

MustAsk == seenAge >= Due /\ looking \notin sendHeartbeat

(* Mutant: a silent record is asked, and never given up.                    *)
CheckNoTimeout ==
  /\ ~crashed
  /\ looking # NoSocket
  /\ \/ MustAsk /\ Ask
     \/ ~MustAsk /\ UNCHANGED <<asked, ready, sendHeartbeat>>
  /\ looking' = NoSocket
  /\ UNCHANGED <<peer, inbox, listed, used, age, closing, List, seenAge, socketsToRemove,
                 crashed, historyVars>>

(* Mutant: a server is given up as soon as it is due.                       *)
CheckEarly ==
  /\ ~crashed
  /\ looking # NoSocket
  /\ \/ MustAsk /\ Ask
     \/ ~MustAsk /\ UNCHANGED <<asked, ready, sendHeartbeat>>
  /\ socketsToRemove' = IF seenAge >= Due THEN socketsToRemove \cup {looking}
                        ELSE socketsToRemove
  /\ looking' = NoSocket
  /\ UNCHANGED <<peer, inbox, listed, used, age, closing, List, seenAge, crashed, historyVars>>

(* Mutant: a server is out of use until it has answered.                    *)
CheckSuspends ==
  /\ ~crashed
  /\ looking # NoSocket
  /\ \/ MustAsk /\ Ask /\ used' = used \ {looking}
     \/ ~MustAsk /\ UNCHANGED <<asked, ready, sendHeartbeat, used>>
  /\ socketsToRemove' = IF seenAge = TimedOut THEN socketsToRemove \cup {looking}
                        ELSE socketsToRemove
  /\ looking' = NoSocket
  /\ UNCHANGED <<peer, inbox, listed, age, closing, List, seenAge, crashed, historyVars>>

SweepCheck ==
  /\ ~crashed
  /\ looking # NoSocket
  /\ \/ MustAsk /\ Ask
     \/ ~MustAsk /\ UNCHANGED <<asked, ready, sendHeartbeat>>
  /\ socketsToRemove' = IF seenAge = TimedOut THEN socketsToRemove \cup {looking}
                        ELSE socketsToRemove
  /\ looking' = NoSocket
  /\ UNCHANGED <<peer, inbox, listed, used, age, closing, List, seenAge, crashed, historyVars>>

(* Setused(false) on each timed-out record, whatever came in meanwhile.     *)
SweepExpire(fd) ==
  /\ ~crashed
  /\ List = {} /\ looking = NoSocket
  /\ fd \in socketsToRemove
  /\ used' = used \ {fd}
  /\ socketsToRemove' = socketsToRemove \ {fd}
  /\ givenUp' = givenUp \cup {fd}
  /\ renewed' = renewed \ {fd}
  /\ UNCHANGED <<connVars, listed, sendHeartbeat, age, closing, List, looking, seenAge,
                 crashed, reused>>

-----------------------------------------------------------------------------
recvWorkerThread ==
  \/ \E fd \in Sockets : RecvConnectionCheck(fd) \/ RecvHeartbeat(fd) \/ RemoveConnection(fd)
  \/ CloseSocket

sendWorkerThread ==
  \/ SweepCollect
  \/ \E fd \in Sockets : SweepLook(fd) \/ SweepExpire(fd)
  \/ SweepCheck

Environment ==
  \E fd \in Sockets :
    \/ AcceptConnection(fd) \/ ConnectRoutingServer(fd) \/ EchoHeartbeat(fd)
    \/ \E fin \in BOOLEAN : PeerGone(fd, fin)
    \/ TimePasses(fd)

Next == recvWorkerThread \/ sendWorkerThread \/ Environment

(* Both threads keep running and time passes; the auth servers owe nothing. *)
Fairness ==
  /\ WF_vars(recvWorkerThread) /\ WF_vars(sendWorkerThread)
  /\ \A fd \in Sockets : WF_vars(TimePasses(fd))

Spec == Init /\ [][Next]_vars /\ Fairness

-----------------------------------------------------------------------------
(* Properties *)

(* Whom SelectServer may hand out.                                          *)
Offered == listed \cap used

Answers(fd) == {i \in DOMAIN inbox[fd] : inbox[fd][i] = "Heartbeat"}

(* Every variable stays in its type. *)
TypeOK ==
  /\ peer \in [Sockets -> {"none", "connected", "registered", "gone"}]
  /\ inbox \in [Sockets -> Seq(Packets)]
  /\ ready \subseteq Sockets /\ asked \in [Sockets -> Nat]
  /\ listed \subseteq Sockets /\ used \subseteq Sockets /\ sendHeartbeat \subseteq Sockets
  /\ age \in [Sockets -> Ages]
  /\ closing \in Sockets \cup {NoSocket}
  /\ List \subseteq Sockets /\ looking \in Sockets \cup {NoSocket}
  /\ seenAge \in Ages /\ socketsToRemove \subseteq Sockets
  /\ crashed \in BOOLEAN /\ reused \in BOOLEAN
  /\ givenUp \subseteq Sockets /\ renewed \subseteq Sockets

(* The sweeper walks raw pointers into Serverlist with no lock held: each   *)
(* record it points to is still in the map, whatever the receiver did.      *)
PointersLive ==
  /\ List \subseteq listed /\ socketsToRemove \subseteq listed
  /\ looking # NoSocket => looking \in listed

(* SelectServer only hands out servers whose connection is open:            *)
(* removeConnection marks the record before the number can be used again.   *)
OfferedAreOpen == \A fd \in Offered : peer[fd] # "none"

(* A heartbeat for a record that is gone, a null dereference, takes a       *)
(* server the sweep gave up on, or a number accepted while its record was   *)
(* still listed: plain registering, answering and leaving never do it.      *)
CrashExplained == crashed => givenUp # {} \/ reused

(* sendHeartbeat keeps at most one heartbeat of a connection under way, so  *)
(* answers never arrive in one piece, of which the rest would be lost.      *)
OneHeartbeatInFlight ==
  ~reused => \A fd \in Sockets :
               /\ asked[fd] <= 1
               /\ \A i, j \in Answers(fd) : i = j /\ asked[fd] = 0

(* A server is dropped for silence alone.  The sweep drops a record past    *)
(* heartbeatTimeout; when a server was heard of by then, it was after its   *)
(* age had been read, which is not read again.  And a registered server     *)
(* that is still there leaves the offer in no other way, as long as no      *)
(* number is reused under a listed record.                                  *)
DroppedForSilence ==
  /\ \A fd \in socketsToRemove : age[fd] = TimedOut \/ fd \in renewed
  /\ ~reused => \A fd \in Sockets :
       peer[fd] = "registered" /\ inbox[fd] # <<"ConnectionCheck">> =>
         fd \in Offered \cup givenUp

(* A server that is gone is not offered for ever, even when the event that  *)
(* announced the end of its stream was used up by the recv of a packet.     *)
DeadServersExpire ==
  \A fd \in Sockets :
    peer[fd] = "gone" ~> peer[fd] # "gone" \/ fd \notin Offered \/ crashed
=============================================================================
