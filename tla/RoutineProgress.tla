-------------------------- MODULE RoutineProgress --------------------------
(***************************************************************************)
(* The lobby's packet pipeline, of which the other servers have copies.    *)
(* Threads: a receiver of the client network, the receiver and the sender  *)
(* of the link to the session server, the packet workers with their queue  *)
(* and condition variable, the heartbeat thread, the client network's      *)
(* sender, and main, which shuts everything down.  They share pools of     *)
(* packets and of buffers whose acquire blocks while the pool is empty.    *)
(*                                                                         *)
(* The queue's mutex is held over more than one step only by a worker that *)
(* has evaluated its predicate and is about to wait ("park").  What a      *)
(* packet asks for is decided when it is parsed, so packets have no        *)
(* contents.  After undefined behaviour nothing more is said.              *)
(***************************************************************************)
EXTENDS Naturals, Sequences, FiniteSets

CONSTANTS
  Workers,        \* threads of RoutineProgress, 3 in the code
  Buffers,        \* objects of the pool of byte vectors, 30000
  ClientPackets,  \* objects of the pool of ClientPacket, 30000
  None            \* null

ASSUME PipelineAssumption ==
  /\ IsFiniteSet(Workers) /\ Workers # {}
  /\ IsFiniteSet(Buffers) /\ IsFiniteSet(ClientPackets)
  /\ None \notin Buffers \cup ClientPackets

VARIABLES
  main,                      \* how far main has got in shutting down
  packet_pool, ClientPacket_pool,   \* what acquire may take
  data_queue,                \* RoutineProgress: packets to handle
  pc, data,                  \* workers: step and packet
  decrypted_data, Serialize_data,   \* workers: HandleReceivedPacket's buffers
  recv, Cpacket, Logout_data,\* client receiver: step, packet, Logoutpacket's buffer
  link, Lpacket,             \* session link's RecvWorker: step and packet
  sending, sent_data,        \* session link's SendWoker: step and buffer
  sendToSessionServer_queue, \* buffers for the session server
  send_queues,               \* buffers for clients that are connected
  stranded,                  \* buffers queued for a socket number that is closed
  heart,                     \* heartbeat thread
  undefined,                 \* undefined behaviour has been reached
  replies, timeouts,         \* history: replies that lost a buffer; empty recvs of the link
  parking                    \* history: workers about to wait when Release notified

workerVars == <<pc, data, decrypted_data, Serialize_data>>
recvVars   == <<recv, Cpacket, Logout_data>>
linkVars   == <<link, Lpacket>>
sendVars   == <<sending, sent_data>>
outVars    == <<sendToSessionServer_queue, send_queues, stranded>>
poolVars   == <<packet_pool, ClientPacket_pool>>
historyVars == <<replies, timeouts, parking>>
vars == <<main, poolVars, data_queue, workerVars, recvVars, linkVars, sendVars, outVars,
          heart, undefined, historyVars>>

-----------------------------------------------------------------------------
Stages == {"serve", "link", "network", "static", "routine", "end"}
WorkerSteps == {"predicate", "park", "asleep", "handle", "copy", "forward", "serialize", "encrypt",
                "dedicated", "tell", "info", "finish", "gone"}

(* The three flags the loops test.                                         *)
ConnectSessionserver_running == main = "serve"
running == main \in {"serve", "link"}
ProsessThreads_status == main \notin {"routine", "end"}

(* Mutant: the predicate is evaluated without the mutex. *)
QueueUnlocked == TRUE

QueueFree == \A w \in Workers : pc[w] # "park"

Init ==
  /\ main = "serve"
  /\ packet_pool = Buffers /\ ClientPacket_pool = ClientPackets
  /\ data_queue = <<>>
  /\ pc = [w \in Workers |-> "predicate"]
  /\ data = [w \in Workers |-> None]
  /\ decrypted_data = [w \in Workers |-> None]
  /\ Serialize_data = [w \in Workers |-> None]
  /\ recv = "poll" /\ Cpacket = None /\ Logout_data = None
  /\ link = "loop" /\ Lpacket = None
  /\ sending = "loop" /\ sent_data = None
  /\ sendToSessionServer_queue = <<>> /\ send_queues = {} /\ stranded = {}
  /\ heart = "loop" /\ undefined = FALSE
  /\ replies = 0 /\ timeouts = 0 /\ parking = {}

-----------------------------------------------------------------------------
(* The workers' queue. *)

Step(w, from, to) == pc[w] = from /\ pc' = [pc EXCEPT ![w] = to]

(* The test of the loop and the predicate, with the mutex: a worker that is *)
(* to wait keeps it.                                                        *)
WorkerPredicate(w) ==
  /\ QueueFree
  /\ \/ /\ ~ProsessThreads_status
        /\ Step(w, "predicate", "gone")
        /\ UNCHANGED <<data, data_queue>>
     \/ /\ ProsessThreads_status /\ data_queue # <<>>
        /\ Step(w, "predicate", "handle")
        /\ data' = [data EXCEPT ![w] = Head(data_queue)]
        /\ data_queue' = Tail(data_queue)
     \/ /\ ProsessThreads_status /\ data_queue = <<>>
        /\ Step(w, "predicate", "park")
        /\ UNCHANGED <<data, data_queue>>
  /\ UNCHANGED <<main, poolVars, decrypted_data, Serialize_data, recvVars, linkVars, sendVars,
                 outVars, heart, undefined, historyVars>>

WorkerPark(w) ==
  /\ Step(w, "park", "asleep")
  /\ UNCHANGED <<main, poolVars, data_queue, data, decrypted_data, Serialize_data, recvVars,
                 linkVars, sendVars, outVars, heart, undefined, historyVars>>

SpuriousWakeup(w) ==
  /\ Step(w, "asleep", "predicate")
  /\ UNCHANGED <<main, poolVars, data_queue, data, decrypted_data, Serialize_data, recvVars,
                 linkVars, sendVars, outVars, heart, undefined, historyVars>>

(* addToProgressQueue: the push, then notify_one after the unlock.         *)
Push(p) == QueueFree /\ data_queue' = Append(data_queue, p)

Asleep == {w \in Workers : pc[w] = "asleep"}

(* Mutant: the push is not followed by a notification. *)
NotifyNone == UNCHANGED pc

notify_one ==
  IF Asleep = {} THEN UNCHANGED pc
  ELSE \E w \in Asleep : pc' = [pc EXCEPT ![w] = "predicate"]

(* Mutant: Release notifies one waiter only. *)
NotifyFirst == notify_one

notify_all == pc' = [w \in Workers |-> IF w \in Asleep THEN "predicate" ELSE pc[w]]

-----------------------------------------------------------------------------
(* Where buffers go. *)

Acquire(b) == b \in packet_pool /\ packet_pool' = packet_pool \ {b}

(* addToSendQueue: the socket may have been closed meanwhile; once Release  *)
(* has cleared send_epoll_fd the choice of a sender divides by zero.        *)
SendData_to_Sendque(b) ==
  \/ /\ main \in {"serve", "link", "network"}
     /\ \/ send_queues' = send_queues \cup {b} /\ UNCHANGED stranded
        \/ stranded' = stranded \cup {b} /\ UNCHANGED send_queues
     /\ UNCHANGED undefined
  \/ /\ main \in {"static", "routine"}
     /\ undefined' = TRUE
     /\ send_queues' = send_queues \cup {b} /\ UNCHANGED stranded

addToSessionServerQueue(b) ==
  /\ sending # "park"
  /\ sendToSessionServer_queue' = Append(sendToSessionServer_queue, b)
  /\ sending' = IF sending = "asleep" THEN "predicate" ELSE sending

-----------------------------------------------------------------------------
(* HandleReceivedPacket on worker w. *)

(* Decryption, ParseSecurePacket and the switch.  finish: not a packet of    *)
(* ours, or one without an answer; copy, forward: admission answer and       *)
(* request, logout; serialize: cancel, join; dedicated: a join that starts a *)
(* game.                                                                     *)
Handle(w) ==
  /\ \E next \in {"finish", "copy", "forward", "serialize", "dedicated"} : Step(w, "handle", next)
  /\ \E b \in Buffers : Acquire(b) /\ decrypted_data' = [decrypted_data EXCEPT ![w] = b]
  /\ UNCHANGED <<main, ClientPacket_pool, data_queue, data, Serialize_data, recvVars, linkVars,
                 sendVars, outVars, heart, undefined, historyVars>>

(* Mutant: the copy is released although it is queued. *)
CopyReleased(w) ==
  /\ Step(w, "copy", "finish")
  /\ \E b \in packet_pool : SendData_to_Sendque(b)
  /\ UNCHANGED <<main, poolVars, data_queue, data, decrypted_data, Serialize_data,
                 recvVars, linkVars, sendVars, sendToSessionServer_queue, heart, historyVars>>

(* CopyEncryptedData, to the client that waits for admission.               *)
Copy(w) ==
  /\ Step(w, "copy", "finish")
  /\ \E b \in Buffers : Acquire(b) /\ SendData_to_Sendque(b)
  /\ UNCHANGED <<main, ClientPacket_pool, data_queue, data, decrypted_data, Serialize_data,
                 recvVars, linkVars, sendVars, sendToSessionServer_queue, heart, historyVars>>

(* CopyEncryptedData, to the session server; a logout is answered, too.     *)
Forward(w) ==
  /\ \E next \in {"finish", "serialize"} : Step(w, "forward", next)
  /\ \E b \in Buffers : Acquire(b) /\ addToSessionServerQueue(b)
  /\ UNCHANGED <<main, ClientPacket_pool, data_queue, data, decrypted_data, Serialize_data,
                 recvVars, linkVars, sent_data, send_queues, stranded, heart, undefined, historyVars>>

(* SerializeAndSendResponseToDediPacket.                                    *)
SendToDedicated(w) ==
  /\ Step(w, "dedicated", "tell")
  /\ \E b \in Buffers : Acquire(b) /\ SendData_to_Sendque(b)
  /\ UNCHANGED <<main, ClientPacket_pool, data_queue, data, decrypted_data, Serialize_data,
                 recvVars, linkVars, sendVars, sendToSessionServer_queue, heart, historyVars>>

(* SerializeAndSendResponseForServerInfoPacket for the next player, if any. *)
TellSerialize(w) ==
  /\ \/ /\ Step(w, "tell", "info")
        /\ \E b \in Buffers : Acquire(b) /\ Serialize_data' = [Serialize_data EXCEPT ![w] = b]
     \/ Step(w, "tell", "serialize") /\ UNCHANGED <<packet_pool, Serialize_data>>
  /\ UNCHANGED <<main, ClientPacket_pool, data_queue, data, decrypted_data, recvVars, linkVars,
                 sendVars, outVars, heart, undefined, historyVars>>

TellEncrypt(w) ==
  /\ Step(w, "info", "tell")
  /\ \E b \in packet_pool :
       /\ SendData_to_Sendque(b)
       /\ packet_pool' = (packet_pool \ {b}) \cup {Serialize_data[w]}
  /\ Serialize_data' = [Serialize_data EXCEPT ![w] = None]
  /\ UNCHANGED <<main, ClientPacket_pool, data_queue, data, decrypted_data, recvVars, linkVars,
                 sendVars, sendToSessionServer_queue, heart, historyVars>>

(* SerializeAndSendResponseForResultPacket.                                 *)
ReplySerialize(w) ==
  /\ Step(w, "serialize", "encrypt")
  /\ \E b \in Buffers : Acquire(b) /\ Serialize_data' = [Serialize_data EXCEPT ![w] = b]
  /\ UNCHANGED <<main, ClientPacket_pool, data_queue, data, decrypted_data, recvVars, linkVars,
                 sendVars, outVars, heart, undefined, historyVars>>

ReplyEncrypt(w) ==
  /\ Step(w, "encrypt", "finish")
  /\ \E b \in Buffers : Acquire(b) /\ SendData_to_Sendque(b)
  /\ UNCHANGED <<main, ClientPacket_pool, data_queue, data, decrypted_data, Serialize_data,
                 recvVars, linkVars, sendVars, sendToSessionServer_queue, heart, historyVars>>

(* Mutant: the second guard, too, is made while its pointer is null. *)
FinishKeepingDecrypted(w) ==
  /\ Step(w, "finish", "predicate")
  /\ ClientPacket_pool' = ClientPacket_pool \cup {data[w]}
  /\ decrypted_data' = [decrypted_data EXCEPT ![w] = None]
  /\ data' = [data EXCEPT ![w] = None]
  /\ Serialize_data' = [Serialize_data EXCEPT ![w] = None]
  /\ replies' = IF Serialize_data[w] = None THEN replies ELSE replies + 1
  /\ UNCHANGED <<main, packet_pool, data_queue, recvVars, linkVars, sendVars, outVars, heart,
                 undefined, timeouts, parking>>

(* The guards release decrypted_data and the packet; the guard meant for    *)
(* Serialize_data was made while that was null, and releases nothing.       *)
Finish(w) ==
  /\ Step(w, "finish", "predicate")
  /\ packet_pool' = packet_pool \cup {decrypted_data[w]}
  /\ ClientPacket_pool' = ClientPacket_pool \cup {data[w]}
  /\ decrypted_data' = [decrypted_data EXCEPT ![w] = None]
  /\ data' = [data EXCEPT ![w] = None]
  /\ Serialize_data' = [Serialize_data EXCEPT ![w] = None]
  /\ replies' = IF Serialize_data[w] = None THEN replies ELSE replies + 1
  /\ UNCHANGED <<main, data_queue, recvVars, linkVars, sendVars, outVars, heart, undefined, timeouts, parking>>

-----------------------------------------------------------------------------
(* Network::recvWorkerThread. *)

RecvPoll ==
  /\ recv = "poll"
  /\ recv' = IF running THEN "packet" ELSE "gone"
  /\ UNCHANGED <<main, poolVars, data_queue, workerVars, Cpacket, Logout_data, linkVars, sendVars,
                 outVars, heart, undefined, historyVars>>

RecvAcquire ==
  /\ recv = "packet" /\ recv' = "recv"
  /\ \E p \in ClientPacket_pool :
       /\ ClientPacket_pool' = ClientPacket_pool \ {p}
       /\ Cpacket' = p
  /\ UNCHANGED <<main, packet_pool, data_queue, workerVars, Logout_data, linkVars, sendVars,
                 outVars, heart, undefined, historyVars>>

(* Mutant: the pointer is reset before the push. *)
RecvPushNull ==
  /\ recv = "recv" /\ recv' = "notify"
  /\ Push(None)
  /\ Cpacket' = None
  /\ UNCHANGED <<main, poolVars, workerVars, Logout_data, linkVars, sendVars, outVars, heart,
                 undefined, historyVars>>

RecvPush ==
  /\ recv = "recv" /\ recv' = "notify"
  /\ Push(Cpacket)
  /\ Cpacket' = None
  /\ UNCHANGED <<main, poolVars, workerVars, Logout_data, linkVars, sendVars, outVars, heart,
                 undefined, historyVars>>

RecvNotify ==
  /\ recv = "notify" /\ recv' = "poll"
  /\ notify_one
  /\ UNCHANGED <<main, poolVars, data_queue, data, decrypted_data, Serialize_data, Cpacket,
                 Logout_data, linkVars, sendVars, outVars, heart, undefined, historyVars>>

(* Nothing to read, or the end of a connection: removeConnection logs a     *)
(* player out, if the socket had one.                                       *)
RecvNothing ==
  /\ recv = "recv" /\ recv' \in {"poll", "logout"}
  /\ ClientPacket_pool' = ClientPacket_pool \cup {Cpacket}
  /\ Cpacket' = None
  /\ UNCHANGED <<main, packet_pool, data_queue, workerVars, Logout_data, linkVars, sendVars,
                 outVars, heart, undefined, historyVars>>

(* Logoutpacket: SerializeHashPacketResponse, then the session link.        *)
LogoutSerialize ==
  /\ recv = "logout" /\ recv' = "encrypt"
  /\ \E b \in Buffers : Acquire(b) /\ Logout_data' = b
  /\ UNCHANGED <<main, ClientPacket_pool, data_queue, workerVars, Cpacket, linkVars, sendVars,
                 outVars, heart, undefined, historyVars>>

LogoutEncrypt ==
  /\ recv = "encrypt" /\ recv' = "poll"
  /\ \E b \in packet_pool :
       /\ addToSessionServerQueue(b)
       /\ packet_pool' = (packet_pool \ {b}) \cup {Logout_data}
  /\ Logout_data' = None
  /\ UNCHANGED <<main, ClientPacket_pool, data_queue, workerVars, Cpacket, linkVars, sent_data,
                 send_queues, stranded, heart, undefined, historyVars>>

-----------------------------------------------------------------------------
(* SessionServerConnector: RecvWorker and SendWoker. *)

LinkLoop ==
  /\ link = "loop"
  /\ link' = IF ConnectSessionserver_running THEN "acquire" ELSE "gone"
  /\ UNCHANGED <<main, poolVars, data_queue, workerVars, recvVars, Lpacket, sendVars, outVars,
                 heart, undefined, historyVars>>

LinkAcquire ==
  /\ link = "acquire" /\ link' = "recv"
  /\ \E p \in ClientPacket_pool :
       /\ ClientPacket_pool' = ClientPacket_pool \ {p}
       /\ Lpacket' = p
  /\ UNCHANGED <<main, packet_pool, data_queue, workerVars, recvVars, sendVars, outVars, heart,
                 undefined, historyVars>>

(* Mutant: the packet is released and pushed. *)
LinkPushReleased ==
  /\ link = "recv" /\ link' = "notify"
  /\ Push(Lpacket)
  /\ ClientPacket_pool' = ClientPacket_pool \cup {Lpacket}
  /\ Lpacket' = None
  /\ UNCHANGED <<main, packet_pool, workerVars, recvVars, sendVars, outVars, heart, undefined,
                 historyVars>>

LinkPush ==
  /\ link = "recv" /\ link' = "notify"
  /\ Push(Lpacket)
  /\ Lpacket' = None
  /\ UNCHANGED <<main, poolVars, workerVars, recvVars, sendVars, outVars, heart, undefined,
                 historyVars>>

LinkNotify ==
  /\ link = "notify" /\ link' = "loop"
  /\ notify_one
  /\ UNCHANGED <<main, poolVars, data_queue, data, decrypted_data, Serialize_data, recvVars,
                 Lpacket, sendVars, outVars, heart, undefined, historyVars>>

(* recv timed out after a second, or failed: the packet is not released.    *)
LinkTimeout ==
  /\ link = "recv" /\ link' = "loop"
  /\ Lpacket' = None
  /\ timeouts' = timeouts + 1
  /\ UNCHANGED <<main, poolVars, data_queue, workerVars, recvVars, sendVars, outVars, heart,
                 undefined, replies, parking>>

SendLoop ==
  /\ sending = "loop"
  /\ sending' = IF ConnectSessionserver_running THEN "predicate" ELSE "gone"
  /\ UNCHANGED <<main, poolVars, data_queue, workerVars, recvVars, linkVars, sent_data, outVars,
                 heart, undefined, historyVars>>

(* The predicate and what follows it: front() and pop(), also when it was   *)
(* the stop flag that ended the wait and the queue is empty.                *)
SendPredicate ==
  /\ sending = "predicate"
  /\ \/ /\ ConnectSessionserver_running /\ sendToSessionServer_queue = <<>>
        /\ sending' = "park"
        /\ UNCHANGED <<sent_data, sendToSessionServer_queue, undefined>>
     \/ /\ sendToSessionServer_queue # <<>>
        /\ sending' = "send"
        /\ sent_data' = Head(sendToSessionServer_queue)
        /\ sendToSessionServer_queue' = Tail(sendToSessionServer_queue)
        /\ UNCHANGED undefined
     \/ /\ ~ConnectSessionserver_running /\ sendToSessionServer_queue = <<>>
        /\ undefined' = TRUE
        /\ UNCHANGED <<sending, sent_data, sendToSessionServer_queue>>
  /\ UNCHANGED <<main, poolVars, data_queue, workerVars, recvVars, linkVars, send_queues,
                 stranded, heart, historyVars>>

SendPark ==
  /\ sending = "park" /\ sending' = "asleep"
  /\ UNCHANGED <<main, poolVars, data_queue, workerVars, recvVars, linkVars, sent_data, outVars,
                 heart, undefined, historyVars>>

(* Mutant: what was sent is not released. *)
SendToSessionServerKept ==
  /\ sending = "send" /\ sending' = "loop"
  /\ sent_data' = None
  /\ UNCHANGED <<main, poolVars, data_queue, workerVars, recvVars, linkVars, outVars, heart,
                 undefined, historyVars>>

SendToSessionServer ==
  /\ sending = "send" /\ sending' = "loop"
  /\ packet_pool' = packet_pool \cup {sent_data}
  /\ sent_data' = None
  /\ UNCHANGED <<main, ClientPacket_pool, data_queue, workerVars, recvVars, linkVars, outVars,
                 heart, undefined, historyVars>>

-----------------------------------------------------------------------------
(* Heartbeat thread, network sender. *)

HeartbeatDue ==
  /\ heart = "loop"
  /\ heart' \in IF ProsessThreads_status THEN {"acquire"} ELSE {"gone"}
  /\ UNCHANGED <<main, poolVars, data_queue, workerVars, recvVars, linkVars, sendVars, outVars,
                 undefined, historyVars>>

(* SendPacketToClient.                                                      *)
HeartbeatSend ==
  /\ heart = "acquire" /\ heart' = "loop"
  /\ \E b \in Buffers : Acquire(b) /\ SendData_to_Sendque(b)
  /\ UNCHANGED <<main, ClientPacket_pool, data_queue, workerVars, recvVars, linkVars, sendVars,
                 sendToSessionServer_queue, historyVars>>

(* processSendQueue, or Disconnect, which releases the queue of a socket.   *)
SendQueued(b) ==
  /\ main \in {"serve", "link", "network"}
  /\ b \in send_queues
  /\ send_queues' = send_queues \ {b}
  /\ packet_pool' = packet_pool \cup {b}
  /\ UNCHANGED <<main, ClientPacket_pool, data_queue, workerVars, recvVars, linkVars, sendVars,
                 sendToSessionServer_queue, stranded, heart, undefined, historyVars>>

(* A new connection gets the number, and with it what was queued for it.    *)
NumberReused(b) ==
  /\ main \in {"serve", "link"}
  /\ b \in stranded
  /\ stranded' = stranded \ {b} /\ send_queues' = send_queues \cup {b}
  /\ UNCHANGED <<main, poolVars, data_queue, workerVars, recvVars, linkVars, sendVars,
                 sendToSessionServer_queue, heart, undefined, historyVars>>

-----------------------------------------------------------------------------
(* main: the three Release, of which the last runs in a destructor.  Each   *)
(* stores its flag and notifies without the mutex the waiters hold.         *)

StopLink ==
  /\ main = "serve" /\ main' = "link"
  /\ sending' = IF sending = "asleep" THEN "predicate" ELSE sending
  /\ UNCHANGED <<poolVars, data_queue, workerVars, recvVars, linkVars, sent_data, outVars, heart,
                 undefined, historyVars>>

LinkJoined ==
  /\ main = "link" /\ main' = "network"
  /\ sending = "gone" /\ link = "gone"
  /\ packet_pool' = packet_pool \cup {sendToSessionServer_queue[i] :
                                        i \in DOMAIN sendToSessionServer_queue}
  /\ sendToSessionServer_queue' = <<>>
  /\ UNCHANGED <<ClientPacket_pool, data_queue, workerVars, recvVars, linkVars, sendVars,
                 send_queues, stranded, heart, undefined, historyVars>>

NetworkJoined ==
  /\ main = "network" /\ main' = "static"
  /\ recv = "gone"
  /\ packet_pool' = packet_pool \cup send_queues \cup stranded
  /\ send_queues' = {} /\ stranded' = {}
  /\ UNCHANGED <<ClientPacket_pool, data_queue, workerVars, recvVars, linkVars, sendVars,
                 sendToSessionServer_queue, heart, undefined, historyVars>>

StopRoutine ==
  /\ main = "static" /\ main' = "routine"
  /\ notify_all
  /\ parking' = {w \in Workers : pc[w] = "park"}
  /\ UNCHANGED <<poolVars, data_queue, data, decrypted_data, Serialize_data, recvVars, linkVars,
                 sendVars, outVars, heart, undefined, replies, timeouts>>

RoutineJoined ==
  /\ main = "routine" /\ main' = "end"
  /\ heart = "gone" /\ \A w \in Workers : pc[w] = "gone"
  /\ ClientPacket_pool' = ClientPacket_pool \cup {data_queue[i] : i \in DOMAIN data_queue}
  /\ data_queue' = <<>>
  /\ UNCHANGED <<packet_pool, workerVars, recvVars, linkVars, sendVars, outVars, heart,
                 undefined, historyVars>>

-----------------------------------------------------------------------------
Work(w) ==
  \/ WorkerPredicate(w) \/ WorkerPark(w)
  \/ Handle(w) \/ Copy(w) \/ Forward(w) \/ SendToDedicated(w)
  \/ TellSerialize(w) \/ TellEncrypt(w) \/ ReplySerialize(w) \/ ReplyEncrypt(w) \/ Finish(w)

recvWorkerThread ==
  RecvPoll \/ RecvAcquire \/ RecvPush \/ RecvNotify \/ RecvNothing \/ LogoutSerialize \/ LogoutEncrypt

RecvWorker == LinkLoop \/ LinkAcquire \/ LinkPush \/ LinkNotify \/ LinkTimeout
SendWoker == SendLoop \/ SendPredicate \/ SendPark \/ SendToSessionServer
HeatbeatWoker == HeartbeatDue \/ HeartbeatSend
Join == LinkJoined \/ NetworkJoined \/ StopRoutine \/ RoutineJoined

Next ==
  /\ ~undefined
  /\ \/ \E w \in Workers : Work(w) \/ SpuriousWakeup(w)
     \/ recvWorkerThread \/ RecvWorker \/ SendWoker \/ HeatbeatWoker
     \/ \E b \in Buffers : SendQueued(b) \/ NumberReused(b)
     \/ StopLink \/ Join

(* Threads run on and what can be sent is sent.  No event of a client and no *)
(* heartbeat that falls due is assumed.                                     *)
Fairness ==
  /\ \A w \in Workers : WF_vars(~undefined /\ Work(w))
  /\ WF_vars(~undefined /\ recvWorkerThread /\ (recv = "poll" => ~running))
  /\ WF_vars(~undefined /\ RecvWorker)
  /\ WF_vars(~undefined /\ SendWoker)
  /\ WF_vars(~undefined /\ HeatbeatWoker /\ (heart = "loop" => ~ProsessThreads_status))
  /\ \A b \in Buffers : WF_vars(~undefined /\ SendQueued(b))
  /\ WF_vars(~undefined /\ Join)

Spec == Init /\ [][Next]_vars /\ Fairness
-----------------------------------------------------------------------------
(* Properties *)

Slots == {"pool", "decrypted", "serialize", "logout", "session", "sent", "client", "stranded"}
BufferPlaces == Slots \X (Workers \cup Nat \cup {None})

(* The places that hold a pointer to buffer b.                              *)
BufferHolders(b) ==
  {<<"pool", None>> : x \in {b} \cap packet_pool}
    \cup {<<"decrypted", w>> : w \in {v \in Workers : decrypted_data[v] = b}}
    \cup {<<"serialize", w>> : w \in {v \in Workers : Serialize_data[v] = b}}
    \cup {<<"logout", None>> : x \in {b} \cap {Logout_data}}
    \cup {<<"session", i>> : i \in {j \in DOMAIN sendToSessionServer_queue :
                                      sendToSessionServer_queue[j] = b}}
    \cup {<<"sent", None>> : x \in {b} \cap {sent_data}}
    \cup {<<"client", None>> : x \in {b} \cap send_queues}
    \cup {<<"stranded", None>> : x \in {b} \cap stranded}

PacketPlaces == {"pool", "queue", "worker", "recv", "link"} \X (Workers \cup Nat \cup {None})

PacketHolders(p) ==
  {<<"pool", None>> : x \in {p} \cap ClientPacket_pool}
    \cup {<<"queue", i>> : i \in {j \in DOMAIN data_queue : data_queue[j] = p}}
    \cup {<<"worker", w>> : w \in {v \in Workers : data[v] = p}}
    \cup {<<"recv", None>> : x \in {p} \cap {Cpacket}}
    \cup {<<"link", None>> : x \in {p} \cap {Lpacket}}

BufferPool == INSTANCE MemoryPool WITH
  Objects <- Buffers, Places <- BufferPlaces, Pool <- <<"pool", None>>,
  holders <- [b \in Buffers |-> BufferHolders(b)]

PacketPool == INSTANCE MemoryPool WITH
  Objects <- ClientPackets, Places <- PacketPlaces, Pool <- <<"pool", None>>,
  holders <- [p \in ClientPackets |-> PacketHolders(p)]

(* Every variable stays in its type. *)
TypeOK ==
  /\ main \in Stages
  /\ packet_pool \subseteq Buffers /\ ClientPacket_pool \subseteq ClientPackets
  /\ data_queue \in Seq(ClientPackets)
  /\ pc \in [Workers -> WorkerSteps]
  /\ data \in [Workers -> ClientPackets \cup {None}]
  /\ decrypted_data \in [Workers -> Buffers \cup {None}]
  /\ Serialize_data \in [Workers -> Buffers \cup {None}]
  /\ recv \in {"poll", "packet", "recv", "notify", "logout", "encrypt", "gone"}
  /\ Cpacket \in ClientPackets \cup {None} /\ Logout_data \in Buffers \cup {None}
  /\ link \in {"loop", "acquire", "recv", "notify", "gone"}
  /\ Lpacket \in ClientPackets \cup {None}
  /\ sending \in {"loop", "predicate", "park", "asleep", "send", "gone"}
  /\ sent_data \in Buffers \cup {None}
  /\ sendToSessionServer_queue \in Seq(Buffers)
  /\ send_queues \subseteq Buffers /\ stranded \subseteq Buffers
  /\ heart \in {"loop", "acquire", "gone"} /\ undefined \in BOOLEAN
  /\ replies \in Nat /\ timeouts \in Nat /\ parking \subseteq Workers

BuffersHeldOnce == BufferPool!Spec
PacketsHeldOnce == PacketPool!Spec

(* The byte buffers and the packets keep the promise of their pools: each is *)
(* in one place, never released twice and never used by two threads, whoever *)
(* passes it on.                                                             *)
HeldOnce == BuffersHeldOnce /\ PacketsHeldOnce

(* A packet in the queue has somebody coming for it: a worker that is awake, *)
(* or a receiver that is about to notify.  No push goes unheard.            *)
PushesAreHeard ==
  data_queue # <<>> /\ ProsessThreads_status =>
    \/ \E w \in Workers : pc[w] \notin {"park", "asleep"}
    \/ recv = "notify" \/ link = "notify"

LostBuffers == {b \in Buffers : BufferHolders(b) = {}}
LostPackets == {p \in ClientPackets : PacketHolders(p) = {}}

(* What leaks: one buffer for each answer to a join, cancel or logout, and  *)
(* one packet for each empty recv of the session link; nothing else does.   *)
LeaksExplained ==
  Cardinality(LostBuffers) = replies /\ Cardinality(LostPackets) = timeouts

Answering == {w \in Workers : Serialize_data[w] # None}

(* With no buffer free and none on its way back, every thread that needs    *)
(* one waits for ever.  By then answers and closed sockets have used up all  *)
(* but one buffer of each worker, one of each that is answering, and one of  *)
(* a logout under way.                                                       *)
StarvationExplained ==
  packet_pool = {} /\ send_queues = {} /\ sendToSessionServer_queue = <<>> /\ sent_data = None
    => Cardinality(Buffers) <=
         replies + Cardinality(stranded) + Cardinality(Workers) + Cardinality(Answering)
           + (IF Logout_data = None THEN 0 ELSE 1)

(* Release only leaves a worker asleep that was between its predicate and   *)
(* its wait when Release notified without the mutex.                        *)
SleepersWereParking ==
  main = "routine" => \A w \in Workers : pc[w] = "asleep" => w \in parking

Queued(p) == \E i \in DOMAIN data_queue : data_queue[i] = p

(* Every packet is taken from the queue, unless the lobby shuts down or the *)
(* buffers have run out.                                                    *)
PacketsAreTaken ==
  \A p \in ClientPackets :
    Queued(p) ~> ~Queued(p) \/ main # "serve" \/ packet_pool = {}

(* Release returns, unless a worker missed its notification, or a pool is   *)
(* empty, whose users can no longer be joined.                              *)
ReleaseReturns ==
  main = "routine" ~>
    \/ main = "end" \/ undefined \/ packet_pool = {}
    \/ \E w \in parking : pc[w] = "asleep"
=============================================================================
