----------------------- MODULE RoutineProgress_proofs -----------------------
(***************************************************************************)
(* Proofs about RoutineProgress for any number of workers, buffers and     *)
(* packets.                                                                *)
(***************************************************************************)
EXTENDS RoutineProgress, FiniteSetTheorems, FunctionTheorems, SequenceTheorems, TLAPS

(* What a thread works on at its step it really has.                        *)
WithPacket == {"handle", "copy", "forward", "serialize", "encrypt", "dedicated", "tell", "info",
               "finish"}
WithDecrypted == WithPacket \ {"handle"}

Held ==
  /\ \A w \in Workers : pc[w] \in WithPacket => data[w] \in ClientPackets
  /\ \A w \in Workers : pc[w] \in WithDecrypted => decrypted_data[w] \in Buffers
  /\ \A w \in Workers : pc[w] = "info" => Serialize_data[w] \in Buffers
  /\ recv = "recv" => Cpacket \in ClientPackets
  /\ recv = "encrypt" => Logout_data \in Buffers
  /\ link = "recv" => Lpacket \in ClientPackets
  /\ sending = "send" => sent_data \in Buffers

TypeInv == TypeOK /\ Held

-----------------------------------------------------------------------------
(* Type correctness *)

LEMMA TypeInvInit == Init => TypeInv
<1> SUFFICES ASSUME Init PROVE TypeInv
  OBVIOUS
<1>1. /\ pc \in [Workers -> WorkerSteps] /\ data \in [Workers -> ClientPackets \cup {None}]
      /\ decrypted_data \in [Workers -> Buffers \cup {None}]
      /\ Serialize_data \in [Workers -> Buffers \cup {None}]
  BY DEF Init, WorkerSteps
<1>2. data_queue \in Seq(ClientPackets) /\ sendToSessionServer_queue \in Seq(Buffers)
  BY DEF Init
<1>3. TypeOK
  BY <1>1, <1>2 DEF Init, TypeOK, Stages
<1>4. Held
  BY DEF Init, Held, WithPacket, WithDecrypted
<1>5. QED
  BY <1>3, <1>4 DEF TypeInv

(* A buffer on its way to a client keeps the types of the queues it may     *)
(* get into.                                                                *)
LEMMA SendTypes ==
  ASSUME TypeOK, NEW b \in Buffers, SendData_to_Sendque(b)
  PROVE  /\ send_queues' \subseteq Buffers /\ stranded' \subseteq Buffers
         /\ undefined' \in BOOLEAN
<1>1. send_queues \cup {b} \subseteq Buffers /\ stranded \cup {b} \subseteq Buffers
  BY DEF TypeOK
<1>2. CASE main \in {"serve", "link", "network"} /\ undefined' = undefined
  BY <1>1, <1>2 DEF SendData_to_Sendque, TypeOK
<1>3. CASE main \in {"static", "routine"} /\ undefined' = TRUE
  BY <1>1, <1>3 DEF SendData_to_Sendque, TypeOK
<1>4. QED
  BY <1>2, <1>3 DEF SendData_to_Sendque

(* A step keeps the types and what the threads need.                        *)
LEMMA TypeInvNext == TypeInv /\ [Next]_vars => TypeInv'
<1> SUFFICES ASSUME TypeInv, [Next]_vars PROVE TypeInv'
  OBVIOUS
<1> USE DEF TypeInv, TypeOK, Held, WithPacket, WithDecrypted, WorkerSteps, Stages, workerVars,
            recvVars, linkVars, sendVars, outVars, poolVars, historyVars, Step, Acquire, Push,
            notify_one, notify_all, Asleep, addToSessionServerQueue
<1>1. ASSUME NEW w \in Workers, WorkerPredicate(w) PROVE TypeInv'
  <2>1. CASE ~ProsessThreads_status
    <3>1. /\ Step(w, "predicate", "gone")
          /\ UNCHANGED <<data, data_queue, main, poolVars, decrypted_data, Serialize_data,
                         recvVars, linkVars, sendVars, outVars, heart, undefined, historyVars>>
      BY <1>1, <2>1 DEF WorkerPredicate
    <3>2. QED
      BY <3>1
  <2>2. CASE ProsessThreads_status /\ data_queue # <<>>
    <3>1. Head(data_queue) \in ClientPackets /\ Tail(data_queue) \in Seq(ClientPackets)
      BY <2>2
    <3>2. /\ Step(w, "predicate", "handle")
          /\ data' = [data EXCEPT ![w] = Head(data_queue)] /\ data_queue' = Tail(data_queue)
          /\ UNCHANGED <<main, poolVars, decrypted_data, Serialize_data, recvVars, linkVars,
                         sendVars, outVars, heart, undefined, historyVars>>
      BY <1>1, <2>2 DEF WorkerPredicate
    <3>3. QED
      BY <3>1, <3>2
  <2>3. CASE ProsessThreads_status /\ data_queue = <<>>
    BY <1>1, <2>3 DEF WorkerPredicate
  <2>4. QED
    BY <1>1, <2>1, <2>2, <2>3
<1>2. ASSUME NEW w \in Workers, WorkerPark(w) PROVE TypeInv'
  BY <1>2 DEF WorkerPark
<1>3. ASSUME NEW w \in Workers, SpuriousWakeup(w) PROVE TypeInv'
  BY <1>3 DEF SpuriousWakeup
<1>4. ASSUME NEW w \in Workers, Handle(w) PROVE TypeInv'
  BY <1>4 DEF Handle
<1>5. ASSUME NEW w \in Workers, Copy(w) PROVE TypeInv'
  <2>1. PICK b \in Buffers : Acquire(b) /\ SendData_to_Sendque(b)
    BY <1>5 DEF Copy
  <2>2. send_queues' \subseteq Buffers /\ stranded' \subseteq Buffers /\ undefined' \in BOOLEAN
    BY <2>1, SendTypes
  <2>3. QED
    BY <1>5, <2>1, <2>2 DEF Copy
<1>6. ASSUME NEW w \in Workers, Forward(w) PROVE TypeInv'
  BY <1>6 DEF Forward
<1>7. ASSUME NEW w \in Workers, SendToDedicated(w) PROVE TypeInv'
  <2>1. PICK b \in Buffers : Acquire(b) /\ SendData_to_Sendque(b)
    BY <1>7 DEF SendToDedicated
  <2>2. send_queues' \subseteq Buffers /\ stranded' \subseteq Buffers /\ undefined' \in BOOLEAN
    BY <2>1, SendTypes
  <2>3. QED
    BY <1>7, <2>1, <2>2 DEF SendToDedicated
<1>8. ASSUME NEW w \in Workers, TellSerialize(w) PROVE TypeInv'
  <2>1. CASE Step(w, "tell", "info")
    BY <1>8, <2>1 DEF TellSerialize
  <2>2. CASE Step(w, "tell", "serialize") /\ UNCHANGED <<packet_pool, Serialize_data>>
    BY <1>8, <2>2 DEF TellSerialize
  <2>3. QED
    BY <1>8, <2>1, <2>2 DEF TellSerialize
<1>9. ASSUME NEW w \in Workers, TellEncrypt(w) PROVE TypeInv'
  <2>1. PICK b \in packet_pool :
          SendData_to_Sendque(b) /\ packet_pool' = (packet_pool \ {b}) \cup {Serialize_data[w]}
    BY <1>9 DEF TellEncrypt
  <2>2. send_queues' \subseteq Buffers /\ stranded' \subseteq Buffers /\ undefined' \in BOOLEAN
    BY <2>1, SendTypes
  <2>3. packet_pool' \subseteq Buffers
    BY <1>9, <2>1 DEF TellEncrypt
  <2>4. QED
    BY <1>9, <2>2, <2>3 DEF TellEncrypt
<1>10. ASSUME NEW w \in Workers, ReplySerialize(w) PROVE TypeInv'
  BY <1>10 DEF ReplySerialize
<1>11. ASSUME NEW w \in Workers, ReplyEncrypt(w) PROVE TypeInv'
  <2>1. PICK b \in Buffers : Acquire(b) /\ SendData_to_Sendque(b)
    BY <1>11 DEF ReplyEncrypt
  <2>2. send_queues' \subseteq Buffers /\ stranded' \subseteq Buffers /\ undefined' \in BOOLEAN
    BY <2>1, SendTypes
  <2>3. QED
    BY <1>11, <2>1, <2>2 DEF ReplyEncrypt
<1>12. ASSUME NEW w \in Workers, Finish(w) PROVE TypeInv'
  BY <1>12 DEF Finish
<1>13. CASE RecvPoll
  BY <1>13 DEF RecvPoll
<1>14. CASE RecvAcquire
  BY <1>14 DEF RecvAcquire
<1>15. CASE RecvPush
  BY <1>15 DEF RecvPush
<1>16. CASE RecvNotify
  BY <1>16 DEF RecvNotify
<1>17. CASE RecvNothing
  BY <1>17 DEF RecvNothing
<1>18. CASE LogoutSerialize
  BY <1>18 DEF LogoutSerialize
<1>19. CASE LogoutEncrypt
  BY <1>19 DEF LogoutEncrypt
<1>20. CASE LinkLoop
  BY <1>20 DEF LinkLoop
<1>21. CASE LinkAcquire
  BY <1>21 DEF LinkAcquire
<1>22. CASE LinkPush
  BY <1>22 DEF LinkPush
<1>23. CASE LinkNotify
  <2>1. CASE Asleep = {}
    BY <1>23, <2>1 DEF LinkNotify
  <2>2. CASE Asleep # {}
    BY <1>23, <2>2 DEF LinkNotify
  <2>3. QED
    BY <2>1, <2>2
<1>24. CASE LinkTimeout
  BY <1>24 DEF LinkTimeout
<1>25. CASE SendLoop
  BY <1>25 DEF SendLoop
<1>26. CASE SendPredicate
  <2>1. CASE ConnectSessionserver_running /\ sendToSessionServer_queue = <<>>
    BY <1>26, <2>1 DEF SendPredicate
  <2>2. CASE sendToSessionServer_queue # <<>>
    <3>1. /\ Head(sendToSessionServer_queue) \in Buffers
          /\ Tail(sendToSessionServer_queue) \in Seq(Buffers)
      BY <2>2
    <3>2. /\ sending' = "send" /\ sent_data' = Head(sendToSessionServer_queue)
          /\ sendToSessionServer_queue' = Tail(sendToSessionServer_queue)
          /\ UNCHANGED <<undefined, main, poolVars, data_queue, workerVars, recvVars, linkVars,
                         send_queues, stranded, heart, historyVars>>
      BY <1>26, <2>2 DEF SendPredicate
    <3>3. QED
      BY <3>1, <3>2
  <2>3. CASE ~ConnectSessionserver_running /\ sendToSessionServer_queue = <<>>
    <3>1. undefined' = TRUE
          /\ UNCHANGED <<sending, sent_data, sendToSessionServer_queue, main, poolVars,
                         data_queue, workerVars, recvVars, linkVars, send_queues, stranded,
                         heart, historyVars>>
      BY <1>26, <2>3 DEF SendPredicate
    <3>2. QED
      BY <3>1
  <2>4. QED
    BY <2>1, <2>2, <2>3
<1>27. CASE SendPark
  BY <1>27 DEF SendPark
<1>28. CASE SendToSessionServer
  BY <1>28 DEF SendToSessionServer
<1>29. CASE HeartbeatDue
  BY <1>29 DEF HeartbeatDue
<1>30. CASE HeartbeatSend
  <2>1. PICK b \in Buffers : Acquire(b) /\ SendData_to_Sendque(b)
    BY <1>30 DEF HeartbeatSend
  <2>2. send_queues' \subseteq Buffers /\ stranded' \subseteq Buffers /\ undefined' \in BOOLEAN
    BY <2>1, SendTypes
  <2>3. QED
    BY <1>30, <2>1, <2>2 DEF HeartbeatSend
<1>31. CASE StopLink
  BY <1>31 DEF StopLink
<1>32. CASE LinkJoined
  BY <1>32 DEF LinkJoined
<1>33. CASE NetworkJoined
  BY <1>33 DEF NetworkJoined
<1>34. CASE StopRoutine
  BY <1>34 DEF StopRoutine
<1>35. CASE RoutineJoined
  BY <1>35 DEF RoutineJoined
<1>36. ASSUME NEW b \in Buffers, SendQueued(b) PROVE TypeInv'
  BY <1>36 DEF SendQueued
<1>37. ASSUME NEW b \in Buffers, NumberReused(b) PROVE TypeInv'
  BY <1>37 DEF NumberReused
<1>38. CASE UNCHANGED vars
  BY <1>38 DEF vars
<1>39. QED
  BY <1>1, <1>2, <1>3, <1>4, <1>5, <1>6, <1>7, <1>8, <1>9, <1>10, <1>11, <1>12, <1>13, <1>14, <1>15, <1>16, <1>17, <1>18, <1>19, <1>20, <1>21, <1>22, <1>23, <1>24, <1>25, <1>26, <1>27, <1>28, <1>29, <1>30, <1>31, <1>32, <1>33, <1>34, <1>35, <1>36, <1>37, <1>38
     DEF Next, Work, recvWorkerThread, RecvWorker, SendWoker, HeatbeatWoker, Join

(* Every variable stays in its type, whatever the threads do.               *)
THEOREM TypeCorrect == Spec => []TypeOK
<1>1. Init => TypeInv
  BY TypeInvInit
<1>2. TypeInv /\ [Next]_vars => TypeInv'
  BY TypeInvNext
<1>3. TypeInv => TypeOK
  BY DEF TypeInv
<1>4. QED
  BY <1>1, <1>2, <1>3, PTL DEF Spec
-----------------------------------------------------------------------------
(* The queue and its condition variable *)

(* A worker that keeps the mutex to wait has seen an empty queue, and it    *)
(* stays empty, since a push needs the mutex.                               *)
ParkersSawEmpty == (\E w \in Workers : pc[w] = "park") => data_queue = <<>>

(* Once Release has stored its flag nobody starts to wait any more.         *)
WaitersWereParking ==
  main = "routine" => \A w \in Workers : pc[w] \in {"park", "asleep"} => w \in parking

QueueInv == ParkersSawEmpty /\ PushesAreHeard /\ WaitersWereParking

LEMMA QueueInvInit == Init => QueueInv
BY PipelineAssumption DEF Init, QueueInv, ParkersSawEmpty, PushesAreHeard, WaitersWereParking

(* A worker that is busy between two steps of a packet neither waits nor    *)
(* starts to.                                                               *)
LEMMA BusyStep ==
  ASSUME TypeOK, QueueInv, NEW w \in Workers, NEW from, NEW to,
         Step(w, from, to), from \notin {"park", "asleep"}, to \notin {"park", "asleep"},
         UNCHANGED <<main, data_queue, recv, link, parking>>
  PROVE  QueueInv'
<1>1. pc' = [pc EXCEPT ![w] = to] /\ pc[w] = from
  BY DEF Step
<1>2. \A v \in Workers : pc'[v] = IF v = w THEN to ELSE pc[v]
  BY <1>1 DEF TypeOK
<1>3. QED
  BY <1>1, <1>2 DEF QueueInv, ParkersSawEmpty, PushesAreHeard, WaitersWereParking,
                    ProsessThreads_status

(* A notification that changes nothing else: the queue is not empty only    *)
(* while nobody is about to wait, so a worker is awake when nobody sleeps.  *)
LEMMA NotifyHeard ==
  ASSUME TypeOK, QueueInv, notify_one, UNCHANGED <<main, data_queue, parking>>
  PROVE  QueueInv'
<1>1. CASE Asleep = {}
  <2>1. pc' = pc
    BY <1>1 DEF notify_one
  <2>2. data_queue # <<>> => \A w \in Workers : pc[w] \notin {"park", "asleep"}
    BY <1>1 DEF Asleep, QueueInv, ParkersSawEmpty
  <2>3. data_queue # <<>> => \E w \in Workers : pc[w] \notin {"park", "asleep"}
    BY <2>2, PipelineAssumption
  <2>4. QED
    BY <2>1, <2>3 DEF QueueInv, ParkersSawEmpty, PushesAreHeard, WaitersWereParking
<1>2. ASSUME NEW w \in Asleep, pc' = [pc EXCEPT ![w] = "predicate"] PROVE QueueInv'
  <2>1. w \in Workers /\ pc'[w] = "predicate"
    BY <1>2 DEF Asleep, TypeOK
  <2>2. \A v \in Workers : pc'[v] \in {"park", "asleep"} => pc'[v] = pc[v]
    BY <1>2, <2>1 DEF TypeOK
  <2>3. QED
    BY <2>1, <2>2 DEF QueueInv, ParkersSawEmpty, PushesAreHeard, WaitersWereParking
<1>3. QED
  BY <1>1, <1>2 DEF notify_one

(* A push by a thread that notifies next.                                   *)
LEMMA PushHeard ==
  ASSUME QueueInv, NEW p, Push(p), recv' = "notify" \/ link' = "notify",
         UNCHANGED <<main, pc, parking>>
  PROVE  QueueInv'
BY DEF QueueInv, Push, QueueFree, ParkersSawEmpty, PushesAreHeard, WaitersWereParking

(* A step of another thread.                                                *)
LEMMA OtherStep ==
  ASSUME QueueInv, UNCHANGED <<main, data_queue, pc, parking>>,
         recv = "notify" => recv' = "notify", link = "notify" => link' = "notify"
  PROVE  QueueInv'
BY DEF QueueInv, ParkersSawEmpty, PushesAreHeard, WaitersWereParking, ProsessThreads_status

(* A step of main other than the one that stops the workers.                *)
LEMMA MainStep ==
  ASSUME QueueInv, UNCHANGED <<data_queue, pc, parking, recv, link>>, main' # "routine",
         main = "serve" \/ main = "link" \/ main = "network"
  PROVE  QueueInv'
BY DEF QueueInv, ParkersSawEmpty, PushesAreHeard, WaitersWereParking, ProsessThreads_status

LEMMA QueueInvNext == TypeOK /\ QueueInv /\ [Next]_vars => QueueInv'
<1> SUFFICES ASSUME TypeOK, QueueInv, [Next]_vars PROVE QueueInv'
  OBVIOUS
<1> USE DEF workerVars, recvVars, linkVars, sendVars, outVars, poolVars, historyVars
<1>1. ASSUME NEW w \in Workers, WorkerPredicate(w) PROVE QueueInv'
  <2>1. CASE ~ProsessThreads_status
    BY <1>1, <2>1, BusyStep DEF WorkerPredicate
  <2>2. CASE ProsessThreads_status /\ data_queue # <<>>
    <3>1. \A v \in Workers : pc'[v] = "park" => pc[v] = "park"
      BY <1>1, <2>2 DEF WorkerPredicate, Step, TypeOK
    <3>2. pc'[w] = "handle" /\ main' = main
      BY <1>1, <2>2 DEF WorkerPredicate, Step, TypeOK
    <3>3. QED
      BY <1>1, <2>2, <3>1, <3>2
         DEF WorkerPredicate, QueueFree, QueueInv, ParkersSawEmpty, PushesAreHeard, WaitersWereParking,
             ProsessThreads_status
  <2>3. CASE ProsessThreads_status /\ data_queue = <<>>
    BY <1>1, <2>3 DEF WorkerPredicate, Step, QueueInv, ParkersSawEmpty, PushesAreHeard, WaitersWereParking,
                       ProsessThreads_status
  <2>4. QED
    BY <2>1, <2>2, <2>3
<1>2. ASSUME NEW w \in Workers, WorkerPark(w) PROVE QueueInv'
  <2>1. pc[w] = "park" /\ data_queue = <<>> /\ data_queue' = <<>>
    BY <1>2 DEF WorkerPark, Step, QueueInv, ParkersSawEmpty
  <2>2. pc' = [pc EXCEPT ![w] = "asleep"] /\ main' = main /\ parking' = parking
    BY <1>2 DEF WorkerPark, Step
  <2>3. QED
    BY <2>1, <2>2 DEF TypeOK, QueueInv, ParkersSawEmpty, PushesAreHeard, WaitersWereParking
<1>3. ASSUME NEW w \in Workers, SpuriousWakeup(w) PROVE QueueInv'
  <2>1. /\ pc' = [pc EXCEPT ![w] = "predicate"]
        /\ UNCHANGED <<main, data_queue, recv, link, parking>>
    BY <1>3 DEF SpuriousWakeup, Step
  <2>2. QED
    BY <2>1 DEF TypeOK, QueueInv, ParkersSawEmpty, PushesAreHeard, WaitersWereParking,
                ProsessThreads_status
<1>4. ASSUME NEW w \in Workers, Handle(w) PROVE QueueInv'
  BY <1>4, BusyStep DEF Handle
<1>5. ASSUME NEW w \in Workers, Copy(w) PROVE QueueInv'
  BY <1>5, BusyStep DEF Copy
<1>6. ASSUME NEW w \in Workers, Forward(w) PROVE QueueInv'
  BY <1>6, BusyStep DEF Forward
<1>7. ASSUME NEW w \in Workers, SendToDedicated(w) PROVE QueueInv'
  BY <1>7, BusyStep DEF SendToDedicated
<1>8. ASSUME NEW w \in Workers, TellSerialize(w) PROVE QueueInv'
  BY <1>8, BusyStep DEF TellSerialize
<1>9. ASSUME NEW w \in Workers, TellEncrypt(w) PROVE QueueInv'
  BY <1>9, BusyStep DEF TellEncrypt
<1>10. ASSUME NEW w \in Workers, ReplySerialize(w) PROVE QueueInv'
  BY <1>10, BusyStep DEF ReplySerialize
<1>11. ASSUME NEW w \in Workers, ReplyEncrypt(w) PROVE QueueInv'
  BY <1>11, BusyStep DEF ReplyEncrypt
<1>12. ASSUME NEW w \in Workers, Finish(w) PROVE QueueInv'
  BY <1>12, BusyStep DEF Finish
<1>13. CASE RecvPoll
  BY <1>13, OtherStep DEF RecvPoll
<1>14. CASE RecvAcquire
  BY <1>14, OtherStep DEF RecvAcquire
<1>15. CASE RecvPush
  BY <1>15, PushHeard DEF RecvPush
<1>16. CASE RecvNotify
  BY <1>16, NotifyHeard DEF RecvNotify
<1>17. CASE RecvNothing
  BY <1>17, OtherStep DEF RecvNothing
<1>18. CASE LogoutSerialize
  BY <1>18, OtherStep DEF LogoutSerialize
<1>19. CASE LogoutEncrypt
  BY <1>19, OtherStep DEF LogoutEncrypt
<1>20. CASE LinkLoop
  BY <1>20, OtherStep DEF LinkLoop
<1>21. CASE LinkAcquire
  BY <1>21, OtherStep DEF LinkAcquire
<1>22. CASE LinkPush
  BY <1>22, PushHeard DEF LinkPush
<1>23. CASE LinkNotify
  BY <1>23, NotifyHeard DEF LinkNotify
<1>24. CASE LinkTimeout
  BY <1>24, OtherStep DEF LinkTimeout
<1>25. CASE SendLoop
  BY <1>25, OtherStep DEF SendLoop
<1>26. CASE SendPredicate
  BY <1>26, OtherStep DEF SendPredicate
<1>27. CASE SendPark
  BY <1>27, OtherStep DEF SendPark
<1>28. CASE SendToSessionServer
  BY <1>28, OtherStep DEF SendToSessionServer
<1>29. CASE HeartbeatDue
  BY <1>29, OtherStep DEF HeartbeatDue
<1>30. CASE HeartbeatSend
  BY <1>30, OtherStep DEF HeartbeatSend
<1>31. CASE StopLink
  BY <1>31, MainStep DEF StopLink
<1>32. CASE LinkJoined
  BY <1>32, MainStep DEF LinkJoined
<1>33. CASE NetworkJoined
  BY <1>33, MainStep DEF NetworkJoined
<1>34. CASE StopRoutine
  <2>1. \A w \in Workers : pc'[w] # "asleep" /\ (pc'[w] = "park" => pc[w] = "park")
    BY <1>34 DEF StopRoutine, notify_all, Asleep, TypeOK
  <2>2. /\ main' = "routine" /\ parking' = {w \in Workers : pc[w] = "park"}
        /\ data_queue' = data_queue
    BY <1>34 DEF StopRoutine
  <2>3. QED
    BY <2>1, <2>2 DEF QueueInv, ParkersSawEmpty, PushesAreHeard, WaitersWereParking,
                      ProsessThreads_status
<1>35. CASE RoutineJoined
  <2>1. data_queue' = <<>> /\ main' = "end"
    BY <1>35 DEF RoutineJoined
  <2>2. QED
    BY <2>1 DEF QueueInv, ParkersSawEmpty, PushesAreHeard, WaitersWereParking
<1>36. ASSUME NEW b \in Buffers, SendQueued(b) PROVE QueueInv'
  BY <1>36, OtherStep DEF SendQueued
<1>37. ASSUME NEW b \in Buffers, NumberReused(b) PROVE QueueInv'
  BY <1>37, OtherStep DEF NumberReused
<1>38. CASE UNCHANGED vars
  BY <1>38, OtherStep DEF vars
<1>39. QED
  BY <1>1, <1>2, <1>3, <1>4, <1>5, <1>6, <1>7, <1>8, <1>9, <1>10, <1>11, <1>12, <1>13, <1>14, <1>15, <1>16, <1>17, <1>18, <1>19, <1>20, <1>21, <1>22, <1>23, <1>24, <1>25, <1>26, <1>27, <1>28, <1>29, <1>30, <1>31, <1>32, <1>33, <1>34, <1>35, <1>36, <1>37, <1>38
     DEF Next, Work, recvWorkerThread, RecvWorker, SendWoker, HeatbeatWoker, Join

(* The invariant of the queue, together with the types it needs.            *)
THEOREM Invariance == Spec => [](TypeInv /\ QueueInv)
<1>1. Init => TypeInv /\ QueueInv
  BY TypeInvInit, QueueInvInit
<1>2. TypeInv /\ QueueInv /\ [Next]_vars => (TypeInv /\ QueueInv)'
  BY TypeInvNext, QueueInvNext DEF TypeInv
<1>3. QED
  BY <1>1, <1>2, PTL DEF Spec

(* No push goes unheard: while there is a packet in the queue some worker   *)
(* is awake or a receiver is about to wake one.                             *)
THEOREM PushesHeard == Spec => []PushesAreHeard
<1>1. TypeInv /\ QueueInv => PushesAreHeard
  BY DEF QueueInv
<1>2. QED
  BY <1>1, Invariance, PTL

(* Whom Release leaves asleep was about to wait when it notified.           *)
THEOREM SleepersExplained == Spec => []SleepersWereParking
<1>1. TypeInv /\ QueueInv => SleepersWereParking
  BY DEF QueueInv, WaitersWereParking, SleepersWereParking
<1>2. QED
  BY <1>1, Invariance, PTL
-----------------------------------------------------------------------------
(* The pool of packets *)

(* What a thread does not use it has put down.                              *)
Idle ==
  /\ \A w \in Workers : pc[w] \notin WithPacket => data[w] = None
  /\ \A w \in Workers : pc[w] \notin WithDecrypted => decrypted_data[w] = None
  /\ \A w \in Workers : pc[w] \notin {"info", "encrypt", "finish"} => Serialize_data[w] = None
  /\ recv # "recv" => Cpacket = None
  /\ recv # "encrypt" => Logout_data = None
  /\ link # "recv" => Lpacket = None
  /\ sending # "send" => sent_data = None

(* A packet is in one place at most.                                        *)
PacketOnce == \A p \in ClientPackets : \A x, y \in PacketHolders(p) : x = y

PoolPlace == <<"pool", None>>

LEMMA PacketAt ==
  ASSUME NEW p, NEW x
  PROVE  x \in PacketHolders(p) <=>
           \/ p \in ClientPacket_pool /\ x = PoolPlace
           \/ \E i \in DOMAIN data_queue : data_queue[i] = p /\ x = <<"queue", i>>
           \/ \E w \in Workers : data[w] = p /\ x = <<"worker", w>>
           \/ p = Cpacket /\ x = <<"recv", None>>
           \/ p = Lpacket /\ x = <<"link", None>>
BY DEF PacketHolders, PoolPlace

LEMMA PacketAtPrime ==
  ASSUME NEW p, NEW x
  PROVE  x \in PacketHolders(p)' <=>
           \/ p \in ClientPacket_pool' /\ x = PoolPlace
           \/ \E i \in DOMAIN data_queue' : data_queue'[i] = p /\ x = <<"queue", i>>
           \/ \E w \in Workers : data'[w] = p /\ x = <<"worker", w>>
           \/ p = Cpacket' /\ x = <<"recv", None>>
           \/ p = Lpacket' /\ x = <<"link", None>>
BY DEF PacketHolders, PoolPlace

LEMMA PacketThere ==
  ASSUME NEW p
  PROVE  /\ \A i \in DOMAIN data_queue : data_queue[i] = p => <<"queue", i>> \in PacketHolders(p)
         /\ \A w \in Workers : data[w] = p => <<"worker", w>> \in PacketHolders(p)
BY PacketAt

LEMMA PacketOnlyThere ==
  ASSUME NEW p
  PROVE  /\ \A j : PacketHolders(p) = {<<"queue", j>>} =>
                   \A i \in DOMAIN data_queue : data_queue[i] = p => i = j
         /\ \A v : PacketHolders(p) = {<<"worker", v>>} =>
                   \A w \in Workers : data[w] = p => w = v
         /\ \A x : PacketHolders(p) = {x} /\ x[1] # "queue" =>
                   \A i \in DOMAIN data_queue : data_queue[i] # p
<1>1. \A i, j : <<"queue", i>> = <<"queue", j>> => i = j
  OBVIOUS
<1>2. \A i, j : <<"worker", i>> = <<"worker", j>> => i = j
  OBVIOUS
<1>3. \A i : <<"queue", i>>[1] = "queue"
  OBVIOUS
<1>4. \A x, y : y \in PacketHolders(p) /\ PacketHolders(p) = {x} => x = y
  OBVIOUS
<1>5. ASSUME NEW j, PacketHolders(p) = {<<"queue", j>>}, NEW i \in DOMAIN data_queue,
             data_queue[i] = p
      PROVE  i = j
  BY <1>1, <1>4, <1>5, PacketThere
<1>6. ASSUME NEW v, PacketHolders(p) = {<<"worker", v>>}, NEW w \in Workers, data[w] = p
      PROVE  w = v
  BY <1>2, <1>4, <1>6, PacketThere
<1>7. ASSUME NEW x, PacketHolders(p) = {x}, x[1] # "queue", NEW i \in DOMAIN data_queue
      PROVE  data_queue[i] # p
  BY <1>3, <1>4, <1>7, PacketThere
<1>8. QED
  BY <1>5, <1>6, <1>7

(* Where a packet is, when it is in one place.                              *)
LEMMA PacketIn ==
  ASSUME PacketOnce, NEW p \in ClientPackets
  PROVE  /\ p \in ClientPacket_pool => PacketHolders(p) = {PoolPlace}
         /\ \A i \in DOMAIN data_queue : data_queue[i] = p => PacketHolders(p) = {<<"queue", i>>}
         /\ \A w \in Workers : data[w] = p => PacketHolders(p) = {<<"worker", w>>}
         /\ p = Cpacket => PacketHolders(p) = {<<"recv", None>>}
         /\ p = Lpacket => PacketHolders(p) = {<<"link", None>>}
<1>1. \A x \in PacketHolders(p) : PacketHolders(p) = {x}
  BY DEF PacketOnce
<1>2. p \in ClientPacket_pool => PoolPlace \in PacketHolders(p)
  BY PacketAt
<1>3. \A i \in DOMAIN data_queue : data_queue[i] = p => <<"queue", i>> \in PacketHolders(p)
  BY PacketAt
<1>4. \A w \in Workers : data[w] = p => <<"worker", w>> \in PacketHolders(p)
  BY PacketAt
<1>5. /\ p = Cpacket => <<"recv", None>> \in PacketHolders(p)
      /\ p = Lpacket => <<"link", None>> \in PacketHolders(p)
  BY PacketAt
<1>6. QED
  BY <1>1, <1>2, <1>3, <1>4, <1>5

(* A packet stays where it is or moves from its one place to another.       *)
PacketStep(p) ==
  \/ PacketHolders(p)' = PacketHolders(p)
  \/ \E x, y \in PacketPlaces :
       x # y /\ PacketHolders(p) = {x} /\ PacketHolders(p)' = {y}

LEMMA PacketsUntouched ==
  ASSUME UNCHANGED <<ClientPacket_pool, data_queue, data, Cpacket, Lpacket>>, NEW p
  PROVE  PacketStep(p)
BY DEF PacketStep, PacketHolders

(* One that no part of the state points to before or after stays.           *)
LEMMA PacketStays ==
  ASSUME NEW p, p \in ClientPacket_pool' <=> p \in ClientPacket_pool,
         \A i : /\ i \in DOMAIN data_queue' /\ data_queue'[i] = p
                <=> i \in DOMAIN data_queue /\ data_queue[i] = p,
         \A w \in Workers : data'[w] = p <=> data[w] = p,
         p = Cpacket' <=> p = Cpacket, p = Lpacket' <=> p = Lpacket
  PROVE  PacketStep(p)
<1>1. \A x : x \in PacketHolders(p)' <=> x \in PacketHolders(p)
  BY PacketAt, PacketAtPrime
<1>2. QED
  BY <1>1 DEF PacketStep

(* acquire by a receiver, release by it, and its push.                      *)
LEMMA RecvPacketMoves ==
  ASSUME TypeInv, Idle, PacketOnce, RecvAcquire \/ RecvPush \/ RecvNothing,
         NEW p \in ClientPackets
  PROVE  PacketStep(p)
<1> USE DEF TypeInv, TypeOK, Held, Idle
<1>1. /\ p # None /\ data' = data /\ Lpacket' = Lpacket
      /\ data_queue \in Seq(ClientPackets)
  BY PipelineAssumption DEF RecvAcquire, RecvPush, RecvNothing, workerVars, linkVars
<1>2. CASE RecvAcquire
  <2>1. PICK q \in ClientPacket_pool :
          ClientPacket_pool' = ClientPacket_pool \ {q} /\ Cpacket' = q
    BY <1>2 DEF RecvAcquire
  <2>2. Cpacket = None /\ data_queue' = data_queue
    BY <1>2 DEF RecvAcquire
  <2>3. CASE p = q
    <3>1. PacketHolders(p) = {PoolPlace}
      BY <2>3, PacketIn
    <3>2. PacketHolders(p)' = {<<"recv", None>>}
      BY <1>1, <2>1, <2>2, <2>3, <3>1, PacketAt, PacketAtPrime DEF PoolPlace
    <3>3. QED
      BY <3>1, <3>2 DEF PacketStep, PoolPlace, PacketPlaces
  <2>4. CASE p # q
    BY <1>1, <2>1, <2>2, <2>4, PacketStays
  <2>5. QED
    BY <2>3, <2>4
<1>3. CASE RecvPush
  <2>1. /\ data_queue' = Append(data_queue, Cpacket) /\ Cpacket' = None
        /\ ClientPacket_pool' = ClientPacket_pool /\ Cpacket \in ClientPackets
    BY <1>3 DEF RecvPush, Push, poolVars
  <2>2. CASE p = Cpacket
    <3>1. PacketHolders(p) = {<<"recv", None>>}
      BY <2>2, PacketIn
    <3>2. \A i : i \in DOMAIN data_queue' /\ data_queue'[i] = p <=> i = Len(data_queue) + 1
      <4>1. \A i \in DOMAIN data_queue : data_queue[i] # p
        BY <3>1, PacketOnlyThere
      <4>2. /\ DOMAIN data_queue = 1..Len(data_queue) /\ Len(data_queue) \in Nat
            /\ DOMAIN data_queue' = 1..(Len(data_queue) + 1)
        BY <1>1, <2>1
      <4>3. data_queue'[Len(data_queue) + 1] = p
        BY <1>1, <2>1, <2>2
      <4>4. \A i \in DOMAIN data_queue : data_queue'[i] = data_queue[i]
        BY <1>1, <2>1
      <4>5. QED
        BY <4>1, <4>2, <4>3, <4>4
    <3>3. PacketHolders(p)' = {<<"queue", Len(data_queue) + 1>>}
      BY <1>1, <2>1, <2>2, <3>1, <3>2, PacketAt, PacketAtPrime DEF PoolPlace
    <3>4. Len(data_queue) + 1 \in Nat
      BY <1>1
    <3>5. QED
      BY <3>1, <3>3, <3>4 DEF PacketStep, PacketPlaces
  <2>3. CASE p # Cpacket
    <3>1. \A i : /\ i \in DOMAIN data_queue' /\ data_queue'[i] = p
                 <=> i \in DOMAIN data_queue /\ data_queue[i] = p
      BY <1>1, <2>1, <2>3
    <3>2. QED
      BY <1>1, <2>1, <2>3, <3>1, PacketStays
  <2>4. QED
    BY <2>2, <2>3
<1>4. CASE RecvNothing
  <2>1. /\ ClientPacket_pool' = ClientPacket_pool \cup {Cpacket} /\ Cpacket' = None
        /\ data_queue' = data_queue
    BY <1>4 DEF RecvNothing
  <2>2. CASE p = Cpacket
    <3>1. PacketHolders(p) = {<<"recv", None>>}
      BY <2>2, PacketIn
    <3>2. PacketHolders(p)' = {PoolPlace}
      BY <1>1, <2>1, <2>2, <3>1, PacketAt, PacketAtPrime DEF PoolPlace
    <3>3. QED
      BY <3>1, <3>2 DEF PacketStep, PoolPlace, PacketPlaces
  <2>3. CASE p # Cpacket
    BY <1>1, <2>1, <2>3, PacketStays
  <2>4. QED
    BY <2>2, <2>3
<1>5. QED
  BY <1>2, <1>3, <1>4

(* The same of the session link, and its timeout, which drops the packet.   *)
LEMMA LinkPacketMoves ==
  ASSUME TypeInv, Idle, PacketOnce, LinkAcquire \/ LinkPush,
         NEW p \in ClientPackets
  PROVE  PacketStep(p)
<1> USE DEF TypeInv, TypeOK, Held, Idle
<1>1. /\ p # None /\ data' = data /\ Cpacket' = Cpacket
      /\ data_queue \in Seq(ClientPackets)
  BY PipelineAssumption DEF LinkAcquire, LinkPush, workerVars, recvVars
<1>2. CASE LinkAcquire
  <2>1. PICK q \in ClientPacket_pool :
          ClientPacket_pool' = ClientPacket_pool \ {q} /\ Lpacket' = q
    BY <1>2 DEF LinkAcquire
  <2>2. Lpacket = None /\ data_queue' = data_queue
    BY <1>2 DEF LinkAcquire
  <2>3. CASE p = q
    <3>1. PacketHolders(p) = {PoolPlace}
      BY <2>3, PacketIn
    <3>2. PacketHolders(p)' = {<<"link", None>>}
      BY <1>1, <2>1, <2>2, <2>3, <3>1, PacketAt, PacketAtPrime DEF PoolPlace
    <3>3. QED
      BY <3>1, <3>2 DEF PacketStep, PoolPlace, PacketPlaces
  <2>4. CASE p # q
    BY <1>1, <2>1, <2>2, <2>4, PacketStays
  <2>5. QED
    BY <2>3, <2>4
<1>3. CASE LinkPush
  <2>1. /\ data_queue' = Append(data_queue, Lpacket) /\ Lpacket' = None
        /\ ClientPacket_pool' = ClientPacket_pool /\ Lpacket \in ClientPackets
    BY <1>3 DEF LinkPush, Push, poolVars
  <2>2. CASE p = Lpacket
    <3>1. PacketHolders(p) = {<<"link", None>>}
      BY <2>2, PacketIn
    <3>2. \A i : i \in DOMAIN data_queue' /\ data_queue'[i] = p <=> i = Len(data_queue) + 1
      <4>1. \A i \in DOMAIN data_queue : data_queue[i] # p
        BY <3>1, PacketOnlyThere
      <4>2. /\ DOMAIN data_queue = 1..Len(data_queue) /\ Len(data_queue) \in Nat
            /\ DOMAIN data_queue' = 1..(Len(data_queue) + 1)
        BY <1>1, <2>1
      <4>3. data_queue'[Len(data_queue) + 1] = p
        BY <1>1, <2>1, <2>2
      <4>4. \A i \in DOMAIN data_queue : data_queue'[i] = data_queue[i]
        BY <1>1, <2>1
      <4>5. QED
        BY <4>1, <4>2, <4>3, <4>4
    <3>3. PacketHolders(p)' = {<<"queue", Len(data_queue) + 1>>}
      BY <1>1, <2>1, <2>2, <3>1, <3>2, PacketAt, PacketAtPrime DEF PoolPlace
    <3>4. Len(data_queue) + 1 \in Nat
      BY <1>1
    <3>5. QED
      BY <3>1, <3>3, <3>4 DEF PacketStep, PacketPlaces
  <2>3. CASE p # Lpacket
    <3>1. \A i : /\ i \in DOMAIN data_queue' /\ data_queue'[i] = p
                 <=> i \in DOMAIN data_queue /\ data_queue[i] = p
      BY <1>1, <2>1, <2>3
    <3>2. QED
      BY <1>1, <2>1, <2>3, <3>1, PacketStays
  <2>4. QED
    BY <2>2, <2>3
<1>4. QED
  BY <1>2, <1>3

LEMMA LinkTimeoutDrops ==
  ASSUME TypeInv, PacketOnce, LinkTimeout, NEW p \in ClientPackets
  PROVE  /\ p = Lpacket => PacketHolders(p) = {<<"link", None>>} /\ PacketHolders(p)' = {}
         /\ p # Lpacket => PacketStep(p)
<1>1. /\ Lpacket' = None /\ p # None /\ data' = data /\ Cpacket' = Cpacket
      /\ data_queue' = data_queue /\ ClientPacket_pool' = ClientPacket_pool
  BY PipelineAssumption DEF LinkTimeout, workerVars, recvVars, poolVars
<1>2. CASE p = Lpacket
  <2>1. PacketHolders(p) = {<<"link", None>>}
    BY <1>2, PacketIn
  <2>2. \A x : x \notin PacketHolders(p)'
    BY <1>1, <1>2, <2>1, PacketAt, PacketAtPrime DEF PoolPlace
  <2>3. QED
    BY <1>2, <2>1, <2>2
<1>3. CASE p # Lpacket
  BY <1>1, <1>3, PacketStays
<1>4. QED
  BY <1>2, <1>3

(* A worker takes the first packet, and the others move up.                 *)
LEMMA WorkerPacketMoves ==
  ASSUME TypeInv, Idle, PacketOnce, NEW w \in Workers, WorkerPredicate(w) \/ Finish(w),
         NEW p \in ClientPackets
  PROVE  PacketStep(p)
<1> USE DEF TypeInv, TypeOK
<1>1. /\ p # None /\ Cpacket' = Cpacket /\ Lpacket' = Lpacket
      /\ data_queue \in Seq(ClientPackets)
  BY PipelineAssumption DEF WorkerPredicate, Finish, recvVars, linkVars
<1>2. CASE WorkerPredicate(w) /\ ProsessThreads_status /\ data_queue # <<>>
  <2>1. /\ data' = [data EXCEPT ![w] = Head(data_queue)] /\ data_queue' = Tail(data_queue)
        /\ ClientPacket_pool' = ClientPacket_pool /\ data[w] = None
    BY <1>2 DEF WorkerPredicate, Step, poolVars, Idle, WithPacket
  <2>2. \A v \in Workers : data'[v] = IF v = w THEN Head(data_queue) ELSE data[v]
    BY <2>1
  <2>3. 1 \in DOMAIN data_queue /\ Head(data_queue) = data_queue[1]
    BY <1>1, <1>2
  <2>4. /\ \A i \in DOMAIN data_queue' : i \in Nat /\ i # 0 /\ i + 1 \in DOMAIN data_queue
        /\ \A i \in DOMAIN data_queue :
             i \in Nat /\ (i # 1 => i - 1 \in Nat /\ i - 1 \in DOMAIN data_queue')
    BY <1>1, <1>2, <2>1
  <2>5. \A i \in DOMAIN data_queue' : data_queue'[i] = data_queue[i + 1]
    BY <1>1, <1>2, <2>1
  <2>6. CASE p = data_queue[1]
    <3>1. PacketHolders(p) = {<<"queue", 1>>}
      BY <2>3, <2>6, PacketIn
    <3>2. \A i \in DOMAIN data_queue' : data_queue'[i] # p
      <4>1. \A i \in DOMAIN data_queue : data_queue[i] = p => i = 1
        BY <3>1, PacketOnlyThere
      <4>2. QED
        BY <2>4, <2>5, <4>1
    <3>3. PacketHolders(p)' = {<<"worker", w>>}
      BY <1>1, <2>1, <2>2, <2>3, <2>6, <3>1, <3>2, PacketAt, PacketAtPrime DEF PoolPlace
    <3>4. QED
      BY <3>1, <3>3 DEF PacketStep, PacketPlaces
  <2>7. ASSUME NEW i \in DOMAIN data_queue, p = data_queue[i], i # 1 PROVE PacketStep(p)
    <3>1. PacketHolders(p) = {<<"queue", i>>}
      BY <2>7, PacketIn
    <3>2. \A j \in DOMAIN data_queue : data_queue[j] = p => j = i
      BY <3>1, PacketOnlyThere
    <3>3. /\ i \in Nat /\ i - 1 \in Nat
          /\ \A j : j \in DOMAIN data_queue' /\ data_queue'[j] = p <=> j = i - 1
      <4>1. i \in Nat /\ i - 1 \in Nat /\ i - 1 \in DOMAIN data_queue' /\ (i - 1) + 1 = i
        BY <2>4, <2>7
      <4>2. data_queue'[i - 1] = p
        BY <2>5, <2>7, <4>1
      <4>3. ASSUME NEW j \in DOMAIN data_queue', data_queue'[j] = p PROVE j = i - 1
        <5>1. j \in Nat /\ j + 1 \in DOMAIN data_queue /\ data_queue[j + 1] = p
          BY <2>4, <2>5, <4>3
        <5>2. QED
          BY <3>2, <4>1, <5>1
      <4>4. QED
        BY <4>1, <4>2, <4>3
    <3>4. PacketHolders(p)' = {<<"queue", i - 1>>}
      BY <1>1, <2>1, <2>2, <2>3, <2>7, <3>1, <3>2, <3>3, PacketAt, PacketAtPrime DEF PoolPlace
    <3>5. QED
      BY <3>1, <3>3, <3>4 DEF PacketStep, PacketPlaces
  <2>8. CASE \A i \in DOMAIN data_queue : p # data_queue[i]
    <3>1. \A i \in DOMAIN data_queue' : data_queue'[i] # p
      BY <2>4, <2>5, <2>8
    <3>2. \A v \in Workers : data'[v] = p <=> data[v] = p
      BY <1>1, <2>1, <2>2, <2>3, <2>8
    <3>3. QED
      BY <1>1, <2>1, <2>8, <3>1, <3>2, PacketStays
  <2>9. QED
    BY <2>6, <2>7, <2>8
<1>3. CASE WorkerPredicate(w) /\ ~(ProsessThreads_status /\ data_queue # <<>>)
  BY <1>1, <1>3, PacketsUntouched DEF WorkerPredicate, poolVars
<1>4. CASE Finish(w)
  <2>1. /\ data' = [data EXCEPT ![w] = None] /\ data_queue' = data_queue
        /\ ClientPacket_pool' = ClientPacket_pool \cup {data[w]} /\ data[w] \in ClientPackets
    BY <1>4 DEF Finish, Step, Held, WithPacket
  <2>2. \A v \in Workers : data'[v] = IF v = w THEN None ELSE data[v]
    BY <2>1
  <2>3. CASE p = data[w]
    <3>1. PacketHolders(p) = {<<"worker", w>>}
      BY <2>3, PacketIn
    <3>2. \A v \in Workers : data[v] = p => v = w
      BY <3>1, PacketOnlyThere
    <3>3. PacketHolders(p)' = {PoolPlace}
      BY <1>1, <2>1, <2>2, <2>3, <3>1, <3>2, PacketAt, PacketAtPrime DEF PoolPlace
    <3>4. QED
      BY <3>1, <3>3 DEF PacketStep, PoolPlace, PacketPlaces
  <2>4. CASE p # data[w]
    BY <1>1, <2>1, <2>2, <2>4, PacketStays
  <2>5. QED
    BY <2>3, <2>4
<1>5. QED
  BY <1>2, <1>3, <1>4

(* At the end Release puts the whole queue back.                            *)
LEMMA RoutineJoinedMoves ==
  ASSUME TypeInv, PacketOnce, RoutineJoined, NEW p \in ClientPackets
  PROVE  PacketStep(p)
<1> USE DEF TypeInv, TypeOK
<1>1. /\ Cpacket' = Cpacket /\ Lpacket' = Lpacket /\ data' = data /\ data_queue' = <<>>
      /\ ClientPacket_pool' = ClientPacket_pool \cup {data_queue[i] : i \in DOMAIN data_queue}
  BY DEF RoutineJoined, recvVars, linkVars, workerVars
<1>2. \A i : i \notin DOMAIN data_queue'
  BY <1>1
<1>3. ASSUME NEW i \in DOMAIN data_queue, data_queue[i] = p PROVE PacketStep(p)
  <2>1. PacketHolders(p) = {<<"queue", i>>}
    BY <1>3, PacketIn
  <2>2. p \in ClientPacket_pool'
    BY <1>1, <1>3
  <2>3. PacketHolders(p)' = {PoolPlace}
    BY <1>1, <1>2, <2>1, <2>2, PacketAt, PacketAtPrime DEF PoolPlace
  <2>4. i \in Nat
    OBVIOUS
  <2>5. QED
    BY <2>1, <2>3, <2>4 DEF PacketStep, PoolPlace, PacketPlaces
<1>4. CASE \A i \in DOMAIN data_queue : data_queue[i] # p
  BY <1>1, <1>2, <1>4, PacketStays
<1>5. QED
  BY <1>3, <1>4
-----------------------------------------------------------------------------
(* The pool of buffers *)

BufferOnce == \A b \in Buffers : \A x, y \in BufferHolders(b) : x = y

ClientPlace == <<"client", None>>
StrandedPlace == <<"stranded", None>>
LogoutPlace == <<"logout", None>>
SentPlace == <<"sent", None>>
Queue == sendToSessionServer_queue

LEMMA BufferAt ==
  ASSUME NEW b, NEW x
  PROVE  x \in BufferHolders(b) <=>
           \/ b \in packet_pool /\ x = PoolPlace
           \/ \E w \in Workers : decrypted_data[w] = b /\ x = <<"decrypted", w>>
           \/ \E w \in Workers : Serialize_data[w] = b /\ x = <<"serialize", w>>
           \/ b = Logout_data /\ x = LogoutPlace
           \/ \E i \in DOMAIN Queue : Queue[i] = b /\ x = <<"session", i>>
           \/ b = sent_data /\ x = SentPlace
           \/ b \in send_queues /\ x = ClientPlace
           \/ b \in stranded /\ x = StrandedPlace
BY DEF BufferHolders, PoolPlace, ClientPlace, StrandedPlace, LogoutPlace, SentPlace, Queue

LEMMA BufferAtPrime ==
  ASSUME NEW b, NEW x
  PROVE  x \in BufferHolders(b)' <=>
           \/ b \in packet_pool' /\ x = PoolPlace
           \/ \E w \in Workers : decrypted_data'[w] = b /\ x = <<"decrypted", w>>
           \/ \E w \in Workers : Serialize_data'[w] = b /\ x = <<"serialize", w>>
           \/ b = Logout_data' /\ x = LogoutPlace
           \/ \E i \in DOMAIN Queue' : Queue'[i] = b /\ x = <<"session", i>>
           \/ b = sent_data' /\ x = SentPlace
           \/ b \in send_queues' /\ x = ClientPlace
           \/ b \in stranded' /\ x = StrandedPlace
BY DEF BufferHolders, PoolPlace, ClientPlace, StrandedPlace, LogoutPlace, SentPlace, Queue

(* The places a buffer can be in, each with the absence of a pointer from   *)
(* any other.                                                               *)
OffWorkers(b) == \A w \in Workers : decrypted_data[w] # b /\ Serialize_data[w] # b
OffLocals(b) == b # Logout_data /\ b # sent_data
OffQueue(b) == \A i \in DOMAIN Queue : Queue[i] # b
OffLists(b) == b \notin send_queues /\ b \notin stranded

OnlyPool(b) == b \in packet_pool /\ OffWorkers(b) /\ OffLocals(b) /\ OffQueue(b) /\ OffLists(b)
OnlyDecrypted(b, w) ==
  /\ b \notin packet_pool /\ OffLocals(b) /\ OffQueue(b) /\ OffLists(b)
  /\ \A v \in Workers : Serialize_data[v] # b /\ (decrypted_data[v] = b <=> v = w)
OnlySerialize(b, w) ==
  /\ b \notin packet_pool /\ OffLocals(b) /\ OffQueue(b) /\ OffLists(b)
  /\ \A v \in Workers : decrypted_data[v] # b /\ (Serialize_data[v] = b <=> v = w)
OnlyLogout(b) ==
  /\ b \notin packet_pool /\ OffWorkers(b) /\ OffQueue(b) /\ OffLists(b)
  /\ b = Logout_data /\ b # sent_data
OnlySent(b) ==
  /\ b \notin packet_pool /\ OffWorkers(b) /\ OffQueue(b) /\ OffLists(b)
  /\ b # Logout_data /\ b = sent_data
OnlyQueue(b, i) ==
  /\ b \notin packet_pool /\ OffWorkers(b) /\ OffLocals(b) /\ OffLists(b)
  /\ \A j : j \in DOMAIN Queue /\ Queue[j] = b <=> j = i
OnlyClient(b) ==
  /\ b \notin packet_pool /\ OffWorkers(b) /\ OffLocals(b) /\ OffQueue(b)
  /\ b \in send_queues /\ b \notin stranded
OnlyStranded(b) ==
  /\ b \notin packet_pool /\ OffWorkers(b) /\ OffLocals(b) /\ OffQueue(b)
  /\ b \notin send_queues /\ b \in stranded

(* The parts of the state as membership in the set of places.              *)
LEMMA BufferParts ==
  ASSUME NEW b
  PROVE  /\ b \in packet_pool <=> PoolPlace \in BufferHolders(b)
         /\ \A w \in Workers : decrypted_data[w] = b <=> <<"decrypted", w>> \in BufferHolders(b)
         /\ \A w \in Workers : Serialize_data[w] = b <=> <<"serialize", w>> \in BufferHolders(b)
         /\ b = Logout_data <=> LogoutPlace \in BufferHolders(b)
         /\ \A i : i \in DOMAIN Queue /\ Queue[i] = b <=> <<"session", i>> \in BufferHolders(b)
         /\ b = sent_data <=> SentPlace \in BufferHolders(b)
         /\ b \in send_queues <=> ClientPlace \in BufferHolders(b)
         /\ b \in stranded <=> StrandedPlace \in BufferHolders(b)
<1> USE DEF PoolPlace, LogoutPlace, SentPlace, ClientPlace, StrandedPlace
<1>1. b \in packet_pool <=> PoolPlace \in BufferHolders(b)
  BY BufferAt
<1>2. \A w \in Workers : decrypted_data[w] = b <=> <<"decrypted", w>> \in BufferHolders(b)
  BY BufferAt
<1>3. \A w \in Workers : Serialize_data[w] = b <=> <<"serialize", w>> \in BufferHolders(b)
  BY BufferAt
<1>4. b = Logout_data <=> LogoutPlace \in BufferHolders(b)
  BY BufferAt
<1>5. \A i : i \in DOMAIN Queue /\ Queue[i] = b <=> <<"session", i>> \in BufferHolders(b)
  BY BufferAt
<1>6. b = sent_data <=> SentPlace \in BufferHolders(b)
  BY BufferAt
<1>7. b \in send_queues <=> ClientPlace \in BufferHolders(b)
  BY BufferAt
<1>8. b \in stranded <=> StrandedPlace \in BufferHolders(b)
  BY BufferAt
<1>9. QED
  BY <1>1, <1>2, <1>3, <1>4, <1>5, <1>6, <1>7, <1>8

LEMMA PlaceSlots ==
  /\ PoolPlace[1] = "pool" /\ LogoutPlace[1] = "logout" /\ SentPlace[1] = "sent"
  /\ ClientPlace[1] = "client" /\ StrandedPlace[1] = "stranded"
  /\ \A w : <<"decrypted", w>>[1] = "decrypted" /\ <<"decrypted", w>>[2] = w
  /\ \A w : <<"serialize", w>>[1] = "serialize" /\ <<"serialize", w>>[2] = w
  /\ \A i : <<"session", i>>[1] = "session" /\ <<"session", i>>[2] = i
BY DEF PoolPlace, LogoutPlace, SentPlace, ClientPlace, StrandedPlace

(* What points to a buffer that is at x only.                               *)
LEMMA OffElsewhere ==
  ASSUME NEW b, NEW x, \A y \in BufferHolders(b) : y = x
  PROVE  /\ x[1] # "pool" => b \notin packet_pool
         /\ x[1] \notin {"decrypted", "serialize"} => OffWorkers(b)
         /\ \A w \in Workers : decrypted_data[w] = b => x[1] = "decrypted" /\ x[2] = w
         /\ \A w \in Workers : Serialize_data[w] = b => x[1] = "serialize" /\ x[2] = w
         /\ x[1] \notin {"logout", "sent"} => OffLocals(b)
         /\ x[1] # "logout" => b # Logout_data
         /\ x[1] # "sent" => b # sent_data
         /\ x[1] # "session" => OffQueue(b)
         /\ \A i \in DOMAIN Queue : Queue[i] = b => x[1] = "session" /\ x[2] = i
         /\ x[1] \notin {"client", "stranded"} => OffLists(b)
         /\ x[1] # "client" => b \notin send_queues
         /\ x[1] # "stranded" => b \notin stranded
<1>1. b \in packet_pool => x[1] = "pool"
  BY BufferParts, PlaceSlots
<1>2. ASSUME NEW w \in Workers, decrypted_data[w] = b PROVE x[1] = "decrypted" /\ x[2] = w
  <2>1. <<"decrypted", w>> = x
    BY <1>2, BufferParts
  <2>2. QED
    BY <2>1
<1>3. ASSUME NEW w \in Workers, Serialize_data[w] = b PROVE x[1] = "serialize" /\ x[2] = w
  <2>1. <<"serialize", w>> = x
    BY <1>3, BufferParts
  <2>2. QED
    BY <2>1
<1>4. b = Logout_data => x[1] = "logout"
  BY BufferParts, PlaceSlots
<1>5. b = sent_data => x[1] = "sent"
  BY BufferParts, PlaceSlots
<1>6. ASSUME NEW i \in DOMAIN Queue, Queue[i] = b PROVE x[1] = "session" /\ x[2] = i
  <2>1. <<"session", i>> = x
    BY <1>6, BufferParts
  <2>2. QED
    BY <2>1
<1>7. b \in send_queues => x[1] = "client"
  BY BufferParts, PlaceSlots
<1>8. b \in stranded => x[1] = "stranded"
  BY BufferParts, PlaceSlots
<1>9. QED
  BY <1>1, <1>2, <1>3, <1>4, <1>5, <1>6, <1>7, <1>8 DEF OffWorkers, OffLocals, OffQueue, OffLists

(* In one place at most: the place decides the rest.                        *)
LEMMA InPool ==
  ASSUME BufferOnce, NEW b \in Buffers, b \in packet_pool
  PROVE  OnlyPool(b) /\ BufferHolders(b) = {PoolPlace}
<1>1. PoolPlace \in BufferHolders(b)
  BY BufferParts
<1>2. \A y \in BufferHolders(b) : y = PoolPlace
  BY <1>1 DEF BufferOnce
<1>3. BufferHolders(b) = {PoolPlace}
  BY <1>1, <1>2
<1>4. b \in packet_pool
  BY <1>2, OffElsewhere, PlaceSlots DEF OffWorkers
<1>5. QED
  BY <1>2, <1>3, <1>4, OffElsewhere, PlaceSlots DEF OnlyPool

LEMMA InDecrypted ==
  ASSUME BufferOnce, NEW b \in Buffers, NEW w \in Workers, decrypted_data[w] = b
  PROVE  OnlyDecrypted(b, w) /\ BufferHolders(b) = {<<"decrypted", w>>}
<1>1. <<"decrypted", w>> \in BufferHolders(b)
  BY BufferParts
<1>2. \A y \in BufferHolders(b) : y = <<"decrypted", w>>
  BY <1>1 DEF BufferOnce
<1>3. BufferHolders(b) = {<<"decrypted", w>>}
  BY <1>1, <1>2
<1>4. \A v \in Workers : Serialize_data[v] # b /\ (decrypted_data[v] = b <=> v = w)
  BY <1>2, OffElsewhere, PlaceSlots DEF OffWorkers
<1>5. QED
  BY <1>2, <1>3, <1>4, OffElsewhere, PlaceSlots DEF OnlyDecrypted

LEMMA InSerialize ==
  ASSUME BufferOnce, NEW b \in Buffers, NEW w \in Workers, Serialize_data[w] = b
  PROVE  OnlySerialize(b, w) /\ BufferHolders(b) = {<<"serialize", w>>}
<1>1. <<"serialize", w>> \in BufferHolders(b)
  BY BufferParts
<1>2. \A y \in BufferHolders(b) : y = <<"serialize", w>>
  BY <1>1 DEF BufferOnce
<1>3. BufferHolders(b) = {<<"serialize", w>>}
  BY <1>1, <1>2
<1>4. \A v \in Workers : decrypted_data[v] # b /\ (Serialize_data[v] = b <=> v = w)
  BY <1>2, OffElsewhere, PlaceSlots DEF OffWorkers
<1>5. QED
  BY <1>2, <1>3, <1>4, OffElsewhere, PlaceSlots DEF OnlySerialize

LEMMA InLogout ==
  ASSUME BufferOnce, NEW b \in Buffers, b = Logout_data
  PROVE  OnlyLogout(b) /\ BufferHolders(b) = {LogoutPlace}
<1>1. LogoutPlace \in BufferHolders(b)
  BY BufferParts
<1>2. \A y \in BufferHolders(b) : y = LogoutPlace
  BY <1>1 DEF BufferOnce
<1>3. BufferHolders(b) = {LogoutPlace}
  BY <1>1, <1>2
<1>4. b = Logout_data /\ b # sent_data
  BY <1>2, OffElsewhere, PlaceSlots DEF OffWorkers
<1>5. QED
  BY <1>2, <1>3, <1>4, OffElsewhere, PlaceSlots DEF OnlyLogout

LEMMA InSent ==
  ASSUME BufferOnce, NEW b \in Buffers, b = sent_data
  PROVE  OnlySent(b) /\ BufferHolders(b) = {SentPlace}
<1>1. SentPlace \in BufferHolders(b)
  BY BufferParts
<1>2. \A y \in BufferHolders(b) : y = SentPlace
  BY <1>1 DEF BufferOnce
<1>3. BufferHolders(b) = {SentPlace}
  BY <1>1, <1>2
<1>4. b # Logout_data /\ b = sent_data
  BY <1>2, OffElsewhere, PlaceSlots DEF OffWorkers
<1>5. QED
  BY <1>2, <1>3, <1>4, OffElsewhere, PlaceSlots DEF OnlySent

LEMMA InQueue ==
  ASSUME BufferOnce, NEW b \in Buffers, NEW i \in DOMAIN Queue, Queue[i] = b
  PROVE  OnlyQueue(b, i) /\ BufferHolders(b) = {<<"session", i>>}
<1>1. <<"session", i>> \in BufferHolders(b)
  BY BufferParts
<1>2. \A y \in BufferHolders(b) : y = <<"session", i>>
  BY <1>1 DEF BufferOnce
<1>3. BufferHolders(b) = {<<"session", i>>}
  BY <1>1, <1>2
<1>4. \A j : j \in DOMAIN Queue /\ Queue[j] = b <=> j = i
  BY <1>2, OffElsewhere, PlaceSlots DEF OffWorkers
<1>5. QED
  BY <1>2, <1>3, <1>4, OffElsewhere, PlaceSlots DEF OnlyQueue

LEMMA InClient ==
  ASSUME BufferOnce, NEW b \in Buffers, b \in send_queues
  PROVE  OnlyClient(b) /\ BufferHolders(b) = {ClientPlace}
<1>1. ClientPlace \in BufferHolders(b)
  BY BufferParts
<1>2. \A y \in BufferHolders(b) : y = ClientPlace
  BY <1>1 DEF BufferOnce
<1>3. BufferHolders(b) = {ClientPlace}
  BY <1>1, <1>2
<1>4. b \in send_queues /\ b \notin stranded
  BY <1>2, OffElsewhere, PlaceSlots DEF OffWorkers
<1>5. QED
  BY <1>2, <1>3, <1>4, OffElsewhere, PlaceSlots DEF OnlyClient

LEMMA InStranded ==
  ASSUME BufferOnce, NEW b \in Buffers, b \in stranded
  PROVE  OnlyStranded(b) /\ BufferHolders(b) = {StrandedPlace}
<1>1. StrandedPlace \in BufferHolders(b)
  BY BufferParts
<1>2. \A y \in BufferHolders(b) : y = StrandedPlace
  BY <1>1 DEF BufferOnce
<1>3. BufferHolders(b) = {StrandedPlace}
  BY <1>1, <1>2
<1>4. b \notin send_queues /\ b \in stranded
  BY <1>2, OffElsewhere, PlaceSlots DEF OffWorkers
<1>5. QED
  BY <1>2, <1>3, <1>4, OffElsewhere, PlaceSlots DEF OnlyStranded

(* And conversely, after a step.                                            *)
LEMMA ToPool ==
  ASSUME NEW b, OnlyPool(b)'
  PROVE  BufferHolders(b)' = {PoolPlace}
<1>1. \A x : x \in BufferHolders(b)' <=> x = PoolPlace
  BY BufferAtPrime DEF OnlyPool, OffWorkers, OffLocals, OffQueue, OffLists
<1>2. QED
  BY <1>1

LEMMA ToDecrypted ==
  ASSUME NEW b, NEW w \in Workers, OnlyDecrypted(b, w)'
  PROVE  BufferHolders(b)' = {<<"decrypted", w>>}
<1>1. \A x : x \in BufferHolders(b)' <=> x = <<"decrypted", w>>
  BY BufferAtPrime DEF OnlyDecrypted, OffWorkers, OffLocals, OffQueue, OffLists
<1>2. QED
  BY <1>1

LEMMA ToSerialize ==
  ASSUME NEW b, NEW w \in Workers, OnlySerialize(b, w)'
  PROVE  BufferHolders(b)' = {<<"serialize", w>>}
<1>1. \A x : x \in BufferHolders(b)' <=> x = <<"serialize", w>>
  BY BufferAtPrime DEF OnlySerialize, OffWorkers, OffLocals, OffQueue, OffLists
<1>2. QED
  BY <1>1

LEMMA ToLogout ==
  ASSUME NEW b, OnlyLogout(b)'
  PROVE  BufferHolders(b)' = {LogoutPlace}
<1>1. \A x : x \in BufferHolders(b)' <=> x = LogoutPlace
  BY BufferAtPrime DEF OnlyLogout, OffWorkers, OffLocals, OffQueue, OffLists
<1>2. QED
  BY <1>1

LEMMA ToSent ==
  ASSUME NEW b, OnlySent(b)'
  PROVE  BufferHolders(b)' = {SentPlace}
<1>1. \A x : x \in BufferHolders(b)' <=> x = SentPlace
  BY BufferAtPrime DEF OnlySent, OffWorkers, OffLocals, OffQueue, OffLists
<1>2. QED
  BY <1>1

LEMMA ToQueue ==
  ASSUME NEW b, NEW i, OnlyQueue(b, i)'
  PROVE  BufferHolders(b)' = {<<"session", i>>}
<1>1. \A x : x \in BufferHolders(b)' <=> x = <<"session", i>>
  BY BufferAtPrime DEF OnlyQueue, OffWorkers, OffLocals, OffQueue, OffLists
<1>2. QED
  BY <1>1

LEMMA ToClient ==
  ASSUME NEW b, OnlyClient(b)'
  PROVE  BufferHolders(b)' = {ClientPlace}
<1>1. \A x : x \in BufferHolders(b)' <=> x = ClientPlace
  BY BufferAtPrime DEF OnlyClient, OffWorkers, OffLocals, OffQueue, OffLists
<1>2. QED
  BY <1>1

LEMMA ToStranded ==
  ASSUME NEW b, OnlyStranded(b)'
  PROVE  BufferHolders(b)' = {StrandedPlace}
<1>1. \A x : x \in BufferHolders(b)' <=> x = StrandedPlace
  BY BufferAtPrime DEF OnlyStranded, OffWorkers, OffLocals, OffQueue, OffLists
<1>2. QED
  BY <1>1

(* A buffer stays where it is or moves from its one place to another.       *)
BufferStep(b) ==
  \/ BufferHolders(b)' = BufferHolders(b)
  \/ \E x, y \in BufferPlaces :
       x # y /\ BufferHolders(b) = {x} /\ BufferHolders(b)' = {y}

LEMMA PlacesAreOk ==
  /\ PoolPlace \in BufferPlaces /\ LogoutPlace \in BufferPlaces /\ SentPlace \in BufferPlaces
  /\ ClientPlace \in BufferPlaces /\ StrandedPlace \in BufferPlaces
  /\ \A w \in Workers : <<"decrypted", w>> \in BufferPlaces /\ <<"serialize", w>> \in BufferPlaces
  /\ \A i \in Nat : <<"session", i>> \in BufferPlaces
BY DEF PoolPlace, LogoutPlace, SentPlace, ClientPlace, StrandedPlace, BufferPlaces, Slots

LEMMA BufferStays ==
  ASSUME NEW b,
         b \in packet_pool' <=> b \in packet_pool,
         \A w \in Workers : decrypted_data'[w] = b <=> decrypted_data[w] = b,
         \A w \in Workers : Serialize_data'[w] = b <=> Serialize_data[w] = b,
         b = Logout_data' <=> b = Logout_data,
         \A i : i \in DOMAIN Queue' /\ Queue'[i] = b <=> i \in DOMAIN Queue /\ Queue[i] = b,
         b = sent_data' <=> b = sent_data,
         b \in send_queues' <=> b \in send_queues,
         b \in stranded' <=> b \in stranded
  PROVE  BufferStep(b)
<1>1. \A x : x \in BufferHolders(b)' <=> x \in BufferHolders(b)
  BY BufferAt, BufferAtPrime
<1>2. QED
  BY <1>1 DEF BufferStep

LEMMA BuffersUntouched ==
  ASSUME UNCHANGED <<packet_pool, decrypted_data, Serialize_data, Logout_data, Queue, sent_data,
                     send_queues, stranded>>, NEW b
  PROVE  BufferStep(b)
BY BufferStays


LEMMA SendMoves ==
  ASSUME TypeInv, BufferOnce, NEW q \in packet_pool, SendData_to_Sendque(q),
         packet_pool' = packet_pool \ {q},
         UNCHANGED <<decrypted_data, Serialize_data, Logout_data, Queue, sent_data>>,
         NEW b \in Buffers
  PROVE  BufferStep(b)
<1>1. \/ send_queues' = send_queues \cup {q} /\ stranded' = stranded
      \/ stranded' = stranded \cup {q} /\ send_queues' = send_queues
  BY DEF SendData_to_Sendque
<1>2. CASE b = q /\ send_queues' = send_queues \cup {q} /\ stranded' = stranded
  <2>1. OnlyPool(b) /\ BufferHolders(b) = {PoolPlace}
    BY <1>2, InPool
  <2>2. OnlyClient(b)'
    BY <1>1, <1>2, <2>1
       DEF OnlyPool, OnlyClient, OffWorkers, OffLocals, OffQueue, OffLists
  <2>3. BufferHolders(b)' = {ClientPlace}
    BY <2>2, ToClient
  <2>4. QED
    BY <2>1, <2>3, PlacesAreOk, PlaceSlots DEF BufferStep
<1>3. CASE b = q /\ stranded' = stranded \cup {q} /\ send_queues' = send_queues
  <2>1. OnlyPool(b) /\ BufferHolders(b) = {PoolPlace}
    BY <1>3, InPool
  <2>2. OnlyStranded(b)'
    BY <1>1, <1>3, <2>1
       DEF OnlyPool, OnlyStranded, OffWorkers, OffLocals, OffQueue, OffLists
  <2>3. BufferHolders(b)' = {StrandedPlace}
    BY <2>2, ToStranded
  <2>4. QED
    BY <2>1, <2>3, PlacesAreOk, PlaceSlots DEF BufferStep
<1>4. CASE b # q
  BY <1>1, <1>4, BufferStays
<1>5. QED
  BY <1>1, <1>2, <1>3, <1>4

LEMMA QueueAppended ==
  ASSUME TypeOK, NEW q \in Buffers, Queue' = Append(Queue, q), NEW b
  PROVE  \A i : i \in DOMAIN Queue' /\ Queue'[i] = b
                <=> (i \in DOMAIN Queue /\ Queue[i] = b) \/ (i = Len(Queue) + 1 /\ b = q)
<1>1. Queue \in Seq(Buffers)
  BY DEF TypeOK, Queue
<1>2. /\ DOMAIN Queue = 1..Len(Queue) /\ Len(Queue) \in Nat
      /\ DOMAIN Queue' = 1..(Len(Queue) + 1)
  BY <1>1
<1>3. Queue'[Len(Queue) + 1] = q
  BY <1>1
<1>4. \A i \in DOMAIN Queue : Queue'[i] = Queue[i]
  BY <1>1
<1>5. QED
  BY <1>2, <1>3, <1>4

LEMMA QueuePopped ==
  ASSUME TypeOK, Queue # <<>>, Queue' = Tail(Queue)
  PROVE  /\ Head(Queue) \in Buffers /\ 1 \in DOMAIN Queue /\ Head(Queue) = Queue[1]
         /\ \A i \in DOMAIN Queue' : /\ i \in Nat /\ i # 0 /\ i + 1 \in DOMAIN Queue
                                     /\ Queue'[i] = Queue[i + 1]
         /\ \A i \in DOMAIN Queue :
              i \in Nat /\ (i # 1 => i - 1 \in Nat /\ i - 1 \in DOMAIN Queue')
<1>1. Queue \in Seq(Buffers)
  BY DEF TypeOK, Queue
<1>2. /\ Head(Queue) \in Buffers /\ 1 \in DOMAIN Queue /\ Head(Queue) = Queue[1]
      /\ \A i \in DOMAIN Queue' : i \in Nat /\ i # 0 /\ i + 1 \in DOMAIN Queue
  BY <1>1
<1>3. \A i \in DOMAIN Queue' : Queue'[i] = Queue[i + 1]
  BY <1>1
<1>4. \A i \in DOMAIN Queue :
        i \in Nat /\ (i # 1 => i - 1 \in Nat /\ i - 1 \in DOMAIN Queue')
  BY <1>1
<1>5. QED
  BY <1>2, <1>3, <1>4

(* A worker acquires a buffer for decryption or for an answer.              *)
LEMMA HandleMoves ==
  ASSUME TypeInv, Idle, BufferOnce, NEW w \in Workers, Handle(w), NEW b \in Buffers
  PROVE  BufferStep(b)
<1> USE DEF TypeInv, TypeOK
<1>1. PICK q \in packet_pool : /\ packet_pool' = packet_pool \ {q}
                               /\ decrypted_data' = [decrypted_data EXCEPT ![w] = q]
  BY DEF Handle, Acquire
<1>2. /\ Serialize_data' = Serialize_data /\ Logout_data' = Logout_data /\ Queue' = Queue
      /\ sent_data' = sent_data /\ send_queues' = send_queues /\ stranded' = stranded
      /\ decrypted_data[w] = None /\ b # None
  BY PipelineAssumption
     DEF Handle, Step, Idle, WithPacket, WithDecrypted, recvVars, sendVars, outVars, Queue
<1>3. \A v \in Workers : decrypted_data'[v] = IF v = w THEN q ELSE decrypted_data[v]
  BY <1>1
<1>4. CASE b = q
  <2>1. OnlyPool(b) /\ BufferHolders(b) = {PoolPlace}
    BY <1>4, InPool
  <2>2. OnlyDecrypted(b, w)'
    BY <1>1, <1>2, <1>3, <1>4, <2>1
       DEF OnlyPool, OnlyDecrypted, OffWorkers, OffLocals, OffQueue, OffLists
  <2>3. BufferHolders(b)' = {<<"decrypted", w>>}
    BY <2>2, ToDecrypted
  <2>4. QED
    BY <2>1, <2>3, PlacesAreOk, PlaceSlots DEF BufferStep
<1>5. CASE b # q
  BY <1>1, <1>2, <1>3, <1>5, BufferStays
<1>6. QED
  BY <1>4, <1>5

LEMMA SerializeMoves ==
  ASSUME TypeInv, Idle, BufferOnce, NEW w \in Workers, TellSerialize(w) \/ ReplySerialize(w),
         NEW b \in Buffers
  PROVE  BufferStep(b)
<1> USE DEF TypeInv, TypeOK
<1>1. /\ decrypted_data' = decrypted_data /\ Logout_data' = Logout_data /\ Queue' = Queue
      /\ sent_data' = sent_data /\ send_queues' = send_queues /\ stranded' = stranded
      /\ Serialize_data[w] = None /\ b # None
  BY PipelineAssumption
     DEF TellSerialize, ReplySerialize, Step, Idle, recvVars, sendVars, outVars, Queue
<1>2. ASSUME NEW q \in packet_pool, packet_pool' = packet_pool \ {q},
             Serialize_data' = [Serialize_data EXCEPT ![w] = q]
      PROVE  BufferStep(b)
  <2>1. \A v \in Workers : Serialize_data'[v] = IF v = w THEN q ELSE Serialize_data[v]
    BY <1>2
  <2>2. CASE b = q
    <3>1. OnlyPool(b) /\ BufferHolders(b) = {PoolPlace}
      BY <2>2, InPool
    <3>2. OnlySerialize(b, w)'
      BY <1>1, <1>2, <2>1, <2>2, <3>1
         DEF OnlyPool, OnlySerialize, OffWorkers, OffLocals, OffQueue, OffLists
    <3>3. BufferHolders(b)' = {<<"serialize", w>>}
      BY <3>2, ToSerialize
    <3>4. QED
      BY <3>1, <3>3, PlacesAreOk, PlaceSlots DEF BufferStep
  <2>3. CASE b # q
    BY <1>1, <1>2, <2>1, <2>3, BufferStays
  <2>4. QED
    BY <2>2, <2>3
<1>3. CASE packet_pool' = packet_pool /\ Serialize_data' = Serialize_data
  BY <1>1, <1>3, BuffersUntouched
<1>4. QED
  BY <1>2, <1>3 DEF TellSerialize, ReplySerialize, Acquire

(* An answer is encrypted, and its plain form released.                     *)
LEMMA TellEncryptMoves ==
  ASSUME TypeInv, BufferOnce, NEW w \in Workers, TellEncrypt(w), NEW b \in Buffers
  PROVE  BufferStep(b)
<1> USE DEF TypeInv, TypeOK
<1>1. PICK q \in packet_pool :
        SendData_to_Sendque(q) /\ packet_pool' = (packet_pool \ {q}) \cup {Serialize_data[w]}
  BY DEF TellEncrypt
<1>2. /\ decrypted_data' = decrypted_data /\ Logout_data' = Logout_data /\ Queue' = Queue
      /\ sent_data' = sent_data /\ Serialize_data[w] \in Buffers /\ b # None
      /\ Serialize_data' = [Serialize_data EXCEPT ![w] = None]
  BY PipelineAssumption DEF TellEncrypt, Step, Held, recvVars, sendVars, Queue
<1>3. \/ send_queues' = send_queues \cup {q} /\ stranded' = stranded
      \/ stranded' = stranded \cup {q} /\ send_queues' = send_queues
  BY <1>1 DEF SendData_to_Sendque
<1>4. \A v \in Workers : Serialize_data'[v] = IF v = w THEN None ELSE Serialize_data[v]
  BY <1>2
<1>5. CASE b = q /\ send_queues' = send_queues \cup {q} /\ stranded' = stranded
  <2>1. OnlyPool(b) /\ BufferHolders(b) = {PoolPlace}
    BY <1>5, InPool
  <2>2. OnlyClient(b)'
    BY <1>1, <1>2, <1>4, <1>5, <2>1
       DEF OnlyPool, OnlyClient, OffWorkers, OffLocals, OffQueue, OffLists
  <2>3. BufferHolders(b)' = {ClientPlace}
    BY <2>2, ToClient
  <2>4. QED
    BY <2>1, <2>3, PlacesAreOk, PlaceSlots DEF BufferStep
<1>6. CASE b = q /\ stranded' = stranded \cup {q} /\ send_queues' = send_queues
  <2>1. OnlyPool(b) /\ BufferHolders(b) = {PoolPlace}
    BY <1>6, InPool
  <2>2. OnlyStranded(b)'
    BY <1>1, <1>2, <1>4, <1>6, <2>1
       DEF OnlyPool, OnlyStranded, OffWorkers, OffLocals, OffQueue, OffLists
  <2>3. BufferHolders(b)' = {StrandedPlace}
    BY <2>2, ToStranded
  <2>4. QED
    BY <2>1, <2>3, PlacesAreOk, PlaceSlots DEF BufferStep
<1>7. CASE b = Serialize_data[w] /\ b # q
  <2>1. OnlySerialize(b, w) /\ BufferHolders(b) = {<<"serialize", w>>}
    BY <1>7, InSerialize
  <2>2. OnlyPool(b)'
    BY <1>1, <1>2, <1>3, <1>4, <1>7, <2>1
       DEF OnlySerialize, OnlyPool, OffWorkers, OffLocals, OffQueue, OffLists
  <2>3. BufferHolders(b)' = {PoolPlace}
    BY <2>2, ToPool
  <2>4. QED
    BY <2>1, <2>3, PlacesAreOk, PlaceSlots DEF BufferStep
<1>8. CASE b # q /\ b # Serialize_data[w]
  BY <1>1, <1>2, <1>3, <1>4, <1>8, BufferStays
<1>9. QED
  BY <1>3, <1>5, <1>6, <1>7, <1>8

(* A copy is queued for the session server.                                 *)
LEMMA ForwardMoves ==
  ASSUME TypeInv, BufferOnce, NEW w \in Workers, Forward(w), NEW b \in Buffers
  PROVE  BufferStep(b)
<1> USE DEF TypeInv
<1>1. PICK q \in packet_pool :
        packet_pool' = packet_pool \ {q} /\ Queue' = Append(Queue, q)
  BY DEF Forward, Acquire, addToSessionServerQueue, Queue
<1>2. /\ decrypted_data' = decrypted_data /\ Serialize_data' = Serialize_data
      /\ Logout_data' = Logout_data /\ sent_data' = sent_data
      /\ send_queues' = send_queues /\ stranded' = stranded
  BY DEF Forward, recvVars
<1>3. q \in Buffers
  BY DEF TypeOK
<1>n. PICK n \in Nat : n = Len(Queue) + 1
  BY DEF TypeOK, Queue
<1>4. \A i : i \in DOMAIN Queue' /\ Queue'[i] = b
             <=> (i \in DOMAIN Queue /\ Queue[i] = b) \/ (i = n /\ b = q)
  BY <1>n, <1>1, <1>3, QueueAppended
<1>5. CASE b = q
  <2>1. OnlyPool(b) /\ BufferHolders(b) = {PoolPlace}
    BY <1>5, InPool
  <2>2. OnlyQueue(b, n)'
    BY <1>1, <1>2, <1>4, <1>5, <2>1
       DEF OnlyPool, OnlyQueue, OffWorkers, OffLocals, OffQueue, OffLists
  <2>3. BufferHolders(b)' = {<<"session", n>>}
    BY <2>2, ToQueue
  <2>4. QED
    BY <2>1, <2>3, PlacesAreOk, PlaceSlots DEF BufferStep
<1>6. CASE b # q
  BY <1>1, <1>2, <1>4, <1>6, BufferStays
<1>7. QED
  BY <1>5, <1>6

(* Logoutpacket.                                                            *)
LEMMA LogoutMoves ==
  ASSUME TypeInv, Idle, BufferOnce, LogoutSerialize \/ LogoutEncrypt, NEW b \in Buffers
  PROVE  BufferStep(b)
<1> USE DEF TypeInv
<1>1. /\ decrypted_data' = decrypted_data /\ Serialize_data' = Serialize_data
      /\ sent_data' = sent_data /\ b # None
      /\ send_queues' = send_queues /\ stranded' = stranded
  BY PipelineAssumption DEF LogoutSerialize, LogoutEncrypt, workerVars, sendVars, outVars
<1>2. CASE LogoutSerialize
  <2>1. PICK q \in packet_pool : packet_pool' = packet_pool \ {q} /\ Logout_data' = q
    BY <1>2 DEF LogoutSerialize, Acquire
  <2>2. Queue' = Queue /\ Logout_data = None
    BY <1>2 DEF LogoutSerialize, outVars, Idle, Queue
  <2>3. CASE b = q
    <3>1. OnlyPool(b) /\ BufferHolders(b) = {PoolPlace}
      BY <2>3, InPool
    <3>2. OnlyLogout(b)'
      BY <1>1, <2>1, <2>2, <2>3, <3>1
         DEF OnlyPool, OnlyLogout, OffWorkers, OffLocals, OffQueue, OffLists
    <3>3. BufferHolders(b)' = {LogoutPlace}
      BY <3>2, ToLogout
    <3>4. QED
      BY <3>1, <3>3, PlacesAreOk, PlaceSlots DEF BufferStep
  <2>4. CASE b # q
    BY <1>1, <2>1, <2>2, <2>4, BufferStays
  <2>5. QED
    BY <2>3, <2>4
<1>3. CASE LogoutEncrypt
  <2>1. PICK q \in packet_pool :
          /\ Queue' = Append(Queue, q)
          /\ packet_pool' = (packet_pool \ {q}) \cup {Logout_data}
    BY <1>3 DEF LogoutEncrypt, addToSessionServerQueue, Queue
  <2>2. Logout_data' = None /\ Logout_data \in Buffers
    BY <1>3 DEF LogoutEncrypt, Held
  <2>3. q \in Buffers
    BY DEF TypeOK
  <2>n. PICK n \in Nat : n = Len(Queue) + 1
    BY DEF TypeOK, Queue
  <2>4. \A i : i \in DOMAIN Queue' /\ Queue'[i] = b
               <=> (i \in DOMAIN Queue /\ Queue[i] = b) \/ (i = n /\ b = q)
    BY <2>n, <2>1, <2>3, QueueAppended
  <2>5. CASE b = q
    <3>1. OnlyPool(b) /\ BufferHolders(b) = {PoolPlace}
      BY <2>5, InPool
    <3>2. OnlyQueue(b, n)'
      BY <1>1, <2>1, <2>2, <2>4, <2>5, <3>1
         DEF OnlyPool, OnlyQueue, OffWorkers, OffLocals, OffQueue, OffLists
    <3>3. BufferHolders(b)' = {<<"session", n>>}
      BY <3>2, ToQueue
    <3>4. QED
      BY <3>1, <3>3, PlacesAreOk, PlaceSlots DEF BufferStep
  <2>6. CASE b = Logout_data /\ b # q
    <3>1. OnlyLogout(b) /\ BufferHolders(b) = {LogoutPlace}
      BY <2>6, InLogout
    <3>2. OnlyPool(b)'
      BY <1>1, <2>1, <2>2, <2>4, <2>6, <3>1
         DEF OnlyLogout, OnlyPool, OffWorkers, OffLocals, OffQueue, OffLists
    <3>3. BufferHolders(b)' = {PoolPlace}
      BY <3>2, ToPool
    <3>4. QED
      BY <3>1, <3>3, PlacesAreOk, PlaceSlots DEF BufferStep
  <2>7. CASE b # q /\ b # Logout_data
    BY <1>1, <2>1, <2>2, <2>4, <2>7, BufferStays
  <2>8. QED
    BY <2>5, <2>6, <2>7
<1>4. QED
  BY <1>2, <1>3

(* SendWoker takes the first buffer of the queue, and releases it when sent. *)
LEMMA SendPredicateMoves ==
  ASSUME TypeInv, Idle, BufferOnce, SendPredicate, NEW b \in Buffers
  PROVE  BufferStep(b)
<1> USE DEF TypeInv
<1>1. /\ decrypted_data' = decrypted_data /\ Serialize_data' = Serialize_data
      /\ Logout_data' = Logout_data /\ packet_pool' = packet_pool /\ b # None
      /\ send_queues' = send_queues /\ stranded' = stranded /\ sent_data = None
  BY PipelineAssumption DEF SendPredicate, workerVars, recvVars, poolVars, Idle
<1>2. CASE Queue # <<>>
  <2>1. sent_data' = Head(Queue) /\ Queue' = Tail(Queue)
    BY <1>2 DEF SendPredicate, Queue
  <2>2. Head(Queue) \in Buffers /\ 1 \in DOMAIN Queue /\ Head(Queue) = Queue[1]
    BY <1>2, <2>1, QueuePopped
  <2>3. \A i \in DOMAIN Queue' : /\ i \in Nat /\ i # 0 /\ i + 1 \in DOMAIN Queue
                                 /\ Queue'[i] = Queue[i + 1]
    BY <1>2, <2>1, QueuePopped
  <2>4. \A i \in DOMAIN Queue :
          i \in Nat /\ (i # 1 => i - 1 \in Nat /\ i - 1 \in DOMAIN Queue')
    BY <1>2, <2>1, QueuePopped
  <2>5. CASE b = Queue[1]
    <3>1. OnlyQueue(b, 1) /\ BufferHolders(b) = {<<"session", 1>>}
      BY <2>2, <2>5, InQueue
    <3>2. \A j \in DOMAIN Queue : Queue[j] = b => j = 1
      BY <3>1 DEF OnlyQueue
    <3>3. OffQueue(b)'
      <4>1. ASSUME NEW i \in DOMAIN Queue', Queue'[i] = b PROVE FALSE
        <5>1. i \in Nat /\ i # 0 /\ i + 1 = 1
          BY <2>3, <3>2, <4>1
        <5>2. QED
          BY <5>1
      <4>2. QED
        BY <4>1 DEF OffQueue
    <3>4. OnlySent(b)'
      BY <1>1, <2>1, <2>2, <2>5, <3>1, <3>3 DEF OnlyQueue, OnlySent, OffWorkers, OffLocals, OffLists
    <3>5. BufferHolders(b)' = {SentPlace}
      BY <3>4, ToSent
    <3>6. QED
      BY <3>1, <3>5, PlacesAreOk, PlaceSlots DEF BufferStep
  <2>6. ASSUME NEW i \in DOMAIN Queue, b = Queue[i], i # 1 PROVE BufferStep(b)
    <3>1. OnlyQueue(b, i) /\ BufferHolders(b) = {<<"session", i>>}
      BY <2>6, InQueue
    <3>2. \A j \in DOMAIN Queue : Queue[j] = b => j = i
      BY <3>1 DEF OnlyQueue
    <3>3. i \in Nat /\ i - 1 \in Nat /\ i - 1 \in DOMAIN Queue' /\ (i - 1) + 1 = i
      BY <2>4, <2>6
    <3>4. Queue'[i - 1] = b
      BY <2>3, <2>6, <3>3
    <3>5. ASSUME NEW j \in DOMAIN Queue', Queue'[j] = b PROVE j = i - 1
      <4>1. j \in Nat /\ j + 1 = i
        BY <2>3, <3>2, <3>5
      <4>2. QED
        BY <3>3, <4>1
    <3>6. b # Queue[1]
      BY <2>2, <2>6, <3>2
    <3>7. OnlyQueue(b, i - 1)'
      BY <1>1, <2>1, <2>2, <3>1, <3>3, <3>4, <3>5, <3>6
         DEF OnlyQueue, OffWorkers, OffLocals, OffLists
    <3>8. BufferHolders(b)' = {<<"session", i - 1>>}
      BY <3>7, ToQueue
    <3>9. QED
      BY <3>1, <3>3, <3>8, PlacesAreOk, PlaceSlots DEF BufferStep
  <2>7. CASE \A i \in DOMAIN Queue : b # Queue[i]
    <3>1. \A i \in DOMAIN Queue' : Queue'[i] # b
      BY <2>3, <2>7
    <3>2. b # Queue[1]
      BY <2>2, <2>7
    <3>3. QED
      BY <1>1, <2>1, <2>2, <2>7, <3>1, <3>2, BufferStays
  <2>8. QED
    BY <2>5, <2>6, <2>7
<1>3. CASE Queue = <<>>
  BY <1>1, <1>3, BuffersUntouched DEF SendPredicate, Queue
<1>4. QED
  BY <1>2, <1>3

LEMMA SendToSessionServerMoves ==
  ASSUME TypeInv, BufferOnce, SendToSessionServer, NEW b \in Buffers
  PROVE  BufferStep(b)
<1>1. /\ decrypted_data' = decrypted_data /\ Serialize_data' = Serialize_data
      /\ Logout_data' = Logout_data /\ Queue' = Queue /\ b # None
      /\ send_queues' = send_queues /\ stranded' = stranded
      /\ packet_pool' = packet_pool \cup {sent_data} /\ sent_data' = None
  BY PipelineAssumption DEF SendToSessionServer, workerVars, recvVars, outVars, Queue
<1>2. CASE b = sent_data
  <2>1. OnlySent(b) /\ BufferHolders(b) = {SentPlace}
    BY <1>2, InSent
  <2>2. OnlyPool(b)'
    BY <1>1, <1>2, <2>1
       DEF OnlySent, OnlyPool, OffWorkers, OffLocals, OffQueue, OffLists
  <2>3. BufferHolders(b)' = {PoolPlace}
    BY <2>2, ToPool
  <2>4. QED
    BY <2>1, <2>3, PlacesAreOk, PlaceSlots DEF BufferStep
<1>3. CASE b # sent_data
  BY <1>1, <1>3, BufferStays
<1>4. QED
  BY <1>2, <1>3

(* The network's sender and its reuse of numbers.                           *)
LEMMA ClientMoves ==
  ASSUME TypeInv, BufferOnce, NEW q \in Buffers, SendQueued(q) \/ NumberReused(q),
         NEW b \in Buffers
  PROVE  BufferStep(b)
<1>1. /\ decrypted_data' = decrypted_data /\ Serialize_data' = Serialize_data
      /\ Logout_data' = Logout_data /\ sent_data' = sent_data /\ Queue' = Queue
  BY DEF SendQueued, NumberReused, workerVars, recvVars, sendVars, Queue
<1>2. CASE SendQueued(q)
  <2>1. /\ packet_pool' = packet_pool \cup {q} /\ send_queues' = send_queues \ {q}
        /\ q \in send_queues /\ stranded' = stranded
    BY <1>2 DEF SendQueued
  <2>2. CASE b = q
    <3>1. OnlyClient(b) /\ BufferHolders(b) = {ClientPlace}
      BY <2>1, <2>2, InClient
    <3>2. OnlyPool(b)'
      BY <1>1, <2>1, <2>2, <3>1
         DEF OnlyClient, OnlyPool, OffWorkers, OffLocals, OffQueue, OffLists
    <3>3. BufferHolders(b)' = {PoolPlace}
      BY <3>2, ToPool
    <3>4. QED
      BY <3>1, <3>3, PlacesAreOk, PlaceSlots DEF BufferStep
  <2>3. CASE b # q
    BY <1>1, <2>1, <2>3, BufferStays
  <2>4. QED
    BY <2>2, <2>3
<1>3. CASE NumberReused(q)
  <2>1. /\ packet_pool' = packet_pool /\ send_queues' = send_queues \cup {q}
        /\ q \in stranded /\ stranded' = stranded \ {q}
    BY <1>3 DEF NumberReused, poolVars
  <2>2. CASE b = q
    <3>1. OnlyStranded(b) /\ BufferHolders(b) = {StrandedPlace}
      BY <2>1, <2>2, InStranded
    <3>2. OnlyClient(b)'
      BY <1>1, <2>1, <2>2, <3>1
         DEF OnlyStranded, OnlyClient, OffWorkers, OffLocals, OffQueue, OffLists
    <3>3. BufferHolders(b)' = {ClientPlace}
      BY <3>2, ToClient
    <3>4. QED
      BY <3>1, <3>3, PlacesAreOk, PlaceSlots DEF BufferStep
  <2>3. CASE b # q
    BY <1>1, <2>1, <2>3, BufferStays
  <2>4. QED
    BY <2>2, <2>3
<1>4. QED
  BY <1>2, <1>3

(* main releases what is left in the queues.                                *)
LEMMA LinkJoinedMoves ==
  ASSUME TypeInv, BufferOnce, LinkJoined, NEW b \in Buffers
  PROVE  BufferStep(b)
<1>1. /\ decrypted_data' = decrypted_data /\ Serialize_data' = Serialize_data
      /\ Logout_data' = Logout_data /\ sent_data' = sent_data
      /\ send_queues' = send_queues /\ stranded' = stranded
      /\ packet_pool' = packet_pool \cup {Queue[i] : i \in DOMAIN Queue} /\ Queue' = <<>>
  BY DEF LinkJoined, workerVars, recvVars, sendVars, Queue
<1>2. \A i : i \notin DOMAIN Queue'
  BY <1>1
<1>3. ASSUME NEW i \in DOMAIN Queue, b = Queue[i] PROVE BufferStep(b)
  <2>1. OnlyQueue(b, i) /\ BufferHolders(b) = {<<"session", i>>}
    BY <1>3, InQueue
  <2>2. b \in packet_pool'
    BY <1>1, <1>3
  <2>3. OnlyPool(b)'
    BY <1>1, <1>2, <2>1, <2>2 DEF OnlyQueue, OnlyPool, OffWorkers, OffLocals, OffQueue, OffLists
  <2>4. BufferHolders(b)' = {PoolPlace}
    BY <2>3, ToPool
  <2>5. i \in Nat
    BY DEF TypeInv, TypeOK, Queue
  <2>6. QED
    BY <2>1, <2>4, <2>5, PlacesAreOk, PlaceSlots DEF BufferStep
<1>4. CASE \A i \in DOMAIN Queue : b # Queue[i]
  BY <1>1, <1>2, <1>4, BufferStays
<1>5. QED
  BY <1>3, <1>4

LEMMA NetworkJoinedMoves ==
  ASSUME TypeInv, BufferOnce, NetworkJoined, NEW b \in Buffers
  PROVE  BufferStep(b)
<1>1. /\ decrypted_data' = decrypted_data /\ Serialize_data' = Serialize_data
      /\ Logout_data' = Logout_data /\ sent_data' = sent_data /\ Queue' = Queue
      /\ packet_pool' = packet_pool \cup send_queues \cup stranded
      /\ send_queues' = {} /\ stranded' = {}
  BY DEF NetworkJoined, workerVars, recvVars, sendVars, Queue
<1>2. CASE b \in send_queues
  <2>1. OnlyClient(b) /\ BufferHolders(b) = {ClientPlace}
    BY <1>2, InClient
  <2>2. OnlyPool(b)'
    BY <1>1, <1>2, <2>1
       DEF OnlyClient, OnlyPool, OffWorkers, OffLocals, OffQueue, OffLists
  <2>3. BufferHolders(b)' = {PoolPlace}
    BY <2>2, ToPool
  <2>4. QED
    BY <2>1, <2>3, PlacesAreOk, PlaceSlots DEF BufferStep
<1>3. CASE b \in stranded
  <2>1. OnlyStranded(b) /\ BufferHolders(b) = {StrandedPlace}
    BY <1>3, InStranded
  <2>2. OnlyPool(b)'
    BY <1>1, <1>3, <2>1
       DEF OnlyStranded, OnlyPool, OffWorkers, OffLocals, OffQueue, OffLists
  <2>3. BufferHolders(b)' = {PoolPlace}
    BY <2>2, ToPool
  <2>4. QED
    BY <2>1, <2>3, PlacesAreOk, PlaceSlots DEF BufferStep
<1>4. CASE b \notin send_queues /\ b \notin stranded
  BY <1>1, <1>4, BufferStays
<1>5. QED
  BY <1>2, <1>3, <1>4

(* The end of a packet: its buffer goes back, that of the answer is lost.   *)
LEMMA FinishMoves ==
  ASSUME TypeInv, BufferOnce, NEW w \in Workers, Finish(w), NEW b \in Buffers
  PROVE  /\ b = Serialize_data[w] =>
              BufferHolders(b) = {<<"serialize", w>>} /\ BufferHolders(b)' = {}
         /\ b # Serialize_data[w] => BufferStep(b)
<1> USE DEF TypeInv, TypeOK
<1>1. /\ Logout_data' = Logout_data /\ sent_data' = sent_data /\ Queue' = Queue
      /\ send_queues' = send_queues /\ stranded' = stranded /\ b # None
      /\ packet_pool' = packet_pool \cup {decrypted_data[w]}
      /\ decrypted_data' = [decrypted_data EXCEPT ![w] = None]
      /\ Serialize_data' = [Serialize_data EXCEPT ![w] = None]
  BY PipelineAssumption DEF Finish, recvVars, sendVars, outVars, Queue
<1>2. \A v \in Workers : /\ decrypted_data'[v] = IF v = w THEN None ELSE decrypted_data[v]
                         /\ Serialize_data'[v] = IF v = w THEN None ELSE Serialize_data[v]
  BY <1>1
<1>3. ASSUME b = Serialize_data[w]
      PROVE  BufferHolders(b) = {<<"serialize", w>>} /\ BufferHolders(b)' = {}
  <2>1. OnlySerialize(b, w) /\ BufferHolders(b) = {<<"serialize", w>>}
    BY <1>3, InSerialize
  <2>2. /\ b \notin packet_pool' /\ OffWorkers(b)' /\ OffLocals(b)' /\ OffQueue(b)'
        /\ OffLists(b)'
    BY <1>1, <1>2, <2>1 DEF OnlySerialize, OffWorkers, OffLocals, OffQueue, OffLists
  <2>3. \A x : x \notin BufferHolders(b)'
    BY <2>2, BufferAtPrime DEF OffWorkers, OffLocals, OffQueue, OffLists
  <2>4. QED
    BY <2>1, <2>3
<1>4. CASE b = decrypted_data[w] /\ b # Serialize_data[w]
  <2>1. OnlyDecrypted(b, w) /\ BufferHolders(b) = {<<"decrypted", w>>}
    BY <1>4, InDecrypted
  <2>2. OnlyPool(b)'
    BY <1>1, <1>2, <1>4, <2>1
       DEF OnlyDecrypted, OnlyPool, OffWorkers, OffLocals, OffQueue, OffLists
  <2>3. BufferHolders(b)' = {PoolPlace}
    BY <2>2, ToPool
  <2>4. QED
    BY <1>4, <2>1, <2>3, PlacesAreOk, PlaceSlots DEF BufferStep
<1>5. CASE b # decrypted_data[w] /\ b # Serialize_data[w]
  BY <1>1, <1>2, <1>5, BufferStays
<1>6. QED
  BY <1>3, <1>4, <1>5
-----------------------------------------------------------------------------
(* Every step, and the refinement of the pools *)

LEMMA IdleNext == TypeInv /\ Idle /\ [Next]_vars => Idle'
<1> SUFFICES ASSUME TypeInv, Idle, [Next]_vars PROVE Idle'
  OBVIOUS
<1> USE DEF TypeInv, TypeOK, Idle, WithPacket, WithDecrypted, workerVars, recvVars, linkVars,
            sendVars, outVars, poolVars, historyVars, Step, notify_one, notify_all, Asleep,
            addToSessionServerQueue
<1>1. ASSUME NEW w \in Workers, WorkerPredicate(w) PROVE Idle'
  BY <1>1 DEF WorkerPredicate
<1>2. ASSUME NEW w \in Workers, WorkerPark(w) PROVE Idle'
  BY <1>2 DEF WorkerPark
<1>3. ASSUME NEW w \in Workers, SpuriousWakeup(w) PROVE Idle'
  BY <1>3 DEF SpuriousWakeup
<1>4. ASSUME NEW w \in Workers, Handle(w) PROVE Idle'
  BY <1>4 DEF Handle
<1>5. ASSUME NEW w \in Workers, Copy(w) PROVE Idle'
  BY <1>5 DEF Copy
<1>6. ASSUME NEW w \in Workers, Forward(w) PROVE Idle'
  BY <1>6 DEF Forward
<1>7. ASSUME NEW w \in Workers, SendToDedicated(w) PROVE Idle'
  BY <1>7 DEF SendToDedicated
<1>8. ASSUME NEW w \in Workers, TellSerialize(w) PROVE Idle'
  BY <1>8 DEF TellSerialize
<1>9. ASSUME NEW w \in Workers, TellEncrypt(w) PROVE Idle'
  BY <1>9 DEF TellEncrypt
<1>10. ASSUME NEW w \in Workers, ReplySerialize(w) PROVE Idle'
  BY <1>10 DEF ReplySerialize
<1>11. ASSUME NEW w \in Workers, ReplyEncrypt(w) PROVE Idle'
  BY <1>11 DEF ReplyEncrypt
<1>12. ASSUME NEW w \in Workers, Finish(w) PROVE Idle'
  BY <1>12 DEF Finish
<1>13. CASE RecvPoll
  BY <1>13 DEF RecvPoll
<1>14. CASE RecvAcquire
  BY <1>14 DEF RecvAcquire
<1>15. CASE RecvPush
  BY <1>15 DEF RecvPush
<1>16. CASE RecvNotify
  BY <1>16 DEF RecvNotify
<1>17. CASE RecvNothing
  BY <1>17 DEF RecvNothing
<1>18. CASE LogoutSerialize
  BY <1>18 DEF LogoutSerialize
<1>19. CASE LogoutEncrypt
  BY <1>19 DEF LogoutEncrypt
<1>20. CASE LinkLoop
  BY <1>20 DEF LinkLoop
<1>21. CASE LinkAcquire
  BY <1>21 DEF LinkAcquire
<1>22. CASE LinkPush
  BY <1>22 DEF LinkPush
<1>23. CASE LinkNotify
  BY <1>23 DEF LinkNotify
<1>24. CASE LinkTimeout
  BY <1>24 DEF LinkTimeout
<1>25. CASE SendLoop
  BY <1>25 DEF SendLoop
<1>26. CASE SendPredicate
  BY <1>26 DEF SendPredicate
<1>27. CASE SendPark
  BY <1>27 DEF SendPark
<1>28. CASE SendToSessionServer
  BY <1>28 DEF SendToSessionServer
<1>29. CASE HeartbeatDue
  BY <1>29 DEF HeartbeatDue
<1>30. CASE HeartbeatSend
  BY <1>30 DEF HeartbeatSend
<1>31. CASE StopLink
  BY <1>31 DEF StopLink
<1>32. CASE LinkJoined
  BY <1>32 DEF LinkJoined
<1>33. CASE NetworkJoined
  BY <1>33 DEF NetworkJoined
<1>34. CASE StopRoutine
  BY <1>34 DEF StopRoutine
<1>35. CASE RoutineJoined
  BY <1>35 DEF RoutineJoined
<1>36. ASSUME NEW b \in Buffers, SendQueued(b) PROVE Idle'
  BY <1>36 DEF SendQueued
<1>37. ASSUME NEW b \in Buffers, NumberReused(b) PROVE Idle'
  BY <1>37 DEF NumberReused
<1>38. CASE UNCHANGED vars
  BY <1>38 DEF vars
<1>39. QED
  BY <1>1, <1>2, <1>3, <1>4, <1>5, <1>6, <1>7, <1>8, <1>9, <1>10, <1>11, <1>12, <1>13, <1>14, <1>15, <1>16, <1>17, <1>18, <1>19, <1>20, <1>21, <1>22, <1>23, <1>24, <1>25, <1>26, <1>27, <1>28, <1>29, <1>30, <1>31, <1>32, <1>33, <1>34, <1>35, <1>36, <1>37, <1>38
     DEF Next, Work, recvWorkerThread, RecvWorker, SendWoker, HeatbeatWoker, Join

(* What a step does to all packets: each stays or moves, or the link's      *)
(* timeout drops one and counts it.                                         *)
PacketsKept == timeouts' = timeouts /\ \A p \in ClientPackets : PacketStep(p)
PacketDropped(q) ==
  /\ timeouts' = timeouts + 1
  /\ PacketHolders(q) = {<<"link", None>>} /\ PacketHolders(q)' = {}
  /\ \A p \in ClientPackets \ {q} : PacketStep(p)
PacketsMove == PacketsKept \/ \E q \in ClientPackets : PacketDropped(q)

LEMMA PacketsNext == TypeInv /\ Idle /\ PacketOnce /\ [Next]_vars => PacketsMove
<1> SUFFICES ASSUME TypeInv, Idle, PacketOnce, [Next]_vars PROVE PacketsMove
  OBVIOUS
<1> USE DEF workerVars, recvVars, linkVars, sendVars, outVars, poolVars, historyVars
<1>1. ASSUME NEW w \in Workers, WorkerPredicate(w) PROVE PacketsMove
  BY <1>1, WorkerPacketMoves DEF WorkerPredicate, PacketsMove, PacketsKept
<1>2. ASSUME NEW w \in Workers, WorkerPark(w) PROVE PacketsMove
  BY <1>2, PacketsUntouched DEF WorkerPark, PacketsMove, PacketsKept
<1>3. ASSUME NEW w \in Workers, SpuriousWakeup(w) PROVE PacketsMove
  BY <1>3, PacketsUntouched DEF SpuriousWakeup, PacketsMove, PacketsKept
<1>4. ASSUME NEW w \in Workers, Handle(w) PROVE PacketsMove
  BY <1>4, PacketsUntouched DEF Handle, PacketsMove, PacketsKept
<1>5. ASSUME NEW w \in Workers, Copy(w) PROVE PacketsMove
  BY <1>5, PacketsUntouched DEF Copy, PacketsMove, PacketsKept
<1>6. ASSUME NEW w \in Workers, Forward(w) PROVE PacketsMove
  BY <1>6, PacketsUntouched DEF Forward, PacketsMove, PacketsKept
<1>7. ASSUME NEW w \in Workers, SendToDedicated(w) PROVE PacketsMove
  BY <1>7, PacketsUntouched DEF SendToDedicated, PacketsMove, PacketsKept
<1>8. ASSUME NEW w \in Workers, TellSerialize(w) PROVE PacketsMove
  BY <1>8, PacketsUntouched DEF TellSerialize, PacketsMove, PacketsKept
<1>9. ASSUME NEW w \in Workers, TellEncrypt(w) PROVE PacketsMove
  BY <1>9, PacketsUntouched DEF TellEncrypt, PacketsMove, PacketsKept
<1>10. ASSUME NEW w \in Workers, ReplySerialize(w) PROVE PacketsMove
  BY <1>10, PacketsUntouched DEF ReplySerialize, PacketsMove, PacketsKept
<1>11. ASSUME NEW w \in Workers, ReplyEncrypt(w) PROVE PacketsMove
  BY <1>11, PacketsUntouched DEF ReplyEncrypt, PacketsMove, PacketsKept
<1>12. ASSUME NEW w \in Workers, Finish(w) PROVE PacketsMove
  BY <1>12, WorkerPacketMoves DEF Finish, PacketsMove, PacketsKept
<1>13. CASE RecvPoll
  BY <1>13, PacketsUntouched DEF RecvPoll, PacketsMove, PacketsKept
<1>14. CASE RecvAcquire
  BY <1>14, RecvPacketMoves DEF RecvAcquire, PacketsMove, PacketsKept
<1>15. CASE RecvPush
  BY <1>15, RecvPacketMoves DEF RecvPush, PacketsMove, PacketsKept
<1>16. CASE RecvNotify
  BY <1>16, PacketsUntouched DEF RecvNotify, PacketsMove, PacketsKept
<1>17. CASE RecvNothing
  BY <1>17, RecvPacketMoves DEF RecvNothing, PacketsMove, PacketsKept
<1>18. CASE LogoutSerialize
  BY <1>18, PacketsUntouched DEF LogoutSerialize, PacketsMove, PacketsKept
<1>19. CASE LogoutEncrypt
  BY <1>19, PacketsUntouched DEF LogoutEncrypt, PacketsMove, PacketsKept
<1>20. CASE LinkLoop
  BY <1>20, PacketsUntouched DEF LinkLoop, PacketsMove, PacketsKept
<1>21. CASE LinkAcquire
  BY <1>21, LinkPacketMoves DEF LinkAcquire, PacketsMove, PacketsKept
<1>22. CASE LinkPush
  BY <1>22, LinkPacketMoves DEF LinkPush, PacketsMove, PacketsKept
<1>23. CASE LinkNotify
  BY <1>23, PacketsUntouched DEF LinkNotify, PacketsMove, PacketsKept
<1>24. CASE LinkTimeout
  <2>1. Lpacket \in ClientPackets /\ timeouts' = timeouts + 1
    BY <1>24 DEF LinkTimeout, TypeInv, Held
  <2>2. PICK q \in ClientPackets : q = Lpacket
    BY <2>1
  <2>3. PacketDropped(q)
    BY <1>24, <2>1, <2>2, LinkTimeoutDrops DEF PacketDropped
  <2>4. QED
    BY <2>3 DEF PacketsMove
<1>25. CASE SendLoop
  BY <1>25, PacketsUntouched DEF SendLoop, PacketsMove, PacketsKept
<1>26. CASE SendPredicate
  BY <1>26, PacketsUntouched DEF SendPredicate, PacketsMove, PacketsKept
<1>27. CASE SendPark
  BY <1>27, PacketsUntouched DEF SendPark, PacketsMove, PacketsKept
<1>28. CASE SendToSessionServer
  BY <1>28, PacketsUntouched DEF SendToSessionServer, PacketsMove, PacketsKept
<1>29. CASE HeartbeatDue
  BY <1>29, PacketsUntouched DEF HeartbeatDue, PacketsMove, PacketsKept
<1>30. CASE HeartbeatSend
  BY <1>30, PacketsUntouched DEF HeartbeatSend, PacketsMove, PacketsKept
<1>31. CASE StopLink
  BY <1>31, PacketsUntouched DEF StopLink, PacketsMove, PacketsKept
<1>32. CASE LinkJoined
  BY <1>32, PacketsUntouched DEF LinkJoined, PacketsMove, PacketsKept
<1>33. CASE NetworkJoined
  BY <1>33, PacketsUntouched DEF NetworkJoined, PacketsMove, PacketsKept
<1>34. CASE StopRoutine
  BY <1>34, PacketsUntouched DEF StopRoutine, PacketsMove, PacketsKept
<1>35. CASE RoutineJoined
  BY <1>35, RoutineJoinedMoves DEF RoutineJoined, PacketsMove, PacketsKept
<1>36. ASSUME NEW b \in Buffers, SendQueued(b) PROVE PacketsMove
  BY <1>36, PacketsUntouched DEF SendQueued, PacketsMove, PacketsKept
<1>37. ASSUME NEW b \in Buffers, NumberReused(b) PROVE PacketsMove
  BY <1>37, PacketsUntouched DEF NumberReused, PacketsMove, PacketsKept
<1>38. CASE UNCHANGED vars
  BY <1>38, PacketsUntouched DEF vars, PacketsMove, PacketsKept
<1>39. QED
  BY <1>1, <1>2, <1>3, <1>4, <1>5, <1>6, <1>7, <1>8, <1>9, <1>10, <1>11, <1>12, <1>13, <1>14, <1>15, <1>16, <1>17, <1>18, <1>19, <1>20, <1>21, <1>22, <1>23, <1>24, <1>25, <1>26, <1>27, <1>28, <1>29, <1>30, <1>31, <1>32, <1>33, <1>34, <1>35, <1>36, <1>37, <1>38
     DEF Next, Work, recvWorkerThread, RecvWorker, SendWoker, HeatbeatWoker, Join

(* The same of all buffers, of which Finish drops that of an answer.        *)
BuffersKept == replies' = replies /\ \A b \in Buffers : BufferStep(b)
BufferDropped(q) ==
  /\ replies' = replies + 1
  /\ \E w \in Workers : BufferHolders(q) = {<<"serialize", w>>}
  /\ BufferHolders(q)' = {}
  /\ \A b \in Buffers \ {q} : BufferStep(b)
BuffersMove == BuffersKept \/ \E q \in Buffers : BufferDropped(q)

LEMMA BuffersNext == TypeInv /\ Idle /\ BufferOnce /\ [Next]_vars => BuffersMove
<1> SUFFICES ASSUME TypeInv, Idle, BufferOnce, [Next]_vars PROVE BuffersMove
  OBVIOUS
<1> USE DEF workerVars, recvVars, linkVars, sendVars, outVars, poolVars, historyVars
<1>1. ASSUME NEW w \in Workers, WorkerPredicate(w) PROVE BuffersMove
  BY <1>1, BuffersUntouched DEF WorkerPredicate, Queue, BuffersMove, BuffersKept
<1>2. ASSUME NEW w \in Workers, WorkerPark(w) PROVE BuffersMove
  BY <1>2, BuffersUntouched DEF WorkerPark, Queue, BuffersMove, BuffersKept
<1>3. ASSUME NEW w \in Workers, SpuriousWakeup(w) PROVE BuffersMove
  BY <1>3, BuffersUntouched DEF SpuriousWakeup, Queue, BuffersMove, BuffersKept
<1>4. ASSUME NEW w \in Workers, Handle(w) PROVE BuffersMove
  BY <1>4, HandleMoves DEF Handle, BuffersMove, BuffersKept
<1>5. ASSUME NEW w \in Workers, Copy(w) PROVE BuffersMove
  <2>1. PICK q \in packet_pool : SendData_to_Sendque(q) /\ packet_pool' = packet_pool \ {q}
    BY <1>5 DEF Copy, Acquire
  <2>2. /\ replies' = replies
        /\ UNCHANGED <<decrypted_data, Serialize_data, Logout_data, Queue, sent_data>>
    BY <1>5 DEF Copy, Queue
  <2>3. QED
    BY <2>1, <2>2, SendMoves DEF BuffersMove, BuffersKept
<1>6. ASSUME NEW w \in Workers, Forward(w) PROVE BuffersMove
  BY <1>6, ForwardMoves DEF Forward, BuffersMove, BuffersKept
<1>7. ASSUME NEW w \in Workers, SendToDedicated(w) PROVE BuffersMove
  <2>1. PICK q \in packet_pool : SendData_to_Sendque(q) /\ packet_pool' = packet_pool \ {q}
    BY <1>7 DEF SendToDedicated, Acquire
  <2>2. /\ replies' = replies
        /\ UNCHANGED <<decrypted_data, Serialize_data, Logout_data, Queue, sent_data>>
    BY <1>7 DEF SendToDedicated, Queue
  <2>3. QED
    BY <2>1, <2>2, SendMoves DEF BuffersMove, BuffersKept
<1>8. ASSUME NEW w \in Workers, TellSerialize(w) PROVE BuffersMove
  BY <1>8, SerializeMoves DEF TellSerialize, BuffersMove, BuffersKept
<1>9. ASSUME NEW w \in Workers, TellEncrypt(w) PROVE BuffersMove
  BY <1>9, TellEncryptMoves DEF TellEncrypt, BuffersMove, BuffersKept
<1>10. ASSUME NEW w \in Workers, ReplySerialize(w) PROVE BuffersMove
  BY <1>10, SerializeMoves DEF ReplySerialize, BuffersMove, BuffersKept
<1>11. ASSUME NEW w \in Workers, ReplyEncrypt(w) PROVE BuffersMove
  <2>1. PICK q \in packet_pool : SendData_to_Sendque(q) /\ packet_pool' = packet_pool \ {q}
    BY <1>11 DEF ReplyEncrypt, Acquire
  <2>2. /\ replies' = replies
        /\ UNCHANGED <<decrypted_data, Serialize_data, Logout_data, Queue, sent_data>>
    BY <1>11 DEF ReplyEncrypt, Queue
  <2>3. QED
    BY <2>1, <2>2, SendMoves DEF BuffersMove, BuffersKept
<1>12. ASSUME NEW w \in Workers, Finish(w) PROVE BuffersMove
  <2>1. replies' = IF Serialize_data[w] = None THEN replies ELSE replies + 1
    BY <1>12 DEF Finish
  <2>2. CASE Serialize_data[w] = None
    <3>1. \A b \in Buffers : b # Serialize_data[w]
      BY <2>2, PipelineAssumption
    <3>2. QED
      BY <1>12, <2>1, <2>2, <3>1, FinishMoves DEF BuffersMove, BuffersKept
  <2>3. ASSUME NEW q \in Buffers, q = Serialize_data[w] PROVE BuffersMove
    <3>1. replies' = replies + 1
      BY <2>1, <2>3, PipelineAssumption
    <3>2. /\ BufferHolders(q) = {<<"serialize", w>>} /\ BufferHolders(q)' = {}
          /\ \A b \in Buffers \ {q} : BufferStep(b)
      BY <1>12, <2>3, FinishMoves
    <3>3. BufferDropped(q)
      BY <3>1, <3>2 DEF BufferDropped
    <3>4. QED
      BY <3>3 DEF BuffersMove
  <2>4. QED
    BY <2>2, <2>3 DEF TypeInv, TypeOK
<1>13. CASE RecvPoll
  BY <1>13, BuffersUntouched DEF RecvPoll, Queue, BuffersMove, BuffersKept
<1>14. CASE RecvAcquire
  BY <1>14, BuffersUntouched DEF RecvAcquire, Queue, BuffersMove, BuffersKept
<1>15. CASE RecvPush
  BY <1>15, BuffersUntouched DEF RecvPush, Queue, BuffersMove, BuffersKept
<1>16. CASE RecvNotify
  BY <1>16, BuffersUntouched DEF RecvNotify, Queue, BuffersMove, BuffersKept
<1>17. CASE RecvNothing
  BY <1>17, BuffersUntouched DEF RecvNothing, Queue, BuffersMove, BuffersKept
<1>18. CASE LogoutSerialize
  BY <1>18, LogoutMoves DEF LogoutSerialize, BuffersMove, BuffersKept
<1>19. CASE LogoutEncrypt
  BY <1>19, LogoutMoves DEF LogoutEncrypt, BuffersMove, BuffersKept
<1>20. CASE LinkLoop
  BY <1>20, BuffersUntouched DEF LinkLoop, Queue, BuffersMove, BuffersKept
<1>21. CASE LinkAcquire
  BY <1>21, BuffersUntouched DEF LinkAcquire, Queue, BuffersMove, BuffersKept
<1>22. CASE LinkPush
  BY <1>22, BuffersUntouched DEF LinkPush, Queue, BuffersMove, BuffersKept
<1>23. CASE LinkNotify
  BY <1>23, BuffersUntouched DEF LinkNotify, Queue, BuffersMove, BuffersKept
<1>24. CASE LinkTimeout
  BY <1>24, BuffersUntouched DEF LinkTimeout, Queue, BuffersMove, BuffersKept
<1>25. CASE SendLoop
  BY <1>25, BuffersUntouched DEF SendLoop, Queue, BuffersMove, BuffersKept
<1>26. CASE SendPredicate
  BY <1>26, SendPredicateMoves DEF SendPredicate, BuffersMove, BuffersKept
<1>27. CASE SendPark
  BY <1>27, BuffersUntouched DEF SendPark, Queue, BuffersMove, BuffersKept
<1>28. CASE SendToSessionServer
  BY <1>28, SendToSessionServerMoves DEF SendToSessionServer, BuffersMove, BuffersKept
<1>29. CASE HeartbeatDue
  BY <1>29, BuffersUntouched DEF HeartbeatDue, Queue, BuffersMove, BuffersKept
<1>30. CASE HeartbeatSend
  <2>1. PICK q \in packet_pool : SendData_to_Sendque(q) /\ packet_pool' = packet_pool \ {q}
    BY <1>30 DEF HeartbeatSend, Acquire
  <2>2. /\ replies' = replies
        /\ UNCHANGED <<decrypted_data, Serialize_data, Logout_data, Queue, sent_data>>
    BY <1>30 DEF HeartbeatSend, Queue
  <2>3. QED
    BY <2>1, <2>2, SendMoves DEF BuffersMove, BuffersKept
<1>31. CASE StopLink
  BY <1>31, BuffersUntouched DEF StopLink, Queue, BuffersMove, BuffersKept
<1>32. CASE LinkJoined
  BY <1>32, LinkJoinedMoves DEF LinkJoined, BuffersMove, BuffersKept
<1>33. CASE NetworkJoined
  BY <1>33, NetworkJoinedMoves DEF NetworkJoined, BuffersMove, BuffersKept
<1>34. CASE StopRoutine
  BY <1>34, BuffersUntouched DEF StopRoutine, Queue, BuffersMove, BuffersKept
<1>35. CASE RoutineJoined
  BY <1>35, BuffersUntouched DEF RoutineJoined, Queue, BuffersMove, BuffersKept
<1>36. ASSUME NEW b \in Buffers, SendQueued(b) PROVE BuffersMove
  BY <1>36, ClientMoves DEF SendQueued, BuffersMove, BuffersKept
<1>37. ASSUME NEW b \in Buffers, NumberReused(b) PROVE BuffersMove
  BY <1>37, ClientMoves DEF NumberReused, BuffersMove, BuffersKept
<1>38. CASE UNCHANGED vars
  BY <1>38, BuffersUntouched DEF vars, Queue, BuffersMove, BuffersKept
<1>39. QED
  BY <1>1, <1>2, <1>3, <1>4, <1>5, <1>6, <1>7, <1>8, <1>9, <1>10, <1>11, <1>12, <1>13, <1>14, <1>15, <1>16, <1>17, <1>18, <1>19, <1>20, <1>21, <1>22, <1>23, <1>24, <1>25, <1>26, <1>27, <1>28, <1>29, <1>30, <1>31, <1>32, <1>33, <1>34, <1>35, <1>36, <1>37, <1>38
     DEF Next, Work, recvWorkerThread, RecvWorker, SendWoker, HeatbeatWoker, Join

(* In the pools' own terms.                                                 *)
LEMMA PacketStepMoves ==
  ASSUME NEW p, PacketStep(p)
  PROVE  \/ PacketHolders(p)' = PacketHolders(p)
         \/ PacketPool!Moves(PacketHolders(p), PacketHolders(p)')
<1>1. ASSUME NEW x \in PacketPlaces, NEW y \in PacketPlaces, x # y,
             PacketHolders(p) = {x}, PacketHolders(p)' = {y}
      PROVE  PacketPool!Moves(PacketHolders(p), PacketHolders(p)')
  BY <1>1 DEF PacketPool!Moves
<1>2. QED
  BY <1>1 DEF PacketStep

LEMMA BufferStepMoves ==
  ASSUME NEW b, BufferStep(b)
  PROVE  \/ BufferHolders(b)' = BufferHolders(b)
         \/ BufferPool!Moves(BufferHolders(b), BufferHolders(b)')
<1>1. ASSUME NEW x \in BufferPlaces, NEW y \in BufferPlaces, x # y,
             BufferHolders(b) = {x}, BufferHolders(b)' = {y}
      PROVE  BufferPool!Moves(BufferHolders(b), BufferHolders(b)')
  BY <1>1 DEF BufferPool!Moves
<1>2. QED
  BY <1>1 DEF BufferStep

(* Pointers are kept in the places the pools know.                          *)
Placed ==
  /\ \A p \in ClientPackets : PacketHolders(p) \subseteq PacketPlaces
  /\ \A b \in Buffers : BufferHolders(b) \subseteq BufferPlaces

PoolInv == Idle /\ PacketOnce /\ BufferOnce /\ Placed

LEMMA InitPlaces ==
  Init => /\ \A p \in ClientPackets : PacketHolders(p) = {PoolPlace}
          /\ \A b \in Buffers : BufferHolders(b) = {PoolPlace}
<1> SUFFICES ASSUME Init
             PROVE  /\ \A p \in ClientPackets : PacketHolders(p) = {PoolPlace}
                    /\ \A b \in Buffers : BufferHolders(b) = {PoolPlace}
  OBVIOUS
<1> USE PipelineAssumption DEF Init
<1>1. ASSUME NEW p \in ClientPackets PROVE PacketHolders(p) = {PoolPlace}
  <2>1. \A x : x \in PacketHolders(p) <=> x = PoolPlace
    BY PacketAt
  <2>2. QED
    BY <2>1
<1>2. ASSUME NEW b \in Buffers PROVE BufferHolders(b) = {PoolPlace}
  <2>1. \A x : x \in BufferHolders(b) <=> x = PoolPlace
    BY BufferAt DEF Queue
  <2>2. QED
    BY <2>1
<1>3. QED
  BY <1>1, <1>2

LEMMA PoolInvInit == Init => PoolInv
<1> SUFFICES ASSUME Init PROVE PoolInv
  OBVIOUS
<1>1. Idle
  BY DEF Init, Idle, WithPacket, WithDecrypted
<1>2. PacketOnce /\ BufferOnce
  BY InitPlaces DEF PacketOnce, BufferOnce
<1>3. PoolPlace \in PacketPlaces /\ PoolPlace \in BufferPlaces
  BY PlacesAreOk DEF PoolPlace, PacketPlaces
<1>4. Placed
  BY <1>3, InitPlaces DEF Placed
<1>5. QED
  BY <1>1, <1>2, <1>4 DEF PoolInv

LEMMA PoolInvNext == TypeInv /\ PoolInv /\ [Next]_vars => PoolInv'
<1> SUFFICES ASSUME TypeInv, PoolInv, [Next]_vars PROVE PoolInv'
  OBVIOUS
<1>1. Idle'
  BY IdleNext DEF PoolInv
<1>2. ASSUME NEW p \in ClientPackets
      PROVE  /\ \A x, y \in PacketHolders(p)' : x = y
             /\ PacketHolders(p)' \subseteq PacketPlaces
  <2>1. PacketStep(p) \/ PacketHolders(p)' = {}
    BY PacketsNext DEF PoolInv, PacketsMove, PacketsKept, PacketDropped
  <2>2. QED
    BY <2>1 DEF PacketStep, PoolInv, PacketOnce, Placed
<1>3. ASSUME NEW b \in Buffers
      PROVE  /\ \A x, y \in BufferHolders(b)' : x = y
             /\ BufferHolders(b)' \subseteq BufferPlaces
  <2>1. BufferStep(b) \/ BufferHolders(b)' = {}
    BY BuffersNext DEF PoolInv, BuffersMove, BuffersKept, BufferDropped
  <2>2. QED
    BY <2>1 DEF BufferStep, PoolInv, BufferOnce, Placed
<1>4. QED
  BY <1>1, <1>2, <1>3 DEF PoolInv, PacketOnce, BufferOnce, Placed

THEOREM PoolInvariance == Spec => [](TypeInv /\ PoolInv)
<1>1. Init => TypeInv /\ PoolInv
  BY TypeInvInit, PoolInvInit
<1>2. TypeInv /\ PoolInv /\ [Next]_vars => (TypeInv /\ PoolInv)'
  BY TypeInvNext, PoolInvNext
<1>3. QED
  BY <1>1, <1>2, PTL DEF Spec

LEMMA PacketPoolInit == Init => PacketPool!Init
<1> SUFFICES ASSUME Init PROVE PacketPool!Init
  OBVIOUS
<1>1. \A p \in ClientPackets : PacketHolders(p) = {PoolPlace}
  BY InitPlaces
<1>2. QED
  BY <1>1 DEF PacketPool!Init, PoolPlace

LEMMA BufferPoolInit == Init => BufferPool!Init
<1> SUFFICES ASSUME Init PROVE BufferPool!Init
  OBVIOUS
<1>1. \A b \in Buffers : BufferHolders(b) = {PoolPlace}
  BY InitPlaces
<1>2. QED
  BY <1>1 DEF BufferPool!Init, PoolPlace

LEMMA PacketPoolNext ==
  TypeInv /\ PoolInv /\ PoolInv' /\ [Next]_vars => PacketPool!Next
<1> SUFFICES ASSUME TypeInv, PoolInv, PoolInv', [Next]_vars PROVE PacketPool!Next
  OBVIOUS
<1>1. \A p \in ClientPackets : PacketHolders(p)' \in SUBSET PacketPlaces
  BY DEF PoolInv, Placed
<1>2. ASSUME NEW p \in ClientPackets
      PROVE  \/ PacketHolders(p)' = PacketHolders(p)
             \/ PacketPool!Moves(PacketHolders(p), PacketHolders(p)')
             \/ PacketPool!Leaks(PacketHolders(p), PacketHolders(p)')
  <2>1. CASE PacketStep(p)
    BY <2>1, PacketStepMoves
  <2>2. CASE PacketHolders(p) = {<<"link", None>>} /\ PacketHolders(p)' = {}
    <3>1. <<"link", None>> # <<"pool", None>>
      OBVIOUS
    <3>2. QED
      BY <2>2, <3>1 DEF PacketPool!Leaks
  <2>3. QED
    BY <2>1, <2>2, PacketsNext DEF PoolInv, PacketsMove, PacketsKept, PacketDropped
<1>3. QED
  BY <1>1, <1>2 DEF PacketPool!Next

LEMMA BufferPoolNext ==
  TypeInv /\ PoolInv /\ PoolInv' /\ [Next]_vars => BufferPool!Next
<1> SUFFICES ASSUME TypeInv, PoolInv, PoolInv', [Next]_vars PROVE BufferPool!Next
  OBVIOUS
<1>1. \A b \in Buffers : BufferHolders(b)' \in SUBSET BufferPlaces
  BY DEF PoolInv, Placed
<1>2. ASSUME NEW b \in Buffers
      PROVE  \/ BufferHolders(b)' = BufferHolders(b)
             \/ BufferPool!Moves(BufferHolders(b), BufferHolders(b)')
             \/ BufferPool!Leaks(BufferHolders(b), BufferHolders(b)')
  <2>1. CASE BufferStep(b)
    BY <2>1, BufferStepMoves
  <2>2. ASSUME NEW w \in Workers, BufferHolders(b) = {<<"serialize", w>>},
               BufferHolders(b)' = {}
        PROVE  BufferPool!Leaks(BufferHolders(b), BufferHolders(b)')
    <3>1. <<"serialize", w>> # <<"pool", None>>
      OBVIOUS
    <3>2. QED
      BY <2>2, <3>1 DEF BufferPool!Leaks
  <2>3. QED
    BY <2>1, <2>2, BuffersNext DEF PoolInv, BuffersMove, BuffersKept, BufferDropped
<1>3. QED
  BY <1>1, <1>2 DEF BufferPool!Next

(* The pipeline keeps the promise of both pools: whatever the threads do,   *)
(* no buffer and no packet is in two places.                                *)
THEOREM PoolsImplemented == Spec => HeldOnce
<1>1. Init => PacketPool!Init /\ BufferPool!Init
  BY PacketPoolInit, BufferPoolInit
<1>2. TypeInv /\ PoolInv /\ (TypeInv /\ PoolInv)' /\ [Next]_vars
        => PacketPool!Next /\ BufferPool!Next
  BY PacketPoolNext, BufferPoolNext
<1>3. QED
  BY <1>1, <1>2, PoolInvariance, PTL
     DEF Spec, HeldOnce, PacketsHeldOnce, BuffersHeldOnce, PacketPool!Spec, BufferPool!Spec
-----------------------------------------------------------------------------
(* Counting what is lost *)

LEMMA LostFinite ==
  /\ IsFiniteSet(LostBuffers) /\ IsFiniteSet(LostPackets)
  /\ Cardinality(LostBuffers) \in Nat /\ Cardinality(LostPackets) \in Nat
<1>1. LostBuffers \subseteq Buffers /\ LostPackets \subseteq ClientPackets
  BY DEF LostBuffers, LostPackets
<1>2. QED
  BY <1>1, PipelineAssumption, FS_Subset, FS_CardinalityType

LEMMA LeaksInit == Init => LeaksExplained
<1> SUFFICES ASSUME Init PROVE LeaksExplained
  OBVIOUS
<1>1. LostBuffers = {} /\ LostPackets = {}
  BY InitPlaces DEF LostBuffers, LostPackets
<1>2. QED
  BY <1>1, FS_EmptySet DEF Init, LeaksExplained

LEMMA LeaksNext ==
  TypeInv /\ PoolInv /\ LeaksExplained /\ [Next]_vars => LeaksExplained'
<1> SUFFICES ASSUME TypeInv, PoolInv, LeaksExplained, [Next]_vars PROVE LeaksExplained'
  OBVIOUS
<1>1. Cardinality(LostBuffers)' = replies'
  <2>1. ASSUME NEW b, BufferStep(b)
        PROVE  BufferHolders(b)' = {} <=> BufferHolders(b) = {}
    BY <2>1 DEF BufferStep
  <2>2. CASE BuffersKept
    <3>1. LostBuffers' = LostBuffers
      BY <2>1, <2>2 DEF BuffersKept, LostBuffers
    <3>2. QED
      BY <2>2, <3>1 DEF BuffersKept, LeaksExplained
  <2>3. ASSUME NEW q \in Buffers, BufferDropped(q) PROVE Cardinality(LostBuffers)' = replies'
    <3>1. /\ replies' = replies + 1 /\ BufferHolders(q) # {} /\ BufferHolders(q)' = {}
          /\ \A b \in Buffers \ {q} : BufferHolders(b)' = {} <=> BufferHolders(b) = {}
      BY <2>1, <2>3 DEF BufferDropped
    <3>2. LostBuffers' = LostBuffers \cup {q} /\ q \notin LostBuffers
      BY <3>1 DEF LostBuffers
    <3>3. QED
      BY <3>1, <3>2, LostFinite, FS_AddElement DEF LeaksExplained
  <2>4. QED
    BY <2>2, <2>3, BuffersNext DEF PoolInv, BuffersMove
<1>2. Cardinality(LostPackets)' = timeouts'
  <2>1. ASSUME NEW p, PacketStep(p)
        PROVE  PacketHolders(p)' = {} <=> PacketHolders(p) = {}
    BY <2>1 DEF PacketStep
  <2>2. CASE PacketsKept
    <3>1. LostPackets' = LostPackets
      BY <2>1, <2>2 DEF PacketsKept, LostPackets
    <3>2. QED
      BY <2>2, <3>1 DEF PacketsKept, LeaksExplained
  <2>3. ASSUME NEW q \in ClientPackets, PacketDropped(q)
        PROVE  Cardinality(LostPackets)' = timeouts'
    <3>1. /\ timeouts' = timeouts + 1 /\ PacketHolders(q) # {} /\ PacketHolders(q)' = {}
          /\ \A p \in ClientPackets \ {q} : PacketHolders(p)' = {} <=> PacketHolders(p) = {}
      BY <2>1, <2>3 DEF PacketDropped
    <3>2. LostPackets' = LostPackets \cup {q} /\ q \notin LostPackets
      BY <3>1 DEF LostPackets
    <3>3. QED
      BY <3>1, <3>2, LostFinite, FS_AddElement DEF LeaksExplained
  <2>4. QED
    BY <2>2, <2>3, PacketsNext DEF PoolInv, PacketsMove
<1>3. QED
  BY <1>1, <1>2 DEF LeaksExplained

(* Each answer to a join, a cancel or a logout loses one buffer, each empty *)
(* recv of the session link one packet, and nothing else is lost.           *)
THEOREM LeaksCounted == Spec => []LeaksExplained
<1>1. Init => LeaksExplained
  BY LeaksInit
<1>2. (TypeInv /\ PoolInv) /\ LeaksExplained /\ [Next]_vars => LeaksExplained'
  BY LeaksNext
<1>3. QED
  BY <1>1, <1>2, PoolInvariance, PTL DEF Spec

-----------------------------------------------------------------------------
(* What a starved lobby has done with its buffers *)

LEMMA UnionBound ==
  ASSUME NEW S, IsFiniteSet(S), NEW T, IsFiniteSet(T), NEW m \in Nat, NEW n \in Nat,
         Cardinality(S) <= m, Cardinality(T) <= n
  PROVE  IsFiniteSet(S \cup T) /\ Cardinality(S \cup T) <= m + n
<1>1. IsFiniteSet(S \cap T)
  BY FS_Intersection
<1>2. /\ Cardinality(S) \in Nat /\ Cardinality(T) \in Nat /\ Cardinality(S \cap T) \in Nat
      /\ Cardinality(S \cup T) \in Nat
  BY <1>1, FS_Union, FS_CardinalityType
<1>3. Cardinality(S \cup T) = Cardinality(S) + Cardinality(T) - Cardinality(S \cap T)
  BY FS_Union
<1>4. QED
  BY <1>2, <1>3, FS_Union

LEMMA ImageBound ==
  ASSUME NEW S, IsFiniteSet(S), NEW f, DOMAIN f = S, f = [s \in S |-> f[s]]
  PROVE  /\ IsFiniteSet({f[s] : s \in S})
         /\ Cardinality({f[s] : s \in S}) <= Cardinality(S)
<1> DEFINE T == {f[s] : s \in S}
<1>1. f \in [S -> T]
  OBVIOUS
<1>2. f \in Surjection(S, T)
  BY <1>1 DEF Surjection
<1>3. QED
  BY <1>2, FS_Surjection

(* With every other place empty, a buffer is lost, stranded, or held by a   *)
(* worker or the receiver, and those hold few.                              *)
LEMMA StarvedBuffers ==
  TypeInv /\ LeaksExplained => StarvationExplained
<1> SUFFICES ASSUME TypeInv, LeaksExplained,
                    packet_pool = {}, send_queues = {}, sendToSessionServer_queue = <<>>,
                    sent_data = None
             PROVE  Cardinality(Buffers) <=
                      replies + Cardinality(stranded) + Cardinality(Workers)
                        + Cardinality(Answering) + (IF Logout_data = None THEN 0 ELSE 1)
  BY DEF StarvationExplained
<1> USE PipelineAssumption DEF TypeInv, TypeOK
<1> DEFINE D == {decrypted_data[w] : w \in Workers}
           A == [w \in Answering |-> Serialize_data[w]]
           S == {A[w] : w \in Answering}
           L == IF Logout_data = None THEN {} ELSE {Logout_data}
           l == IF Logout_data = None THEN 0 ELSE 1
<1>1. IsFiniteSet(D) /\ Cardinality(D) <= Cardinality(Workers)
  BY ImageBound
<1>2. IsFiniteSet(Answering)
  <2>1. Answering \subseteq Workers
    BY DEF Answering
  <2>2. QED
    BY <2>1, FS_Subset
<1>3. IsFiniteSet(S) /\ Cardinality(S) <= Cardinality(Answering)
  <2>1. DOMAIN A = Answering /\ A = [w \in Answering |-> A[w]]
    OBVIOUS
  <2> HIDE DEF A
  <2>2. QED
    BY <1>2, <2>1, ImageBound
<1>4. IsFiniteSet(L) /\ Cardinality(L) <= l /\ l \in Nat
  <2>1. CASE Logout_data = None
    BY <2>1, FS_EmptySet
  <2>2. CASE Logout_data # None
    <3>1. L = {Logout_data} /\ l = 1
      BY <2>2
    <3>2. IsFiniteSet({Logout_data}) /\ Cardinality({Logout_data}) = 1
      BY FS_Singleton
    <3>3. QED
      BY <3>1, <3>2
  <2>3. QED
    BY <2>1, <2>2
<1>5. IsFiniteSet(stranded) /\ IsFiniteSet(LostBuffers) /\ Cardinality(LostBuffers) = replies
  BY FS_Subset, LostFinite DEF LeaksExplained
<1>6. /\ Cardinality(Workers) \in Nat /\ Cardinality(Answering) \in Nat
      /\ Cardinality(stranded) \in Nat /\ replies \in Nat
  BY <1>2, <1>5, FS_CardinalityType
<1>7. Buffers \subseteq (LostBuffers \cup stranded) \cup D \cup S \cup L
  <2> SUFFICES ASSUME NEW b \in Buffers, b \notin LostBuffers
               PROVE  b \in stranded \/ b \in D \/ b \in S \/ b \in L
    OBVIOUS
  <2>1. PICK x : x \in BufferHolders(b)
    BY DEF LostBuffers
  <2>2. Queue = <<>> /\ b # None
    BY DEF Queue
  <2>3. \/ \E w \in Workers : decrypted_data[w] = b
        \/ \E w \in Workers : Serialize_data[w] = b
        \/ b = Logout_data \/ b \in stranded
    BY <2>1, <2>2, BufferAt
  <2>4. ASSUME NEW w \in Workers, Serialize_data[w] = b PROVE b \in S
    <3>1. w \in Answering
      BY <2>2, <2>4 DEF Answering
    <3>2. QED
      BY <2>4, <3>1
  <2>5. QED
    BY <2>2, <2>3, <2>4
<1> HIDE DEF D, S, L
<1>8. /\ IsFiniteSet(LostBuffers \cup stranded)
      /\ Cardinality(LostBuffers \cup stranded) <= replies + Cardinality(stranded)
  <2>1. Cardinality(LostBuffers) <= replies /\ Cardinality(stranded) <= Cardinality(stranded)
    BY <1>5, <1>6
  <2>2. QED
    BY <1>5, <1>6, <2>1, UnionBound
<1>9. /\ IsFiniteSet((LostBuffers \cup stranded) \cup D)
      /\ Cardinality((LostBuffers \cup stranded) \cup D)
           <= (replies + Cardinality(stranded)) + Cardinality(Workers)
  <2>1. replies + Cardinality(stranded) \in Nat
    BY <1>6
  <2>2. QED
    BY <1>1, <1>6, <1>8, <2>1, UnionBound
<1>10. /\ IsFiniteSet((LostBuffers \cup stranded) \cup D \cup S)
       /\ Cardinality((LostBuffers \cup stranded) \cup D \cup S)
            <= (replies + Cardinality(stranded) + Cardinality(Workers)) + Cardinality(Answering)
  <2>1. replies + Cardinality(stranded) + Cardinality(Workers) \in Nat
    BY <1>6
  <2>2. QED
    BY <1>3, <1>6, <1>9, <2>1, UnionBound
<1>11. /\ IsFiniteSet((LostBuffers \cup stranded) \cup D \cup S \cup L)
       /\ Cardinality((LostBuffers \cup stranded) \cup D \cup S \cup L)
            <= (replies + Cardinality(stranded) + Cardinality(Workers) + Cardinality(Answering)) + l
  <2>1. replies + Cardinality(stranded) + Cardinality(Workers) + Cardinality(Answering) \in Nat
    BY <1>6
  <2>2. QED
    BY <1>4, <1>10, <2>1, UnionBound
<1>12. Cardinality(Buffers) <= Cardinality((LostBuffers \cup stranded) \cup D \cup S \cup L)
  BY <1>7, <1>11, FS_Subset
<1>13. /\ Cardinality(Buffers) \in Nat
       /\ Cardinality((LostBuffers \cup stranded) \cup D \cup S \cup L) \in Nat
  BY <1>11, FS_CardinalityType
<1>14. QED
  BY <1>4, <1>6, <1>11, <1>12, <1>13

(* When no buffer is free or on its way back, the lobby has lost nearly all *)
(* of them, to answers and to closed sockets.                               *)
THEOREM StarvationBounded == Spec => []StarvationExplained
<1>1. TypeInv /\ LeaksExplained => StarvationExplained
  BY StarvedBuffers
<1>2. QED
  BY <1>1, PoolInvariance, LeaksCounted, PTL
=============================================================================
