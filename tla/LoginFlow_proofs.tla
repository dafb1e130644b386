-------------------------- MODULE LoginFlow_proofs --------------------------
(***************************************************************************)
(* Proofs about LoginFlow for any number of launchers, accounts, socket    *)
(* numbers, workers and requests.                                          *)
(***************************************************************************)
EXTENDS LoginFlow, PacketStreams

(* Whoever was told a hash, and not yet forgot it, was told an account's.   *)
Known == \A c \in Clients : ui[c] \in {"in", "checking", "lobby"} => hash[c] \in Accounts

TypeInv == TypeOK /\ Known

-----------------------------------------------------------------------------
(* Type correctness *)

LEMMA TypeInvInit == Init => TypeInv
BY LoginAssumption DEF Init, TypeInv, TypeOK, Known, NoJob, Causes, Kinds

LEMMA Blamed ==
  ASSUME cause \in [Accounts -> Causes], NEW hs
  PROVE  \A why \in Causes : Blame(why, hs) \in [Accounts -> Causes]
BY DEF Blame

(* A step keeps the types.                                                  *)
LEMMA TypeInvNext == TypeInv /\ [Next]_vars => TypeInv'
<1> SUFFICES ASSUME TypeInv, [Next]_vars PROVE TypeInv'
  OBVIOUS
<1> USE DEF TypeInv
<1>1. ASSUME NEW c \in Clients, NEW fd \in Sockets, Connect(c, fd) PROVE TypeInv'
  BY <1>1 DEF TypeOK, Known, Connect, clientVars, authVars, sessionVars, lobbyVars, historyVars
<1>2. ASSUME NEW c \in Clients, NEW fd \in Sockets, NEW h \in Accounts, LoginRequest(c, fd, h) PROVE TypeInv'
  <2>1. asks' \in 0..MaxAsks
    BY <1>2 , LoginAssumption DEF TypeOK, LoginRequest
  <2>2. requests' \subseteq [fd : Sockets, h : Accounts]
    BY <1>2 DEF TypeOK, LoginRequest
  <2>3. QED
    BY <1>2, <2>1, <2>2 DEF TypeOK, Known, LoginRequest, clientVars, authVars, sessionVars, lobbyVars, historyVars
<1>3. ASSUME NEW c \in Clients, NEW fd \in Sockets, CloseAuth(c, fd) PROVE TypeInv'
  BY <1>3 DEF TypeOK, Known, CloseAuth, clientVars, authVars, sessionVars, lobbyVars, historyVars
<1>4. ASSUME NEW c \in Clients, Quit(c) PROVE TypeInv'
  BY <1>4 DEF TypeOK, Known, Quit, Blame, Causes, clientVars, authVars, sessionVars, lobbyVars, historyVars
<1>5. ASSUME NEW c \in Clients, TryConnectLobbyServer(c) PROVE TypeInv'
  <2>1. Packet("check", hash[c]) \in [kind : {"check", "logout"}, h : Accounts]
    BY <1>5 DEF Known, TryConnectLobbyServer, Packet
  <2>2. lobbyLink' \in Seq([kind : {"check", "logout"}, h : Accounts])
    BY <1>5, <2>1, Appended DEF TypeOK, TryConnectLobbyServer
  <2>3. QED
    BY <1>5, <2>1, <2>2 DEF TypeOK, Known, TryConnectLobbyServer, clientVars, authVars, sessionVars, lobbyVars, historyVars
<1>6. ASSUME NEW c \in Clients, LogoutRequest(c) PROVE TypeInv'
  <2>1. Packet("logout", hash[c]) \in [kind : {"check", "logout"}, h : Accounts]
    BY <1>6 DEF Known, LogoutRequest, Packet
  <2>2. lobbyLink' \in Seq([kind : {"check", "logout"}, h : Accounts])
    BY <1>6, <2>1, Appended DEF TypeOK, LogoutRequest
  <2>3. QED
    BY <1>6, <2>1, <2>2 DEF TypeOK, Known, LogoutRequest, DeletePlayer, clientVars, authVars, sessionVars, lobbyVars, historyVars
<1>7. ASSUME NEW c \in Clients, LobbyEnd(c) PROVE TypeInv'
  <2>a. cause \in [Accounts -> Causes] /\ "unregistered" \in Causes
    BY DEF TypeOK, Causes
  <2>b. \E hs : cause' = Blame("unregistered", hs)
    BY <1>7 DEF LobbyEnd, CleanupforSocket
  <2>1. cause' \in [Accounts -> Causes]
    BY <2>a, <2>b, Blamed
  <2>2. socketToHash[c] # None => Packet("logout", socketToHash[c]) \in [kind : {"check", "logout"}, h : Accounts]
    BY <1>7 DEF TypeOK, Packet
  <2>3. lobbyLink' \in Seq([kind : {"check", "logout"}, h : Accounts])
    <3>1. \/ lobbyLink' = lobbyLink
          \/ /\ socketToHash[c] # None
             /\ lobbyLink' = Append(lobbyLink, Packet("logout", socketToHash[c]))
      BY <1>7 DEF LobbyEnd, CleanupforSocket
    <3>2. lobbyLink \in Seq([kind : {"check", "logout"}, h : Accounts])
      BY DEF TypeOK
    <3>3. QED
      BY <2>2, <3>1, <3>2, Appended
  <2>4. /\ players' \in [Accounts -> Clients \cup {None}]
        /\ socketToHash' \in [Clients -> Accounts \cup {None}]
    BY <1>7 DEF TypeOK, LobbyEnd, CleanupforSocket, DeletePlayer
  <2>5. doubled' \subseteq Accounts
    BY <1>7 DEF TypeOK, LobbyEnd, CleanupforSocket
  <2>6. /\ ui' = [ui EXCEPT ![c] = "out"] /\ hash' = [hash EXCEPT ![c] = None]
        /\ UNCHANGED <<asks, authVars, authLink, authAnswers, lobbyAnswers, sessionVars,
                       client_sockets, ingame>>
    BY <1>7 DEF LobbyEnd
  <2>7. QED
    BY <2>1, <2>3, <2>4, <2>5, <2>6 DEF TypeOK, Known, authVars, sessionVars
<1>8. ASSUME NEW r \in requests, RefuseLogin(r) PROVE TypeInv'
  BY <1>8 DEF TypeOK, Known, RefuseLogin, TellFailed, clientVars, authVars, sessionVars, lobbyVars, historyVars
<1>9. ASSUME NEW r \in requests, HandleLogin(r) PROVE TypeInv'
  <2>1. r.h \in Accounts /\ r.fd \in Sockets
    BY <1>9 DEF TypeOK
  <2>2. Packet("login", r.h) \in [kind : {"login"}, h : Accounts]
    BY <2>1 DEF Packet
  <2>3. authLink' \in Seq([kind : {"login"}, h : Accounts])
    BY <1>9, <2>2, Appended DEF TypeOK, HandleLogin
  <2>4. QED
    BY <1>9, <2>1, <2>2, <2>3 DEF TypeOK, Known, HandleLogin, clientVars, authVars, sessionVars, lobbyVars, historyVars
<1>10. ASSUME NEW n \in 1..Len(authAnswers), HandleCheckSessionResult(n) PROVE TypeInv'
  <2>a. authAnswers \in Seq([h : Accounts, ok : BOOLEAN]) /\ authAnswers' = After(authAnswers, n)
    BY <1>10 DEF TypeOK, HandleCheckSessionResult, After
  <2>b. /\ Head(authAnswers) = authAnswers[1] /\ authAnswers[1] \in [h : Accounts, ok : BOOLEAN]
        /\ After(authAnswers, n) \in Seq([h : Accounts, ok : BOOLEAN])
    BY <2>a, Rest
  <2>1. Head(authAnswers) \in [h : Accounts, ok : BOOLEAN] /\ authAnswers' \in Seq([h : Accounts, ok : BOOLEAN])
    BY <2>a, <2>b
  <2>2. cause' \in [Accounts -> Causes]
    <3>1. cause \in [Accounts -> Causes] /\ "unheard" \in Causes
      BY DEF TypeOK, Causes
    <3>2. \E hs : cause' = Blame("unheard", hs)
      BY <1>10 DEF HandleCheckSessionResult
    <3>3. QED
      BY <3>1, <3>2, Blamed
  <2>3. \/ UNCHANGED <<ui, hash, authpeer>>
        \/ \E fd \in Sockets : TellFailed(fd) /\ UNCHANGED pendingQueues
        \/ \E fd \in Sockets, h \in Accounts : TellSucceeded(fd, h)
    <3>1. pendingQueues[Head(authAnswers).h] \in Sockets \cup {None}
      BY <2>1 DEF TypeOK
    <3>2. Head(authAnswers).h \in Accounts
      BY <2>1
    <3>3. LET a == Head(authAnswers)  fd == pendingQueues[a.h] IN
          IF fd = None THEN UNCHANGED <<ui, hash, authpeer>>
          ELSE IF a.ok THEN TellSucceeded(fd, a.h) ELSE TellFailed(fd)
      BY <1>10 DEF HandleCheckSessionResult
    <3>4. UNCHANGED pendingQueues
      BY <1>10 DEF HandleCheckSessionResult
    <3>5. QED
      BY <3>1, <3>2, <3>3, <3>4
  <2>4. /\ ui' \in [Clients -> {"out", "asking", "in", "checking", "lobby", "leaving"}]
        /\ hash' \in [Clients -> Accounts \cup {None}]
        /\ authpeer' \in [Sockets -> Clients \cup {None}]
    <3>1. CASE UNCHANGED <<ui, hash, authpeer>>
      BY <3>1 DEF TypeOK
    <3>2. CASE \E fd \in Sockets : TellFailed(fd)
      BY <3>2 DEF TypeOK, TellFailed
    <3>3. CASE \E fd \in Sockets, h \in Accounts : TellSucceeded(fd, h)
      <4>1. PICK fd \in Sockets, h \in Accounts : TellSucceeded(fd, h)
        BY <3>3
      <4>2. ui' \in [Clients -> {"out", "asking", "in", "checking", "lobby", "leaving"}]
        BY <4>1 DEF TypeOK, TellSucceeded
      <4>3. hash' \in [Clients -> Accounts \cup {None}]
        BY <4>1 DEF TypeOK, TellSucceeded
      <4>4. authpeer' \in [Sockets -> Clients \cup {None}]
        BY <4>1 DEF TypeOK, TellSucceeded
      <4>5. QED
        BY <4>2, <4>3, <4>4
    <3>4. QED
      BY <2>3, <3>1, <3>2, <3>3
  <2>5. Known'
    BY <2>3 DEF TypeOK, Known, TellFailed, TellSucceeded
  <2>6. UNCHANGED <<asks, requests, pendingQueues, authLink, lobbyLink, lobbyAnswers, sessionVars,
                    lobbyVars, doubled>>
    BY <1>10 DEF HandleCheckSessionResult
  <2>7. QED
    BY <2>1, <2>2, <2>4, <2>5, <2>6 DEF TypeOK, Known, sessionVars, lobbyVars
<1>11. ASSUME NEW w \in Workers, NEW n \in 1..Len(authLink), TakeFromAuth(w, n) PROVE TypeInv'
  <2>a. authLink \in Seq([kind : {"login"}, h : Accounts]) /\ authLink' = After(authLink, n)
    BY <1>11 DEF TypeOK, TakeFromAuth, After
  <2>b. /\ Head(authLink) = authLink[1] /\ authLink[1] \in [kind : {"login"}, h : Accounts]
        /\ After(authLink, n) \in Seq([kind : {"login"}, h : Accounts])
    BY <2>a, Rest
  <2>1. Head(authLink) \in [kind : {"login"}, h : Accounts] /\ authLink' \in Seq([kind : {"login"}, h : Accounts])
    BY <2>a, <2>b
  <2>2. QED
    BY <1>11, <2>1 DEF TypeOK, Known, TakeFromAuth, Kinds, clientVars, authVars, sessionVars, lobbyVars, historyVars
<1>12. ASSUME NEW w \in Workers, NEW n \in 1..Len(lobbyLink), TakeFromLobby(w, n) PROVE TypeInv'
  <2>a. lobbyLink \in Seq([kind : {"check", "logout"}, h : Accounts]) /\ lobbyLink' = After(lobbyLink, n)
    BY <1>12 DEF TypeOK, TakeFromLobby, After
  <2>b. /\ Head(lobbyLink) = lobbyLink[1] /\ lobbyLink[1] \in [kind : {"check", "logout"}, h : Accounts]
        /\ After(lobbyLink, n) \in Seq([kind : {"check", "logout"}, h : Accounts])
    BY <2>a, Rest
  <2>1. Head(lobbyLink) \in [kind : {"check", "logout"}, h : Accounts] /\ lobbyLink' \in Seq([kind : {"check", "logout"}, h : Accounts])
    BY <2>a, <2>b
  <2>2. cause' \in [Accounts -> Causes]
    <3>1. cause \in [Accounts -> Causes] /\ "lost" \in Causes
      BY DEF TypeOK, Causes
    <3>2. \E hs : cause' = Blame("lost", hs)
      BY <1>12 DEF TakeFromLobby
    <3>3. QED
      BY <3>1, <3>2, Blamed
  <2>3. QED
    BY <1>12, <2>1, <2>2 DEF TypeOK, Known, TakeFromLobby, Kinds, clientVars, authVars, sessionVars, lobbyVars, historyVars
<1>13. ASSUME NEW w \in Workers, getPlayerStateForAuthserver(w) PROVE TypeInv'
  <2>1. jobs[w] \in [kind : Kinds, h : Accounts]
    BY <1>13 DEF TypeOK, getPlayerStateForAuthserver, NoJob
  <2>2. Answer(jobs[w].h, jobs[w].h \notin clientCache) \in [h : Accounts, ok : BOOLEAN]
    BY <2>1 DEF Answer
  <2>3. authAnswers' \in Seq([h : Accounts, ok : BOOLEAN])
    BY <1>13, <2>2, Appended DEF TypeOK, getPlayerStateForAuthserver
  <2>4. cause' \in [Accounts -> Causes]
    BY <1>13 DEF TypeOK, getPlayerStateForAuthserver, Causes
  <2>5. QED
    BY <1>13, <2>1, <2>2, <2>3, <2>4 DEF TypeOK, Known, getPlayerStateForAuthserver, clientVars, authVars, sessionVars, lobbyVars, historyVars
<1>14. ASSUME NEW w \in Workers, getPlayerStateForGameLobbyserver(w) PROVE TypeInv'
  <2>1. jobs[w] \in [kind : Kinds, h : Accounts]
    BY <1>14 DEF TypeOK, getPlayerStateForGameLobbyserver, NoJob
  <2>2. Answer(jobs[w].h, jobs[w].h \in clientCache) \in [h : Accounts, ok : BOOLEAN]
    BY <2>1 DEF Answer
  <2>3. lobbyAnswers' \in Seq([h : Accounts, ok : BOOLEAN])
    BY <1>14, <2>2, Appended DEF TypeOK, getPlayerStateForGameLobbyserver
  <2>4. QED
    BY <1>14, <2>1, <2>2, <2>3 DEF TypeOK, Known, getPlayerStateForGameLobbyserver, clientVars, authVars, sessionVars, lobbyVars, historyVars
<1>15. ASSUME NEW w \in Workers, LogOut(w) PROVE TypeInv'
  BY <1>15 DEF TypeOK, Known, LogOut, clientVars, authVars, sessionVars, lobbyVars, historyVars
<1>16. ASSUME NEW n \in 1..Len(lobbyAnswers), HandleLobbyAnswer(n) PROVE TypeInv'
  <2>a. lobbyAnswers \in Seq([h : Accounts, ok : BOOLEAN]) /\ lobbyAnswers' = After(lobbyAnswers, n)
    BY <1>16 DEF TypeOK, HandleLobbyAnswer, After
  <2>b. /\ Head(lobbyAnswers) = lobbyAnswers[1] /\ lobbyAnswers[1] \in [h : Accounts, ok : BOOLEAN]
        /\ After(lobbyAnswers, n) \in Seq([h : Accounts, ok : BOOLEAN])
    BY <2>a, Rest
  <2>1. Head(lobbyAnswers) \in [h : Accounts, ok : BOOLEAN] /\ lobbyAnswers' \in Seq([h : Accounts, ok : BOOLEAN])
    BY <2>a, <2>b
  <2>2. QED
    BY <1>16, <2>1 DEF TypeOK, Known, HandleLobbyAnswer, clientVars, authVars, sessionVars, lobbyVars, historyVars
<1>17. ASSUME NEW h \in Accounts, SendGameStart(h) PROVE TypeInv'
  BY <1>17 DEF TypeOK, Known, SendGameStart, clientVars, authVars, sessionVars, lobbyVars, historyVars
<1>18. ASSUME NEW c \in Clients, Disconnect(c) PROVE TypeInv'
  BY <1>18 DEF TypeOK, Known, Disconnect, clientVars, authVars, sessionVars, lobbyVars, historyVars
<1>19. CASE UNCHANGED vars
  BY <1>19 DEF TypeOK, Known, vars, clientVars, authVars, sessionVars, lobbyVars, historyVars
<1>20. QED
  BY <1>1, <1>2, <1>3, <1>4, <1>5, <1>6, <1>7, <1>8, <1>9, <1>10, <1>11, <1>12, <1>13, <1>14, <1>15, <1>16, <1>17, <1>18, <1>19 DEF Next, Launcher, Auth, Session, Lobby

(* Every reachable state of the three servers is well typed: no handler     *)
(* reads an account, a number or a client that is not one.                  *)
THEOREM TypeInvariant == Spec => []TypeInv
<1>1. Init => TypeInv
  BY TypeInvInit
<1>2. TypeInv /\ [Next]_vars => TypeInv'
  BY TypeInvNext
<1>3. QED
  BY <1>1, <1>2, PTL DEF Spec

THEOREM TypeCorrect == Spec => []TypeOK
<1>1. TypeInv => TypeOK
  BY DEF TypeInv
<1>2. QED
  BY <1>1, TypeInvariant, PTL

-----------------------------------------------------------------------------
(* One holder: an account that nobody's end has logged out by mistake is in *)
(* one place at most.  The session server has granted it, and the answer is *)
(* on its way; a launcher holds it; its logout is on the way; or a worker   *)
(* has the logout in hand.  While it is anywhere it has a session, so the   *)
(* session server does not grant it a second time.                          *)
Granted(h) == In(authAnswers, Answer(h, TRUE))
Sent(h) == In(lobbyLink, Packet("logout", h))
InHand(h) == \E w \in Workers : jobs[w] = Packet("logout", h)
Held(h) == \E c \in Clients : Holds(c, h)

InOnePlace(h) ==
  /\ Granted(h) => h \in clientCache /\ ~Sent(h) /\ ~InHand(h) /\ ~Held(h)
  /\ Sent(h) => h \in clientCache /\ ~InHand(h) /\ ~Held(h)
  /\ InHand(h) => h \in clientCache /\ ~Held(h)
  /\ Held(h) => h \in clientCache

OnceThere(h) ==
  /\ Once(authAnswers, Answer(h, TRUE)) /\ Once(lobbyLink, Packet("logout", h))
  /\ \A v, w \in Workers : jobs[v] = Packet("logout", h) /\ jobs[w] = Packet("logout", h) => v = w
  /\ \A c, d \in Clients : Holds(c, h) /\ Holds(d, h) => c = d

OneInv == \A h \in Accounts : h \in doubled \/ (InOnePlace(h) /\ OnceThere(h))

(* No step that moves an account nowhere new can spoil this.                *)
LEMMA NothingNew ==
  ASSUME NEW h, InOnePlace(h), OnceThere(h),
         h \in clientCache => h \in clientCache',
         \A c \in Clients : Holds(c, h)' => Holds(c, h),
         Granted(h)' => Granted(h), Sent(h)' => Sent(h),
         \A w \in Workers : jobs'[w] = Packet("logout", h) => jobs[w] = Packet("logout", h),
         Once(authAnswers, Answer(h, TRUE)) => Once(authAnswers, Answer(h, TRUE))',
         Once(lobbyLink, Packet("logout", h)) => Once(lobbyLink, Packet("logout", h))'
  PROVE  InOnePlace(h)' /\ OnceThere(h)'
<1>1. InHand(h)' => InHand(h)
  BY DEF InHand
<1>2. Held(h)' => Held(h)
  BY DEF Held
<1>3. InOnePlace(h)'
  BY <1>1, <1>2 DEF InOnePlace
<1>4. OnceThere(h)'
  BY DEF OnceThere
<1>5. QED
  BY <1>3, <1>4

LEMMA OneInvInit == Init => OneInv
<1> SUFFICES ASSUME Init, NEW h \in Accounts PROVE InOnePlace(h) /\ OnceThere(h)
  BY DEF OneInv
<1>1. DOMAIN authAnswers = {} /\ DOMAIN lobbyLink = {}
  BY DEF Init
<1>2. \A w \in Workers : jobs[w] # Packet("logout", h)
  BY DEF Init, NoJob, Packet
<1>3. \A c \in Clients : ~Holds(c, h)
  BY DEF Init, Holds
<1>4. QED
  BY <1>1, <1>2, <1>3 DEF InOnePlace, OnceThere, Granted, Sent, InHand, Held, In, Once

LEMMA OneInvNext == TypeInv /\ OneInv /\ [Next]_vars => OneInv'
<1> SUFFICES ASSUME TypeInv, OneInv, [Next]_vars, NEW a \in Accounts, a \notin doubled'
             PROVE  InOnePlace(a)' /\ OnceThere(a)'
  BY DEF OneInv
<1> DEFINE grant == Answer(a, TRUE)
           logout == Packet("logout", a)
           Result == InOnePlace(a)' /\ OnceThere(a)'
<1> USE DEF TypeInv
<1>0. (a \notin doubled) => InOnePlace(a) /\ OnceThere(a)
  BY DEF OneInv
<1>q. /\ UNCHANGED authAnswers => (Granted(a)' <=> Granted(a))
                                 /\ (Once(authAnswers, Answer(a, TRUE))' <=> Once(authAnswers, Answer(a, TRUE)))
      /\ UNCHANGED lobbyLink => (Sent(a)' <=> Sent(a))
                               /\ (Once(lobbyLink, Packet("logout", a))' <=> Once(lobbyLink, Packet("logout", a)))
  BY DEF Granted, Sent, Once, In
<1>1. ASSUME NEW c \in Clients, NEW fd \in Sockets, Connect(c, fd) PROVE Result
  <2>1. UNCHANGED <<authAnswers, lobbyLink, jobs, clientCache, doubled>>
    BY <1>1 DEF Connect, clientVars, authVars, sessionVars, lobbyVars, historyVars
  <2>2. \A d \in Clients : Holds(d, a)' => Holds(d, a)
    BY <1>1 DEF Connect, Holds, TypeOK, clientVars, authVars, sessionVars, lobbyVars, historyVars
  <2>3. QED
    BY <1>0, <1>q, <2>1, <2>2, NothingNew
<1>2. ASSUME NEW c \in Clients, NEW fd \in Sockets, NEW h \in Accounts, LoginRequest(c, fd, h) PROVE Result
  <2>1. UNCHANGED <<authAnswers, lobbyLink, jobs, clientCache, doubled>>
    BY <1>2 DEF LoginRequest, clientVars, authVars, sessionVars, lobbyVars, historyVars
  <2>2. \A d \in Clients : Holds(d, a)' => Holds(d, a)
    BY <1>2 DEF LoginRequest, Holds, TypeOK, clientVars, authVars, sessionVars, lobbyVars, historyVars
  <2>3. QED
    BY <1>0, <1>q, <2>1, <2>2, NothingNew
<1>3. ASSUME NEW c \in Clients, NEW fd \in Sockets, CloseAuth(c, fd) PROVE Result
  <2>1. UNCHANGED <<authAnswers, lobbyLink, jobs, clientCache, doubled>>
    BY <1>3 DEF CloseAuth, clientVars, authVars, sessionVars, lobbyVars, historyVars
  <2>2. \A d \in Clients : Holds(d, a)' => Holds(d, a)
    BY <1>3 DEF CloseAuth, Holds, TypeOK, clientVars, authVars, sessionVars, lobbyVars, historyVars
  <2>3. QED
    BY <1>0, <1>q, <2>1, <2>2, NothingNew
<1>4. ASSUME NEW c \in Clients, Quit(c) PROVE Result
  <2>1. UNCHANGED <<authAnswers, lobbyLink, jobs, clientCache, doubled>>
    BY <1>4 DEF Quit, clientVars, authVars, sessionVars, lobbyVars, historyVars
  <2>2. \A d \in Clients : Holds(d, a)' => Holds(d, a)
    BY <1>4 DEF Quit, Holds, TypeOK, clientVars, authVars, sessionVars, lobbyVars, historyVars
  <2>3. QED
    BY <1>0, <1>q, <2>1, <2>2, NothingNew
<1>5. ASSUME NEW r \in requests, RefuseLogin(r) PROVE Result
  <2>1. UNCHANGED <<authAnswers, lobbyLink, jobs, clientCache, doubled>>
    BY <1>5 DEF RefuseLogin, TellFailed, clientVars, authVars, sessionVars, lobbyVars, historyVars
  <2>2. \A d \in Clients : Holds(d, a)' => Holds(d, a)
    BY <1>5 DEF RefuseLogin, TellFailed, Holds, TypeOK, clientVars, authVars, sessionVars, lobbyVars, historyVars
  <2>3. QED
    BY <1>0, <1>q, <2>1, <2>2, NothingNew
<1>6. ASSUME NEW r \in requests, HandleLogin(r) PROVE Result
  <2>1. UNCHANGED <<authAnswers, lobbyLink, jobs, clientCache, doubled>>
    BY <1>6 DEF HandleLogin, clientVars, authVars, sessionVars, lobbyVars, historyVars
  <2>2. \A d \in Clients : Holds(d, a)' => Holds(d, a)
    BY <1>6 DEF HandleLogin, Holds, TypeOK, clientVars, authVars, sessionVars, lobbyVars, historyVars
  <2>3. QED
    BY <1>0, <1>q, <2>1, <2>2, NothingNew
<1>7. ASSUME NEW n \in 1..Len(lobbyAnswers), HandleLobbyAnswer(n) PROVE Result
  <2>1. UNCHANGED <<authAnswers, lobbyLink, jobs, clientCache, doubled>>
    BY <1>7 DEF HandleLobbyAnswer, clientVars, authVars, sessionVars, lobbyVars, historyVars
  <2>2. \A d \in Clients : Holds(d, a)' => Holds(d, a)
    BY <1>7 DEF HandleLobbyAnswer, Holds, TypeOK, clientVars, authVars, sessionVars, lobbyVars, historyVars
  <2>3. QED
    BY <1>0, <1>q, <2>1, <2>2, NothingNew
<1>8. ASSUME NEW h \in Accounts, SendGameStart(h) PROVE Result
  <2>1. UNCHANGED <<authAnswers, lobbyLink, jobs, clientCache, doubled>>
    BY <1>8 DEF SendGameStart, clientVars, authVars, sessionVars, lobbyVars, historyVars
  <2>2. \A d \in Clients : Holds(d, a)' => Holds(d, a)
    BY <1>8 DEF SendGameStart, Holds, TypeOK, clientVars, authVars, sessionVars, lobbyVars, historyVars
  <2>3. QED
    BY <1>0, <1>q, <2>1, <2>2, NothingNew
<1>9. ASSUME NEW c \in Clients, Disconnect(c) PROVE Result
  <2>1. UNCHANGED <<authAnswers, lobbyLink, jobs, clientCache, doubled>>
    BY <1>9 DEF Disconnect, clientVars, authVars, sessionVars, lobbyVars, historyVars
  <2>2. \A d \in Clients : Holds(d, a)' => Holds(d, a)
    BY <1>9 DEF Disconnect, Holds, TypeOK, clientVars, authVars, sessionVars, lobbyVars, historyVars
  <2>3. QED
    BY <1>0, <1>q, <2>1, <2>2, NothingNew
<1>10. ASSUME NEW c \in Clients, TryConnectLobbyServer(c) PROVE Result
  <2>1. UNCHANGED <<authAnswers, jobs, clientCache, doubled>>
    BY <1>10 DEF TryConnectLobbyServer, clientVars, authVars, sessionVars, lobbyVars, historyVars
  <2>2. \A d \in Clients : Holds(d, a)' => Holds(d, a)
    BY <1>10 DEF TryConnectLobbyServer, Holds, TypeOK
  <2>3. lobbyLink' = Append(lobbyLink, Packet("check", hash[c]))
    BY <1>10 DEF TryConnectLobbyServer
  <2>4. lobbyLink \in Seq([kind : {"check", "logout"}, h : Accounts])
    BY DEF TypeOK
  <2>5. Packet("check", hash[c]) \in [kind : {"check", "logout"}, h : Accounts]
    BY <1>10 DEF Known, TryConnectLobbyServer, Packet
  <2>6. Packet("check", hash[c]) # Packet("logout", a)
    BY DEF Packet
  <2>7. /\ Sent(a)' => Sent(a)
        /\ Once(lobbyLink, Packet("logout", a)) => Once(lobbyLink, Packet("logout", a))'
    <3> DEFINE t == Append(lobbyLink, Packet("check", hash[c]))
    <3>1. (In(t, logout) => In(lobbyLink, logout)) /\ (Once(lobbyLink, logout) => Once(t, logout))
      <4> DEFINE S == [kind : {"check", "logout"}, h : Accounts]
                 x == Packet("check", hash[c])
      <4>1. lobbyLink \in Seq(S) /\ x \in S /\ x # logout
        BY <2>4, <2>5, <2>6
      <4> HIDE DEF S, x, logout
      <4>2. QED
        BY <4>1, AppendedIn DEF x
    <3> HIDE DEF t
    <3>2. lobbyLink' = t
      BY <2>3 DEF t
    <3>3. QED
      BY <3>1, <3>2 DEF Sent, In, Once
  <2>8. QED
    BY <1>0, <1>q, <2>1, <2>2, <2>7, NothingNew
<1>11. ASSUME NEW w \in Workers, NEW n \in 1..Len(authLink), TakeFromAuth(w, n) PROVE Result
  <2>1. UNCHANGED <<authAnswers, lobbyLink, ui, hash, clientCache, doubled>>
    BY <1>11 DEF TakeFromAuth, clientVars, authVars, sessionVars, lobbyVars, historyVars
  <2>2. \A d \in Clients : Holds(d, a)' => Holds(d, a)
    BY <2>1 DEF Holds
  <2>3. authLink \in Seq([kind : {"login"}, h : Accounts])
    BY DEF TypeOK
  <2>4. Head(authLink) \in [kind : {"login"}, h : Accounts]
    <3>1. /\ Head(authLink) = authLink[1] /\ authLink[1] \in [kind : {"login"}, h : Accounts]
          /\ After(authLink, n) \in Seq([kind : {"login"}, h : Accounts])
      BY <2>3, Rest
    <3>2. QED
      BY <3>1
  <2>5. \A v \in Workers : jobs'[v] = logout => jobs[v] = logout
    BY <1>11, <2>4 DEF TakeFromAuth, Packet, TypeOK
  <2>6. QED
    BY <1>0, <1>q, <2>1, <2>2, <2>5, NothingNew
<1>12. ASSUME NEW w \in Workers, getPlayerStateForGameLobbyserver(w) PROVE Result
  <2>1. UNCHANGED <<authAnswers, lobbyLink, ui, hash, clientCache, doubled>>
    BY <1>12 DEF getPlayerStateForGameLobbyserver, clientVars, authVars, sessionVars, lobbyVars, historyVars
  <2>2. \A d \in Clients : Holds(d, a)' => Holds(d, a)
    BY <2>1 DEF Holds
  <2>3. \A v \in Workers : jobs'[v] = logout => jobs[v] = logout
    BY <1>12 DEF getPlayerStateForGameLobbyserver, NoJob, Packet, TypeOK
  <2>4. QED
    BY <1>0, <1>q, <2>1, <2>2, <2>3, NothingNew
<1>13. ASSUME NEW w \in Workers, LogOut(w) PROVE Result
  <2>1. UNCHANGED <<authAnswers, lobbyLink, ui, hash, doubled>>
    BY <1>13 DEF LogOut, clientVars, authVars, sessionVars, lobbyVars, historyVars
  <2>2. \A d \in Clients : Holds(d, a)' => Holds(d, a)
    BY <2>1 DEF Holds
  <2>3. jobs' = [jobs EXCEPT ![w] = NoJob] /\ clientCache' = clientCache \ {jobs[w].h}
    BY <1>13 DEF LogOut
  <2>4. jobs[w] = Packet("logout", jobs[w].h)
    BY <1>13 DEF LogOut, TypeOK, NoJob, Packet
  <2>5. \A v \in Workers : jobs'[v] = logout => jobs[v] = logout /\ v # w
    BY <2>3 DEF NoJob, Packet, TypeOK
  <2>6. CASE jobs[w].h = a
    <3>1. InHand(a) /\ \A v \in Workers : jobs[v] = logout => v = w
      BY <1>0, <2>1, <2>4, <2>6 DEF InHand, OnceThere
    <3>2. ~Granted(a) /\ ~Sent(a) /\ ~Held(a)
      BY <1>0, <2>1, <3>1 DEF InOnePlace
    <3>3. ~Granted(a)' /\ ~Sent(a)' /\ ~Held(a)' /\ ~InHand(a)'
      BY <1>q, <2>1, <2>2, <2>5, <3>1, <3>2 DEF Held, InHand
    <3>4. InOnePlace(a)'
      BY <3>3 DEF InOnePlace
    <3>5. \A c, d \in Clients : ~Holds(c, a)'
      BY <3>3 DEF Held
    <3>6. \A v \in Workers : jobs'[v] # logout
      BY <2>5, <3>1
    <3>7. Once(authAnswers, Answer(a, TRUE))' /\ Once(lobbyLink, Packet("logout", a))'
      BY <1>0, <1>q, <2>1 DEF OnceThere
    <3>8. OnceThere(a)'
      BY <3>5, <3>6, <3>7 DEF OnceThere
    <3>9. QED
      BY <3>4, <3>8
  <2>7. CASE jobs[w].h # a
    <3>1. a \in clientCache => a \in clientCache'
      BY <2>3, <2>7
    <3>2. QED
      BY <1>0, <1>q, <2>1, <2>2, <2>5, <3>1, NothingNew
  <2>8. QED
    BY <2>6, <2>7
<1>14. ASSUME NEW w \in Workers, getPlayerStateForAuthserver(w) PROVE Result
  <2> DEFINE x == jobs[w].h
             answer == Answer(x, x \notin clientCache)
             t == Append(authAnswers, answer)
  <2>1. UNCHANGED <<lobbyLink, ui, hash, doubled>>
    BY <1>14 DEF getPlayerStateForAuthserver, clientVars, authVars, sessionVars, lobbyVars, historyVars
  <2>2. \A d \in Clients : Holds(d, a)' => Holds(d, a)
    BY <2>1 DEF Holds
  <2>3. /\ jobs' = [jobs EXCEPT ![w] = NoJob] /\ clientCache' = clientCache \cup {x}
        /\ authAnswers' = t
    BY <1>14 DEF getPlayerStateForAuthserver
  <2>4. \A v \in Workers : jobs'[v] = logout => jobs[v] = logout
    BY <2>3 DEF NoJob, Packet, TypeOK
  <2>5. x \in Accounts
    BY <1>14 DEF getPlayerStateForAuthserver, TypeOK, NoJob
  <2>6. answer \in [h : Accounts, ok : BOOLEAN] /\ authAnswers \in Seq([h : Accounts, ok : BOOLEAN])
    BY <2>5 DEF Answer, TypeOK
  <2>7. /\ In(t, grant) <=> In(authAnswers, grant) \/ answer = grant
        /\ Once(authAnswers, grant) /\ ~(answer = grant /\ In(authAnswers, grant)) => Once(t, grant)
    <3> DEFINE S == [h : Accounts, ok : BOOLEAN]
    <3>1. authAnswers \in Seq(S) /\ answer \in S
      BY <2>6
    <3> HIDE DEF S, answer, grant
    <3>2. QED
      BY <3>1, AppendedIn
  <2>8. answer = grant <=> x = a /\ a \notin clientCache
    BY DEF Answer
  <2>9. Granted(a)' <=> In(t, grant)
    BY <2>3 DEF Granted, In
  <2>10. Once(authAnswers, Answer(a, TRUE))' <=> Once(t, grant)
    BY <2>3 DEF Once
  <2> HIDE DEF answer, t, grant
  <2>11. CASE answer = grant
    <3>1. ~Granted(a) /\ ~Sent(a) /\ ~InHand(a) /\ ~Held(a)
      BY <1>0, <2>1, <2>8, <2>11 DEF InOnePlace
    <3>2. ~Sent(a)' /\ ~InHand(a)' /\ ~Held(a)' /\ a \in clientCache'
      BY <1>q, <2>1, <2>2, <2>3, <2>4, <2>8, <2>11, <3>1 DEF InHand, Held
    <3>3. InOnePlace(a)'
      BY <3>2 DEF InOnePlace
    <3>4. ~In(authAnswers, grant) /\ Once(authAnswers, grant)
      BY <1>0, <2>1, <3>1 DEF Granted, OnceThere, grant
    <3>5. Once(authAnswers, Answer(a, TRUE))' /\ Once(lobbyLink, Packet("logout", a))'
      BY <1>0, <1>q, <2>1, <2>7, <2>10, <3>4 DEF OnceThere
    <3>6. OnceThere(a)'
      BY <3>2, <3>5 DEF OnceThere, InHand, Held
    <3>7. QED
      BY <3>3, <3>6
  <2>12. CASE answer # grant
    <3>1. /\ Granted(a)' => Granted(a)
          /\ Once(authAnswers, Answer(a, TRUE)) => Once(authAnswers, Answer(a, TRUE))'
      BY <2>7, <2>9, <2>10, <2>12 DEF Granted, grant
    <3>2. a \in clientCache => a \in clientCache'
      BY <2>3
    <3>3. QED
      BY <1>0, <1>q, <2>1, <2>2, <2>4, <3>1, <3>2, NothingNew
  <2>13. QED
    BY <2>11, <2>12
<1>15. ASSUME NEW w \in Workers, NEW n \in 1..Len(lobbyLink), TakeFromLobby(w, n) PROVE Result
  <2> DEFINE t == After(lobbyLink, n)
  <2>1. UNCHANGED <<authAnswers, ui, hash, clientCache, doubled>>
    BY <1>15 DEF TakeFromLobby, clientVars, authVars, sessionVars, lobbyVars, historyVars
  <2>2. \A d \in Clients : Holds(d, a)' => Holds(d, a)
    BY <2>1 DEF Holds
  <2>3. /\ jobs' = [jobs EXCEPT ![w] = Head(lobbyLink)]
        /\ lobbyLink' = t
    BY <1>15 DEF TakeFromLobby, After
  <2>4. lobbyLink \in Seq([kind : {"check", "logout"}, h : Accounts])
    BY DEF TypeOK
  <2>5. /\ In(lobbyLink, Head(lobbyLink))
        /\ In(t, logout) => In(lobbyLink, logout)
        /\ Once(lobbyLink, logout) => Once(t, logout) /\ ~(Head(lobbyLink) = logout /\ In(t, logout))
    BY <2>4, <1>15, RestIn
  <2> HIDE DEF t
  <2>6. Sent(a)' <=> In(t, logout)
    BY <2>3 DEF Sent, In
  <2>7. Once(lobbyLink, Packet("logout", a))' <=> Once(t, logout)
    BY <2>3 DEF Once
  <2>8. CASE Head(lobbyLink) = logout
    <3>1. Sent(a)
      BY <2>5, <2>8 DEF Sent
    <3>2. a \in clientCache /\ ~Granted(a) /\ ~InHand(a) /\ ~Held(a)
      BY <1>0, <2>1, <3>1 DEF InOnePlace
    <3>3. a \in clientCache' /\ ~Granted(a)' /\ ~Held(a)'
      BY <1>q, <2>1, <2>2, <3>2 DEF Held
    <3>4. Once(authAnswers, Answer(a, TRUE))' /\ Once(lobbyLink, logout)
      BY <1>0, <1>q, <2>1 DEF OnceThere
    <3>5. ~Sent(a)' /\ Once(lobbyLink, Packet("logout", a))'
      BY <2>5, <2>6, <2>7, <2>8, <3>4
    <3>6. \A v \in Workers : jobs'[v] = logout => v = w
      BY <2>3, <3>2 DEF InHand, TypeOK
    <3>7. InOnePlace(a)'
      BY <3>3, <3>5 DEF InOnePlace
    <3>8. OnceThere(a)'
      BY <3>3, <3>4, <3>5, <3>6 DEF OnceThere, Held
    <3>9. QED
      BY <3>7, <3>8
  <2>9. CASE Head(lobbyLink) # logout
    <3>1. \A v \in Workers : jobs'[v] = logout => jobs[v] = logout
      BY <2>3, <2>9 DEF TypeOK
    <3>2. /\ Sent(a)' => Sent(a)
          /\ Once(lobbyLink, Packet("logout", a)) => Once(lobbyLink, Packet("logout", a))'
      BY <2>5, <2>6, <2>7 DEF Sent
    <3>3. QED
      BY <1>0, <1>q, <2>1, <2>2, <3>1, <3>2, NothingNew
  <2>10. QED
    BY <2>8, <2>9
<1>16. ASSUME NEW c \in Clients, LogoutRequest(c) PROVE Result
  <2> DEFINE t == Append(lobbyLink, Packet("logout", hash[c]))
  <2>1. UNCHANGED <<authAnswers, jobs, clientCache, doubled>>
    BY <1>16 DEF LogoutRequest, clientVars, authVars, sessionVars, lobbyVars, historyVars
  <2>2. \A d \in Clients : Holds(d, a)' => Holds(d, a) /\ d # c
    BY <1>16 DEF LogoutRequest, Holds, TypeOK
  <2>3. lobbyLink' = t
    BY <1>16 DEF LogoutRequest
  <2>4. Packet("logout", hash[c]) \in [kind : {"check", "logout"}, h : Accounts]
    BY <1>16 DEF Known, LogoutRequest, Packet
  <2>5. /\ In(t, logout) <=> In(lobbyLink, logout) \/ Packet("logout", hash[c]) = logout
        /\ Once(lobbyLink, logout) /\ ~(Packet("logout", hash[c]) = logout /\ In(lobbyLink, logout))
             => Once(t, logout)
    <3> DEFINE S == [kind : {"check", "logout"}, h : Accounts]
               x == Packet("logout", hash[c])
    <3>1. lobbyLink \in Seq(S) /\ x \in S
      BY <2>4 DEF TypeOK
    <3> HIDE DEF S, x, logout
    <3>2. QED
      BY <3>1, AppendedIn DEF x
  <2> HIDE DEF t
  <2>6. CASE hash[c] = a /\ Holds(c, a) /\ lobbyLink' = t
    <3>1. Held(a)
      BY <1>16, <2>6 DEF Held
    <3>2. a \in clientCache /\ ~Granted(a) /\ ~Sent(a) /\ ~InHand(a)
      BY <1>0, <2>1, <2>6, <3>1 DEF InOnePlace
    <3>3. \A d \in Clients : ~Holds(d, a)'
      <4>1. \A d \in Clients : Holds(d, a) => d = c
        BY <1>0, <2>1, <2>6 DEF OnceThere
      <4>2. QED
        BY <2>2, <4>1
    <3>4. a \in clientCache' /\ ~Granted(a)' /\ ~InHand(a)' /\ ~Held(a)'
      BY <1>q, <2>1, <3>2, <3>3 DEF InHand, Held
    <3>5. Once(authAnswers, Answer(a, TRUE))' /\ Once(lobbyLink, logout)
      BY <1>0, <1>q, <2>1, <2>6 DEF OnceThere
    <3>6. ~In(lobbyLink, logout)
      BY <3>2 DEF Sent
    <3>7. Once(lobbyLink, Packet("logout", a))'
      BY <2>5, <2>6, <3>5, <3>6 DEF Once
    <3>8. InOnePlace(a)'
      BY <3>4 DEF InOnePlace
    <3>9. OnceThere(a)'
      BY <3>4, <3>5, <3>7 DEF OnceThere, InHand, Held
    <3>10. QED
      BY <3>8, <3>9
  <2>7. CASE hash[c] # a
    <3>1. Packet("logout", hash[c]) # logout
      BY <2>7 DEF Packet
    <3>2. /\ Sent(a)' => Sent(a)
          /\ Once(lobbyLink, Packet("logout", a)) => Once(lobbyLink, Packet("logout", a))'
      BY <2>3, <2>5, <3>1 DEF Sent, In, Once
    <3>3. QED
      BY <1>0, <1>q, <2>1, <2>2, <3>2, NothingNew
  <2>8. hash[c] = a => Holds(c, a)
    BY <1>16 DEF LogoutRequest, Holds
  <2>9. QED
    BY <2>3, <2>6, <2>7, <2>8
<1>17. ASSUME NEW c \in Clients, LobbyEnd(c) PROVE Result
  <2> DEFINE h == socketToHash[c]
             t == Append(lobbyLink, Packet("logout", h))
  <2>1. UNCHANGED <<authAnswers, jobs, clientCache>> /\ doubled \subseteq doubled'
    BY <1>17 DEF LobbyEnd, CleanupforSocket, clientVars, authVars, sessionVars, lobbyVars, historyVars
  <2>2. \A d \in Clients : Holds(d, a)' => Holds(d, a) /\ d # c
    BY <1>17 DEF LobbyEnd, Holds, TypeOK
  <2>3. \/ lobbyLink' = lobbyLink
        \/ h # None /\ lobbyLink' = t /\ (a = h => Holds(c, a))
    BY <1>17 DEF LobbyEnd, CleanupforSocket
  <2>4. h # None => Packet("logout", h) \in [kind : {"check", "logout"}, h : Accounts]
    BY DEF Packet, TypeOK
  <2>5. ASSUME h # None
        PROVE  /\ In(t, logout) <=> In(lobbyLink, logout) \/ Packet("logout", h) = logout
               /\ Once(lobbyLink, logout) /\ ~(Packet("logout", h) = logout /\ In(lobbyLink, logout))
                    => Once(t, logout)
    <3> DEFINE S == [kind : {"check", "logout"}, h : Accounts]
               x == Packet("logout", h)
    <3>1. lobbyLink \in Seq(S) /\ x \in S
      BY <2>4, <2>5 DEF TypeOK
    <3> HIDE DEF S, x, logout
    <3>2. QED
      BY <3>1, AppendedIn DEF x
  <2> HIDE DEF h, t
  <2>6. CASE h # None /\ h = a /\ Holds(c, a) /\ lobbyLink' = t
    <3>1. Held(a)
      BY <1>17, <2>6 DEF Held
    <3>2. a \in clientCache /\ ~Granted(a) /\ ~Sent(a) /\ ~InHand(a)
      BY <1>0, <2>1, <2>6, <3>1 DEF InOnePlace
    <3>3. \A d \in Clients : ~Holds(d, a)'
      <4>1. \A d \in Clients : Holds(d, a) => d = c
        BY <1>0, <2>1, <2>6 DEF OnceThere
      <4>2. QED
        BY <2>2, <4>1
    <3>4. a \in clientCache' /\ ~Granted(a)' /\ ~InHand(a)' /\ ~Held(a)'
      BY <1>q, <2>1, <3>2, <3>3 DEF InHand, Held
    <3>5. Once(authAnswers, Answer(a, TRUE))' /\ Once(lobbyLink, logout)
      BY <1>0, <1>q, <2>1, <2>6 DEF OnceThere
    <3>6. ~In(lobbyLink, logout)
      BY <3>2 DEF Sent
    <3>7. Once(lobbyLink, Packet("logout", a))'
      BY <2>5, <2>6, <3>5, <3>6 DEF Once
    <3>8. InOnePlace(a)'
      BY <3>4 DEF InOnePlace
    <3>9. OnceThere(a)'
      BY <3>4, <3>5, <3>7 DEF OnceThere, InHand, Held
    <3>10. QED
      BY <3>8, <3>9
  <2>7. CASE h # None /\ h # a /\ lobbyLink' = t
    <3>1. Packet("logout", h) # logout
      BY <2>7 DEF Packet
    <3>2. /\ Sent(a)' => Sent(a)
          /\ Once(lobbyLink, Packet("logout", a)) => Once(lobbyLink, Packet("logout", a))'
      BY <2>5, <2>7, <3>1 DEF Sent, In, Once
    <3>3. QED
      BY <1>0, <1>q, <2>1, <2>2, <3>2, NothingNew
  <2>8. CASE lobbyLink' = lobbyLink
    BY <1>0, <1>q, <2>1, <2>2, <2>8, NothingNew
  <2>9. QED
    BY <2>3, <2>6, <2>7, <2>8
<1>18. ASSUME NEW n \in 1..Len(authAnswers), HandleCheckSessionResult(n) PROVE Result
  <2> DEFINE t == After(authAnswers, n)
             answer == Head(authAnswers)
             fd == pendingQueues[answer.h]
  <2>1. UNCHANGED <<lobbyLink, jobs, clientCache, doubled>>
    BY <1>18 DEF HandleCheckSessionResult, clientVars, authVars, sessionVars, lobbyVars, historyVars
  <2>2. authAnswers \in Seq([h : Accounts, ok : BOOLEAN]) /\ authAnswers' = t
    BY <1>18 DEF TypeOK, HandleCheckSessionResult, After
  <2>3. answer \in [h : Accounts, ok : BOOLEAN]
    <3>1. /\ answer = authAnswers[1] /\ authAnswers[1] \in [h : Accounts, ok : BOOLEAN]
          /\ t \in Seq([h : Accounts, ok : BOOLEAN])
      BY <2>2, Rest
    <3>2. QED
      BY <3>1
  <2>4. /\ In(authAnswers, answer)
        /\ In(t, grant) => In(authAnswers, grant)
        /\ Once(authAnswers, grant) => Once(t, grant) /\ ~(answer = grant /\ In(t, grant))
    BY <2>2, RestIn
  <2>5. /\ fd = None => UNCHANGED <<ui, hash, authpeer>>
        /\ fd # None /\ answer.ok => TellSucceeded(fd, answer.h)
        /\ fd # None /\ ~answer.ok => TellFailed(fd)
    BY <1>18 DEF HandleCheckSessionResult
  <2> HIDE DEF t
  <2>6. /\ Granted(a)' <=> In(t, grant)
        /\ Once(authAnswers, Answer(a, TRUE))' <=> Once(t, grant)
    BY <2>2 DEF Granted, In, Once
  <2>7. ASSUME NEW d \in Clients, Holds(d, a)', ~Holds(d, a)
        PROVE  answer = grant /\ fd # None /\ authpeer[fd] = d
    <3>1. fd # None
      BY <2>5, <2>7 DEF Holds
    <3>2. ~TellFailed(fd)
      BY <2>7 DEF Holds, TellFailed, TypeOK
    <3>3. answer.ok /\ TellSucceeded(fd, answer.h)
      BY <2>3, <2>5, <3>1, <3>2
    <3>4. authpeer[fd] = d /\ answer.h = a
      BY <2>7, <3>3 DEF TellSucceeded, Holds, TypeOK
    <3>5. answer = grant
      BY <2>3, <3>3, <3>4 DEF Answer
    <3>6. QED
      BY <3>1, <3>4, <3>5
  <2> HIDE DEF answer, fd
  <2>8. CASE answer = grant
    <3>1. Granted(a)
      BY <2>4, <2>8 DEF Granted
    <3>2. a \in clientCache /\ ~Sent(a) /\ ~InHand(a) /\ ~Held(a)
      BY <1>0, <2>1, <3>1 DEF InOnePlace
    <3>3. a \in clientCache' /\ ~Sent(a)' /\ ~InHand(a)'
      BY <1>q, <2>1, <3>2 DEF InHand
    <3>4. Once(authAnswers, grant) /\ Once(lobbyLink, Packet("logout", a))'
      BY <1>0, <1>q, <2>1 DEF OnceThere
    <3>5. ~Granted(a)' /\ Once(authAnswers, Answer(a, TRUE))'
      BY <2>4, <2>6, <2>8, <3>4
    <3>6. \A d \in Clients : Holds(d, a)' => authpeer[fd] = d
      BY <2>7, <3>2 DEF Held
    <3>7. InOnePlace(a)'
      BY <3>3, <3>5 DEF InOnePlace
    <3>8. OnceThere(a)'
      BY <3>3, <3>4, <3>5, <3>6 DEF OnceThere, InHand
    <3>9. QED
      BY <3>7, <3>8
  <2>9. CASE answer # grant
    <3>1. \A d \in Clients : Holds(d, a)' => Holds(d, a)
      BY <2>7, <2>9
    <3>2. /\ Granted(a)' => Granted(a)
          /\ Once(authAnswers, Answer(a, TRUE)) => Once(authAnswers, Answer(a, TRUE))'
      BY <2>4, <2>6 DEF Granted
    <3>3. QED
      BY <1>0, <1>q, <2>1, <3>1, <3>2, NothingNew
  <2>10. QED
    BY <2>8, <2>9
<1>19. CASE UNCHANGED vars
  <2>1. UNCHANGED <<authAnswers, lobbyLink, jobs, clientCache, doubled, ui, hash>>
    BY <1>19 DEF vars, clientVars, authVars, sessionVars, lobbyVars, historyVars
  <2>2. \A d \in Clients : Holds(d, a)' => Holds(d, a)
    BY <2>1 DEF Holds
  <2>3. QED
    BY <1>0, <1>q, <2>1, <2>2, NothingNew
<1>20. QED
  BY <1>1, <1>2, <1>3, <1>4, <1>5, <1>6, <1>7, <1>8, <1>9, <1>10, <1>11, <1>12, <1>13, <1>14, <1>15, <1>16, <1>17, <1>18, <1>19 DEF Next, Launcher, Auth, Session, Lobby

(* The duplicate login check of the session server holds across the three   *)
(* servers, whatever is lost between them: two launchers hold one account   *)
(* only after a connection's end logged out an account it does not hold.    *)
THEOREM OneHolderAtATime == Spec => []OneHolder
<1>1. Init => OneInv
  BY OneInvInit
<1>2. TypeInv /\ OneInv /\ [Next]_vars => OneInv'
  BY OneInvNext
<1>3. OneInv => OneHolder
  BY DEF OneInv, OnceThere, OneHolder
<1>4. QED
  BY <1>1, <1>2, <1>3, TypeInvariant, PTL DEF Spec

-----------------------------------------------------------------------------
(* Sessions left behind.  A launcher the auth server still knows holds no   *)
(* account yet, and is behind one number: the end of its connection to the  *)
(* auth server, or another answer, never takes an account from it.          *)
AuthInv ==
  \A f \in Sockets : authpeer[f] # None =>
    /\ ui[authpeer[f]] \in {"out", "asking"}
    /\ \A g \in Sockets : authpeer[g] = authpeer[f] => g = f

LEMMA AuthInvNext == TypeInv /\ AuthInv /\ [Next]_vars => AuthInv'
<1> SUFFICES ASSUME TypeInv, AuthInv, [Next]_vars PROVE AuthInv'
  OBVIOUS
<1> USE DEF TypeInv
<1>1. ASSUME NEW c \in Clients, NEW fd \in Sockets, Connect(c, fd) PROVE AuthInv'
  BY <1>1, LoginAssumption DEF AuthInv, TypeOK, Connect, clientVars
<1>2. ASSUME NEW c \in Clients, NEW fd \in Sockets, NEW h \in Accounts, LoginRequest(c, fd, h)
      PROVE  AuthInv'
  BY <1>2 DEF AuthInv, TypeOK, LoginRequest
<1>3. ASSUME NEW c \in Clients, NEW fd \in Sockets, CloseAuth(c, fd) PROVE AuthInv'
  BY <1>3, LoginAssumption DEF AuthInv, TypeOK, CloseAuth
<1>4. ASSUME NEW r \in requests, RefuseLogin(r) PROVE AuthInv'
  BY <1>4 DEF AuthInv, TypeOK, RefuseLogin, TellFailed
<1>5. ASSUME NEW n \in 1..Len(authAnswers), HandleCheckSessionResult(n) PROVE AuthInv'
  <2> DEFINE answer == Head(authAnswers)
             fd == pendingQueues[answer.h]
  <2>1. \/ UNCHANGED <<ui, authpeer>>
        \/ fd # None /\ TellSucceeded(fd, answer.h)
        \/ fd # None /\ TellFailed(fd)
    BY <1>5 DEF HandleCheckSessionResult
  <2>2. fd # None => fd \in Sockets
    <3>1. authAnswers \in Seq([h : Accounts, ok : BOOLEAN])
      BY DEF TypeOK
    <3>2. /\ answer = authAnswers[1] /\ authAnswers[1] \in [h : Accounts, ok : BOOLEAN]
          /\ After(authAnswers, n) \in Seq([h : Accounts, ok : BOOLEAN])
      BY <3>1, Rest
    <3>3. QED
      BY <3>2 DEF TypeOK
  <2> HIDE DEF answer, fd
  <2>3. CASE UNCHANGED <<ui, authpeer>>
    BY <2>3 DEF AuthInv
  <2>4. CASE fd # None /\ TellSucceeded(fd, answer.h)
    BY <2>2, <2>4, LoginAssumption DEF AuthInv, TypeOK, TellSucceeded
  <2>5. CASE fd # None /\ TellFailed(fd)
    BY <2>2, <2>5 DEF AuthInv, TypeOK, TellFailed
  <2>6. QED
    BY <2>1, <2>3, <2>4, <2>5
<1>6. ASSUME NEW c \in Clients, \/ Quit(c) \/ TryConnectLobbyServer(c) \/ LogoutRequest(c)
                               \/ LobbyEnd(c) \/ Disconnect(c)
      PROVE  AuthInv'
  <2>1. ui[c] \notin {"out", "asking"} /\ UNCHANGED authpeer
    BY <1>6 DEF Quit, TryConnectLobbyServer, LogoutRequest, LobbyEnd, Disconnect, authVars
  <2>2. \A d \in Clients : d # c => ui'[d] = ui[d]
    BY <1>6 DEF TypeOK, Quit, TryConnectLobbyServer, LogoutRequest, LobbyEnd, Disconnect
  <2>3. QED
    BY <2>1, <2>2 DEF AuthInv, TypeOK
<1>7. ASSUME NEW n \in 1..Len(lobbyAnswers), HandleLobbyAnswer(n) PROVE AuthInv'
  <2>1. UNCHANGED authpeer
    BY <1>7 DEF HandleLobbyAnswer, authVars
  <2>2. \A d \in Clients : ui[d] \in {"out", "asking"} => ui'[d] = ui[d]
    BY <1>7 DEF TypeOK, HandleLobbyAnswer
  <2>3. QED
    BY <2>1, <2>2 DEF AuthInv, TypeOK
<1>8. CASE UNCHANGED <<ui, authpeer>>
  BY <1>8 DEF AuthInv
<1>9. ASSUME NEW r \in requests, HandleLogin(r) PROVE AuthInv'
  BY <1>8, <1>9 DEF HandleLogin, clientVars
<1>10. ASSUME NEW w \in Workers, NEW n \in 1..Len(authLink), TakeFromAuth(w, n) PROVE AuthInv'
  BY <1>8, <1>10 DEF TakeFromAuth, clientVars, authVars
<1>11. ASSUME NEW w \in Workers, NEW n \in 1..Len(lobbyLink), TakeFromLobby(w, n) PROVE AuthInv'
  BY <1>8, <1>11 DEF TakeFromLobby, clientVars, authVars
<1>12. ASSUME NEW w \in Workers,
              \/ getPlayerStateForAuthserver(w) \/ getPlayerStateForGameLobbyserver(w) \/ LogOut(w)
       PROVE  AuthInv'
  BY <1>8, <1>12 DEF getPlayerStateForAuthserver, getPlayerStateForGameLobbyserver, LogOut,
                     clientVars, authVars
<1>13. ASSUME NEW h \in Accounts, SendGameStart(h) PROVE AuthInv'
  BY <1>8, <1>13 DEF SendGameStart, clientVars, authVars
<1>14. CASE UNCHANGED vars
  BY <1>8, <1>14 DEF vars, clientVars, authVars
<1>15. QED
  BY <1>1, <1>2, <1>3, <1>4, <1>5, <1>6, <1>7, <1>9, <1>10, <1>11, <1>12, <1>13, <1>14
  DEF Next, Launcher, Auth, Session, Lobby

Explained(h) == cause[h] # "none" \/ InHand(h) \/ Sent(h) \/ Granted(h) \/ Held(h)
LockedOut == \A h \in clientCache : Explained(h)

LEMMA BlameStays ==
  ASSUME NEW hs, NEW h \in Accounts, NEW why, why # "none", cause[h] # "none" \/ h \in hs
  PROVE  Blame(why, hs)[h] # "none"
BY DEF Blame

LEMMA LockedOutNext == TypeInv /\ AuthInv /\ LockedOut /\ [Next]_vars => LockedOut'
<1> SUFFICES ASSUME TypeInv, AuthInv, LockedOut, [Next]_vars, NEW a \in Accounts, a \in clientCache'
             PROVE  Explained(a)'
  BY TypeInvNext DEF LockedOut, TypeInv, TypeOK
<1> DEFINE grant == Answer(a, TRUE)
           logout == Packet("logout", a)
           Result == Explained(a)'
<1> USE DEF TypeInv
<1>0. a \in clientCache => Explained(a)
  BY DEF LockedOut
<1>q. /\ UNCHANGED authAnswers => (Granted(a)' <=> Granted(a))
      /\ UNCHANGED lobbyLink => (Sent(a)' <=> Sent(a))
      /\ UNCHANGED jobs => (InHand(a)' <=> InHand(a))
  BY DEF Granted, Sent, In, InHand
<1>r. ASSUME NEW c \in Clients, Holds(c, a)' PROVE Result
  BY <1>r DEF Explained, Held
<1>1. ASSUME NEW c \in Clients, NEW fd \in Sockets, Connect(c, fd) PROVE Result
  <2>1. UNCHANGED <<authAnswers, lobbyLink, jobs, clientCache, cause>>
    BY <1>1 DEF Connect, clientVars, authVars, sessionVars, lobbyVars, historyVars
  <2>2. \A d \in Clients : Holds(d, a) => Holds(d, a)'
    BY <1>1 DEF Connect, Holds, TypeOK, clientVars, authVars, sessionVars, lobbyVars, historyVars
  <2>3. QED
    BY <1>0, <1>q, <1>r, <2>1, <2>2 DEF Explained, Held
<1>2. ASSUME NEW c \in Clients, NEW fd \in Sockets, NEW h \in Accounts, LoginRequest(c, fd, h) PROVE Result
  <2>1. UNCHANGED <<authAnswers, lobbyLink, jobs, clientCache, cause>>
    BY <1>2 DEF LoginRequest, clientVars, authVars, sessionVars, lobbyVars, historyVars
  <2>2. \A d \in Clients : Holds(d, a) => Holds(d, a)'
    BY <1>2 DEF LoginRequest, Holds, TypeOK, clientVars, authVars, sessionVars, lobbyVars, historyVars
  <2>3. QED
    BY <1>0, <1>q, <1>r, <2>1, <2>2 DEF Explained, Held
<1>3. ASSUME NEW c \in Clients, NEW fd \in Sockets, CloseAuth(c, fd) PROVE Result
  <2>1. UNCHANGED <<authAnswers, lobbyLink, jobs, clientCache, cause>>
    BY <1>3 DEF CloseAuth, clientVars, authVars, sessionVars, lobbyVars, historyVars
  <2>2. \A d \in Clients : Holds(d, a) => Holds(d, a)'
    BY <1>3, LoginAssumption DEF CloseAuth, Holds, TypeOK, AuthInv, clientVars, authVars, sessionVars, lobbyVars, historyVars
  <2>3. QED
    BY <1>0, <1>q, <1>r, <2>1, <2>2 DEF Explained, Held
<1>4. ASSUME NEW r \in requests, RefuseLogin(r) PROVE Result
  <2>1. UNCHANGED <<authAnswers, lobbyLink, jobs, clientCache, cause>>
    BY <1>4 DEF RefuseLogin, TellFailed, clientVars, authVars, sessionVars, lobbyVars, historyVars
  <2>2. \A d \in Clients : Holds(d, a) => Holds(d, a)'
    BY <1>4 DEF RefuseLogin, TellFailed, Holds, TypeOK, clientVars, authVars, sessionVars, lobbyVars, historyVars
  <2>3. QED
    BY <1>0, <1>q, <1>r, <2>1, <2>2 DEF Explained, Held
<1>5. ASSUME NEW r \in requests, HandleLogin(r) PROVE Result
  <2>1. UNCHANGED <<authAnswers, lobbyLink, jobs, clientCache, cause>>
    BY <1>5 DEF HandleLogin, clientVars, authVars, sessionVars, lobbyVars, historyVars
  <2>2. \A d \in Clients : Holds(d, a) => Holds(d, a)'
    BY <1>5 DEF HandleLogin, Holds, TypeOK, clientVars, authVars, sessionVars, lobbyVars, historyVars
  <2>3. QED
    BY <1>0, <1>q, <1>r, <2>1, <2>2 DEF Explained, Held
<1>6. ASSUME NEW n \in 1..Len(lobbyAnswers), HandleLobbyAnswer(n) PROVE Result
  <2>1. UNCHANGED <<authAnswers, lobbyLink, jobs, clientCache, cause>>
    BY <1>6 DEF HandleLobbyAnswer, clientVars, authVars, sessionVars, lobbyVars, historyVars
  <2>2. \A d \in Clients : Holds(d, a) => Holds(d, a)'
    BY <1>6 DEF HandleLobbyAnswer, Holds, TypeOK, clientVars, authVars, sessionVars, lobbyVars, historyVars
  <2>3. QED
    BY <1>0, <1>q, <1>r, <2>1, <2>2 DEF Explained, Held
<1>7. ASSUME NEW h \in Accounts, SendGameStart(h) PROVE Result
  <2>1. UNCHANGED <<authAnswers, lobbyLink, jobs, clientCache, cause>>
    BY <1>7 DEF SendGameStart, clientVars, authVars, sessionVars, lobbyVars, historyVars
  <2>2. \A d \in Clients : Holds(d, a) => Holds(d, a)'
    BY <1>7 DEF SendGameStart, Holds, TypeOK, clientVars, authVars, sessionVars, lobbyVars, historyVars
  <2>3. QED
    BY <1>0, <1>q, <1>r, <2>1, <2>2 DEF Explained, Held
<1>8. ASSUME NEW c \in Clients, Disconnect(c) PROVE Result
  <2>1. UNCHANGED <<authAnswers, lobbyLink, jobs, clientCache, cause>>
    BY <1>8 DEF Disconnect, clientVars, authVars, sessionVars, lobbyVars, historyVars
  <2>2. \A d \in Clients : Holds(d, a) => Holds(d, a)'
    BY <1>8 DEF Disconnect, Holds, TypeOK, clientVars, authVars, sessionVars, lobbyVars, historyVars
  <2>3. QED
    BY <1>0, <1>q, <1>r, <2>1, <2>2 DEF Explained, Held
<1>9. ASSUME NEW c \in Clients, TryConnectLobbyServer(c) PROVE Result
  <2>1. UNCHANGED <<authAnswers, jobs, clientCache, cause>>
    BY <1>9 DEF TryConnectLobbyServer, clientVars, authVars, sessionVars, lobbyVars, historyVars
  <2>2. \A d \in Clients : Holds(d, a) => Holds(d, a)'
    BY <1>9 DEF TryConnectLobbyServer, Holds, TypeOK
  <2>3. Packet("check", hash[c]) \in [kind : {"check", "logout"}, h : Accounts]
    BY <1>9 DEF Known, TryConnectLobbyServer, Packet
  <2>4. lobbyLink' = Append(lobbyLink, Packet("check", hash[c]))
    BY <1>9 DEF TryConnectLobbyServer
  <2>5. Sent(a) => Sent(a)'
    <3> DEFINE S == [kind : {"check", "logout"}, h : Accounts]
               x == Packet("check", hash[c])
               t == Append(lobbyLink, x)
    <3>1. lobbyLink \in Seq(S) /\ x \in S
      BY <2>3 DEF TypeOK
    <3> HIDE DEF S, x
    <3>2. \A e : In(t, e) <=> In(lobbyLink, e) \/ x = e
      BY <3>1, AppendedIn
    <3>3. lobbyLink' = t
      BY <2>4 DEF x
    <3> HIDE DEF t
    <3>4. QED
      BY <3>2, <3>3 DEF Sent, In, x
  <2>6. QED
    BY <1>0, <1>q, <1>r, <2>1, <2>2, <2>5 DEF Explained, Held
<1>10. ASSUME NEW w \in Workers, NEW n \in 1..Len(authLink), TakeFromAuth(w, n) PROVE Result
  <2>1. UNCHANGED <<authAnswers, lobbyLink, ui, hash, clientCache, cause>>
    BY <1>10 DEF TakeFromAuth, clientVars, authVars, sessionVars, lobbyVars, historyVars
  <2>2. InHand(a) => InHand(a)'
    BY <1>10 DEF TakeFromAuth, InHand, TypeOK, Packet, NoJob
  <2>3. Held(a) => Held(a)'
    BY <2>1 DEF Held, Holds
  <2>4. QED
    BY <1>0, <1>q, <2>1, <2>2, <2>3 DEF Explained
<1>11. ASSUME NEW w \in Workers, getPlayerStateForGameLobbyserver(w) PROVE Result
  <2>1. UNCHANGED <<authAnswers, lobbyLink, ui, hash, clientCache, cause>>
    BY <1>11 DEF getPlayerStateForGameLobbyserver, clientVars, authVars, sessionVars, lobbyVars, historyVars
  <2>2. InHand(a) => InHand(a)'
    BY <1>11 DEF getPlayerStateForGameLobbyserver, InHand, TypeOK, Packet
  <2>3. Held(a) => Held(a)'
    BY <2>1 DEF Held, Holds
  <2>4. QED
    BY <1>0, <1>q, <2>1, <2>2, <2>3 DEF Explained
<1>12. ASSUME NEW w \in Workers, LogOut(w) PROVE Result
  <2>1. UNCHANGED <<authAnswers, lobbyLink, ui, hash, cause>>
    BY <1>12 DEF LogOut, clientVars, authVars, sessionVars, lobbyVars, historyVars
  <2>2. a \in clientCache /\ a # jobs[w].h
    BY <1>12 DEF LogOut
  <2>3. InHand(a) => InHand(a)'
    BY <1>12, <2>2 DEF LogOut, InHand, TypeOK, Packet
  <2>4. Held(a) => Held(a)'
    BY <2>1 DEF Held, Holds
  <2>5. QED
    BY <1>0, <1>q, <2>1, <2>2, <2>3, <2>4 DEF Explained
<1>13. ASSUME NEW w \in Workers, getPlayerStateForAuthserver(w) PROVE Result
  <2> DEFINE h == jobs[w].h
             answer == Answer(h, h \notin clientCache)
             t == Append(authAnswers, answer)
  <2>1. UNCHANGED <<lobbyLink, ui, hash>>
    BY <1>13 DEF getPlayerStateForAuthserver, clientVars, authVars, sessionVars, lobbyVars, historyVars
  <2>2. /\ authAnswers' = t /\ clientCache' = clientCache \cup {h}
        /\ cause' = IF h \in clientCache THEN cause ELSE [cause EXCEPT ![h] = "none"]
    BY <1>13 DEF getPlayerStateForAuthserver
  <2>3. InHand(a) => InHand(a)'
    BY <1>13 DEF getPlayerStateForAuthserver, InHand, TypeOK, Packet
  <2>4. Held(a) => Held(a)'
    BY <2>1 DEF Held, Holds
  <2>5. h \in Accounts
    BY <1>13 DEF getPlayerStateForAuthserver, TypeOK, NoJob
  <2>6. \A e : In(t, e) <=> In(authAnswers, e) \/ answer = e
    <3> DEFINE S == [h : Accounts, ok : BOOLEAN]
    <3>1. authAnswers \in Seq(S) /\ answer \in S
      BY <2>5 DEF TypeOK, Answer
    <3> HIDE DEF S, answer
    <3>2. QED
      BY <3>1, AppendedIn
  <2>7. h = a /\ a \notin clientCache => answer = grant
    OBVIOUS
  <2> HIDE DEF h, answer, t, grant
  <2>8. Granted(a)' <=> Granted(a) \/ answer = grant
    BY <2>2, <2>6 DEF Granted, In, grant
  <2>9. CASE a \in clientCache
    <3>1. cause'[a] = cause[a]
      BY <2>2, <2>9 DEF TypeOK
    <3>2. QED
      BY <1>0, <1>q, <2>1, <2>3, <2>4, <2>8, <2>9, <3>1 DEF Explained
  <2>10. CASE a \notin clientCache
    BY <2>2, <2>7, <2>8, <2>10 DEF Explained
  <2>11. QED
    BY <2>9, <2>10
<1>14. ASSUME NEW c \in Clients, Quit(c) PROVE Result
  <2>1. UNCHANGED <<authAnswers, lobbyLink, jobs, clientCache>>
    BY <1>14 DEF Quit, clientVars, authVars, sessionVars, lobbyVars, historyVars
  <2>2. \A d \in Clients : d # c => (Holds(d, a) => Holds(d, a)')
    BY <1>14 DEF Quit, Holds, TypeOK
  <2>3. cause' = Blame("quit", {hash[c]})
    BY <1>14 DEF Quit
  <2>4. cause[a] # "none" \/ Holds(c, a) => cause'[a] # "none"
    BY <2>3, BlameStays DEF Holds
  <2>5. Explained(a)
    BY <1>0, <2>1
  <2>6. QED
    BY <1>q, <1>r, <2>1, <2>2, <2>4, <2>5 DEF Explained, Held
<1>15. ASSUME NEW w \in Workers, NEW n \in 1..Len(lobbyLink), TakeFromLobby(w, n) PROVE Result
  <2> DEFINE t == After(lobbyLink, n)
  <2>1. UNCHANGED <<authAnswers, ui, hash, clientCache>>
    BY <1>15 DEF TakeFromLobby, clientVars, authVars, sessionVars, lobbyVars, historyVars
  <2>2. /\ jobs[w] = NoJob /\ jobs' = [jobs EXCEPT ![w] = Head(lobbyLink)]
        /\ cause' = Blame("lost", LostLogouts(lobbyLink, n)) /\ lobbyLink' = t
    BY <1>15 DEF TakeFromLobby, After
  <2>3. lobbyLink \in Seq([kind : {"check", "logout"}, h : Accounts])
    BY DEF TypeOK
  <2>4. In(lobbyLink, logout) =>
          Head(lobbyLink) = logout \/ In(t, logout) \/ \E j \in 2..n : lobbyLink[j] = logout
    BY <2>3, <1>15, RestIn
  <2> HIDE DEF t
  <2>5. cause[a] # "none" => cause'[a] # "none"
    BY <2>2, BlameStays
  <2>6. ASSUME NEW j \in 2..n, lobbyLink[j] = logout PROVE cause'[a] # "none"
    <3>1. a \in LostLogouts(lobbyLink, n)
      BY <2>6 DEF LostLogouts, Packet
    <3>2. QED
      BY <2>2, <3>1, BlameStays
  <2>7. Head(lobbyLink) = logout => InHand(a)'
    BY <2>2 DEF InHand, TypeOK
  <2>8. In(t, logout) => Sent(a)'
    BY <2>2 DEF Sent, In
  <2>9. Sent(a) => Explained(a)'
    BY <2>4, <2>6, <2>7, <2>8 DEF Sent, Explained
  <2>10. InHand(a) => InHand(a)'
    BY <2>2 DEF InHand, TypeOK, NoJob, Packet
  <2>11. Held(a) => Held(a)'
    BY <2>1 DEF Held, Holds
  <2>12. Explained(a)
    BY <1>0, <2>1
  <2>13. QED
    BY <1>q, <2>1, <2>5, <2>9, <2>10, <2>11, <2>12 DEF Explained
<1>16. ASSUME NEW c \in Clients, LogoutRequest(c) PROVE Result
  <2>1. UNCHANGED <<authAnswers, jobs, clientCache, cause>>
    BY <1>16 DEF LogoutRequest, clientVars, authVars, sessionVars, lobbyVars, historyVars
  <2>2. \A d \in Clients : d # c => (Holds(d, a) => Holds(d, a)')
    BY <1>16 DEF LogoutRequest, Holds, TypeOK
  <2>3. Packet("logout", hash[c]) \in [kind : {"check", "logout"}, h : Accounts]
    BY <1>16 DEF Known, LogoutRequest, Packet
  <2>4. lobbyLink' = Append(lobbyLink, Packet("logout", hash[c]))
    BY <1>16 DEF LogoutRequest
  <2>5. Sent(a) \/ Packet("logout", hash[c]) = logout => Sent(a)'
    <3> DEFINE S == [kind : {"check", "logout"}, h : Accounts]
               x == Packet("logout", hash[c])
               t == Append(lobbyLink, x)
    <3>1. lobbyLink \in Seq(S) /\ x \in S
      BY <2>3 DEF TypeOK
    <3> HIDE DEF S, x
    <3>2. \A e : In(t, e) <=> In(lobbyLink, e) \/ x = e
      BY <3>1, AppendedIn
    <3>3. lobbyLink' = t
      BY <2>4 DEF x
    <3> HIDE DEF t
    <3>4. QED
      BY <3>2, <3>3 DEF Sent, In, x
  <2>6. Holds(c, a) => Packet("logout", hash[c]) = logout
    BY DEF Holds
  <2>7. Explained(a)
    BY <1>0, <2>1
  <2>8. QED
    BY <1>q, <1>r, <2>1, <2>2, <2>5, <2>6, <2>7 DEF Explained, Held
<1>17. ASSUME NEW c \in Clients, LobbyEnd(c) PROVE Result
  <2> DEFINE h == socketToHash[c]
  <2>1. UNCHANGED <<authAnswers, jobs, clientCache>>
    BY <1>17 DEF LobbyEnd, clientVars, authVars, sessionVars, lobbyVars, historyVars
  <2>2. \A d \in Clients : d # c => (Holds(d, a) => Holds(d, a)')
    BY <1>17 DEF LobbyEnd, Holds, TypeOK
  <2>3. h # None => Packet("logout", h) \in [kind : {"check", "logout"}, h : Accounts]
    BY DEF Packet, TypeOK
  <2>4. CASE /\ lobbyLink' = Append(lobbyLink, Packet("logout", h)) /\ h # None
             /\ cause' = Blame("unregistered", {hash[c]} \ {h, None})
    <3>1. Sent(a) \/ Packet("logout", h) = logout => Sent(a)'
      <4> DEFINE S == [kind : {"check", "logout"}, h : Accounts]
                 x == Packet("logout", h)
                 t == Append(lobbyLink, x)
      <4>1. lobbyLink \in Seq(S) /\ x \in S
        BY <2>3, <2>4 DEF TypeOK
      <4> HIDE DEF S, x
      <4>2. \A e : In(t, e) <=> In(lobbyLink, e) \/ x = e
        BY <4>1, AppendedIn
      <4>3. lobbyLink' = t
        BY <2>4 DEF x
      <4> HIDE DEF t
      <4>4. QED
        BY <4>2, <4>3 DEF Sent, In, x
    <3>2. h = a => Packet("logout", h) = logout
      OBVIOUS
    <3>3. Holds(c, a) /\ h # a => cause'[a] # "none"
      BY <2>4, BlameStays, LoginAssumption DEF Holds
    <3>4. cause[a] # "none" => cause'[a] # "none"
      BY <2>4, BlameStays
    <3>5. Explained(a)
      BY <1>0, <2>1
    <3>6. QED
      BY <1>q, <1>r, <2>1, <2>2, <3>1, <3>2, <3>3, <3>4, <3>5 DEF Explained, Held
  <2>5. CASE lobbyLink' = lobbyLink /\ cause' = Blame("unregistered", {hash[c]} \ {None})
    <3>1. cause[a] # "none" \/ Holds(c, a) => cause'[a] # "none"
      BY <2>5, BlameStays, LoginAssumption DEF Holds
    <3>2. Explained(a)
      BY <1>0, <2>1
    <3>3. QED
      BY <1>q, <1>r, <2>1, <2>2, <2>5, <3>1, <3>2 DEF Explained, Held
  <2>6. QED
    BY <1>17, <2>4, <2>5 DEF LobbyEnd, CleanupforSocket
<1>18. ASSUME NEW n \in 1..Len(authAnswers), HandleCheckSessionResult(n) PROVE Result
  <2> DEFINE t == After(authAnswers, n)
             answer == Head(authAnswers)
             fd == pendingQueues[answer.h]
             hs == LostSuccesses(authAnswers, n) \cup
                     {h \in {answer.h} : answer.ok /\ (fd = None \/ authpeer[fd] = None)}
  <2>1. UNCHANGED <<lobbyLink, jobs, clientCache>>
    BY <1>18 DEF HandleCheckSessionResult, clientVars, authVars, sessionVars, lobbyVars, historyVars
  <2>2. authAnswers \in Seq([h : Accounts, ok : BOOLEAN]) /\ authAnswers' = t
    BY <1>18 DEF TypeOK, HandleCheckSessionResult, After
  <2>3. answer \in [h : Accounts, ok : BOOLEAN]
    <3>1. /\ answer = authAnswers[1] /\ authAnswers[1] \in [h : Accounts, ok : BOOLEAN]
          /\ t \in Seq([h : Accounts, ok : BOOLEAN])
      BY <2>2, Rest
    <3>2. QED
      BY <3>1
  <2>4. In(authAnswers, grant) =>
          answer = grant \/ In(t, grant) \/ \E j \in 2..n : authAnswers[j] = grant
    BY <2>2, RestIn
  <2>5. /\ fd = None => UNCHANGED <<ui, hash, authpeer>>
        /\ fd # None /\ answer.ok => TellSucceeded(fd, answer.h)
        /\ fd # None /\ ~answer.ok => TellFailed(fd)
        /\ cause' = Blame("unheard", hs)
    BY <1>18 DEF HandleCheckSessionResult
  <2>6. fd \in Sockets \cup {None}
    BY <2>3 DEF TypeOK
  <2>7. ASSUME NEW j \in 2..n, authAnswers[j] = grant PROVE cause'[a] # "none"
    <3>1. a \in LostSuccesses(authAnswers, n)
      BY <2>7 DEF LostSuccesses, Answer
    <3>2. QED
      BY <2>5, <3>1, BlameStays
  <2>8. answer = grant /\ (fd = None \/ authpeer[fd] = None) => cause'[a] # "none"
    <3>1. answer = grant /\ (fd = None \/ authpeer[fd] = None) => a \in hs
      BY DEF Answer
    <3>2. QED
      BY <2>5, <3>1, BlameStays
  <2>9. cause[a] # "none" => cause'[a] # "none"
    BY <2>5, BlameStays
  <2>10. answer = grant => answer.ok /\ answer.h = a
    BY DEF Answer
  <2> HIDE DEF t, answer, fd, hs
  <2>11. answer = grant /\ fd # None /\ authpeer[fd] # None => Held(a)'
    <3>1. SUFFICES ASSUME answer = grant, fd # None, authpeer[fd] # None PROVE Held(a)'
      OBVIOUS
    <3>2. authpeer[fd] \in Clients /\ TellSucceeded(fd, a)
      BY <2>5, <2>6, <2>10, <3>1 DEF TypeOK
    <3>3. \E c \in Clients : Holds(c, a)'
      <4>1. ui'[authpeer[fd]] = "in" /\ hash'[authpeer[fd]] = a
        BY <3>2 DEF TellSucceeded
      <4>2. \A c \in Clients : ui'[c] = "in" /\ hash'[c] = a => Holds(c, a)'
        BY DEF Holds
      <4>3. QED
        BY <3>2, <4>1, <4>2
    <3>4. QED
      BY <3>3 DEF Held
  <2>12. Held(a) => Held(a)'
    BY <2>5, <2>6, LoginAssumption DEF TellSucceeded, TellFailed, TypeOK, AuthInv, Held, Holds
  <2>13. In(t, grant) => Granted(a)'
    BY <2>2 DEF Granted, In
  <2>14. Granted(a) => Explained(a)'
    BY <2>4, <2>7, <2>8, <2>11, <2>13 DEF Granted, Explained
  <2>15. Explained(a)
    BY <1>0, <2>1
  <2>16. QED
    BY <1>q, <2>1, <2>9, <2>12, <2>14, <2>15 DEF Explained
<1>19. CASE UNCHANGED vars
  <2>1. UNCHANGED <<authAnswers, lobbyLink, jobs, clientCache, cause, ui, hash>>
    BY <1>19 DEF vars, clientVars, authVars, sessionVars, lobbyVars, historyVars
  <2>2. Held(a) => Held(a)'
    BY <2>1 DEF Held, Holds
  <2>3. QED
    BY <1>0, <1>q, <2>1, <2>2 DEF Explained
<1>20. QED
  BY <1>1, <1>2, <1>3, <1>4, <1>5, <1>6, <1>7, <1>8, <1>9, <1>10, <1>11, <1>12, <1>13, <1>14, <1>15, <1>16, <1>17, <1>18, <1>19 DEF Next, Launcher, Auth, Session, Lobby

(* A player is locked out of an account only by one of the named losses, or *)
(* until a message that is on its way arrives: whatever order the three     *)
(* servers work in, no other session is left without its player.            *)
THEOREM LockOutsAreExplained == Spec => []LockedOutExplained
<1>1. Init => AuthInv /\ LockedOut
  BY DEF Init, AuthInv, LockedOut
<1>2. TypeInv /\ AuthInv /\ LockedOut /\ [Next]_vars => AuthInv' /\ LockedOut'
  BY AuthInvNext, LockedOutNext
<1>3. LockedOut => LockedOutExplained
  BY DEF LockedOut, Explained, LockedOutExplained, UnderWay, LoggingOut, Answered, InHand, Sent,
         Granted, Held, In
<1>4. QED
  BY <1>1, <1>2, <1>3, TypeInvariant, PTL DEF Spec

-----------------------------------------------------------------------------
(* The lives of the sessions.  A client knows a hash only while it holds    *)
(* the account, and an account is blamed for a loss only once it has one:   *)
(* its session is nowhere any more.                                         *)
Forgotten == \A c \in Clients : ui[c] \notin {"in", "checking", "lobby"} => hash[c] = None

BlamedRight(h) == cause[h] # "none" =>
  h \in clientCache /\ ~Granted(h) /\ ~Sent(h) /\ ~InHand(h) /\ ~Held(h)

BlameInv == \A h \in Accounts : h \in doubled \/ BlamedRight(h)

LEMMA ForgottenNext == TypeInv /\ AuthInv /\ Forgotten /\ [Next]_vars => Forgotten'
<1> SUFFICES ASSUME TypeInv, AuthInv, Forgotten, [Next]_vars PROVE Forgotten'
  OBVIOUS
<1> USE DEF TypeInv
<1>1. ASSUME NEW c \in Clients, NEW fd \in Sockets,
             \/ Connect(c, fd) \/ CloseAuth(c, fd) \/ \E h \in Accounts : LoginRequest(c, fd, h)
      PROVE  Forgotten'
  <2>1. UNCHANGED hash /\ \A d \in Clients : ui'[d] \in {"in", "checking", "lobby"} \/ ui'[d] = ui[d]
                                             \/ ui[d] \in {"out", "asking"}
    BY <1>1, LoginAssumption DEF AuthInv, TypeOK, Connect, CloseAuth, LoginRequest, clientVars
  <2>2. QED
    BY <2>1 DEF Forgotten
<1>2. ASSUME NEW r \in requests, RefuseLogin(r) PROVE Forgotten'
  BY <1>2 DEF Forgotten, TypeOK, RefuseLogin, TellFailed
<1>3. ASSUME NEW n \in 1..Len(authAnswers), HandleCheckSessionResult(n) PROVE Forgotten'
  <2> DEFINE answer == Head(authAnswers)
             fd == pendingQueues[answer.h]
  <2>1. \/ UNCHANGED <<ui, hash>> \/ TellSucceeded(fd, answer.h) \/ TellFailed(fd)
    BY <1>3 DEF HandleCheckSessionResult
  <2> HIDE DEF answer, fd
  <2>2. CASE UNCHANGED <<ui, hash>>
    BY <2>2 DEF Forgotten
  <2>3. CASE TellSucceeded(fd, answer.h)
    BY <2>3 DEF Forgotten, TypeOK, TellSucceeded
  <2>4. CASE TellFailed(fd)
    BY <2>4 DEF Forgotten, TypeOK, TellFailed
  <2>5. QED
    BY <2>1, <2>2, <2>3, <2>4
<1>4. ASSUME NEW c \in Clients, \/ Quit(c) \/ TryConnectLobbyServer(c) \/ LogoutRequest(c)
                               \/ LobbyEnd(c) \/ Disconnect(c)
      PROVE  Forgotten'
  BY <1>4 DEF Forgotten, TypeOK, Quit, TryConnectLobbyServer, LogoutRequest, LobbyEnd, Disconnect
<1>5. ASSUME NEW n \in 1..Len(lobbyAnswers), HandleLobbyAnswer(n) PROVE Forgotten'
  <2>1. UNCHANGED hash /\ \A d \in Clients : ui'[d] = ui[d] \/ ui'[d] = "lobby"
    BY <1>5 DEF TypeOK, HandleLobbyAnswer
  <2>2. QED
    BY <2>1 DEF Forgotten
<1>6. CASE UNCHANGED <<ui, hash>>
  BY <1>6 DEF Forgotten
<1>7. ASSUME NEW r \in requests, HandleLogin(r) PROVE Forgotten'
  BY <1>6, <1>7 DEF HandleLogin, clientVars
<1>8. ASSUME NEW w \in Workers, NEW n \in 1..Len(authLink), TakeFromAuth(w, n) PROVE Forgotten'
  BY <1>6, <1>8 DEF TakeFromAuth, clientVars
<1>9. ASSUME NEW w \in Workers, NEW n \in 1..Len(lobbyLink), TakeFromLobby(w, n) PROVE Forgotten'
  BY <1>6, <1>9 DEF TakeFromLobby, clientVars
<1>10. ASSUME NEW w \in Workers,
              \/ getPlayerStateForAuthserver(w) \/ getPlayerStateForGameLobbyserver(w) \/ LogOut(w)
       PROVE  Forgotten'
  BY <1>6, <1>10 DEF getPlayerStateForAuthserver, getPlayerStateForGameLobbyserver, LogOut,
                     clientVars
<1>11. ASSUME NEW h \in Accounts, SendGameStart(h) PROVE Forgotten'
  BY <1>6, <1>11 DEF SendGameStart, clientVars
<1>12. CASE UNCHANGED vars
  BY <1>6, <1>12 DEF vars, clientVars
<1>13. QED
  BY <1>1, <1>2, <1>3, <1>4, <1>5, <1>7, <1>8, <1>9, <1>10, <1>11, <1>12
  DEF Next, Launcher, Auth, Session, Lobby

(* What a step may do to an account's session: Life!Lives, or nothing.      *)
Allowed(h) ==
  \/ Stage(h)' = Stage(h) /\ Holder(h)' = Holder(h)
  \/ /\ Holder(h)' = None
     /\ \/ Stage(h) = "free" /\ Stage(h)' = "granted"
        \/ Stage(h) = "granted" /\ Stage(h)' = "unheard"
        \/ Stage(h) = "held" /\ Stage(h)' \in {"ending", "quit", "unregistered"}
        \/ Stage(h) = "ending" /\ Stage(h)' \in {"lost", "free"}
        \/ Stage(h) # "unsure" /\ Stage(h)' = "unsure"
  \/ /\ Stage(h) = "granted" /\ Stage(h)' = "held"
     /\ Holder(h)' \in Clients /\ \A g \in Accounts : Holder(g) # Holder(h)'

LEMMA AllowedLives ==
  ASSUME NEW h \in Accounts, Allowed(h)
  PROVE  \/ Life!Lives(h)
         \/ /\ [g \in Accounts |-> Stage(g)]'[h] = [g \in Accounts |-> Stage(g)][h]
            /\ [g \in Accounts |-> Holder(g)]'[h] = [g \in Accounts |-> Holder(g)][h]
<1>1. /\ [g \in Accounts |-> Stage(g)]'[h] = Stage(h)' /\ [g \in Accounts |-> Stage(g)][h] = Stage(h)
      /\ [g \in Accounts |-> Holder(g)]'[h] = Holder(h)'
      /\ \A g \in Accounts : [f \in Accounts |-> Holder(f)][g] = Holder(g)
  OBVIOUS
<1>2. CASE Stage(h)' = Stage(h) /\ Holder(h)' = Holder(h)
  BY <1>1, <1>2
<1>3. CASE Holder(h)' = None /\ Stage(h) = "free" /\ Stage(h)' = "granted"
  BY <1>1, <1>3 DEF Life!Lives, Life!Grant, Life!Moves, Life!HeldByNobody
<1>4. CASE Holder(h)' = None /\ Stage(h) = "granted" /\ Stage(h)' = "unheard"
  BY <1>1, <1>4 DEF Life!Lives, Life!Unheard, Life!Moves, Life!HeldByNobody
<1>5. CASE Holder(h)' = None /\ Stage(h) = "held" /\ Stage(h)' \in {"ending", "quit", "unregistered"}
  BY <1>1, <1>5 DEF Life!Lives, Life!LogOut, Life!Leave, Life!Moves, Life!HeldByNobody
<1>6. CASE Holder(h)' = None /\ Stage(h) = "ending" /\ Stage(h)' \in {"lost", "free"}
  BY <1>1, <1>6 DEF Life!Lives, Life!Lose, Life!End, Life!Moves, Life!HeldByNobody
<1>7. CASE Holder(h)' = None /\ Stage(h) # "unsure" /\ Stage(h)' = "unsure"
  BY <1>1, <1>7 DEF Life!Lives, Life!Mistake, Life!HeldByNobody
<1>8. CASE /\ Stage(h) = "granted" /\ Stage(h)' = "held"
           /\ Holder(h)' \in Clients /\ \A g \in Accounts : Holder(g) # Holder(h)'
  BY <1>1, <1>8 DEF Life!Lives, Life!Hear, Life!Moves
<1>9. QED
  BY <1>2, <1>3, <1>4, <1>5, <1>6, <1>7, <1>8 DEF Allowed

(* Where an account's session is, before and after a step.                  *)
LEMMA StageHere ==
  ASSUME NEW h
  PROVE  /\ h \in doubled => Stage(h) = "unsure" /\ Holder(h) = None
         /\ h \notin doubled =>
              /\ Granted(h) => Stage(h) = "granted" /\ Holder(h) = None
              /\ ~Granted(h) /\ Held(h) => Stage(h) = "held"
              /\ ~Granted(h) /\ ~Held(h) /\ (Sent(h) \/ InHand(h)) =>
                   Stage(h) = "ending" /\ Holder(h) = None
              /\ ~Granted(h) /\ ~Held(h) /\ ~Sent(h) /\ ~InHand(h) =>
                   Stage(h) = IF h \in clientCache THEN cause[h] ELSE "free"
<1>1. Answered(h) <=> Granted(h)
  BY DEF Answered, Granted, In
<1>2. LoggingOut(h) <=> Sent(h) \/ InHand(h)
  BY DEF LoggingOut, Sent, InHand, In
<1>3. QED
  BY <1>1, <1>2 DEF Stage, Holder, Held

LEMMA StageThere ==
  ASSUME NEW h
  PROVE  /\ h \in doubled' => Stage(h)' = "unsure" /\ Holder(h)' = None
         /\ h \notin doubled' =>
              /\ Granted(h)' => Stage(h)' = "granted" /\ Holder(h)' = None
              /\ ~Granted(h)' /\ Held(h)' => Stage(h)' = "held"
              /\ ~Granted(h)' /\ ~Held(h)' /\ (Sent(h)' \/ InHand(h)') =>
                   Stage(h)' = "ending" /\ Holder(h)' = None
              /\ ~Granted(h)' /\ ~Held(h)' /\ ~Sent(h)' /\ ~InHand(h)' =>
                   Stage(h)' = IF h \in clientCache' THEN cause'[h] ELSE "free"
<1>1. Answered(h)' <=> Granted(h)'
  BY DEF Answered, Granted, In
<1>2. LoggingOut(h)' <=> Sent(h)' \/ InHand(h)'
  BY DEF LoggingOut, Sent, InHand, In
<1>3. QED
  BY <1>1, <1>2 DEF Stage, Holder, Held

LEMMA HolderHere ==
  ASSUME TypeOK, NEW h \in Accounts
  PROVE  /\ Stage(h) = "held" => Holder(h) \in Clients /\ Holds(Holder(h), h)
         /\ Stage(h) # "held" => Holder(h) = None
<1>1. cause[h] # "held"
  BY DEF TypeOK, Causes
<1>2. Stage(h) = "held" => \E c \in Clients : Holds(c, h)
  BY <1>1 DEF Stage
<1>3. (\E c \in Clients : Holds(c, h)) =>
        /\ (CHOOSE c \in Clients : Holds(c, h)) \in Clients
        /\ Holds(CHOOSE c \in Clients : Holds(c, h), h)
  OBVIOUS
<1>4. QED
  BY <1>2, <1>3 DEF Holder

LEMMA HolderThere ==
  ASSUME TypeOK', NEW h \in Accounts
  PROVE  /\ Stage(h)' = "held" => Holder(h)' \in Clients /\ Holds(Holder(h), h)'
         /\ Stage(h)' # "held" => Holder(h)' = None
<1>1. cause'[h] # "held"
  BY DEF TypeOK, Causes
<1>2. Stage(h)' = "held" => \E c \in Clients : Holds(c, h)'
  BY <1>1 DEF Stage
<1>3. (\E c \in Clients : Holds(c, h)') =>
        /\ (CHOOSE c \in Clients : Holds(c, h)') \in Clients
        /\ Holds(CHOOSE c \in Clients : Holds(c, h), h)'
  OBVIOUS
<1>4. QED
  BY <1>2, <1>3 DEF Holder

(* A step that tells nothing of an account leaves its session where it is.  *)
Alike(h) ==
  /\ h \in doubled' <=> h \in doubled
  /\ h \in clientCache' <=> h \in clientCache
  /\ cause'[h] = cause[h]
  /\ Granted(h)' <=> Granted(h)
  /\ Sent(h)' \/ InHand(h)' <=> Sent(h) \/ InHand(h)
  /\ \A c \in Clients : Holds(c, h)' <=> Holds(c, h)

LEMMA AlikeStays ==
  ASSUME TypeOK, TypeOK', NEW h \in Accounts, Alike(h),
         h \in doubled \/ (InOnePlace(h) /\ OnceThere(h) /\ BlamedRight(h))
  PROVE  Allowed(h) /\ (h \in doubled' \/ BlamedRight(h)')
<1>1. Held(h)' <=> Held(h)
  BY DEF Alike, Held
<1>2. Stage(h)' = Stage(h)
  <2>1. CASE h \in doubled
    BY <2>1, StageHere, StageThere DEF Alike
  <2>2. CASE h \notin doubled /\ Granted(h)
    BY <2>2, StageHere, StageThere DEF Alike
  <2>3. CASE h \notin doubled /\ ~Granted(h) /\ Held(h)
    BY <1>1, <2>3, StageHere, StageThere DEF Alike
  <2>4. CASE h \notin doubled /\ ~Granted(h) /\ ~Held(h) /\ (Sent(h) \/ InHand(h))
    BY <1>1, <2>4, StageHere, StageThere DEF Alike
  <2>5. CASE h \notin doubled /\ ~Granted(h) /\ ~Held(h) /\ ~Sent(h) /\ ~InHand(h)
    <3>1. Stage(h) = IF h \in clientCache THEN cause[h] ELSE "free"
      BY <2>5, StageHere
    <3>2. Stage(h)' = IF h \in clientCache' THEN cause'[h] ELSE "free"
      BY <1>1, <2>5, StageThere DEF Alike
    <3>3. QED
      BY <3>1, <3>2 DEF Alike
  <2>6. QED
    BY <2>1, <2>2, <2>3, <2>4, <2>5
<1>3. Holder(h)' = Holder(h)
  <2>1. CASE Stage(h) = "held"
    <3>1. h \notin doubled
      BY <2>1, StageHere
    <3>2. /\ Holder(h) \in Clients /\ Holds(Holder(h), h)
          /\ Holder(h)' \in Clients /\ Holds(Holder(h), h)'
      BY <1>2, <2>1, HolderHere, HolderThere
    <3>3. \A c \in Clients : Holds(c, h)' => c = Holder(h)
      BY <3>1, <3>2 DEF OnceThere, Alike
    <3>4. Holds(Holder(h), h)' => \E c \in Clients : c = Holder(h)' /\ Holds(c, h)'
      BY <3>2 DEF Holds
    <3>5. QED
      BY <3>2, <3>3, <3>4
  <2>2. CASE Stage(h) # "held"
    BY <1>2, <2>2, HolderHere, HolderThere
  <2>3. QED
    BY <2>1, <2>2
<1>4. h \in doubled' \/ BlamedRight(h)'
  BY <1>1 DEF BlamedRight, Alike
<1>5. QED
  BY <1>2, <1>3, <1>4 DEF Allowed

LEMMA LifeNext ==
  TypeInv /\ TypeInv' /\ OneInv /\ AuthInv /\ Forgotten /\ BlameInv /\ [Next]_vars
    => BlameInv' /\ \A h \in Accounts : Allowed(h)
<1> SUFFICES ASSUME TypeInv, TypeInv', OneInv, AuthInv, Forgotten, BlameInv, [Next]_vars,
                    NEW a \in Accounts
             PROVE  Allowed(a) /\ (a \in doubled' \/ BlamedRight(a)')
  BY DEF BlameInv
<1> DEFINE grant == Answer(a, TRUE)
           logout == Packet("logout", a)
           Result == Allowed(a) /\ (a \in doubled' \/ BlamedRight(a)')
<1> USE DEF TypeInv
<1>0. a \in doubled \/ (InOnePlace(a) /\ OnceThere(a) /\ BlamedRight(a))
  BY DEF OneInv, BlameInv
<1>q. /\ UNCHANGED authAnswers => (Granted(a)' <=> Granted(a))
      /\ UNCHANGED lobbyLink => (Sent(a)' <=> Sent(a))
      /\ UNCHANGED jobs => (InHand(a)' <=> InHand(a))
  BY DEF Granted, Sent, In, InHand
<1>s. UNCHANGED <<doubled, clientCache, cause, authAnswers, lobbyLink, jobs>>
        /\ (\A d \in Clients : Holds(d, a)' <=> Holds(d, a)) => Result
  BY <1>0, <1>q, AlikeStays DEF Alike
<1>h. UNCHANGED <<ui, hash>> => \A d \in Clients : Holds(d, a)' <=> Holds(d, a)
  BY DEF Holds
<1>t. Alike(a) => Result
  BY <1>0, AlikeStays
<1>u. a \in doubled' => Result
  <2> SUFFICES ASSUME a \in doubled' PROVE Result
    OBVIOUS
  <2>1. Stage(a)' = "unsure" /\ Holder(a)' = None
    BY StageThere
  <2>2. CASE a \in doubled
    BY <2>1, <2>2, StageHere DEF Allowed
  <2>3. CASE a \notin doubled
    <3>1. Stage(a) # "unsure"
      BY <2>3, StageHere DEF TypeOK, Causes
    <3>2. QED
      BY <2>1, <3>1 DEF Allowed
  <2>4. QED
    BY <2>2, <2>3
<1>1. ASSUME NEW c \in Clients, NEW fd \in Sockets, Connect(c, fd) PROVE Result
  <2>1. UNCHANGED <<authAnswers, lobbyLink, jobs, clientCache, doubled, cause>>
    BY <1>1 DEF Connect, clientVars, authVars, sessionVars, lobbyVars, historyVars
  <2>2. \A d \in Clients : Holds(d, a)' <=> Holds(d, a)
    BY <1>1 DEF Connect, Holds, TypeOK, clientVars, authVars, sessionVars, lobbyVars, historyVars
  <2>3. QED
    BY <1>s, <2>1, <2>2
<1>2. ASSUME NEW c \in Clients, NEW fd \in Sockets, NEW h \in Accounts, LoginRequest(c, fd, h) PROVE Result
  <2>1. UNCHANGED <<authAnswers, lobbyLink, jobs, clientCache, doubled, cause>>
    BY <1>2 DEF LoginRequest, clientVars, authVars, sessionVars, lobbyVars, historyVars
  <2>2. \A d \in Clients : Holds(d, a)' <=> Holds(d, a)
    BY <1>2 DEF LoginRequest, Holds, TypeOK, clientVars, authVars, sessionVars, lobbyVars, historyVars
  <2>3. QED
    BY <1>s, <2>1, <2>2
<1>3. ASSUME NEW c \in Clients, NEW fd \in Sockets, CloseAuth(c, fd) PROVE Result
  <2>1. UNCHANGED <<authAnswers, lobbyLink, jobs, clientCache, doubled, cause>>
    BY <1>3 DEF CloseAuth, clientVars, authVars, sessionVars, lobbyVars, historyVars
  <2>2. \A d \in Clients : Holds(d, a)' <=> Holds(d, a)
    BY <1>3, LoginAssumption DEF CloseAuth, Holds, TypeOK, AuthInv, clientVars, authVars, sessionVars, lobbyVars, historyVars
  <2>3. QED
    BY <1>s, <2>1, <2>2
<1>4. ASSUME NEW r \in requests, RefuseLogin(r) PROVE Result
  <2>1. UNCHANGED <<authAnswers, lobbyLink, jobs, clientCache, doubled, cause>>
    BY <1>4 DEF RefuseLogin, TellFailed, clientVars, authVars, sessionVars, lobbyVars, historyVars
  <2>2. \A d \in Clients : Holds(d, a)' <=> Holds(d, a)
    BY <1>4 DEF RefuseLogin, TellFailed, Holds, TypeOK, clientVars, authVars, sessionVars, lobbyVars, historyVars
  <2>3. QED
    BY <1>s, <2>1, <2>2
<1>5. ASSUME NEW r \in requests, HandleLogin(r) PROVE Result
  <2>1. UNCHANGED <<authAnswers, lobbyLink, jobs, clientCache, doubled, cause>>
    BY <1>5 DEF HandleLogin, clientVars, authVars, sessionVars, lobbyVars, historyVars
  <2>2. \A d \in Clients : Holds(d, a)' <=> Holds(d, a)
    BY <1>5 DEF HandleLogin, Holds, TypeOK, clientVars, authVars, sessionVars, lobbyVars, historyVars
  <2>3. QED
    BY <1>s, <2>1, <2>2
<1>6. ASSUME NEW n \in 1..Len(lobbyAnswers), HandleLobbyAnswer(n) PROVE Result
  <2>1. UNCHANGED <<authAnswers, lobbyLink, jobs, clientCache, doubled, cause>>
    BY <1>6 DEF HandleLobbyAnswer, clientVars, authVars, sessionVars, lobbyVars, historyVars
  <2>2. \A d \in Clients : Holds(d, a)' <=> Holds(d, a)
    BY <1>6 DEF HandleLobbyAnswer, Holds, TypeOK, clientVars, authVars, sessionVars, lobbyVars, historyVars
  <2>3. QED
    BY <1>s, <2>1, <2>2
<1>7. ASSUME NEW h \in Accounts, SendGameStart(h) PROVE Result
  <2>1. UNCHANGED <<authAnswers, lobbyLink, jobs, clientCache, doubled, cause>>
    BY <1>7 DEF SendGameStart, clientVars, authVars, sessionVars, lobbyVars, historyVars
  <2>2. \A d \in Clients : Holds(d, a)' <=> Holds(d, a)
    BY <1>7 DEF SendGameStart, Holds, TypeOK, clientVars, authVars, sessionVars, lobbyVars, historyVars
  <2>3. QED
    BY <1>s, <2>1, <2>2
<1>8. ASSUME NEW c \in Clients, Disconnect(c) PROVE Result
  <2>1. UNCHANGED <<authAnswers, lobbyLink, jobs, clientCache, doubled, cause>>
    BY <1>8 DEF Disconnect, clientVars, authVars, sessionVars, lobbyVars, historyVars
  <2>2. \A d \in Clients : Holds(d, a)' <=> Holds(d, a)
    BY <1>8 DEF Disconnect, Holds, TypeOK, clientVars, authVars, sessionVars, lobbyVars, historyVars
  <2>3. QED
    BY <1>s, <2>1, <2>2
<1>9. CASE UNCHANGED vars
  BY <1>9, <1>s, <1>h DEF vars, clientVars, authVars, sessionVars, lobbyVars, historyVars
<1>10. ASSUME NEW c \in Clients, TryConnectLobbyServer(c) PROVE Result
  <2>1. UNCHANGED <<authAnswers, jobs, clientCache, doubled, cause>>
    BY <1>10 DEF TryConnectLobbyServer, clientVars, authVars, sessionVars, lobbyVars, historyVars
  <2>2. \A d \in Clients : Holds(d, a)' <=> Holds(d, a)
    BY <1>10 DEF TryConnectLobbyServer, Holds, TypeOK
  <2>3. Sent(a)' <=> Sent(a)
    <3> DEFINE S == [kind : {"check", "logout"}, h : Accounts]
               x == Packet("check", hash[c])
               t == Append(lobbyLink, x)
    <3>1. lobbyLink \in Seq(S) /\ x \in S /\ x # logout
      BY <1>10 DEF TypeOK, Known, TryConnectLobbyServer, Packet
    <3>2. lobbyLink' = t
      BY <1>10 DEF TryConnectLobbyServer
    <3> HIDE DEF S, x
    <3>3. \A e : In(t, e) <=> In(lobbyLink, e) \/ x = e
      BY <3>1, AppendedIn
    <3> HIDE DEF t
    <3>4. QED
      BY <3>1, <3>2, <3>3 DEF Sent, In
  <2>4. QED
    BY <1>q, <1>t, <2>1, <2>2, <2>3 DEF Alike
<1>11. ASSUME NEW w \in Workers, NEW n \in 1..Len(authLink), TakeFromAuth(w, n) PROVE Result
  <2>1. UNCHANGED <<authAnswers, lobbyLink, ui, hash, clientCache, doubled, cause>>
    BY <1>11 DEF TakeFromAuth, clientVars, authVars, sessionVars, lobbyVars, historyVars
  <2>2. Head(authLink) \in [kind : {"login"}, h : Accounts]
    <3>1. authLink \in Seq([kind : {"login"}, h : Accounts])
      BY DEF TypeOK
    <3>2. /\ Head(authLink) = authLink[1] /\ authLink[1] \in [kind : {"login"}, h : Accounts]
          /\ After(authLink, n) \in Seq([kind : {"login"}, h : Accounts])
      BY <3>1, Rest
    <3>3. QED
      BY <3>2
  <2>3. InHand(a)' <=> InHand(a)
    BY <1>11, <2>2 DEF TakeFromAuth, InHand, TypeOK, Packet, NoJob
  <2>4. QED
    BY <1>h, <1>q, <1>t, <2>1, <2>3 DEF Alike
<1>12. ASSUME NEW w \in Workers, getPlayerStateForGameLobbyserver(w) PROVE Result
  <2>1. UNCHANGED <<authAnswers, lobbyLink, ui, hash, clientCache, doubled, cause>>
    BY <1>12 DEF getPlayerStateForGameLobbyserver, clientVars, authVars, sessionVars, lobbyVars,
                 historyVars
  <2>2. InHand(a)' <=> InHand(a)
    BY <1>12 DEF getPlayerStateForGameLobbyserver, InHand, TypeOK, Packet, NoJob
  <2>3. QED
    BY <1>h, <1>q, <1>t, <2>1, <2>2 DEF Alike
<1>13. ASSUME NEW w \in Workers, LogOut(w) PROVE Result
  <2>1. UNCHANGED <<authAnswers, lobbyLink, ui, hash, doubled, cause>>
    BY <1>13 DEF LogOut, clientVars, authVars, sessionVars, lobbyVars, historyVars
  <2>2. /\ jobs' = [jobs EXCEPT ![w] = NoJob] /\ clientCache' = clientCache \ {jobs[w].h}
        /\ jobs[w] = Packet("logout", jobs[w].h)
    BY <1>13 DEF LogOut, TypeOK, NoJob, Packet
  <2>3. CASE a \in doubled
    BY <1>u, <2>1, <2>3
  <2>4. CASE a \notin doubled /\ jobs[w].h = a
    <3>1. InHand(a) /\ \A v \in Workers : jobs[v] = logout => v = w
      BY <1>0, <2>2, <2>4 DEF InHand, OnceThere
    <3>2. ~Granted(a) /\ ~Sent(a) /\ ~Held(a) /\ cause[a] = "none"
      BY <1>0, <2>4, <3>1 DEF InOnePlace, BlamedRight
    <3>3. ~InHand(a)'
      BY <2>2, <3>1 DEF InHand, NoJob, Packet, TypeOK
    <3>4. ~Granted(a)' /\ ~Sent(a)' /\ ~Held(a)'
      BY <1>h, <1>q, <2>1, <3>2 DEF Held
    <3>5. Stage(a) = "ending" /\ a \notin clientCache' /\ a \notin doubled'
      BY <2>1, <2>2, <2>4, <3>1, <3>2, StageHere
    <3>6. Stage(a)' = "free"
      BY <3>3, <3>4, <3>5, StageThere
    <3>7. Holder(a)' = None
      BY <3>6, HolderThere
    <3>8. cause'[a] = "none"
      BY <2>1, <3>2
    <3>9. QED
      BY <3>5, <3>6, <3>7, <3>8 DEF Allowed, BlamedRight
  <2>5. CASE jobs[w].h # a
    <3>1. a \in clientCache <=> a \in clientCache'
      BY <2>2, <2>5
    <3>2. InHand(a)' <=> InHand(a)
      BY <2>2, <2>5 DEF InHand, NoJob, Packet, TypeOK
    <3>3. QED
      BY <1>h, <1>q, <1>t, <2>1, <3>1, <3>2 DEF Alike
  <2>6. QED
    BY <2>3, <2>4, <2>5
<1>14. ASSUME NEW w \in Workers, getPlayerStateForAuthserver(w) PROVE Result
  <2> DEFINE x == jobs[w].h
             answer == Answer(x, x \notin clientCache)
             t == Append(authAnswers, answer)
  <2>1. UNCHANGED <<lobbyLink, ui, hash, doubled>>
    BY <1>14 DEF getPlayerStateForAuthserver, clientVars, authVars, sessionVars, lobbyVars, historyVars
  <2>2. /\ jobs' = [jobs EXCEPT ![w] = NoJob] /\ clientCache' = clientCache \cup {x}
        /\ cause' = IF x \in clientCache THEN cause ELSE [cause EXCEPT ![x] = "none"]
        /\ authAnswers' = t
    BY <1>14 DEF getPlayerStateForAuthserver
  <2>3. InHand(a)' <=> InHand(a)
    BY <1>14 DEF getPlayerStateForAuthserver, InHand, TypeOK, Packet, NoJob
  <2>4. x \in Accounts
    BY <1>14 DEF getPlayerStateForAuthserver, TypeOK, NoJob
  <2>5. Granted(a)' <=> Granted(a) \/ answer = grant
    <3> DEFINE S == [h : Accounts, ok : BOOLEAN]
    <3>1. authAnswers \in Seq(S) /\ answer \in S
      BY <2>4 DEF TypeOK, Answer
    <3> HIDE DEF S, answer
    <3>2. \A e : In(t, e) <=> In(authAnswers, e) \/ answer = e
      BY <3>1, AppendedIn
    <3> HIDE DEF t
    <3>3. QED
      BY <2>2, <3>2 DEF Granted, In, t
  <2>6. answer = grant <=> x = a /\ a \notin clientCache
    BY DEF Answer
  <2> HIDE DEF answer, t, grant
  <2>7. CASE a \in doubled
    BY <1>u, <2>1, <2>7
  <2>8. CASE a \notin doubled /\ answer = grant
    <3>1. ~Granted(a) /\ ~Sent(a) /\ ~InHand(a) /\ ~Held(a)
      BY <1>0, <2>6, <2>8 DEF InOnePlace
    <3>2. Stage(a) = "free"
      BY <2>6, <2>8, <3>1, StageHere
    <3>3. a \notin doubled' /\ Granted(a)'
      BY <2>1, <2>5, <2>8
    <3>4. Stage(a)' = "granted" /\ Holder(a)' = None
      BY <3>3, StageThere
    <3>5. cause'[a] = "none"
      BY <2>2, <2>6, <2>8 DEF TypeOK
    <3>6. QED
      BY <3>2, <3>4, <3>5 DEF Allowed, BlamedRight
  <2>9. CASE answer # grant
    <3>1. (a \in clientCache' <=> a \in clientCache) /\ cause'[a] = cause[a]
      BY <2>2, <2>4, <2>6, <2>9 DEF TypeOK
    <3>2. QED
      BY <1>h, <1>q, <1>t, <2>1, <2>3, <2>5, <2>9, <3>1 DEF Alike
  <2>10. QED
    BY <2>7, <2>8, <2>9
<1>15. ASSUME NEW c \in Clients, Quit(c) PROVE Result
  <2>1. UNCHANGED <<authAnswers, lobbyLink, jobs, clientCache, doubled>>
    BY <1>15 DEF Quit, clientVars, authVars, sessionVars, lobbyVars, historyVars
  <2>2. /\ \A d \in Clients : d # c => (Holds(d, a)' <=> Holds(d, a))
        /\ ~Holds(c, a)' /\ cause' = Blame("quit", {hash[c]}) /\ (Holds(c, a) <=> hash[c] = a)
    BY <1>15, LoginAssumption DEF Quit, Holds, TypeOK
  <2>3. CASE a \in doubled
    BY <1>u, <2>1, <2>3
  <2>4. CASE a \notin doubled /\ Holds(c, a)
    <3>1. Held(a) /\ \A d \in Clients : Holds(d, a) => d = c
      BY <1>0, <2>4 DEF Held, OnceThere
    <3>2. ~Granted(a) /\ ~Sent(a) /\ ~InHand(a) /\ a \in clientCache /\ cause[a] = "none"
      BY <1>0, <2>4, <3>1 DEF InOnePlace, BlamedRight
    <3>3. ~Held(a)'
      BY <2>2, <3>1 DEF Held
    <3>4. ~Granted(a)' /\ ~Sent(a)' /\ ~InHand(a)' /\ a \in clientCache' /\ a \notin doubled'
      BY <1>q, <2>1, <2>4, <3>2
    <3>5. cause'[a] = "quit"
      BY <2>2, <2>4, <3>2 DEF Blame
    <3>6. Stage(a) = "held"
      BY <2>4, <3>1, <3>2, StageHere
    <3>7. Stage(a)' = "quit"
      BY <3>3, <3>4, <3>5, StageThere
    <3>8. Holder(a)' = None
      BY <3>7, HolderThere
    <3>9. QED
      BY <3>3, <3>4, <3>6, <3>7, <3>8 DEF Allowed, BlamedRight
  <2>5. CASE ~Holds(c, a)
    <3>1. cause'[a] = cause[a]
      BY <2>2, <2>5 DEF Blame
    <3>2. QED
      BY <1>q, <1>t, <2>1, <2>2, <2>5, <3>1 DEF Alike
  <2>6. QED
    BY <2>3, <2>4, <2>5
<1>16. ASSUME NEW w \in Workers, NEW n \in 1..Len(lobbyLink), TakeFromLobby(w, n) PROVE Result
  <2> DEFINE t == After(lobbyLink, n)
  <2>1. UNCHANGED <<authAnswers, ui, hash, clientCache, doubled>>
    BY <1>16 DEF TakeFromLobby, clientVars, authVars, sessionVars, lobbyVars, historyVars
  <2>2. /\ jobs[w] = NoJob /\ jobs' = [jobs EXCEPT ![w] = Head(lobbyLink)]
        /\ cause' = Blame("lost", LostLogouts(lobbyLink, n)) /\ lobbyLink' = t
    BY <1>16 DEF TakeFromLobby, After
  <2>3. lobbyLink \in Seq([kind : {"check", "logout"}, h : Accounts])
    BY DEF TypeOK
  <2>4. /\ Sent(a) => Head(lobbyLink) = logout \/ Sent(a)' \/ \E j \in 2..n : lobbyLink[j] = logout
        /\ Head(lobbyLink) = logout \/ Sent(a)' => Sent(a)
    <3>1. /\ In(lobbyLink, logout) =>
               Head(lobbyLink) = logout \/ In(t, logout) \/ \E j \in 2..n : lobbyLink[j] = logout
          /\ In(lobbyLink, Head(lobbyLink)) /\ (In(t, logout) => In(lobbyLink, logout))
      <4> DEFINE S == [kind : {"check", "logout"}, h : Accounts]
      <4>1. lobbyLink \in Seq(S)
        BY <2>3
      <4> HIDE DEF S, logout
      <4>2. QED
        BY <4>1, <1>16, RestIn
    <3>2. Sent(a)' <=> In(t, logout)
      BY <2>2 DEF Sent, In
    <3> HIDE DEF t
    <3>3. QED
      BY <3>1, <3>2 DEF Sent
  <2>5. \A j \in 2..n : j \in DOMAIN lobbyLink
    <3>1. Len(lobbyLink) \in Nat /\ DOMAIN lobbyLink = 1..Len(lobbyLink)
      BY <2>3, LenProperties
    <3>2. QED
      BY <3>1, <1>16
  <2> HIDE DEF t
  <2>6. InHand(a)' <=> InHand(a) \/ Head(lobbyLink) = logout
    BY <2>2 DEF InHand, TypeOK, NoJob, Packet
  <2>7. a \in LostLogouts(lobbyLink, n) <=> \E j \in 2..n : lobbyLink[j] = logout
    <3>1. \A j \in 2..n : lobbyLink[j] \in [kind : {"check", "logout"}, h : Accounts]
      <4> DEFINE S == [kind : {"check", "logout"}, h : Accounts]
      <4>1. lobbyLink \in Seq(S)
        BY <2>3
      <4> HIDE DEF S
      <4>2. \A j \in DOMAIN lobbyLink : lobbyLink[j] \in S
        BY <4>1, ElementOfSeq, LenProperties
      <4>3. QED
        BY <2>5, <4>2 DEF S
    <3>2. \A j \in 2..n : lobbyLink[j] = logout <=> lobbyLink[j].kind = "logout" /\ lobbyLink[j].h = a
      BY <3>1 DEF Packet
    <3>3. QED
      BY <3>2 DEF LostLogouts
  <2>8. CASE a \in doubled
    BY <1>u, <2>1, <2>8
  <2>9. CASE a \notin doubled /\ a \in LostLogouts(lobbyLink, n) /\ ~InHand(a)' /\ ~Sent(a)'
    <3>1. Sent(a)
      BY <2>5, <2>7, <2>9 DEF Sent, In
    <3>2. ~Granted(a) /\ ~Held(a) /\ a \in clientCache /\ cause[a] = "none"
      BY <1>0, <2>9, <3>1 DEF InOnePlace, BlamedRight
    <3>3. ~Granted(a)' /\ ~Held(a)' /\ a \in clientCache' /\ a \notin doubled'
      BY <1>h, <1>q, <2>1, <2>9, <3>2 DEF Held
    <3>4. cause'[a] = "lost"
      BY <2>2, <2>9, <3>2 DEF Blame
    <3>5. Stage(a) = "ending"
      BY <2>9, <3>1, <3>2, StageHere
    <3>6. Stage(a)' = "lost"
      BY <2>9, <3>3, <3>4, StageThere
    <3>7. Holder(a)' = None
      BY <3>6, HolderThere
    <3>8. QED
      BY <2>9, <3>3, <3>5, <3>6, <3>7 DEF Allowed, BlamedRight
  <2>10. CASE a \notin doubled /\ a \in LostLogouts(lobbyLink, n) /\ (InHand(a)' \/ Sent(a)')
    <3>1. PICK j \in 2..n : lobbyLink[j] = logout
      BY <2>7, <2>10
    <3>2. Sent(a)
      BY <2>5, <3>1 DEF Sent, In
    <3>3. Once(lobbyLink, logout) /\ ~InHand(a)
      BY <1>0, <2>10, <3>2 DEF InOnePlace, OnceThere
    <3>4. j > n \/ (Head(lobbyLink) # logout /\ ~Sent(a)')
      <4> DEFINE S == [kind : {"check", "logout"}, h : Accounts]
      <4>1. lobbyLink \in Seq(S)
        BY <2>3
      <4> HIDE DEF S, logout
      <4>2. /\ Head(lobbyLink) = lobbyLink[1] /\ 1 \in DOMAIN lobbyLink
            /\ \A i \in DOMAIN After(lobbyLink, n) :
                 After(lobbyLink, n)[i] = lobbyLink[i + n] /\ i + n \in DOMAIN lobbyLink /\ i + n > n
        BY <4>1, <1>16, Rest
      <4>3. n \in Nat /\ j \in Nat /\ j # 1 /\ j <= n
        BY <1>16
      <4>4. Head(lobbyLink) # logout
        BY <2>5, <3>1, <3>3, <4>2, <4>3 DEF Once
      <4>5. ~In(After(lobbyLink, n), logout)
        <5> SUFFICES ASSUME NEW i \in DOMAIN After(lobbyLink, n), After(lobbyLink, n)[i] = logout
                     PROVE  FALSE
          BY DEF In
        <5>1. i + n = j
          BY <2>5, <3>1, <3>3, <4>2 DEF Once
        <5>2. QED
          BY <4>2, <4>3, <5>1
      <4>6. Sent(a)' <=> In(After(lobbyLink, n), logout)
        BY <2>2 DEF Sent, In, t, logout
      <4>7. QED
        BY <4>4, <4>5, <4>6
    <3>5. QED
      BY <1>16, <2>6, <2>10, <3>1, <3>3, <3>4
  <2>11. CASE a \notin LostLogouts(lobbyLink, n)
    <3>1. cause'[a] = cause[a]
      BY <2>2, <2>11 DEF Blame
    <3>2. Sent(a)' \/ InHand(a)' <=> Sent(a) \/ InHand(a)
      BY <2>4, <2>6, <2>7, <2>11
    <3>3. QED
      BY <1>h, <1>q, <1>t, <2>1, <3>1, <3>2 DEF Alike
  <2>12. QED
    BY <2>8, <2>9, <2>10, <2>11
<1>17. ASSUME NEW c \in Clients, LogoutRequest(c) PROVE Result
  <2>1. UNCHANGED <<authAnswers, jobs, clientCache, doubled, cause>>
    BY <1>17 DEF LogoutRequest, clientVars, authVars, sessionVars, lobbyVars, historyVars
  <2>2. /\ \A d \in Clients : d # c => (Holds(d, a)' <=> Holds(d, a))
        /\ ~Holds(c, a)' /\ (Holds(c, a) <=> hash[c] = a)
    BY <1>17, LoginAssumption DEF LogoutRequest, Holds, TypeOK
  <2>3. Sent(a)' <=> Sent(a) \/ hash[c] = a
    <3> DEFINE S == [kind : {"check", "logout"}, h : Accounts]
               x == Packet("logout", hash[c])
               t == Append(lobbyLink, x)
    <3>1. lobbyLink \in Seq(S) /\ x \in S /\ (x = logout <=> hash[c] = a)
      BY <1>17 DEF TypeOK, Known, LogoutRequest, Packet
    <3>2. lobbyLink' = t
      BY <1>17 DEF LogoutRequest
    <3> HIDE DEF S, x
    <3>3. \A e : In(t, e) <=> In(lobbyLink, e) \/ x = e
      BY <3>1, AppendedIn
    <3> HIDE DEF t
    <3>4. QED
      BY <3>1, <3>2, <3>3 DEF Sent, In
  <2>4. CASE a \in doubled
    BY <1>u, <2>1, <2>4
  <2>5. CASE a \notin doubled /\ Holds(c, a)
    <3>1. Held(a) /\ \A d \in Clients : Holds(d, a) => d = c
      BY <1>0, <2>5 DEF Held, OnceThere
    <3>2. ~Granted(a) /\ cause[a] = "none"
      BY <1>0, <2>5, <3>1 DEF InOnePlace, BlamedRight
    <3>3. Stage(a) = "held"
      BY <2>5, <3>1, <3>2, StageHere
    <3>4. ~Granted(a)' /\ ~Held(a)' /\ Sent(a)' /\ a \notin doubled' /\ cause'[a] = "none"
      BY <1>q, <2>1, <2>2, <2>3, <2>5, <3>1, <3>2 DEF Held
    <3>5. Stage(a)' = "ending" /\ Holder(a)' = None
      BY <3>4, StageThere
    <3>6. QED
      BY <3>3, <3>4, <3>5 DEF Allowed, BlamedRight
  <2>6. CASE ~Holds(c, a)
    BY <1>q, <1>t, <2>1, <2>2, <2>3, <2>6 DEF Alike
  <2>7. QED
    BY <2>4, <2>5, <2>6
<1>18. ASSUME NEW c \in Clients, LobbyEnd(c) PROVE Result
  <2> DEFINE h == socketToHash[c]
  <2>1. UNCHANGED <<authAnswers, jobs, clientCache>>
    BY <1>18 DEF LobbyEnd, clientVars, authVars, sessionVars, lobbyVars, historyVars
  <2>2. /\ \A d \in Clients : d # c => (Holds(d, a)' <=> Holds(d, a))
        /\ ~Holds(c, a)' /\ (Holds(c, a) <=> hash[c] = a) /\ a # None
    BY <1>18, LoginAssumption DEF LobbyEnd, Holds, TypeOK, Forgotten
  <2>3. \/ /\ lobbyLink' = Append(lobbyLink, Packet("logout", h)) /\ h # None
           /\ doubled' = IF Holds(c, h) THEN doubled ELSE doubled \cup {h}
           /\ cause' = Blame("unregistered", {hash[c]} \ {h, None})
        \/ /\ UNCHANGED <<lobbyLink, doubled>>
           /\ cause' = Blame("unregistered", {hash[c]} \ {None})
    BY <1>18 DEF LobbyEnd, CleanupforSocket
  <2>4. h # None => Packet("logout", h) \in [kind : {"check", "logout"}, h : Accounts]
    BY DEF Packet, TypeOK
  <2> HIDE DEF h
  <2>5. Sent(a) => Sent(a)'
    <3>1. CASE UNCHANGED lobbyLink
      BY <1>q, <3>1
    <3>2. CASE lobbyLink' = Append(lobbyLink, Packet("logout", h)) /\ h # None
      <4> DEFINE S == [kind : {"check", "logout"}, h : Accounts]
                 x == Packet("logout", h)
                 t == Append(lobbyLink, x)
      <4>1. lobbyLink \in Seq(S) /\ x \in S
        BY <2>4, <3>2 DEF TypeOK
      <4>2. lobbyLink' = t
        BY <3>2
      <4> HIDE DEF S, x
      <4>3. \A e : In(t, e) <=> In(lobbyLink, e) \/ x = e
        BY <4>1, AppendedIn
      <4> HIDE DEF t
      <4>4. QED
        BY <4>2, <4>3 DEF Sent, In
    <3>3. QED
      BY <2>3, <3>1, <3>2
  <2>6. lobbyLink' = Append(lobbyLink, Packet("logout", h)) /\ h # None => (Sent(a)' <=> Sent(a) \/ h = a)
    <3> SUFFICES ASSUME lobbyLink' = Append(lobbyLink, Packet("logout", h)), h # None
                 PROVE  Sent(a)' <=> Sent(a) \/ h = a
      OBVIOUS
    <3> DEFINE S == [kind : {"check", "logout"}, h : Accounts]
               x == Packet("logout", h)
               t == Append(lobbyLink, x)
    <3>1. lobbyLink \in Seq(S) /\ x \in S /\ (x = logout <=> h = a) /\ lobbyLink' = t
      BY <2>4 DEF TypeOK, Packet
    <3> HIDE DEF S, x
    <3>2. \A e : In(t, e) <=> In(lobbyLink, e) \/ x = e
      BY <3>1, AppendedIn
    <3> HIDE DEF t
    <3>3. QED
      BY <3>1, <3>2 DEF Sent, In
  <2>7. CASE a \in doubled'
    BY <1>u, <2>7
  <2>8. CASE a \notin doubled' /\ Holds(c, a)
    <3>1. Held(a) /\ (\A d \in Clients : Holds(d, a) => d = c) /\ a \notin doubled
      BY <1>0, <2>3, <2>8 DEF Held, OnceThere
    <3>2. ~Granted(a) /\ ~Sent(a) /\ ~InHand(a) /\ a \in clientCache /\ cause[a] = "none"
      BY <1>0, <3>1 DEF InOnePlace, BlamedRight
    <3>3. Stage(a) = "held"
      BY <3>1, <3>2, StageHere
    <3>4. ~Granted(a)' /\ ~Held(a)' /\ ~InHand(a)' /\ a \in clientCache'
      BY <1>q, <2>1, <2>2, <3>1, <3>2 DEF Held
    <3>5. CASE Sent(a)'
      <4>1. Stage(a)' = "ending" /\ Holder(a)' = None
        BY <2>8, <3>4, <3>5, StageThere
      <4>2. h = a
        BY <1>q, <2>3, <2>6, <3>2, <3>5
      <4>3. cause'[a] = "none"
        BY <1>q, <2>2, <2>3, <2>8, <3>2, <3>5, <4>2 DEF Blame
      <4>4. QED
        BY <3>3, <4>1, <4>3 DEF Allowed, BlamedRight
    <3>6. CASE ~Sent(a)'
      <4>1. cause'[a] = "unregistered"
        BY <2>2, <2>3, <2>6, <2>8, <3>2, <3>6 DEF Blame
      <4>2. Stage(a)' = "unregistered"
        BY <2>8, <3>4, <3>6, <4>1, StageThere
      <4>3. Holder(a)' = None
        BY <4>2, HolderThere
      <4>4. QED
        BY <3>3, <3>4, <3>6, <4>2, <4>3 DEF Allowed, BlamedRight
    <3>7. QED
      BY <3>5, <3>6
  <2>9. CASE a \notin doubled' /\ ~Holds(c, a)
    <3>1. a \notin doubled /\ (h = a => UNCHANGED lobbyLink)
      BY <2>3, <2>9
    <3>2. Sent(a)' <=> Sent(a)
      BY <1>q, <2>3, <2>6, <3>1
    <3>3. cause'[a] = cause[a]
      BY <2>2, <2>3, <2>9 DEF Blame
    <3>4. QED
      BY <1>q, <1>t, <2>1, <2>2, <2>9, <3>1, <3>2, <3>3 DEF Alike
  <2>10. QED
    BY <2>7, <2>8, <2>9
<1>19. ASSUME NEW n \in 1..Len(authAnswers), HandleCheckSessionResult(n) PROVE Result
  <2> DEFINE S == [h : Accounts, ok : BOOLEAN]
             t == After(authAnswers, n)
             answer == Head(authAnswers)
             fd == pendingQueues[answer.h]
             hs == LostSuccesses(authAnswers, n) \cup
                     {h \in {answer.h} : answer.ok /\ (fd = None \/ authpeer[fd] = None)}
  <2>1. UNCHANGED <<lobbyLink, jobs, clientCache, doubled>>
    BY <1>19 DEF HandleCheckSessionResult, clientVars, authVars, sessionVars, lobbyVars, historyVars
  <2>2. authAnswers \in Seq(S) /\ authAnswers' = t
    BY <1>19 DEF TypeOK, HandleCheckSessionResult, After
  <2>3. /\ fd = None => UNCHANGED <<ui, hash, authpeer>>
        /\ fd # None /\ answer.ok => TellSucceeded(fd, answer.h)
        /\ fd # None /\ ~answer.ok => TellFailed(fd)
        /\ cause' = Blame("unheard", hs)
    BY <1>19 DEF HandleCheckSessionResult
  <2>4. grant.ok = TRUE /\ grant.h = a /\ \A x \in S : x.ok /\ x.h = a => x = grant
    BY DEF Answer
  <2> HIDE DEF S, grant
  <2>5. /\ answer = authAnswers[1] /\ answer \in S /\ 1 \in DOMAIN authAnswers
        /\ \A i \in DOMAIN t : t[i] = authAnswers[i + n] /\ i + n \in DOMAIN authAnswers /\ i + n > n
    BY <1>19, <2>2, Rest
  <2>6. \A j \in 2..n : j \in DOMAIN authAnswers /\ authAnswers[j] \in S
    <3>1. Len(authAnswers) \in Nat /\ DOMAIN authAnswers = 1..Len(authAnswers)
      BY <2>2, LenProperties
    <3>2. \A j \in DOMAIN authAnswers : authAnswers[j] \in S
      BY <2>2, <3>1, ElementOfSeq
    <3>3. QED
      BY <1>19, <3>1, <3>2
  <2>7. In(authAnswers, grant) =>
          answer = grant \/ In(t, grant) \/ \E j \in 2..n : authAnswers[j] = grant
    BY <1>19, <2>2, RestIn
  <2>8. (Granted(a) <=> In(authAnswers, grant)) /\ (Granted(a)' <=> In(t, grant))
    BY <2>2 DEF Granted, In, t, grant
  <2>9. Once(authAnswers, grant) =>
          /\ answer = grant => ~In(t, grant) /\ \A j \in 2..n : authAnswers[j] # grant
          /\ \A j \in 2..n : authAnswers[j] = grant => ~In(t, grant)
    <3> SUFFICES ASSUME Once(authAnswers, grant)
                 PROVE  /\ answer = grant => ~In(t, grant) /\ \A j \in 2..n : authAnswers[j] # grant
                        /\ \A j \in 2..n : authAnswers[j] = grant => ~In(t, grant)
      OBVIOUS
    <3>1. n \in Nat /\ n >= 1 /\ \A j \in 2..n : j \in Nat /\ j # 1 /\ j <= n
      BY <1>19
    <3>2. \A i, j \in DOMAIN authAnswers : authAnswers[i] = grant /\ authAnswers[j] = grant => i = j
      BY DEF Once
    <3> HIDE DEF t, answer
    <3>3. answer = grant => \A j \in 2..n : authAnswers[j] # grant
      BY <2>5, <2>6, <3>1, <3>2
    <3>4. ASSUME NEW i \in DOMAIN t, t[i] = grant PROVE answer # grant /\ \A j \in 2..n : authAnswers[j] # grant
      <4>1. authAnswers[i + n] = grant /\ i + n \in DOMAIN authAnswers /\ i + n > n
        BY <2>5, <3>4
      <4>2. i + n # 1 /\ \A j \in 2..n : j # i + n
        <5> DEFINE k == i + n
        <5>1. k > n
          BY <4>1
        <5>2. k \in Nat
          <6>1. Len(authAnswers) \in Nat /\ DOMAIN authAnswers = 1..Len(authAnswers)
            BY <2>2, LenProperties
          <6>2. QED
            BY <4>1, <6>1
        <5> HIDE DEF k
        <5>3. k # 1 /\ \A j \in 2..n : j # k
          BY <3>1, <5>1, <5>2
        <5>4. QED
          BY <5>3 DEF k
      <4>3. QED
        BY <2>5, <2>6, <3>2, <4>1, <4>2
    <3>5. QED
      BY <3>3, <3>4 DEF In
  <2>10. a \in hs <=> \/ \E j \in 2..n : authAnswers[j] = grant
                      \/ answer = grant /\ (fd = None \/ authpeer[fd] = None)
    <3>1. a \in LostSuccesses(authAnswers, n) <=> \E j \in 2..n : authAnswers[j] = grant
      BY <2>4, <2>6 DEF LostSuccesses
    <3>2. answer = grant <=> answer.ok /\ answer.h = a
      BY <2>4, <2>5 DEF S
    <3>3. QED
      BY <3>1, <3>2
  <2>11. fd \in Sockets \cup {None} /\ answer.h \in Accounts
    BY <2>5 DEF S, TypeOK
  <2>12. answer.ok /\ answer.h = a => answer = grant
    BY <2>4, <2>5
  <2>13. ~answer.ok \/ answer.h # a => answer # grant
    BY <2>4
  <2> HIDE DEF t, answer, fd, hs
  <2>14. cause'[a] = (IF a \in hs /\ cause[a] = "none" THEN "unheard" ELSE cause[a])
    BY <2>3 DEF Blame
  <2>15. \A d \in Clients : fd # None /\ authpeer[fd] = d => \A g \in Accounts : ~Holds(d, g)
    <3> SUFFICES ASSUME NEW d \in Clients, fd # None, authpeer[fd] = d, NEW g \in Accounts
                 PROVE  ~Holds(d, g)
      OBVIOUS
    <3>1. fd \in Sockets /\ d # None
      BY <2>11, LoginAssumption
    <3>2. ui[d] \in {"out", "asking"}
      BY <3>1 DEF AuthInv
    <3>3. QED
      BY <3>2 DEF Holds
  <2>16. \A d \in Clients : ~(answer = grant /\ fd # None /\ authpeer[fd] = d)
                             => (Holds(d, a)' <=> Holds(d, a))
    <3>1. CASE fd = None
      BY <1>h, <2>3, <3>1
    <3>2. CASE fd # None /\ answer.ok
      BY <2>3, <2>12, <2>15, <3>2 DEF TellSucceeded, Holds, TypeOK
    <3>3. CASE fd # None /\ ~answer.ok
      BY <2>3, <3>3 DEF TellFailed, Holds, TypeOK
    <3>4. QED
      BY <3>1, <3>2, <3>3
  <2>17. CASE a \in doubled
    BY <1>u, <2>1, <2>17
  <2>18. CASE a \notin doubled /\ ~Granted(a)
    <3>1. ~In(authAnswers, grant) /\ answer # grant /\ \A j \in 2..n : authAnswers[j] # grant
      BY <2>5, <2>6, <2>8, <2>18 DEF In
    <3>2. ~In(t, grant)
      BY <2>5, <3>1 DEF In
    <3>3. cause'[a] = cause[a] /\ ~Granted(a)' /\ \A d \in Clients : Holds(d, a)' <=> Holds(d, a)
      BY <2>8, <2>10, <2>14, <2>16, <3>1, <3>2
    <3>4. QED
      BY <1>q, <1>t, <2>1, <2>18, <3>3 DEF Alike
  <2>19. CASE a \notin doubled /\ Granted(a)
    <3>1. /\ a \in clientCache /\ ~Sent(a) /\ ~InHand(a) /\ ~Held(a) /\ cause[a] = "none"
          /\ Once(authAnswers, grant)
      BY <1>0, <2>19 DEF InOnePlace, OnceThere, BlamedRight, grant
    <3>2. Stage(a) = "granted"
      BY <2>19, StageHere
    <3>3. a \in clientCache' /\ a \notin doubled' /\ ~Sent(a)' /\ ~InHand(a)'
      BY <1>q, <2>1, <2>19, <3>1
    <3>4. ASSUME a \in hs PROVE Result
      <4>1. ~Granted(a)'
        BY <2>8, <2>9, <2>10, <3>1, <3>4
      <4>2. \A d \in Clients : Holds(d, a)' <=> Holds(d, a)
        BY <2>9, <2>10, <2>16, <3>1, <3>4, LoginAssumption
      <4>3. ~Held(a)'
        BY <3>1, <4>2 DEF Held
      <4>4. cause'[a] = "unheard"
        BY <2>14, <3>1, <3>4
      <4>5. Stage(a)' = "unheard"
        BY <3>3, <4>1, <4>3, <4>4, StageThere
      <4>6. Holder(a)' = None
        BY <4>5, HolderThere
      <4>7. QED
        BY <3>2, <3>3, <4>1, <4>3, <4>5, <4>6 DEF Allowed, BlamedRight
    <3>5. CASE a \notin hs /\ answer # grant
      <4>1. Granted(a)'
        BY <2>7, <2>8, <2>10, <2>19, <3>5
      <4>2. cause'[a] = cause[a] /\ \A d \in Clients : Holds(d, a)' <=> Holds(d, a)
        BY <2>14, <2>16, <3>5
      <4>3. QED
        BY <1>q, <1>t, <2>1, <2>19, <4>1, <4>2 DEF Alike
    <3>6. CASE a \notin hs /\ answer = grant
      <4>1. fd # None /\ authpeer[fd] \in Clients /\ fd \in Sockets
        BY <2>10, <2>11, <3>6 DEF TypeOK
      <4>2. PICK c \in Clients : c = authpeer[fd]
        BY <4>1
      <4>3. TellSucceeded(fd, a)
        BY <2>3, <2>4, <3>6, <4>1
      <4>4. Holds(c, a)'
        BY <4>2, <4>3 DEF TellSucceeded, Holds
      <4>5. \A d \in Clients : Holds(d, a)' => d = c
        BY <2>16, <3>1, <4>2 DEF Held
      <4>6. ~Granted(a)' /\ Held(a)'
        BY <2>8, <2>9, <3>1, <3>6, <4>4 DEF Held
      <4>7. Stage(a)' = "held"
        BY <3>3, <4>6, StageThere
      <4>8. Holder(a)' = c
        <5>1. Holder(a)' \in Clients /\ Holds(Holder(a), a)'
          BY <4>7, HolderThere
        <5>2. Holds(Holder(a), a)' => \E d \in Clients : d = Holder(a)' /\ Holds(d, a)'
          BY <5>1 DEF Holds
        <5>3. QED
          BY <4>5, <5>1, <5>2
      <4>9. \A g \in Accounts : Holder(g) # c
        <5> SUFFICES ASSUME NEW g \in Accounts, Holder(g) = c PROVE FALSE
          OBVIOUS
        <5>1. Holds(c, g)
          BY HolderHere, LoginAssumption
        <5>2. QED
          BY <2>15, <4>1, <4>2, <5>1
      <4>10. cause'[a] = "none"
        BY <2>14, <3>1, <3>6
      <4>11. QED
        BY <3>2, <4>7, <4>8, <4>9, <4>10 DEF Allowed, BlamedRight
    <3>7. QED
      BY <3>4, <3>5, <3>6
  <2>20. QED
    BY <2>17, <2>18, <2>19
<1>20. QED
  BY <1>1, <1>2, <1>3, <1>4, <1>5, <1>6, <1>7, <1>8, <1>9, <1>10, <1>11, <1>12, <1>13, <1>14,
     <1>15, <1>16, <1>17, <1>18, <1>19
  DEF Next, Launcher, Auth, Session, Lobby

LEMMA LifeInit == Init => Life!Init
<1> SUFFICES ASSUME Init, NEW h \in Accounts PROVE Stage(h) = "free" /\ Holder(h) = None
  BY DEF Life!Init
<1>1. Stage(h) = "free"
  BY DEF Init, Stage, Answered, LoggingOut, Holds, NoJob, Packet
<1>2. QED
  BY <1>1 DEF Holder

(* The stages are those of SessionLives: whoever has a session and is       *)
(* nowhere was blamed (LockedOut).                                          *)
LEMMA StagesThere ==
  ASSUME TypeInv', LockedOut', NEW h \in Accounts
  PROVE  Stage(h)' \in Life!Stages /\ Holder(h)' \in Clients \cup {None}
<1>1. TypeOK'
  BY DEF TypeInv
<1>2. h \in clientCache' => cause'[h] # "none" \/ InHand(h)' \/ Sent(h)' \/ Granted(h)' \/ Held(h)'
  BY DEF LockedOut, Explained
<1>3. cause'[h] \in Causes
  BY <1>1 DEF TypeOK
<1>4. Stage(h)' \in Life!Stages
  BY <1>2, <1>3, StageThere DEF Causes, Life!Stages, Life!Underway, Life!LeftBehind
<1>5. QED
  BY <1>1, <1>4, HolderThere

(* The auth server, the lobby and the session server together implement the *)
(* lives of the sessions, for any number of launchers and accounts and      *)
(* whatever is lost or delayed between them.                                *)
THEOREM LivesImplemented == Spec => SessionsLive
<1>1. Init => OneInv /\ AuthInv /\ LockedOut /\ Forgotten /\ BlameInv /\ Life!Init
  <2>1. Init => AuthInv /\ LockedOut /\ Forgotten /\ BlameInv
    BY DEF Init, AuthInv, LockedOut, Forgotten, BlameInv, BlamedRight
  <2>2. QED
    BY <2>1, OneInvInit, LifeInit
<1>2. TypeInv /\ TypeInv' /\ OneInv /\ AuthInv /\ LockedOut /\ Forgotten /\ BlameInv /\ [Next]_vars
        => /\ OneInv' /\ AuthInv' /\ LockedOut' /\ Forgotten' /\ BlameInv'
           /\ [Life!Next]_(Life!vars)
  <2> SUFFICES ASSUME TypeInv, TypeInv', OneInv, AuthInv, LockedOut, Forgotten, BlameInv,
                      [Next]_vars
               PROVE  /\ OneInv' /\ AuthInv' /\ LockedOut' /\ Forgotten' /\ BlameInv'
                      /\ [Life!Next]_(Life!vars)
    OBVIOUS
  <2>1. OneInv' /\ AuthInv' /\ LockedOut' /\ Forgotten'
    BY OneInvNext, AuthInvNext, LockedOutNext, ForgottenNext
  <2>2. BlameInv' /\ \A h \in Accounts : Allowed(h)
    BY LifeNext
  <2>3. /\ [h \in Accounts |-> Stage(h)]' \in [Accounts -> Life!Stages]
        /\ [h \in Accounts |-> Holder(h)]' \in [Accounts -> Clients \cup {None}]
    BY <2>1, StagesThere
  <2>4. \A h \in Accounts :
          \/ Life!Lives(h)
          \/ /\ [g \in Accounts |-> Stage(g)]'[h] = [g \in Accounts |-> Stage(g)][h]
             /\ [g \in Accounts |-> Holder(g)]'[h] = [g \in Accounts |-> Holder(g)][h]
    BY <2>2, AllowedLives
  <2>5. Life!Next
    BY <2>3, <2>4 DEF Life!Next
  <2>6. QED
    BY <2>1, <2>2, <2>5
<1>3. QED
  BY <1>1, <1>2, TypeInvariant, PTL DEF Spec, SessionsLive, Life!Spec
=============================================================================
