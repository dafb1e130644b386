------------------------------ MODULE LoginFlow ------------------------------
(***************************************************************************)
(* A player's way through three servers: the auth server checks the        *)
(* account and asks the session server, whose clientCache holds a session  *)
(* for whoever is logged in; the lobby asks it once more, and ends the     *)
(* session when the player logs out or the connection closes.  An account  *)
(* has one hash for good, and all three servers know a player by it alone. *)
(*                                                                         *)
(* The servers talk over one connection each.  Every program parses one    *)
(* packet per recv: what arrives together with it is lost.  The session    *)
(* server has several workers, so packets are handled in any order.        *)
(*                                                                         *)
(* A send queue's turn is one step with the push.  The lobby's connections *)
(* get a fresh number each here; LobbyConnections has them reused.         *)
(***************************************************************************)
EXTENDS Naturals, Sequences, FiniteSets

CONSTANTS
  Clients,    \* launchers
  Accounts,   \* accounts, by their hash
  Sockets,    \* socket numbers of the auth server
  Workers,    \* the session server's workers
  None,       \* no client, account or number
  MaxAsks     \* bound: login requests in all

ASSUME LoginAssumption ==
  /\ None \notin Clients \cup Accounts \cup Sockets
  /\ IsFiniteSet(Clients) /\ MaxAsks \in Nat

VARIABLES
  ui, hash,         \* launchers: what they are at, and the hash they were told
  asks,             \* login requests so far
  authpeer,         \* auth server: who is behind a number
  requests,         \* data_queue: login requests by number and account
  pendingQueues,    \* the number whose client waits for an account's answer
  authLink, authAnswers,     \* the auth server's connection to the session server
  lobbyLink, lobbyAnswers,   \* the lobby's
  jobs,             \* the packets the session server's workers handle
  clientCache,      \* the sessions
  client_sockets,   \* lobby: who waits for an account's answer
  players,          \* lobby: whose connection an account's record has
  socketToHash,     \* lobby: the account of a connection
  ingame,           \* accounts whose record is INGAME
  cause,            \* history: why an account's session may have been left behind
  doubled           \* history: accounts logged out by a connection that does not hold them

authVars    == <<authpeer, requests, pendingQueues>>
clientVars  == <<ui, hash, asks>>
sessionVars == <<jobs, clientCache>>
lobbyVars   == <<client_sockets, players, socketToHash, ingame>>
historyVars == <<cause, doubled>>
vars == <<clientVars, authVars, authLink, authAnswers, lobbyLink, lobbyAnswers, sessionVars,
          lobbyVars, historyVars>>

-----------------------------------------------------------------------------
Kinds == {"login", "check", "logout"}
Packet(kind, h) == [kind |-> kind, h |-> h]
Answer(h, ok) == [h |-> h, ok |-> ok]
NoJob == [kind |-> "none", h |-> None]
Causes == {"none", "unheard", "quit", "unregistered", "lost"}

Init ==
  /\ ui = [c \in Clients |-> "out"] /\ hash = [c \in Clients |-> None] /\ asks = 0
  /\ authpeer = [fd \in Sockets |-> None] /\ requests = {}
  /\ pendingQueues = [h \in Accounts |-> None]
  /\ authLink = <<>> /\ authAnswers = <<>> /\ lobbyLink = <<>> /\ lobbyAnswers = <<>>
  /\ jobs = [w \in Workers |-> NoJob] /\ clientCache = {}
  /\ client_sockets = [h \in Accounts |-> None] /\ players = [h \in Accounts |-> None]
  /\ socketToHash = [c \in Clients |-> None] /\ ingame = {}
  /\ cause = [h \in Accounts |-> "none"] /\ doubled = {}

(* history: what a logout lost on the way, or an answer, leaves behind.     *)
Blame(why, hs) == [h \in Accounts |-> IF h \in hs /\ cause[h] = "none" THEN why ELSE cause[h]]

Holds(c, h) == hash[c] = h /\ ui[c] \in {"in", "checking", "lobby"}

-----------------------------------------------------------------------------
(* The launcher and the auth server.                                        *)

Connect(c, fd) ==
  /\ ui[c] = "out" /\ authpeer[fd] = None /\ \A f \in Sockets : authpeer[f] # c
  /\ authpeer' = [authpeer EXCEPT ![fd] = c]
  /\ UNCHANGED <<clientVars, requests, pendingQueues, authLink, authAnswers, lobbyLink,
                 lobbyAnswers, sessionVars, lobbyVars, historyVars>>

LoginRequest(c, fd, h) ==
  /\ ui[c] = "out" /\ authpeer[fd] = c /\ asks < MaxAsks
  /\ asks' = asks + 1
  /\ ui' = [ui EXCEPT ![c] = "asking"]
  /\ requests' = requests \cup {[fd |-> fd, h |-> h]}
  /\ UNCHANGED <<hash, authpeer, pendingQueues, authLink, authAnswers, lobbyLink, lobbyAnswers,
                 sessionVars, lobbyVars, historyVars>>

(* The launcher is closed, or its user waits no longer.                     *)
CloseAuth(c, fd) ==
  /\ authpeer[fd] = c
  /\ authpeer' = [authpeer EXCEPT ![fd] = None]
  /\ ui' = [ui EXCEPT ![c] = "out"]
  /\ UNCHANGED <<hash, asks, requests, pendingQueues, authLink, authAnswers, lobbyLink,
                 lobbyAnswers, sessionVars, lobbyVars, historyVars>>

(* Whoever has the number is told; a launcher does not ask what it waits    *)
(* for.  LoginResponse Succeeded is the connection's last packet.           *)
TellFailed(fd) ==
  /\ ui' = [c \in Clients |-> IF authpeer[fd] = c /\ ui[c] = "asking" THEN "out" ELSE ui[c]]
  /\ UNCHANGED <<hash, authpeer>>

TellSucceeded(fd, h) ==
  /\ ui' = [c \in Clients |-> IF authpeer[fd] = c THEN "in" ELSE ui[c]]
  /\ hash' = [c \in Clients |-> IF authpeer[fd] = c THEN h ELSE hash[c]]
  /\ authpeer' = [authpeer EXCEPT ![fd] = None]

(* A worker of the auth server: the database refuses, or knows the hash.    *)
RefuseLogin(r) ==
  /\ r \in requests
  /\ requests' = requests \ {r}
  /\ TellFailed(r.fd)
  /\ UNCHANGED <<asks, pendingQueues, authLink, authAnswers, lobbyLink, lobbyAnswers, sessionVars,
                 lobbyVars, historyVars>>

HandleLogin(r) ==
  /\ r \in requests
  /\ requests' = requests \ {r}
  /\ pendingQueues' = [pendingQueues EXCEPT ![r.h] = r.fd]
  /\ authLink' = Append(authLink, Packet("login", r.h))
  /\ UNCHANGED <<clientVars, authpeer, authAnswers, lobbyLink, lobbyAnswers, sessionVars,
                 lobbyVars, historyVars>>

(* history: accounts of the packets behind the head that one recv loses.    *)
LostLogouts(packets, n) == {packets[i].h : i \in {j \in 2..n : packets[j].kind = "logout"}}
LostSuccesses(answers, n) == {answers[i].h : i \in {j \in 2..n : answers[j].ok}}

HandleCheckSessionResult(n) ==
  /\ n \in 1..Len(authAnswers)
  /\ LET answer == Head(authAnswers)  fd == pendingQueues[answer.h] IN
     /\ IF fd = None THEN UNCHANGED <<ui, hash, authpeer>>
        ELSE IF answer.ok THEN TellSucceeded(fd, answer.h) ELSE TellFailed(fd)
     /\ cause' = Blame("unheard", LostSuccesses(authAnswers, n) \cup
                   {h \in {answer.h} : answer.ok /\ (fd = None \/ authpeer[fd] = None)})
  /\ authAnswers' = SubSeq(authAnswers, n + 1, Len(authAnswers))
  /\ UNCHANGED <<asks, requests, pendingQueues, authLink, lobbyLink, lobbyAnswers, sessionVars,
                 lobbyVars, doubled>>

-----------------------------------------------------------------------------
(* The session server.                                                      *)

TakeFromAuth(w, n) ==
  /\ jobs[w] = NoJob /\ n \in 1..Len(authLink)
  /\ jobs' = [jobs EXCEPT ![w] = Head(authLink)]
  /\ authLink' = SubSeq(authLink, n + 1, Len(authLink))
  /\ UNCHANGED <<clientVars, authVars, authAnswers, lobbyLink, lobbyAnswers, clientCache,
                 lobbyVars, historyVars>>

TakeFromLobby(w, n) ==
  /\ jobs[w] = NoJob /\ n \in 1..Len(lobbyLink)
  /\ jobs' = [jobs EXCEPT ![w] = Head(lobbyLink)]
  /\ cause' = Blame("lost", LostLogouts(lobbyLink, n))
  /\ lobbyLink' = SubSeq(lobbyLink, n + 1, Len(lobbyLink))
  /\ UNCHANGED <<clientVars, authVars, authLink, authAnswers, lobbyAnswers, clientCache,
                 lobbyVars, doubled>>

(* Mutant: a session that exists is handed out again. *)
PlayerStateForAuthserverAgain(w) ==
  /\ jobs[w].kind = "login"
  /\ authAnswers' = Append(authAnswers, Answer(jobs[w].h, TRUE))
  /\ clientCache' = clientCache \cup {jobs[w].h}
  /\ cause' = [cause EXCEPT ![jobs[w].h] = "none"]
  /\ jobs' = [jobs EXCEPT ![w] = NoJob]
  /\ UNCHANGED <<clientVars, authVars, authLink, lobbyLink, lobbyAnswers, lobbyVars, doubled>>

getPlayerStateForAuthserver(w) ==
  /\ jobs[w].kind = "login"
  /\ LET h == jobs[w].h IN
     /\ authAnswers' = Append(authAnswers, Answer(h, h \notin clientCache))
     /\ clientCache' = clientCache \cup {h}
     /\ cause' = IF h \in clientCache THEN cause ELSE [cause EXCEPT ![h] = "none"]
  /\ jobs' = [jobs EXCEPT ![w] = NoJob]
  /\ UNCHANGED <<clientVars, authVars, authLink, lobbyLink, lobbyAnswers, lobbyVars, doubled>>

(* The case has no break: the logout below reads an empty hash from the     *)
(* reader that is used up, and LogOut ignores it.                           *)
getPlayerStateForGameLobbyserver(w) ==
  /\ jobs[w].kind = "check"
  /\ lobbyAnswers' = Append(lobbyAnswers, Answer(jobs[w].h, jobs[w].h \in clientCache))
  /\ jobs' = [jobs EXCEPT ![w] = NoJob]
  /\ UNCHANGED <<clientVars, authVars, authLink, authAnswers, lobbyLink, clientCache, lobbyVars,
                 historyVars>>

(* Mutant: the worker keeps part of the packet. *)
LogOutKept(w) ==
  /\ jobs[w].kind = "logout"
  /\ clientCache' = clientCache \ {jobs[w].h}
  /\ jobs' = [jobs EXCEPT ![w].kind = "none"]
  /\ UNCHANGED <<clientVars, authVars, authLink, authAnswers, lobbyLink, lobbyAnswers, lobbyVars,
                 historyVars>>

LogOut(w) ==
  /\ jobs[w].kind = "logout"
  /\ clientCache' = clientCache \ {jobs[w].h}
  /\ jobs' = [jobs EXCEPT ![w] = NoJob]
  /\ UNCHANGED <<clientVars, authVars, authLink, authAnswers, lobbyLink, lobbyAnswers, lobbyVars,
                 historyVars>>

-----------------------------------------------------------------------------
(* The launcher and the lobby.                                              *)

(* The launcher is closed before it reaches the lobby: nobody is told.      *)
Quit(c) ==
  /\ ui[c] = "in"
  /\ ui' = [ui EXCEPT ![c] = "out"] /\ hash' = [hash EXCEPT ![c] = None]
  /\ cause' = Blame("quit", {hash[c]})
  /\ UNCHANGED <<asks, authVars, authLink, authAnswers, lobbyLink, lobbyAnswers, sessionVars,
                 lobbyVars, doubled>>

TryConnectLobbyServer(c) ==
  /\ ui[c] = "in"
  /\ ui' = [ui EXCEPT ![c] = "checking"]
  /\ socketToHash' = [socketToHash EXCEPT ![c] = None]
  /\ client_sockets' = [client_sockets EXCEPT ![hash[c]] = c]
  /\ lobbyLink' = Append(lobbyLink, Packet("check", hash[c]))
  /\ UNCHANGED <<hash, asks, authVars, authLink, authAnswers, lobbyAnswers, sessionVars, players,
                 ingame, historyVars>>

(* HandleLoginAttempt registers whoever has no record; HandleExistingPlayer *)
(* does nothing.                                                            *)
HandleLobbyAnswer(n) ==
  /\ n \in 1..Len(lobbyAnswers)
  /\ LET h == Head(lobbyAnswers).h  c == client_sockets[h] IN
     IF c = None THEN UNCHANGED <<ui, client_sockets, players, socketToHash>>
     ELSE IF ~Head(lobbyAnswers).ok
     THEN /\ client_sockets' = [client_sockets EXCEPT ![h] = None]
          /\ UNCHANGED <<ui, players, socketToHash>>
     ELSE /\ ui' = IF ui[c] = "checking" THEN [ui EXCEPT ![c] = "lobby"] ELSE ui
          /\ IF players[h] = None
             THEN /\ players' = [players EXCEPT ![h] = c]
                  /\ socketToHash' = [socketToHash EXCEPT ![c] = h]
             ELSE UNCHANGED <<players, socketToHash>>
          /\ UNCHANGED client_sockets
  /\ lobbyAnswers' = SubSeq(lobbyAnswers, n + 1, Len(lobbyAnswers))
  /\ UNCHANGED <<hash, asks, authVars, authLink, authAnswers, lobbyLink, sessionVars, ingame,
                 historyVars>>

SendGameStart(h) ==
  /\ players[h] # None
  /\ ingame' = ingame \cup {h}
  /\ UNCHANGED <<clientVars, authVars, authLink, authAnswers, lobbyLink, lobbyAnswers,
                 sessionVars, client_sockets, players, socketToHash, historyVars>>

(* DeletePlayer: the record of a player in a game is kept, and with it the  *)
(* entry of its number.                                                     *)
DeletePlayer(h) ==
  IF h # None /\ players[h] # None /\ h \notin ingame
  THEN /\ players' = [players EXCEPT ![h] = None]
       /\ socketToHash' = [socketToHash EXCEPT ![players[h]] = None]
  ELSE UNCHANGED <<players, socketToHash>>

(* Mutant: the record goes and the session server is not told. *)
CleanupUntold(c) ==
  /\ DeletePlayer(socketToHash[c])
  /\ cause' = Blame("unregistered", {hash[c]} \ {socketToHash[c], None})
  /\ UNCHANGED <<lobbyLink, doubled>>

(* CleanupforSocket: the connection's account, if it has one, is logged out.*)
CleanupforSocket(c) ==
  LET h == socketToHash[c] IN
  /\ DeletePlayer(h)
  /\ IF h # None /\ players[h] # None
     THEN /\ lobbyLink' = Append(lobbyLink, Packet("logout", h))
          /\ doubled' = IF Holds(c, h) THEN doubled ELSE doubled \cup {h}
          /\ cause' = Blame("unregistered", {hash[c]} \ {h, None})
     ELSE /\ cause' = Blame("unregistered", {hash[c]} \ {None})
          /\ UNCHANGED <<lobbyLink, doubled>>

(* The connection ends.                                                     *)
LobbyEnd(c) ==
  /\ ui[c] \in {"checking", "lobby", "leaving"}
  /\ CleanupforSocket(c)
  /\ ui' = [ui EXCEPT ![c] = "out"] /\ hash' = [hash EXCEPT ![c] = None]
  /\ UNCHANGED <<asks, authVars, authLink, authAnswers, lobbyAnswers, sessionVars, client_sockets,
                 ingame>>

(* LogoutRequest: passed on, the record deleted, and the answer is the      *)
(* connection's last packet.                                                *)
LogoutRequest(c) ==
  /\ ui[c] = "lobby"
  /\ lobbyLink' = Append(lobbyLink, Packet("logout", hash[c]))
  /\ DeletePlayer(hash[c])
  /\ ui' = [ui EXCEPT ![c] = "leaving"] /\ hash' = [hash EXCEPT ![c] = None]
  /\ UNCHANGED <<asks, authVars, authLink, authAnswers, lobbyAnswers, sessionVars,
                 client_sockets, ingame, historyVars>>

(* ... after which the sender closes it and looks for nobody.               *)
Disconnect(c) ==
  /\ ui[c] = "leaving"
  /\ ui' = [ui EXCEPT ![c] = "out"]
  /\ UNCHANGED <<hash, asks, authVars, authLink, authAnswers, lobbyLink, lobbyAnswers,
                 sessionVars, lobbyVars, historyVars>>

-----------------------------------------------------------------------------
Auth ==
  \/ \E r \in requests : RefuseLogin(r) \/ HandleLogin(r)
  \/ \E n \in 1..Len(authAnswers) : HandleCheckSessionResult(n)

Session == \E w \in Workers :
  \/ \E n \in 1..Len(authLink) : TakeFromAuth(w, n)
  \/ \E n \in 1..Len(lobbyLink) : TakeFromLobby(w, n)
  \/ getPlayerStateForAuthserver(w) \/ getPlayerStateForGameLobbyserver(w) \/ LogOut(w)

Lobby ==
  \/ \E n \in 1..Len(lobbyAnswers) : HandleLobbyAnswer(n)
  \/ \E h \in Accounts : SendGameStart(h)
  \/ \E c \in Clients : Disconnect(c)

Launcher == \E c \in Clients :
  \/ \E fd \in Sockets : \/ Connect(c, fd) \/ CloseAuth(c, fd)
                         \/ \E h \in Accounts : LoginRequest(c, fd, h)
  \/ Quit(c) \/ TryConnectLobbyServer(c) \/ LogoutRequest(c) \/ LobbyEnd(c)

Next == Launcher \/ Auth \/ Session \/ Lobby

Spec == Init /\ [][Next]_vars
-----------------------------------------------------------------------------
(* Properties *)

(* Every variable stays in its type. *)
TypeOK ==
  /\ ui \in [Clients -> {"out", "asking", "in", "checking", "lobby", "leaving"}]
  /\ hash \in [Clients -> Accounts \cup {None}] /\ asks \in 0..MaxAsks
  /\ authpeer \in [Sockets -> Clients \cup {None}]
  /\ requests \subseteq [fd : Sockets, h : Accounts]
  /\ pendingQueues \in [Accounts -> Sockets \cup {None}]
  /\ authLink \in Seq([kind : {"login"}, h : Accounts])
  /\ lobbyLink \in Seq([kind : {"check", "logout"}, h : Accounts])
  /\ authAnswers \in Seq([h : Accounts, ok : BOOLEAN])
  /\ lobbyAnswers \in Seq([h : Accounts, ok : BOOLEAN])
  /\ jobs \in [Workers -> {NoJob} \cup [kind : Kinds, h : Accounts]]
  /\ clientCache \subseteq Accounts
  /\ client_sockets \in [Accounts -> Clients \cup {None}]
  /\ players \in [Accounts -> Clients \cup {None}]
  /\ socketToHash \in [Clients -> Accounts \cup {None}] /\ ingame \subseteq Accounts
  /\ cause \in [Accounts -> Causes] /\ doubled \subseteq Accounts

(* The duplicate login check: two clients hold one account only after the   *)
(* end of a connection has logged the account out that did not hold it: its *)
(* player, in a game, had logged out by request and left the entry of the   *)
(* number behind; or a late answer of the session server had registered an   *)
(* earlier account of the client.                                           *)
OneHolder ==
  \A h \in Accounts : h \in doubled \/ \A c, d \in Clients : Holds(c, h) /\ Holds(d, h) => c = d

LoggingOut(h) ==
  \/ \E w \in Workers : jobs[w] = Packet("logout", h)
  \/ \E i \in DOMAIN lobbyLink : lobbyLink[i] = Packet("logout", h)
Answered(h) == \E i \in DOMAIN authAnswers : authAnswers[i] = Answer(h, TRUE)
UnderWay(h) == LoggingOut(h) \/ Answered(h)

(* A session ends with its client: one that has no client, and no message   *)
(* on the way that ends it or finds it one, was answered to nobody, or its  *)
(* client closed before the lobby or before the lobby had registered it, or *)
(* found an old record there, or its logout shared a recv with a packet     *)
(* before it.  Nobody can log in to that account any more.                  *)
LockedOutExplained ==
  \A h \in clientCache :
    cause[h] # "none" \/ UnderWay(h) \/ \E c \in Clients : Holds(c, h)

(* The three servers together give every session the life SessionLives      *)
(* allows, whatever is lost between them: granted while there is none, held *)
(* by one client, ended by its logout, and left behind in a named way and   *)
(* for good.  An account is followed until a connection's end logs it out   *)
(* by mistake.                                                              *)
Stage(h) ==
  IF h \in doubled THEN "unsure"
  ELSE IF Answered(h) THEN "granted"
  ELSE IF \E c \in Clients : Holds(c, h) THEN "held"
  ELSE IF LoggingOut(h) THEN "ending"
  ELSE IF h \in clientCache THEN cause[h] ELSE "free"
Holder(h) == IF Stage(h) = "held" THEN CHOOSE c \in Clients : Holds(c, h) ELSE None

Life == INSTANCE SessionLives WITH
  stage <- [h \in Accounts |-> Stage(h)], holder <- [h \in Accounts |-> Holder(h)]

SessionsLive == Life!Spec
=============================================================================
