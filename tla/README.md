# Verification of MafiaGame

MafiaGame is an online game of the party-game kind ("Mafia"): a Windows launcher (DirectX) with an
anti-cheat kernel driver, four Linux servers (routing, auth, session, lobby), and an Unreal client that
is also the dedicated game server. This directory holds TLA+ models of the parts that decide something,
the TLC configurations that check them on small instances, and TLAPS proofs of what matters most.

Read in this order: the inventory, then the module you are interested in (each has a comment on every
action that is not plain), then the section on its runs, then its proofs. `PROJECT.json` maps each
definition to the lines it models, and lists runs, mutants, hazards, findings and theorems.

To check: `tlc -workers 2 -config MCMafiaGame.cfg MCMafiaGame` and so on; `tlapm MafiaGame_proofs.tla`.

## 1. The system

| Part | State it keeps | Operations | Talks to |
|---|---|---|---|
| Dedicated server game loop (`DedicatedGameMode`, `MafiaGameState`, `MafiaPlayerState`) | player states by hash, phase, one-shot phase timer, three counters, votes, night targets | PreLogin, PostLogin, AssignJobs, StartGame, OnPhaseTimeEnd, ServerProcessNightAction, ServerCastVote, ServerSubmitLastWords | Unreal clients by RPC; lobby by TCP (the list of expected hashes) |
| Auth server registry (`RoutingServerForAuth/ServerRegistry`) | `Serverlist`: socket -> `ServerInfo` (address, load, used, sendHeartbeat, lastHeartbeat) | accept, register, heartbeat, sweep, removeConnection, SelectServer | auth servers by TCP |
| Lobby matchmaking (`GameServerManager`, `GameRoom`, `Player`, `DedicatedManger`) | `players`, `socketToHash`, `waitrooms`, `startedrooms`, room and player pools, dedicated server list | login, join or create room, start, cancel, logout, cleanup of a lost connection | launcher, session server, dedicated servers |
| Lobby heartbeat | `heatbeatforplayer`: check pending, deadline | Heartbeat, ResponseHeartbeat | launcher's anti-cheat |
| Client networks of the four servers (`Network`) | epoll set, send queues, socket numbers | receive, send, Disconnect | clients |
| Worker queues (`RoutineProgress`) | a queue of packets, condition variable, stop flag | push, pop, Release | networks, handlers |
| Session server (`SessionManager`) | sessions by hash | check, insert, remove | auth and lobby servers |
| Auth server | `pendingQueues`: hash -> socket; database connection pool | login, registration | launcher, session server, database |
| Memory pools | queues of free objects and buffers | acquire (blocks), release | everything on the servers |
| Launcher (`Core`, `EventManager`, `NetWork`, `AntiCheat`, `ProcessManager`) | state of the connection, screen, device handle, game process | events on detached threads, connect, packets | all servers, driver |
| Kernel driver (`ProcessGuard`, `crc`, `GetHardware`) | protected process ids, callback handle, alert ring, integrity table | IOCTLs, callbacks, integrity thread | launcher's AntiCheat |
| Codecs (AES, XXHash, serializers) | none | pure functions on bytes | |

How they interact. A launcher asks the routing server for an auth server, logs in there, and gets a
session hash that the auth server puts into the session server. With the hash it enters the lobby, which
asks the session server whether the hash is good. The lobby collects players into rooms; a full room
takes a free dedicated server, sends it the room's hashes and its players the server's address. The game
process then connects to the dedicated server and presents its hash in PreLogin. Links between servers
are TCP connections with threads of their own; inside a server, threads share maps guarded by one mutex
per map; inside the dedicated server everything runs on the game thread.

### What is hard in it

- **Order of calls, timers and disconnections on one thread** (game loop): each handler is atomic, but a
  player may leave between any two, and the phase timer is one-shot: a callback that does not arm it
  again stops the game.
- **Fine-grained locking** (lobby): no operation of the matchmaking holds a lock from its first read to
  its last write, so joins, cancels, disconnects and starts interleave at every critical section.
- **Pointers kept after unlocking, numbers that are reused** (registry, networks).
- **Timeouts that race late answers** (registry, lobby heartbeat, auth server's pending queue), packets
  that arrive together and are lost.
- **Condition variables and blocking pools** (worker queues, pools): lost wake-ups, everyone waiting.
- **One thread per event** (launcher): effects in any order.

`PROJECT.json` "hazards" lists each at its line, with the properties that cover it.

### What makes each part correct

- *Game loop*: the counters agree with who is alive; the game goes on exactly while it is undecided; the
  winner announced is the right one; votes are counted once and for the living; the one executed was
  elected; a phase is always followed by another until the game is over.
- *Registry*: only open connections are offered; the sweep's pointers stay valid; a dead server
  disappears and nobody else does; no heartbeat is lost or dereferences a missing record.
- *Matchmaking*: players gather in one waiting room; a full room is started, once, with all its players;
  a dedicated server serves one game; a client is only sent to a server that expects it; nobody is left
  behind in a room.
- *Session and login*: one login per hash at a time; an answer goes to the connection that asked.
- *Queues and pools*: what is pushed is handled; shutdown ends; acquire does not block for ever.
- *Connections and heartbeat*: a record ends with its connection; a silent client is disconnected; who
  answered is not taken for silent.
- *Launcher*: it reaches the lobby; its screen and its requests follow the user.

## 2. Modules

| Module | Component | Status |
|---|---|---|
| `MafiaGame` | dedicated server game loop | written, checked, proved |
| `ServerRegistry` | auth server registry of the routing server | written, checked, proved |
| `GameServerManager` | lobby matchmaking, with the parts of the packet handlers, the client and the session server it needs | written, checked, proved |
| `MafiaRules` | the game as a player knows it, without connections, timers and counters kept by hand: the abstract specification that `MafiaGame` refines | refinement checked and proved |
| `Matchmaking` | groups that wait, matches with a fresh server, players sent to theirs: the abstract specification that `GameServerManager` refines | refinement checked and proved |
| `SessionLives` | the life of an account's session across three servers: the abstract specification that `LoginFlow` refines | refinement checked and proved |
| `MemoryPool` | what a pool of the servers promises: the abstract specification that `RoutineProgress` refines twice | refinement checked and proved |
| `RoutineProgress` | the lobby's packet pipeline: worker queue, session link, send queues, blocking pools, shutdown | written, checked, proved |
| `LobbyConnections` | the lobby's client connections, reused socket numbers, anti-cheat heartbeat | written, checked, proved |
| `LoginFlow` | a login's way through auth server, session server and lobby | written, checked, proved |
| `LauncherClient` | the launcher's threads, its connections and its screen | written, checked, proved |
| `PacketStreams` | lemmas about the sequences that packets pass through, for the proofs of the last three | proved |
| `MC*` | instances for TLC (model values, symmetry sets) | |
| `*_proofs` | theorems, in modules that extend the component's module and TLAPS | |

The models share conventions. A session hash is a model value; `None` is the empty string. An action is
one handler where handlers are atomic (the game thread) and one critical section where they are not. The
history variables are named as such where they are declared; none of them is read by a guard. The
sources do not compile as they are in a few places (a missing include, a stray identifier); there the
evident intent is modelled. Each definition that begins with "Mutant" in its comment is a plausible
wrong version of the definition after it: the specification never uses it, and replacing the definition
by it must make a property fail.

### 2.1 MafiaGame

State and code. `CurrentPhase`, `DayCount`, the three counters, `ExecutedPlayerId`, `VoteMap` and
`NightActions` are fields of the game mode and game state; `JobType`, `bIsAlive`, `VoteCount` and
`TargetPlayerId` are the fields of each `AMafiaPlayerState`, indexed by hash. `timerArmed` is whether
`PhaseTimerHandle` has a callback pending. `connected` are the hashes of controllers whose player state
has its hash, which is what `FindPlayerStateByHash` can find.

| Actions | Code |
|---|---|
| `PreLogin`, `PostLoginSeat`, `PostLoginStart`, `PostLoginGuest` | PreLogin, and PostLogin with InitPlayerInformaion; the last seat runs AssignJobs and StartGame in the same call |
| `Leave` | a dropped connection; there is no Logout override, so no book of the game changes |
| `ServerProcessNightAction`, `ServerCastVote`, `ServerSubmitLastWords` | the calls of the clients, with the client's own guard against a click on oneself (`DedicatedCharacter.cpp:340`) |
| `NightTimeEnd`, `StartVotingPhase`, `StartLastWordsPhase`, `NoOneElected`, `ProcessExecution`, `ExecutedPlayerGone`, `NightTimeEndCrash` | OnPhaseTimeEnd by phase, each with the whole chain it calls, CheckWinCondition and the next SetTimer included |

Abstractions. `PlayerHashes` is an array in the code and a set here, with the number of registrations
beside it; the shuffle is uniform, so what it may deal to the players present is the set `Deals`. The
values of a player state that left stay in the functions and are not looked at (`Found` guards them).
A player who comes back before the start takes a new seat; one who comes back later is a guest with the
empty hash. Chat, visibility, the displayed clock and all messages to clients are left out. Two
simultaneous connections with the same hash are not modelled.

`MafiaRules` has no connections, seats or timer, and of the three counters only the one the code ends the
game by. `MafiaGame` maps its fields to it one to one, except that the living are the set of those whose
`bIsAlive` is set, and the accused is `ExecutedPlayerId` while the phase is LastWords. An end of a phase
with all the functions it calls is one step of the rules, with CheckWinCondition in it; whoever connects
or leaves is none.

### 2.2 ServerRegistry

State and code. A socket number is both a connection and the key of its record; `listed`, `used`,
`sendHeartbeat` and `age` are `Serverlist` and the fields of `ServerInfo`. `List`, `looking`, `seenAge`
and `socketsToRemove` are the sweeper's locals (`SessionInfoList`, the loop variable, the age read once,
the list of sockets to drop), `closing` the receiver's local between Setused(false) and close.

`recvWorkerThread` and `sendWorkerThread` are the two threads main starts; `Environment` the auth servers
(connect, register, echo, go away with or without an announced end), the kernel (a number is given to
the next connection as soon as it is closed) and time.

Abstractions. Ages are fresh, due and timed out. The receiver's recv and its processing are one step, as
are the heartbeat's flag and send. One recv per edge-triggered event takes all bytes that are there and
only the first packet of them is parsed, as in the code; so the end of a stream may never be read. The
decision taken on an age that is stale by then (`SweepExpire`) is a step of the model; the history
variable `renewed` holds the servers it hits although they were heard of, and `DroppedForSilence` says
that this, or silence, is all that takes a server that is there out of the offer (or a number reused while its old
record is listed, which mixes up two servers' answers). SelectServer has
no caller; `Offered` is what it would choose from.

### 2.3 GameServerManager

State and code. `players`, `socketToHash`, `waitrooms`, `startedrooms` are the four maps; `status`,
`room` and `PlayerSocket` are fields of a `Player`, kept for the record `<<hash, login>>` that the login
acquired, so a pointer held after the erase is still a record; `playerHashes` is a `GameRoom`'s set, and
`pool` the room pool. Each thread has a program counter `pc`, its request `job`, its local `Room` and
`Sock`, and, in SendGameStart, the rest of the hashes to tell (`list`) and the server (`key`).

| Steps | Code |
|---|---|
| `HandleLoginAttempt`, `RegisterPlayer`, `EnterLobby` | the session server's answer, HandleLoginAttempt and RegisterPlayer |
| `JoinRoomRequest`, `PickRoom`, `AddPlayerHash`, `RegisterRoom`, `IsFull`, `WaitInRoom`, `CloseRoom` | joinOrCreateRoom |
| `SendGameStart`, `LockPlayers`, `TellPlayer`, `AllTold`, `RespondUnstarted` | SendGameStart with GetDedicatedServerInfor, and the response |
| `CancelRoomRequest`, `FindWaitRoom`, `RemovePlayerHash`, `CountPlayers`, `ReleaseRoom`, `UnregisterRoom`, `BackInLobby` | CancleRoom and leaveRoom |
| `LogoutRequest`, `CleanupforSocket`, `CheckLobby`, `CheckRoom`, `ErasePlayerAndSocket` | logout, lost connections, DeletePlayer |
| `AcceptDedicatedServer` | AcceptConnection |

SendGameStart holds `startedrooms_MTX` throughout and `players_MTX` while it tells the players; the two
operators `StartedRoomsFree` and `PlayersFree` guard the steps that take them. Every other lock is held
for one step.

Abstractions. Taking a request from the queue and FindPlayer are one step; requests that fail without
an effect are left out. RegisterPlayer sets its fields in one step after the insertion (a record whose
status is set before its socket is also reached by a cancelled match, so no state of the room logic is
missed). EraseRoom and the release of the room are one step. The response is sent in the step of the
last effect, and the client's screen changes with it; two messages under way may arrive in either order
(`JoinRoomResponse`). A `PlayerSocket` that was never set is uninitialised memory and may read as -1
or as a number of no connection. A null dereference in RegisterPlayer stops the thread where the
program would end, which leaves more behaviours. Pools are first in, first out; the pool of players is
so long (50000) that no record is reused in a behaviour of the model, the room pool has `NumRooms` and
does not grow. Insertions into `serverlist` while it is walked (a data race) are not modelled, nor are
nicknames and dedicated servers that leave; heartbeats, send queues and the reuse of client socket
numbers are in LobbyConnections.

`Matchmaking` has no threads, records or locks: rooms open only when none waits, take players until they
are complete, are matched with a server that never had a game, and a player is sent once to the server of a match that
names him. `playerHashes`, `waitrooms`, `serverlist` and `told` are its variables; its matches are the set of
`games`. Nearly every critical section is a stutter; AddPlayerHash, RemovePlayerHash, RegisterRoom,
CloseRoom, the choice of a server and each TellPlayer are its steps.

### 2.4 RoutineProgress and MemoryPool

State and code. `data_queue`, `pc`, `data` are the queue of packets, the workers' place in
RoutineProgressWorkerThread and HandleReceivedPacket, and the packet each handles; `decrypted_data` and
`Serialize_data` the two buffers of a handler. `recv` and `link`, `sending` are the receiver of the client
network and the two threads of the session link, with the packet or buffer each has in hand.
`send_queues`, `stranded`, `sendToSessionServer_queue` are the buffers queued for clients, for numbers
whose client is gone, and for the session server; `packet_pool` and `ClientPacket_pool` the two pools. `main` is how
far the shutdown has come (link, network, statics, worker queue); the flags the loops test follow from it.

| Actions | Code |
|---|---|
| `WorkerPredicate`, `WorkerPark`, `SpuriousWakeup`, `Push`, `notify_one`, `notify_all` | the condition variable of the worker queue; the mutex is kept from the predicate to the wait |
| `Handle`, `Copy`, `Forward`, `SendToDedicated`, `TellSerialize` ... `Finish` | HandleReceivedPacket, by the buffers each case takes, passes on, releases or loses |
| `Recv*`, `Logout*` | recvWorkerThread with addToProgressQueue, and Logoutpacket for a connection that ended |
| `Link*`, `Send*`, `Heartbeat*` | the session link's threads, processSendQueue, HeatbeatWoker |
| `StopLink`, `LinkJoined`, `NetworkJoined`, `StopRoutine`, `RoutineJoined`, `Join` | the four Release functions in the order of main |

`MemoryPool` says of an object only where pointers to it are: in the pool first, then in one place at a
time, or nowhere once it leaked. `RoutineProgress` maps its variables to `holders` once for the byte
buffers and once for the packets (`BufferPool`, `PacketPool`); `HeldOnce` is that both specifications hold.

Abstractions. A blocking acquire is a guard on the pool (its condition variable is notified at every
release, with one waiter to one object). The reader pool never blocks: a worker holds one reader and the
pool has thousands. Push and notify of the session link's queue are one step, and so are the store and
the notification of the worker queue's stop. What kind a packet is, is decided when it is parsed. The
queue to a dedicated server is one of the send queues. After undefined behaviour (`undefined`) there are
no more steps.

### 2.5 LobbyConnections

State and code. `peer` says which connection a socket number denotes now; `players`, `PlayerSocket`,
`LastHeartbeat`, `sendHeartbeat`, `heatbeatforplayer`, `socketToHash`, `send_queues` and the pool of
`Player` objects are the lobby's maps and the fields of its records, which the pool hands out again.
`armed` are the numbers with an EPOLLOUT event, `responses` and `logouts` the packets in the worker queue,
by number as in the code. `recv`, `reg`, `resp`, `send`, `heart` are the locals of the five threads.
Connections are counted, so that history variables can say which connection a thread meant.

| Actions | Code |
|---|---|
| `AcceptConnection`, `RecvAnswer`, `RecvLogout`, `RecvEnd`, `CleanupforSocket`, `RemoveConnection` | AcceptConnection, recvWorkerThread, removeConnection |
| `SendTake`, `SendEntry` | processSendQueue, with Disconnect after a last packet |
| `TakeLogin`, `HandleExistingPlayer`, `RegisterPlayer`, `EnterMaps` | HandleLoginAttempt, RegisterPlayer |
| `HandleLogout`, `SendGameStart` | LogoutRequest; the status of a player who is sent to a game |
| `LookupHash`, `ResponseHeartbeat` | ResponseHeartbeat, before and after its lock |
| `Heartbeat`, `MarkRecord`, `TimeoutDisconnect`, `HeartbeatNull`, `TimePasses` | HeatbeatWoker and Heartbeat, record by record |

Abstractions. One receiver, one sender, one worker that registers and one that answers; each logout is
handled in one step. The client's answer and its receipt are one step. Sixty seconds may have passed at
any time, four hundred are `LastHeartbeat = "late"`. DeletePlayer is one step (GameServerManager takes it
apart), init_Player's reset is done at the release. The loop over the map is a turn for each record.

### 2.6 LoginFlow

State and code. `requests` is the auth server's worker queue, `pendingQueues` its map from an account's
hash to the socket that asked; `authLink`, `authAnswers`, `lobbyLink`, `lobbyAnswers` are the two
connections to the session server, each direction a FIFO queue of which one recv takes n packets and
parses the first; `jobs` the packets its workers have in hand and `clientCache` its sessions.
`client_sockets`, `players`, `socketToHash`, `ingame` are the lobby's. A launcher is `out`, `asking`, told
its hash (`in`), `checking` at the lobby, in the `lobby`, or `leaving` it.

The session server's `getPlayerStateForAuthserver`, `getPlayerStateForGameLobbyserver` and `LogOut` are
one step each, under Cache_MTX in the code. The lobby's check falls through into LogOut with an empty
hash, which does nothing. `CleanupforSocket` tells the session server only for a connection with an
entry in `socketToHash`; `DeletePlayer` keeps the record of a player in a game, and the entry with it,
so that player is logged out again when the connection ends. `doubled` remembers the accounts logged out
by the end of a connection that does not hold them.

`SessionLives` knows neither messages nor connections: an account is free, granted, held, ending, left
behind in one of four ways, or unsure once it was logged out in the name of somebody else. `LoginFlow`
computes that stage of an account from where its grant is (`Stage`, `Holder`): an answer under way, a
launcher, the lobby's player, a logout on the link or with a worker.

Abstractions. A send queue's turn is one step with the push. The lobby's connections are named by their
client (LobbyConnections has the numbers). The database is a choice between RefuseLogin and HandleLogin.

### 2.7 LauncherClient

State and code. `CurrentState`, `currentSocket` are NetWork's atomics; `sockets` the sockets it has opened and not
closed, each with its server, its progress, the network events recorded for it and its answers;
`signalled` is the one event object of all sockets. `loop` is where the event loop is between the wait, the
enumeration and the handlers; `data_queue` and `sendQueue` the two queues; `jobs` the detached threads of
`EventManager::trigger`, oldest first; `screen` what GuiControl shows. `admitted` and `waiting` are what the
lobby knows of this player.

`Wake`, `Enumerate`, `HandleConnect`, `HandleFailure`, `Receive`, `ReceiveEnds`, `HandleClose` are EventLoop,
each step reading `currentSocket` and `CurrentState` again, as the code does; `HandleReceivedPacket` is the
worker; `ConnectToAuthServer`, `ConnectToGameLobbyServer`, `StoreLobby`, `SetUitype`, `SendPacket`,
`ProcessRunner` are what the triggered threads do, in any order; `Press*` are the buttons each screen has.

Abstractions. Servers handle a packet in the step that sends it. socket, WSAEventSelect and connect are one
step. A socket that is dropped without closing stays open. Starting the anti-cheat and the change to the
game's screen, which the worker waits for, are one step with their handler. Sign-up, heartbeats, message
boxes and ignored answers are left out. The second initial state of the run is a launcher that has
reached the lobby.

## 3. Runs

Every run checks deadlock off where the system may really stop: a game that is over, a registry that
has crashed, a lobby whose shutdown is done, a launcher whose user does nothing, a bound that is used up.
LoginFlow is checked with deadlock on: somebody can always act.

| Run | Instance | What it shows |
|---|---|---|
| `game` | table of 4, nobody leaves, up to day 3 | the counters of the factions, the election and the books are right; the game is played by the rules (refinement) |
| `game_leaves` | table of 3, one dropped connection at any point, who may come back, up to day 2 | types, vote tally with leavers, the game stops only after a leaver, and phases end (liveness) |
| `registry` | 2 socket numbers, reused without end | pointers, offered connections, explained crashes, one heartbeat under way, nobody dropped but for silence |
| `registry_live` | 1 socket number | a dead server stops being offered |
| `lobby` | 2 players, 2 threads, 2 servers, rooms of 2, one player may log in again, 2 leavings | one waiting room, attended; matches are made as promised (refinement): servers used once, clients sent once and only where expected, games short only after a leaver |
| `lobby_live` | 2 players, 2 threads, 1 server, 1 leaving | a full waiting room is started unless it is left or no server is free |
| `queue` | 2 workers, 3 buffers, 2 packets, to the end of the shutdown | no push goes unheard; the pools keep their promise (refinement); leaks, starvation and missed notifications are exactly those named |
| `queue_live` | 1 worker, 2 buffers, 1 packet | a packet is taken and Release returns, but for an empty pool or a missed notification |
| `connections` | 2 players, 1 number, 2 records, 2 connections, 1 logout | a record without its connection, a mark nobody asked for, and a null pointer about to be dereferenced, come from the named races only |
| `connections_live` | 1 player, 1 number, 2 connections | a client that is silent for 400 s is disconnected |
| `login` | 2 launchers, 2 accounts, 2 numbers, 2 workers, 3 requests | an account has one holder unless the end of a connection that does not hold it logged it out; a session is left behind for four named reasons only; each session lives its life (refinement) |
| `launcher` | 3 sockets, 3 buttons, from the start and from the lobby | the lobby is asked for admission but for four named races; screen and room follow the last answer and button unless a triggered thread overtook another |

Many properties have the form "X, unless one of these": the code does not promise X, and the property
says exactly which steps break it. The excuses are history variables set where the code does it; each
is a finding below, and a mutant shows that the property would notice one more.

**Bounds and why they are enough.** The game needs a mafia, a police, a detective and at least one
citizen to show all roles: a table of 4 deals them all, and three days hold a first night without
results, a night with a kill, a second kill of the same player, and executions between. Leavers are
checked at a table of 3, with mafia, police and detective and no citizen; when somebody left and came
back before the deal, the card of the seat taken twice stays on the table. `NumSpawns` is the table's size, and
guests arise from the full table. In the registry two numbers suffice for one record being swept while
the other is received or reused; its state space is finite without a bound because time saturates and
the number of heartbeats under way is limited by the code (one per connection and reuse). In the lobby a
room of two is the smallest that can be joined by two threads at once, and two threads the smallest
number that race; two logins bring the second connection of a player whose record still exists (a constraint lets one player have it), two
leavings bring a leaver in a room that is emptied, released and acquired again. Two servers are needed
for one to be used twice.

In the pipeline two workers race for the queue while a third thread pushes; three buffers are those of one
handler plus one, so both workers can hold buffers and wait; two packets let one wait while one is handled.
It needs no other bound: a leaked buffer does not come back, so every behaviour uses up its pool. One
number shared by two players is what reuse needs: the second connection gets it while threads still mean
the first; two records let one be recycled while a thread holds its pointer. Two launchers and
accounts bring every pair of the same and of different accounts; three requests let an account be taken,
lost and asked for again. Three sockets are one more than a launcher should have, so that an old one
with events pending remains while a new one is made; three buttons are join, cancel and one more.

The theorems below remove the bounds. Model values are permuted (SYMMETRY) in the runs that check invariants, action properties and refinements,
all of which are symmetric in them, never with liveness.

**Fairness.** Game: weak fairness of `OnPhaseTimeEnd`: the engine's timer manager fires a timer that is
armed. Registry: weak fairness of each of the two threads, which loop for ever (the sweep every period,
the receiver on events), and of time. Lobby: weak fairness of each thread's `Continue`: a thread that
took a request runs on, and the mutexes it waits for are released by threads with the same fairness.
Pipeline: weak fairness of each thread, with two exceptions written into the formula: no packet of a
client and no due heartbeat is assumed. Main's joins are fair, its decision to stop is not: nobody need
type the number that ends the server. Connections: weak fairness of the lobby's threads, and strong
fairness of the heartbeat's turn for each record that is late, because the loop of Heartbeat goes over all
records, again and again. Clients, auth servers and dedicated servers owe nothing: no login, vote, answer
or join is assumed.

**Liveness properties.** `PhasesEnd`, `DeadServersExpire`, `FullRoomsStart`, `PacketsAreTaken`,
`ReleaseReturns` and `SilentAreDisconnected`. Each names its excuses in its formula, and each excuse is
itself reported below as a finding or is a legitimate reason (no free server).

## 4. Proofs

The safety properties of all runs are theorems for every value of the constants: any number of players, sockets, threads, servers, rooms, days, workers, buffers, packets,
clients, accounts and buttons. Assumptions on the
constants are those the modules declare (finite sets, numbers, `None` outside the sets, a table of more
than two, rooms of at least one), and the code's values satisfy them. Each `Spec => []Inv` follows from
an inductive invariant `IInv`, with `Init => IInv`, `IInv /\ [Next]_vars => IInv'`, `IInv => Inv`.
The four refinements (`PoolsImplemented`, `RulesImplemented`, `MatchmakingImplemented`, `LivesImplemented`) map the
initial states and each step, under `IInv`, to a step of the abstract specification or a stutter. What a
refinement already says is not checked once more by a run, and is a theorem of its own where it reads
better as an invariant: `PlayedUndecided`, `WinnerAnnounced`, `ServersOnce`, `ToldExpected`, `ShortGames`.

**MafiaGame_proofs.** `IInv` is the type invariant, the invariants of the runs and what they need:
`Seats` (the game waits exactly while seats are left, and until then jobs, lives and votes are blank), `OneMafia` (at
most one player has the mafia's card), `TargetsAreOthers` (nobody's night target is itself: the client's
guard), `DaysAreCounted`, and `AllStayed` (as long as nobody left, all the registered are connected).
Without `OneMafia` and `TargetsAreOthers` the counters are not inductive: a mafia that may choose itself
lowers the living without lowering MafiaCount. `VoteTally` counts a set comprehension, so it rests on
lemmas about what one re-vote does to the set of voters of a player; `StallsExplained` needs `AllStayed`
for the detective's report. `RulesImplemented` proves that every handler is a step of `MafiaRules` or a
stutter. It needs the invariant in two places: the code reads the mafia and its target from counters and
from `NightActions`, the rules from who is alive (`FactionCounts`, `OneMafia`); and a majority of votes
is counted by `VoteCount` in the code, by the ballots in the rules (`VoteTally`).

**ServerRegistry_proofs.** `IInv` adds to the properties: `ClosedAreSilent` (nothing waits on a
closed socket, and the one the receiver is about to close is still open, its record already unmarked), `Exchange` (heartbeats
asked, answers in the inbox and the flag of the record, which makes "one under way" inductive),
`Kept` (while the sweep gave nobody up and no number was reused, whoever can still answer has a record),
`FoundSilent` (what the sweep found timed out still is, or was renewed after its age was read: the record
it is looking at included) and `Attended` (a registered server is offered until it is given up: a
server connects, its one packet is under way, or it is in use).

**GameServerManager_proofs.** `TypeInv` is `TypeOK` with `Connected` and `Attached` (which program
counters have a room, a server, a request). `RoomsTogether`, `RoomsAttended` need only this and each
other: a waiting room is full only from AddPlayerHash to CloseRoom of the thread that filled it.
`ServersInv` collects `GamesMarked` (a server with a game is marked), `Telling` (who is still to be told
is on the list sent) and the two properties. `SizesInv` bounds each room by maxplayer (`Capacity`) and
says that a thread that has seen its room full still finds it full unless the room lost a player since
(`SeenFull`); from it `ShortGames` follows. `MatchmakingImplemented` proves the refinement of `Matchmaking`,
critical section by critical section, with `TellInv` besides `IInv`: one thread at a time tells players (`OneTeller`,
the lock of the started rooms), they were told of used servers only (`ToldUsed`), and whoever is still
on a list was not yet told of its server (`Untold`). Without it a player might be sent twice.

**RoutineProgress_proofs.** `TypeInv` is `TypeOK` with `Held`: what a thread works on at its step it really
has. `QueueInv` is for the condition variable: `ParkersSawEmpty` (between predicate and wait the queue is
empty, because the mutex is held), `PushesAreHeard`, and `WaitersWereParking`. `PoolInv` is for the
refinement: `Idle` (the local variables are null outside the steps that use them), `PacketOnce` and
`BufferOnce` (two places with a pointer to the same object are the same place) and `Placed` (places are
among those the abstract pool knows). Each action is shown to move one object at most (`PacketStep`,
`BufferStep`: an object stays, goes from one place to another, or is dropped), which is at once the step of
the invariant and the step of `MemoryPool`; so `PoolsImplemented` proves `Spec => HeldOnce`, the
implementation of the abstract pool by the pipeline, for buffers and packets. `LeaksCounted` counts the drops;
`StarvationBounded` bounds the pool by a union of what can hold a buffer for good.

**PacketStreams.** What one recv takes of a stream, a worker of a queue and a thread of the list of its
kind leaves the rest as it was (`Rest`, `Removed`), holds nothing new and nothing twice (`RestIn`,
`AppendedIn`, `RemovedIn`), and keeps the last entry of a kind (`RestLast`, `AppendedLast`, `RemovedLast`).
The three proofs that follow need nothing else of sequences.

**LoginFlow_proofs.** `TypeInv` is `TypeOK` with `Known` (a launcher past the login knows its hash).
`OneInv` is for `OneHolder`. For an account that no connection's end logged out without holding it,
`InOnePlace` says that its grant is at one point of its way at most (the auth server's answer, the
launcher, the lobby's logout on the link or in a worker's hand), with a session all along; `OnceThere`
that it is there once. This is inductive because each step moves the grant on. `AuthInv` (a
connection to the auth server is its launcher's only one, and that launcher is not logged in yet) is what `LockedOut` needs:
each session has its message, its player, or the reason it was left behind. `LivesImplemented` proves the
refinement of `SessionLives`, for all accounts in one step, because one recv may lose the logouts of several.
Beyond `OneInv` and `AuthInv` it needs `Forgotten` (a launcher that is not logged in
knows no hash, so it cannot hear of two grants) and `BlameInv` (an account blamed for a loss has a session
and no grant anywhere: it is left behind for good).

**LauncherClient_proofs.** `Typed` is `TypeOK` in parts. `ScreenInv` says that while a change of screen is
pending and none was overtaken, the last in the list is the one wanted; `PressInv` the same of the room
requests in the list, the send queue, and the lobby. For `AdmissionAsked`: `SocketInv` (what a connection's stage
says of its events), `LoopInv` (the event loop has read the socket it handles), `Chain` with `OnceThere` (the
launcher is at one of ten steps between its connection to the routing server and the storing of the
lobby's state, and `CurrentState` agrees), and `AdmissionInv` (as long as no cause is recorded, the
connection to the lobby is connecting, or its event is signalled or in the loop's hands, or the question
is queued or asked). Without `Chain` a second login might replace the lobby's connection, and without
`LoopInv` the close of the routing server's socket might be taken for the lobby's.

**LobbyConnections_proofs.** `Base` is `TypeOK` in parts with `Held` (what a thread works on at its step it
has) and `PoolInv` (a record is in the pool once, or one player's; so the pool is not empty for a player
without one). `Ends` is for `OrphansExplained`: `NumberInv` (a connection has one number; the receiver and
the registering worker mean their number's connection or one that is over), `RecordInv` (a record was
registered with a connection of its player), `OrphanInv` (while its connection lasts, the number leads
to its player, and only a recorded cause ends the connection before the record is seen to) and
`LastInv` (a queued last packet is for a connection that logged out, so the sender ends no other
without a cause). `Marks` is for `MarksExplained`: `HeatInv` (the heartbeat's map
agrees with `players`) and `MarkInv`, which says of a mark from the queueing of the request on, before
the flag is set, that request or answer are in flight or held by the worker. `NullsExplained` needs `RecordInv`, and
`MapsLead`: whoever a number leads to has an entry in the heartbeat's map, and a record with that number,
unless the registration came too late for the record. It is inductive because a record's number is set
before the maps and taken from them with it.

What stays with TLC: the six liveness properties (the prover has no ENABLED and no fairness). All else
the runs check is proved, the refinements included.

## 5. Findings

Where code and comment disagree, or the code does what cannot be meant; each is quoted in PROJECT.json
with its lines. The models take these steps; the properties in brackets name them as excuses or count them.

Dedicated server: (1) a mafia that kills a dead player lowers AlivePlayerCount again; (2) the accused
leaves and the game stays in LastWords [`StallsOnlyAfterLeave`]; (3) a player state without hash is accepted
and votes; (4) the header speaks of two mafia and two citizens, the code deals one and three; (5) the
detective's report dereferences players who may have left [`StallsOnlyAfterLeave`].

Registry: (6) a timed-out auth server keeps its connection and is never listed again, even if it answered after the sweep had
read its age [`DroppedForSilence`]; (7) a late heartbeat
dereferences a missing record [`CrashExplained`].

Matchmaking: (8) a room is started with fewer players than it needs [`ShortGamesExplained`, `MatchesAreMade`]; (9) a room is
started twice on two servers; (10) a full room without a free server is never started and nobody is
told [`FullRoomsStart`]; (11) RegisterPlayer's second lookup may find the record erased; (12) a player who
returns after a game keeps the socket of the old connection.

Pipeline: (13) Release notifies without the mutex, so a worker may sleep for ever
[`SleepersWereParking`, `ReleaseReturns`]; (14) a guard made while its pointer is null loses a buffer for
every join, cancel and logout [`LeaksExplained`]; (15) the session link's sender pops an empty queue when it
is stopped; (16) its receiver loses a packet for every failed receive [`LeaksExplained`]. In the end
acquire blocks for ever [`StarvationExplained`, `PacketsAreTaken`].

Connections: (17) the heartbeat's mark is set after the request is queued and overwrites a fast answer
[`MarksExplained`]; (18) a timeout closes the socket and leaves the record and the session
[`OrphansExplained`]; (19) ResponseHeartbeat dereferences an entry that may be gone [`NullsExplained`]; (20) erasing a record
erases the map entry of the number's new owner [`OrphansExplained`].

Login: (21) the end of a connection may log out an account it no longer holds, the next login's session
ends with it, and two clients hold one account
[`OneHolder`]; (22) `pendingQueues` is overwritten, never erased and read without its mutex; (23) a session
whose client ends before the lobby knows it is never ended [`LockedOutExplained`].

Launcher: (24) FD_CONNECT may be handled before the state is stored, and (25) FD_CLOSE of an old socket
closes the new one: nobody asks the lobby then [`AdmissionAsked`]; (26) screens and requests overtake each
other [`EffectsInOrder`]; (27) after the lobby ended the connection the screen has no way back.

## 6. Plan

Written first, because it is the product's core: `MafiaGame`; then the parts of the servers in which
threads share state most closely: `ServerRegistry`, `GameServerManager`, `RoutineProgress` with
`MemoryPool`; then connections, login and launcher, which show how the parts meet. What could follow:

1. The copies of the pipeline in the auth, session and routing servers, which differ in their handlers.
2. Dedicated servers that leave the lobby's list.
3. One model of login, lobby and matchmaking together, over the three abstract specifications.

## 7. Not modelled

The account database (statements executed by the database; what is concurrent is there), the routing
server's client network (its packet handler is a copy of the auth server's and never calls the
registry), codecs and hardware identifiers (pure functions on bytes), animation and the drawing of
screens, third-party and generated code (Dear ImGui, Unreal's assets), which is most of the repository's
lines. The kernel driver: each of its functions that changes a table holds one mutex throughout, and
what may go wrong beyond that is decided by the operating system's order of callbacks, which the source
does not show; two of its hazards are listed without a property. Weak memory behaviour of the flags and
data races inside containers are outside these models; where a race is known it is a hazard or a finding.
