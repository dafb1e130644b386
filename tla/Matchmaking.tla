----------------------------- MODULE Matchmaking -----------------------------
(***************************************************************************)
(* What the lobby's matchmaking promises, without its threads, records and *)
(* locks: whoever looks for a match joins the one group that waits, a      *)
(* group is started on a dedicated server that never had a game before,    *)
(* with the players it has at that moment, and each of them is sent to     *)
(* that server once.                                                       *)
(*                                                                         *)
(* A group that was complete once may be started although a player left it *)
(* since, and may be started twice: the code promises no more.             *)
(***************************************************************************)
EXTENDS Integers, FiniteSets

CONSTANTS
  Players,   \* who looks for a match
  Servers,   \* dedicated servers
  Rooms,     \* names of groups, used again
  size       \* players of a complete group

VARIABLES
  group,     \* the players in each room
  waiting,   \* rooms that still take whoever comes
  broken,    \* rooms that a player left, or were emptied, when complete
  online,    \* dedicated servers that connected
  matches,   \* which server expects which players
  sent       \* the servers each player was sent to

vars == <<group, waiting, broken, online, matches, sent>>

Complete(g) == Cardinality(g) >= size
BrokenBy(r) == IF Complete(group[r]) THEN broken \cup {r} ELSE broken

Init ==
  /\ group = [r \in Rooms |-> {}]
  /\ waiting = {} /\ broken = {} /\ online = {}
  /\ matches = {}
  /\ sent = [h \in Players |-> {}]

Connect(s) ==
  /\ online' = online \cup {s}
  /\ UNCHANGED <<group, waiting, broken, matches, sent>>

(* A room opens, empty, only when nobody could be joined.                   *)
Open(r) ==
  /\ waiting = {}
  /\ waiting' = {r}
  /\ group' = [group EXCEPT ![r] = {}]
  /\ broken' = BrokenBy(r)
  /\ UNCHANGED <<online, matches, sent>>

Join(r, h) ==
  /\ h \notin group[r] /\ ~Complete(group[r])
  /\ group' = [group EXCEPT ![r] = @ \cup {h}]
  /\ UNCHANGED <<waiting, broken, online, matches, sent>>

Part(r, h) ==
  /\ h \in group[r]
  /\ group' = [group EXCEPT ![r] = @ \ {h}]
  /\ broken' = BrokenBy(r)
  /\ UNCHANGED <<waiting, online, matches, sent>>

Close(r) ==
  /\ r \in waiting
  /\ waiting' = waiting \ {r}
  /\ UNCHANGED <<group, broken, online, matches, sent>>

Match(r, s) ==
  /\ Complete(group[r]) \/ r \in broken
  /\ s \in online /\ \A m \in matches : m.server # s
  /\ matches' = matches \cup {[server |-> s, players |-> group[r]]}
  /\ UNCHANGED <<group, waiting, broken, online, sent>>

Send(h, m) ==
  /\ m \in matches /\ h \in m.players /\ m.server \notin sent[h]
  /\ sent' = [sent EXCEPT ![h] = @ \cup {m.server}]
  /\ UNCHANGED <<group, waiting, broken, online, matches>>

Next ==
  \/ \E s \in Servers : Connect(s)
  \/ \E r \in Rooms :
       \/ Open(r) \/ Close(r)
       \/ \E h \in Players : Join(r, h) \/ Part(r, h)
       \/ \E s \in Servers : Match(r, s)
  \/ \E h \in Players : \E m \in matches : Send(h, m)

Spec == Init /\ [][Next]_vars
=============================================================================
