---------------------------- MODULE SessionLives ----------------------------
(***************************************************************************)
(* The life of an account's session, whichever of the three servers works  *)
(* on it: it is granted once while there is none, its player hears of the  *)
(* grant or does not, holds it, and ends it by a logout that arrives or is *)
(* lost.  A session that is left by its player without a logout stays for  *)
(* good, and nobody is granted the account again.                          *)
(*                                                                         *)
(* A logout in the name of somebody else makes an account unsure: nothing  *)
(* is promised of it from then on.                                         *)
(***************************************************************************)
CONSTANTS
  Clients,   \* players, each at a launcher
  Accounts,
  None       \* nobody

VARIABLES
  stage,     \* account -> where its session is
  holder     \* account -> the client that holds it

vars == <<stage, holder>>

Underway == {"free", "granted", "held", "ending"}
LeftBehind == {"unheard", "quit", "unregistered", "lost"}
Stages == Underway \cup LeftBehind \cup {"unsure"}

Init ==
  /\ stage = [h \in Accounts |-> "free"]
  /\ holder = [h \in Accounts |-> None]

Moves(h, from, to) == stage[h] = from /\ stage'[h] = to
HeldByNobody(h) == holder'[h] = None

Grant(h) == Moves(h, "free", "granted") /\ HeldByNobody(h)
(* A client hears of one grant before it looks for another.                 *)
Hear(h, c) ==
  /\ Moves(h, "granted", "held")
  /\ \A g \in Accounts : holder[g] # c
  /\ holder'[h] = c
Unheard(h) == Moves(h, "granted", "unheard") /\ HeldByNobody(h)
LogOut(h) == Moves(h, "held", "ending") /\ HeldByNobody(h)
Leave(h) ==
  /\ Moves(h, "held", "quit") \/ Moves(h, "held", "unregistered")
  /\ HeldByNobody(h)
Lose(h) == Moves(h, "ending", "lost") /\ HeldByNobody(h)
End(h) == Moves(h, "ending", "free") /\ HeldByNobody(h)
Mistake(h) == stage'[h] = "unsure" /\ HeldByNobody(h)

Lives(h) ==
  \/ Grant(h) \/ Unheard(h) \/ LogOut(h) \/ Leave(h) \/ Lose(h) \/ End(h)
  \/ stage[h] # "unsure" /\ Mistake(h)
  \/ \E c \in Clients : Hear(h, c)

(* One message may decide several sessions, those behind it are lost.       *)
Next ==
  /\ stage' \in [Accounts -> Stages] /\ holder' \in [Accounts -> Clients \cup {None}]
  /\ \A h \in Accounts :
       Lives(h) \/ (stage'[h] = stage[h] /\ holder'[h] = holder[h])

Spec == Init /\ [][Next]_vars
=============================================================================
