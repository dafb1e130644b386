----------------------------- MODULE MemoryPool -----------------------------
(***************************************************************************)
(* What one pool of the servers' MemoryPool promises: an object is in the  *)
(* pool or in exactly one other place, it gets out of the pool by acquire  *)
(* and back by release, and one whose last pointer is dropped stays lost.  *)
(* holders maps an object to the set of places that keep a pointer to it.  *)
(***************************************************************************)
EXTENDS Naturals

CONSTANTS
  Objects,   \* the objects MemoryPool_Init puts into the pool
  Places,    \* queues and local variables that may point to one
  Pool       \* the pool's own queue, one of them

VARIABLE holders

Init == holders = [o \in Objects |-> {Pool}]

(* acquire, pop from one queue and push to another, release.               *)
Moves(before, after) ==
  \E p \in before, q \in after : p # q /\ before = {p} /\ after = {q}

(* The last pointer goes out of scope.                                     *)
Leaks(before, after) ==
  \E p \in before : p # Pool /\ before = {p} /\ after = {}

Next ==
  /\ holders' \in [Objects -> SUBSET Places]
  /\ \A o \in Objects :
       \/ holders'[o] = holders[o]
       \/ Moves(holders[o], holders'[o])
       \/ Leaks(holders[o], holders'[o])

Spec == Init /\ [][Next]_holders
=============================================================================
