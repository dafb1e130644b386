---------------------------- MODULE MCLoginFlow ----------------------------
EXTENDS LoginFlow, TLC

Symmetry == Permutations(Clients) \cup Permutations(Sockets) \cup Permutations(Workers) \cup Permutations(Accounts)
=============================================================================
