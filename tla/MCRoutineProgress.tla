-------------------------- MODULE MCRoutineProgress --------------------------
EXTENDS RoutineProgress, TLC

Symmetry == Permutations(Workers) \cup Permutations(Buffers) \cup Permutations(ClientPackets)
=============================================================================
