---------------------------- MODULE MCValueTree -----------------------------
(* ValueTree with more addresses than calls allocate, so that the duplicates *)
(* of every value can be considered in every state.                          *)
EXTENDS ValueTree, TLC

MCAddresses  == 1..2*MaxHeap
NameSymmetry == Permutations(Names)
=============================================================================
