--------------------------- MODULE MessageQueueMC ---------------------------
(***************************************************************************)
(* Finite instances of MessageQueue for TLC.                               *)
(***************************************************************************)
EXTENDS MessageQueue, TLC

Symmetry == Permutations(Threads) \cup Permutations(Messages)
=============================================================================
