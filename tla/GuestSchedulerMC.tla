--------------------------- MODULE GuestSchedulerMC ---------------------------
(***************************************************************************)
(* Finite instances of GuestScheduler for TLC.                             *)
(***************************************************************************)
EXTENDS GuestSchedulerInv, TLC

\* Two priorities let a thread be preempted, outranked and promoted.
PrioritiesMC == {0, 1}

\* Threads other than the default one are interchangeable.
Symmetry == Permutations(Threads \ {Main})
=============================================================================
