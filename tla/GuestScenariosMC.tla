-------------------------- MODULE GuestScenariosMC --------------------------
(***************************************************************************)
(* Scenarios of the guest scheduler for TLC: each gives guest code and     *)
(* alarm handlers a set of calls that belong together. All calls at once   *)
(* would be out of reach; a behaviour keeps to one scenario.               *)
(***************************************************************************)
EXTENDS GuestSchedulerMC

CONSTANT Scenarios  \* the scenarios this run explores

VARIABLE scenario

Suspension == INSTANCE GuestScheduler WITH
  Calls <- {"suspend", "resume", "sleep", "wake", "yield"},
  HandlerCalls <- {"suspend", "resume", "wake"}, MaxSuspend <- 2, MaxDepth <- 6
Inheritance == INSTANCE GuestScheduler WITH
  Calls <- {"lock", "unlock", "resume"}, HandlerCalls <- {"suspend", "resume"},
  MaxSuspend <- 1, MaxDepth <- 6
Slumber == INSTANCE GuestScheduler WITH
  Calls <- {"sleepTicks", "resume"}, HandlerCalls <- {}, MaxSuspend <- 1, MaxDepth <- 3
Life == INSTANCE GuestScheduler WITH
  Calls <- {"resume", "exit", "return", "cancel", "join", "sleep", "wake"},
  HandlerCalls <- {}, MaxSuspend <- 1, MaxDepth <- 6
Death == INSTANCE GuestScheduler WITH
  Calls <- {"resume", "exit", "cancel", "detach", "lock", "unlock"},
  HandlerCalls <- {}, MaxSuspend <- 1, MaxDepth <- 6
Idleness == INSTANCE GuestScheduler WITH
  Calls <- {"sleepTicks", "resume", "sleep"}, HandlerCalls <- {"wake"},
  MaxSuspend <- 1, MaxDepth <- 4

ScenarioInit == scenario \in Scenarios /\ Init

ScenarioNext ==
  /\ \/ scenario = "suspension" /\ Suspension!Next
     \/ scenario = "inheritance" /\ Inheritance!Next
     \/ scenario = "slumber" /\ Slumber!Next
     \/ scenario = "life" /\ Life!Next
     \/ scenario = "death" /\ Death!Next
     \/ scenario = "idleness" /\ Idleness!Next
  /\ UNCHANGED scenario

ScenarioSpec == ScenarioInit /\ [][ScenarioNext]_<<vars, scenario>>

\* The fairness of GuestScheduler!FairSpec, in the scenario that needs it.
FairIdleness ==
  /\ ScenarioSpec
  /\ WF_vars(Idleness!HostStep)
  /\ SF_vars(Idleness!IdleEnds)
  /\ SF_vars(Idleness!ReconcileParks)
  /\ \A t \in Threads : SF_vars(Idleness!TimerExpires(t)) /\ SF_vars(Idleness!ParkHealed(t))

\* Where a thread may die holding a mutex, or waiting for one, its exit leaves mutexes with
\* a dead owner and owners with the priority of a waiter that is gone (os_thread.cpp:421,
\* :489), and priorities are not exact.
MutexesOutlive == scenario # "death"

\* Guest code runs only while no more urgent thread could, with priorities that are
\* inherited exactly: the owner of a contended mutex is as urgent as those who wait for it,
\* and nobody keeps what was lent to him.
UrgencyExact ==
  MutexesOutlive => UrgencyOrder /\ NoPriorityInversion /\ InheritsOnlyFromWaiters

\* Nobody is forgotten: not the sleeper, the joiner of a dead thread, nor the dead thread
\* on the list of all threads.
NobodyForgotten == SleeperKept /\ JoinersWoken /\ ListedUntilDead
=============================================================================
