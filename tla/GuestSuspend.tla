---------------------------- MODULE GuestSuspend ----------------------------
(***************************************************************************)
(* OSSuspendThread and OSResumeThread (os_thread.cpp), OSSleepTicks and    *)
(* the host-side sleep timers that resume its callers (os_sleep.cpp).      *)
(***************************************************************************)
EXTENDS GuestThreads

\* A second suspension only counts.
OSSuspendThreadAgain ==
  /\ At("suspend")
  /\ suspend[Top.thr] > 0
  /\ suspend' = [suspend EXCEPT ![Top.thr] = @ + 1]
  /\ Return(<<>>)
  /\ UNCHANGED <<state, prio, resched, lifeVars, mutexVars, queueVars,
                 timerVars, cpuVars>>

\* The first one takes a ready thread off its run queue, makes the running one
\* ready and moves a waiting one to the end of its wait queue.
OSSuspendThread ==
  /\ At("suspend")
  /\ LET u == Top.thr IN
     /\ suspend[u] = 0
     /\ suspend' = [suspend EXCEPT ![u] = 1]
     /\ state' = IF state[u] = "running" THEN [state EXCEPT ![u] = "ready"] ELSE state
     /\ resched' = (resched \/ state[u] = "running")
     /\ prio' = IF state[u] = "waiting"
                THEN [prio EXCEPT ![u] = SuspendedWaitPriority] ELSE prio
     /\ pending' = IF state[u] = "ready" THEN PendingAfterRemoval(u) ELSE pending
     /\ queue' = IF state[u] = "ready" THEN [queue EXCEPT ![u] = NoQueue] ELSE queue
     /\ link' = CASE state[u] = "ready" -> Removed(u)
                  [] state[u] = "waiting" -> Requeued(u, SuspendedWaitPriority)
                  [] OTHER -> link
     /\ Return((IF state[u] = "waiting" THEN <<FT("propagate", OwnerOf(blockedOn[u]))>>
                ELSE <<>>) \o <<F("resched")>>)
  /\ UNCHANGED <<lifeVars, mutexVars, timerVars, cpuVars>>

\* Mutant: the count of a thread that is not suspended becomes negative.
OSResumeThreadUnderflows ==
  /\ At("resume")
  /\ suspend[Top.thr] # 1
  /\ suspend' = [suspend EXCEPT ![Top.thr] = @ - 1]
  /\ Return(<<>>)
  /\ UNCHANGED <<state, prio, resched, lifeVars, mutexVars, queueVars,
                 timerVars, cpuVars>>

\* One of several suspensions is taken back, or there was none.
OSResumeThreadCounts ==
  /\ At("resume")
  /\ suspend[Top.thr] # 1
  /\ suspend' = [suspend EXCEPT ![Top.thr] = IF @ = 0 THEN 0 ELSE @ - 1]
  /\ Return(<<>>)
  /\ UNCHANGED <<state, prio, resched, lifeVars, mutexVars, queueVars,
                 timerVars, cpuVars>>

\* The last suspension: a waiting thread gets its priority back and its place in
\* the queue, any other live one becomes ready.
OSResumeThread ==
  /\ At("resume")
  /\ LET u == Top.thr
         p == EffectivePriority(u, held[u])
     IN  /\ suspend[u] = 1
         /\ suspend' = [suspend EXCEPT ![u] = 0]
         /\ timers' = timers \ {u}
         /\ parks' = parks \ {u}
         /\ prio' = IF Terminated(u) THEN prio ELSE [prio EXCEPT ![u] = p]
         /\ CASE state[u] = "waiting" ->
                   /\ link' = Requeued(u, p)
                   /\ UNCHANGED <<state, queue, pending, resched>>
              [] state[u] \in {"ready", "running"} ->
                   /\ state' = [state EXCEPT ![u] = "ready"]
                   /\ link' = [link EXCEPT ![p] = Enqueue(@, u, p)]
                   /\ queue' = [queue EXCEPT ![u] = p]
                   /\ pending' = pending \cup {p}
                   /\ resched' = TRUE
              [] OTHER -> UNCHANGED <<state, resched, queueVars>>
         /\ Return((IF state[u] = "waiting" THEN <<FT("propagate", OwnerOf(blockedOn[u]))>>
                    ELSE <<>>) \o <<F("resched")>>)
  /\ UNCHANGED <<strandSeen, lifeVars, mutexVars, cpuVars>>

-----------------------------------------------------------------------------
(* OSSleepTicks and the host-side sleep timers (os_sleep.cpp).             *)

\* A sleeper suspends itself and leaves a timer that will resume it.
OSSleepTicks ==
  /\ At("sleepTicks")
  /\ IF disable # 0 \/ running # host
     THEN /\ Return(<<>>)
          /\ UNCHANGED <<timers, parks>>
     ELSE /\ timers' = timers \cup {host}
          /\ parks' = parks \cup {host}
          /\ Return(<<FT("suspend", host), F("ticked")>>)
  /\ UNCHANGED <<strandSeen, osvars, cpuVars>>

\* Back in OSSleepTicks; a suspension that did not switch away is taken back.
OSSleepTicksReturns ==
  /\ At("ticked")
  /\ Return(<<>>)
  /\ IF suspend[host] > 0
     THEN /\ suspend' = [suspend EXCEPT ![host] = @ - 1]
          /\ timers' = timers \ {host}
          /\ parks' = parks \ {host}
          /\ state' = IF suspend[host] = 1 /\ state[host] = "ready"
                         /\ queue[host] = NoQueue
                      THEN [state EXCEPT ![host] = "running"] ELSE state
     ELSE UNCHANGED <<state, suspend, timers, parks>>
  /\ UNCHANGED <<prio, resched, strandSeen, lifeVars, mutexVars, queueVars,
                 cpuVars>>

\* ProcessSleepTimers collects the timers that are due, fires them one by one
\* and then gives the reconciler a chance to scan the outstanding parks.
CollectDueTimers(due) ==
  /\ At("timers")
  /\ timers' = timers \ due
  /\ Return((IF due = {} THEN <<>> ELSE <<FD("fire", due)>>) \o <<F("reconcile")>>)
  /\ UNCHANGED <<parks, strandSeen, osvars, cpuVars>>

\* Mutant: a thread with one suspension does not count as parked.
ParkShapedTwice(u) == state[u] = "ready" /\ suspend[u] > 1

\* A park leaves the thread ready with a suspension.
ParkShaped(u) == state[u] = "ready" /\ suspend[u] > 0

\* One due timer.  A running thread is about to park: its timer is armed again.
\* A parked thread is resumed; any other has been woken already and the timer is
\* dropped.
FireDueTimer ==
  /\ At("fire")
  /\ \E u \in Top.due :
       LET rest == IF Top.due = {u} THEN <<>> ELSE <<FD("fire", Top.due \ {u})>>
       IN  /\ timers' = IF state[u] = "running" THEN timers \cup {u} ELSE timers
           /\ parks' = IF state[u] = "running" THEN parks ELSE parks \ {u}
           /\ Return((IF ParkShaped(u) THEN <<FT("resume", u)>> ELSE <<>>) \o rest)
  /\ UNCHANGED <<strandSeen, osvars, cpuVars>>

\* The reconciler scans at most every 50 ms.  It drops the parks of threads that
\* are not parked, notes those parked without a timer, and resumes some of those
\* it noted before, 100 ms or more ago.
ReconcileParks ==
  /\ At("reconcile")
  /\ LET lost == {u \in parks \ timers : ParkShaped(u)} IN
     \E heal \in SUBSET (lost \cap strandSeen) :
       /\ parks' = (parks \cap timers) \cup (lost \ heal)
       /\ strandSeen' = lost \ heal
       /\ Return(IF heal = {} THEN <<>> ELSE <<FD("heal", heal)>>)
  /\ UNCHANGED <<timers, osvars, cpuVars>>

ReconcilerNotDue ==
  /\ At("reconcile")
  /\ Return(<<>>)
  /\ UNCHANGED <<osvars, timerVars, cpuVars>>

HealLostSleeper ==
  /\ At("heal")
  /\ \E u \in Top.due :
       Return(<<FT("resume", u)>> \o
              (IF Top.due = {u} THEN <<>> ELSE <<FD("heal", Top.due \ {u})>>))
  /\ UNCHANGED <<osvars, timerVars, cpuVars>>
=============================================================================
