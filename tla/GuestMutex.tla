----------------------------- MODULE GuestMutex -----------------------------
(***************************************************************************)
(* OSMutex with priority inheritance (os_scheduler.cpp, os_thread.cpp).    *)
(***************************************************************************)
EXTENDS GuestThreads

\* Mutant: a woken waiter takes the mutex without looking at the owner again.
OSLockMutexTakesUnseen ==
  /\ At("lock") \/ At("relock")
  /\ LET m == Top.que IN
     /\ At("lock") => owner[m] \in {NoThread, host}
     /\ owner' = [owner EXCEPT ![m] = host]
     /\ count' = [count EXCEPT ![m] = @ + 1]
     /\ held' = [held EXCEPT ![host] = @ \cup {m}]
  /\ blockedOn' = IF At("relock") THEN [blockedOn EXCEPT ![host] = NoQueue]
                  ELSE blockedOn
  /\ Return(<<>>)
  /\ UNCHANGED <<state, suspend, prio, resched, lifeVars, queueVars, timerVars,
                 cpuVars>>

\* OSLockMutex takes a free mutex, or one it owns once more.
OSLockMutexTakes ==
  /\ At("lock") \/ At("relock")
  /\ LET m == Top.que IN
     /\ owner[m] \in {NoThread, host}
     /\ owner' = [owner EXCEPT ![m] = host]
     /\ count' = [count EXCEPT ![m] = @ + 1]
     /\ held' = [held EXCEPT ![host] = @ \cup {m}]
  /\ blockedOn' = IF At("relock") THEN [blockedOn EXCEPT ![host] = NoQueue]
                  ELSE blockedOn
  /\ Return(<<>>)
  /\ UNCHANGED <<state, suspend, prio, resched, lifeVars, queueVars, timerVars,
                 cpuVars>>

\* Otherwise it promotes the owner, sleeps on the mutex and looks again.
OSLockMutexBlocks ==
  /\ At("lock") \/ At("relock")
  /\ LET m == Top.que IN
     /\ owner[m] \notin {NoThread, host}
     /\ blockedOn' = [blockedOn EXCEPT ![host] = m]
     /\ Return(<<FT("promote", owner[m]), FQ("sleep", m), FQ("relock", m)>>)
  /\ UNCHANGED <<state, suspend, prio, held, owner, count, resched, lifeVars,
                 queueVars, timerVars, cpuVars>>

\* OSUnlockMutex: one level of the recursion count.
OSUnlockMutexKeeps ==
  /\ At("unlock")
  /\ owner[Top.que] # host \/ count[Top.que] > 1
  /\ count' = IF owner[Top.que] = host THEN [count EXCEPT ![Top.que] = @ - 1]
              ELSE count
  /\ Return(<<>>)
  /\ UNCHANGED <<state, suspend, prio, blockedOn, held, owner, resched,
                 lifeVars, queueVars, timerVars, cpuVars>>

\* The last level: the owner may lose an inherited priority and the waiters wake.
OSUnlockMutexReleases ==
  /\ At("unlock")
  /\ LET m == Top.que IN
     /\ owner[m] = host /\ count[m] = 1
     /\ owner' = [owner EXCEPT ![m] = NoThread]
     /\ count' = [count EXCEPT ![m] = 0]
     /\ held' = [held EXCEPT ![host] = @ \ {m}]
     /\ prio' = IF prio[host] < base[host]
                THEN [prio EXCEPT ![host] = EffectivePriority(host, held[host] \ {m})]
                ELSE prio
     /\ Return(<<FQ("wake", m)>>)
  /\ UNCHANGED <<state, suspend, blockedOn, resched, lifeVars, queueVars,
                 timerVars, cpuVars>>

\* One iteration of PromoteThreadPriority, which lends the priority of the
\* thread on the host along the chain of owners.
PromoteThreadPriority ==
  /\ At("promote")
  /\ LET u == Top.thr IN
     IF u = NoThread \/ suspend[u] > 0 \/ prio[u] <= prio[host]
     THEN /\ Return(<<>>)
          /\ UNCHANGED <<prio, resched, queueVars>>
     ELSE /\ SetPriority(u, prio[host])
          /\ Return(<<FT("promote", NextInChain(u))>>)
  /\ UNCHANGED <<state, suspend, lifeVars, mutexVars, timerVars, cpuVars>>

\* One iteration of PropagateMutexOwnerPriority.
PropagateMutexOwnerPriority ==
  /\ At("propagate")
  /\ LET u == Top.thr IN
     IF u = NoThread \/ suspend[u] > 0 \/ prio[u] = EffectivePriority(u, held[u])
     THEN /\ Return(<<>>)
          /\ UNCHANGED <<prio, resched, queueVars>>
     ELSE /\ SetPriority(u, EffectivePriority(u, held[u]))
          /\ Return(<<FT("propagate", NextInChain(u))>>)
  /\ UNCHANGED <<state, suspend, lifeVars, mutexVars, timerVars, cpuVars>>
=============================================================================
