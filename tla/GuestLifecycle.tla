--------------------------- MODULE GuestLifecycle ---------------------------
(***************************************************************************)
(* The life of a thread (os_thread.cpp, FiberProc in fiber_manager.cpp):   *)
(* creation, exit, cancellation, return from the entry function, join and  *)
(* detach.                                                                 *)
(***************************************************************************)
EXTENDS GuestSelect

\* OSCreateThread makes a suspended thread of a dead OSThread; the queue it was
\* last linked in, its sleep timer and its outstanding park stay as they are.
OSCreateThread(u, p, d) ==
  /\ state[u] = "dead" /\ u # host
  /\ state' = [state EXCEPT ![u] = "ready"]
  /\ suspend' = [suspend EXCEPT ![u] = 1]
  /\ prio' = [prio EXCEPT ![u] = p]
  /\ base' = [base EXCEPT ![u] = p]
  /\ detached' = [detached EXCEPT ![u] = d]
  /\ blockedOn' = [blockedOn EXCEPT ![u] = NoQueue]
  /\ held' = [held EXCEPT ![u] = {}]
  /\ threadList' = threadList \cup {u}
  /\ link' = [link EXCEPT ![JoinQueue(u)] = <<>>]
  /\ stack' = [stack EXCEPT ![u] = <<>>]
  /\ UNCHANGED <<queue, owner, count, pending, resched, timerVars, cpuVars>>

\* TerminateThreadCommon: the final state now, the mutexes and joiners next.
TerminateThreadCommon(u) ==
  /\ state' = [state EXCEPT ![u] = IF detached[u] THEN "dead" ELSE "moribund"]
  /\ threadList' = IF detached[u] THEN threadList \ {u} ELSE threadList

AfterTermination(u) == <<FT("unlockall", u), FQ("wake", JoinQueue(u))>>

OSExitThread ==
  /\ At("exit")
  /\ TerminateThreadCommon(host)
  /\ Return(AfterTermination(host) \o <<F("finish")>>)
  /\ UNCHANGED <<suspend, prio, base, detached, resched, mutexVars, queueVars,
                 timerVars, cpuVars>>

OSCancelThreadIgnored ==
  /\ At("cancel")
  /\ Terminated(Top.thr)
  /\ Return(<<>>)
  /\ UNCHANGED <<osvars, timerVars, cpuVars>>

\* A waiting or runnable thread is linked in a queue, which it leaves.
Linked(u) == state[u] = "waiting" \/ (state[u] = "ready" /\ suspend[u] < 1)

\* The thread leaves the queue it is in; its fiber is destroyed.
OSCancelThread ==
  /\ At("cancel")
  /\ LET u == Top.thr
     IN  /\ ~Terminated(u)
         /\ link' = IF Linked(u) THEN Removed(u) ELSE link
         /\ pending' = IF Linked(u) THEN PendingAfterRemoval(u) ELSE pending
         /\ queue' = IF Linked(u) THEN [queue EXCEPT ![u] = NoQueue] ELSE queue
         /\ resched' = (resched \/ state[u] = "running")
         /\ TerminateThreadCommon(u)
         /\ stack' = [stack EXCEPT
              ![u] = <<>>,
              ![host] = AfterTermination(u) \o <<F("resched")>> \o Tail(stack[host])]
  /\ UNCHANGED <<suspend, prio, base, detached, mutexVars, timerVars, cpuVars>>

\* __OSUnlockAllMutex, a guest function: releases every mutex and wakes its queue.
UnlockAllThreadMutexes ==
  /\ At("unlockall")
  /\ \E m \in held[Top.thr] :
       /\ owner' = [owner EXCEPT ![m] = NoThread]
       /\ count' = [count EXCEPT ![m] = 0]
       /\ held' = [held EXCEPT ![Top.thr] = @ \ {m}]
       /\ Return(<<FQ("wake", m), Top>>)
  /\ UNCHANGED <<state, suspend, prio, blockedOn, resched, lifeVars, queueVars,
                 timerVars, cpuVars>>

UnlockAllThreadMutexesEnds ==
  /\ At("unlockall")
  /\ held[Top.thr] = {}
  /\ Return(<<>>)
  /\ UNCHANGED <<osvars, timerVars, cpuVars>>

\* The end of a thread: SelectThread, which never comes back to it.
FinishTerminated ==
  /\ At("finish")
  /\ resched' = TRUE
  /\ Return(SelectCall("select"))
  /\ UNCHANGED <<state, suspend, prio, lifeVars, mutexVars, queueVars,
                 timerVars, cpuVars>>

\* FiberProc when the entry function of the thread returns.
ReturnFromEntry ==
  /\ state' = [state EXCEPT ![host] = IF detached[host] THEN "dead" ELSE "moribund"]
  /\ Push(<<FQ("drainjoin", JoinQueue(host)), F("finish")>>)
  /\ UNCHANGED <<suspend, prio, resched, lifeVars, mutexVars, queueVars,
                 timerVars, cpuVars>>

WakeGuestThreadsOnQueueNoSwitch ==
  /\ At("drainjoin")
  /\ link[Top.que] # <<>>
  /\ WakeHead(Top.que, TRUE)
  /\ Return(<<Top>>)
  /\ UNCHANGED <<suspend, prio, lifeVars, mutexVars, timerVars, cpuVars>>

WakeGuestThreadsOnQueueNoSwitchEnds ==
  /\ At("drainjoin")
  /\ link[Top.que] = <<>>
  /\ Return(<<>>)
  /\ UNCHANGED <<osvars, timerVars, cpuVars>>

\* OSJoinThread sleeps until the thread terminates, unless somebody joins it already.
OSJoinThreadSleeps ==
  /\ At("join")
  /\ LET u == Top.thr IN
     /\ ~detached[u] /\ state[u] # "moribund" /\ link[JoinQueue(u)] = <<>>
     /\ Return(<<FQ("sleep", JoinQueue(u)), FT("joined", u)>>)
  /\ UNCHANGED <<osvars, timerVars, cpuVars>>

\* The thread that is moribund now is reaped.
OSJoinThreadReaps ==
  /\ \/ At("joined")
     \/ /\ At("join")
        /\ detached[Top.thr] \/ state[Top.thr] = "moribund"
           \/ link[JoinQueue(Top.thr)] # <<>>
  /\ LET reaps == state[Top.thr] = "moribund" IN
     /\ threadList' = IF reaps THEN threadList \ {Top.thr} ELSE threadList
     /\ state' = IF reaps THEN [state EXCEPT ![Top.thr] = "dead"] ELSE state
  /\ Return(<<>>)
  /\ UNCHANGED <<suspend, prio, base, detached, resched, mutexVars, queueVars,
                 timerVars, cpuVars>>

OSDetachThread ==
  /\ At("detach")
  /\ LET u == Top.thr
         reaps == state[u] = "moribund"
     IN  /\ detached' = [detached EXCEPT ![u] = TRUE]
         /\ threadList' = IF reaps THEN threadList \ {u} ELSE threadList
         /\ state' = IF reaps THEN [state EXCEPT ![u] = "dead"] ELSE state
         /\ Return(<<FQ("wake", JoinQueue(u))>>)
  /\ UNCHANGED <<suspend, prio, base, resched, mutexVars, queueVars, timerVars,
                 cpuVars>>
=============================================================================
