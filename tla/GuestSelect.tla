----------------------------- MODULE GuestSelect -----------------------------
(***************************************************************************)
(* SelectThread and its idle loop with the fiber switch at their end,      *)
(* and the wait queues: OSWakeupThread and OSSleepThread                   *)
(* (os_scheduler.cpp, os_sleep.cpp).                                       *)
(***************************************************************************)
EXTENDS GuestThreads

\* A call of SelectThread begins with ProcessSleepTimers, which does nothing
\* when no timer is armed and no park is outstanding.
SelectCall(o) ==
  IF timers = {} /\ parks = {} THEN <<F(o)>> ELSE <<F("timers"), F(o)>>

\* PPC_Cntlzw of the pending mask: its most urgent priority, 32 when empty.
MostUrgent(mask) ==
  IF mask = {} THEN 32 ELSE CHOOSE p \in mask : \A r \in mask : p <= r

\* The head of the most urgent run queue gets the host, given the scheduler
\* state the caller leaves (st, qu, ln, mask).  A terminated fiber never comes
\* back to what it had left to do.
Dispatch(st, qu, ln, mask) ==
  LET p == MostUrgent(mask)
      next == Head(ln[p])
  IN  /\ state' = [st EXCEPT ![next] = "running"]
      /\ queue' = [qu EXCEPT ![next] = NoQueue]
      /\ link' = [ln EXCEPT ![p] = Tail(@)]
      /\ pending' = IF Tail(ln[p]) = <<>> THEN mask \ {p} ELSE mask
      /\ resched' = FALSE
      /\ running' = next
      /\ host' = next
      /\ stack' = [stack EXCEPT ![host] =
                     IF Terminated(host) THEN <<>> ELSE Tail(@)]
      /\ UNCHANGED <<suspend, prio, disable, lifeVars, mutexVars, timerVars>>

SelectFrame == At("select") \/ At("yield")

\* The scheduler is disabled, or this is a nested call under the idle loop.
CannotSelect == disable > 0 \/ running = NoThread

\* The running thread stays: it is as urgent as any pending one.
KeepsRunning ==
  /\ At("select")
  /\ running # NoThread /\ state[running] = "running"
  /\ prio[running] <= MostUrgent(pending)

SelectThreadReturns ==
  /\ SelectFrame
  /\ CannotSelect \/ KeepsRunning
  /\ Return(<<>>)
  /\ UNCHANGED <<osvars, timerVars, cpuVars>>

\* The running thread goes back to the tail of its run queue.
SelectThreadPreempts ==
  /\ SelectFrame
  /\ ~CannotSelect /\ ~KeepsRunning
  /\ state[running] = "running"
  /\ Dispatch([state EXCEPT ![running] = "ready"],
              [queue EXCEPT ![running] = prio[running]],
              OnRunQueue(link, running),
              pending \cup {prio[running]})

\* The running thread is waiting, suspended or terminated.
SelectThreadSwitches ==
  /\ SelectFrame
  /\ ~CannotSelect
  /\ state[running] # "running"
  /\ pending # {}
  /\ Dispatch(state, queue, link, pending)

SelectThreadIdles ==
  /\ SelectFrame
  /\ ~CannotSelect
  /\ state[running] # "running"
  /\ pending = {}
  /\ running' = NoThread
  /\ Return(<<F("idle")>>)
  /\ UNCHANGED <<disable, host, osvars, timerVars>>

\* The idle loop polls the sleep timers until a thread is pending.
IdlePolls ==
  /\ At("idle")
  /\ pending = {}
  /\ timers # {} \/ parks # {}
  /\ Push(<<F("timers")>>)
  /\ UNCHANGED <<osvars, timerVars, cpuVars>>

IdleEnds ==
  /\ At("idle")
  /\ pending # {}
  /\ Dispatch(state, queue, link, pending)

\* "if resched counter != 0 then SelectThread(0)", the tail of several calls.
RescheduleIfRequested ==
  /\ At("resched")
  /\ Return(IF resched THEN SelectCall("select") ELSE <<>>)
  /\ UNCHANGED <<osvars, timerVars, cpuVars>>

-----------------------------------------------------------------------------
(* OSWakeupThread and OSSleepThread (os_scheduler.cpp, os_sleep.cpp).      *)

\* A thread taken off a wait queue goes to its run queue.
Runnable(t) == ~Terminated(t) /\ suspend[t] < 1

\* One iteration of a loop that empties a wait queue.  A suspended thread is
\* only marked ready; its queue pointer is left as it was unless `clears'.
WakeHead(q, clears) ==
  LET t == Head(link[q])
  IN  CASE Terminated(t) ->
             /\ link' = Popped(q)
             /\ queue' = [queue EXCEPT ![t] = NoQueue]
             /\ UNCHANGED <<state, pending, resched>>
        [] Runnable(t) ->
             /\ state' = [state EXCEPT ![t] = "ready"]
             /\ link' = OnRunQueue(Popped(q), t)
             /\ queue' = [queue EXCEPT ![t] = prio[t]]
             /\ pending' = pending \cup {prio[t]}
             /\ resched' = TRUE
        [] OTHER ->
             /\ state' = [state EXCEPT ![t] = "ready"]
             /\ link' = Popped(q)
             /\ queue' = IF clears THEN [queue EXCEPT ![t] = NoQueue] ELSE queue
             /\ UNCHANGED <<pending, resched>>

\* "woke" is "wake" once a thread was made runnable, and ends in SelectThread.
WakeupThreadQueue ==
  /\ At("wake") \/ At("woke")
  /\ LET q == Top.que
         t == Head(link[q])
     IN  /\ link[q] # <<>>
         /\ WakeHead(q, FALSE)
         /\ Return(<<FQ(IF Runnable(t) THEN "woke" ELSE Top.op, q)>>)
  /\ UNCHANGED <<suspend, prio, lifeVars, mutexVars, timerVars, cpuVars>>

WakeupThreadQueueEnds ==
  /\ At("wake") \/ At("woke")
  /\ link[Top.que] = <<>>
  /\ Return(IF At("woke") THEN SelectCall("select") ELSE <<>>)
  /\ UNCHANGED <<osvars, timerVars, cpuVars>>

\* With the scheduler disabled the call returns and guest code retries; called
\* from an interrupt handler under the idle loop it first adopts the default
\* thread as the running one.
OSSleepThread ==
  /\ At("sleep")
  /\ LET h == IF running = NoThread THEN Main ELSE running
         q == Top.que
     IN  /\ running' = h
         /\ IF disable # 0
            THEN /\ Return(<<>>)
                 /\ UNCHANGED osvars
            ELSE /\ state' = [state EXCEPT ![h] = "waiting"]
                 /\ queue' = [queue EXCEPT ![h] = q]
                 /\ link' = [link EXCEPT ![q] = Enqueue(@, h, prio[h])]
                 /\ resched' = TRUE
                 /\ Return(SelectCall("select") \o <<FQ("parked", q)>>)
                 /\ UNCHANGED <<suspend, prio, pending, lifeVars, mutexVars>>
  /\ UNCHANGED <<disable, host, timerVars>>

\* Defence of OSSleepThread: SelectThread returned and the thread still waits.
OSSleepThreadReturns ==
  /\ At("parked")
  /\ Return(<<>>)
  /\ IF state[host] = "waiting" /\ queue[host] = Top.que
     THEN /\ link' = [link EXCEPT ![Top.que] = Unlink(@, host)]
          /\ queue' = [queue EXCEPT ![host] = NoQueue]
          /\ state' = [state EXCEPT ![host] = "running"]
     ELSE UNCHANGED <<state, queue, link>>
  /\ UNCHANGED <<suspend, prio, pending, resched, lifeVars, mutexVars,
                 timerVars, cpuVars>>
=============================================================================
