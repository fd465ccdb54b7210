--------------------------- MODULE GuestScheduler ---------------------------
(***************************************************************************)
(* The whole scheduler: what guest code and alarm handlers may ask of it,  *)
(* the next-state relation of the one host thread, and its correctness     *)
(* properties.                                                             *)
(***************************************************************************)
EXTENDS GuestSelect, GuestMutex, GuestSuspend, GuestLifecycle

(* Guest code and alarm handlers.                                          *)

\* The calls of the OS guest code may make, by frame.
GuestCalls ==
  {FQ(o, q) : o \in {"sleep", "wake"}, q \in WaitQueues}
  \cup {FQ(o, m) : o \in {"lock", "unlock"}, m \in Mutexes}
  \cup {FT(o, u) : o \in {"suspend", "resume"}, u \in Threads}
  \cup {FT(o, u) : o \in {"cancel", "join", "detach"}, u \in Threads \ {Main}}
  \cup {F("sleepTicks")}

\* Guest code only names threads it created, and keeps within the bounds.
Sensible(f) ==
  /\ f.op \in {"suspend", "resume"} => ~Terminated(f.thr)
  /\ f.op \in {"join", "detach"} => state[f.thr] # "dead" /\ f.thr # host
  /\ f.op = "suspend" => suspend[f.thr] < MaxSuspend
  /\ f.op = "lock" => owner[f.que] # host \/ count[f.que] < MaxLock

InGuestCode == stack[host] = <<>>

GuestCallsOS ==
  /\ InGuestCode
  /\ \A t \in Threads : Len(stack[t]) <= MaxDepth
  /\ \/ \E f \in GuestCalls : f.op \in Calls /\ Sensible(f) /\ Push(<<f>>)
     \/ "yield" \in Calls /\ Push(SelectCall("yield"))
     \/ "exit" \in Calls /\ host # Main /\ Push(<<F("exit")>>)
  /\ UNCHANGED <<osvars, timerVars, cpuVars>>

\* Guest code reuses the OSThread of a dead thread only when nothing is left of it:
\* no mutex on its list and nobody in its join queue.
GuestCreatesThread ==
  /\ InGuestCode
  /\ \E u \in Threads \ {Main}, p \in Priorities, d \in {FALSE, "detach" \in Calls} :
       /\ held[u] = {} /\ link[JoinQueue(u)] = <<>>
       /\ OSCreateThread(u, p, d)

GuestReturnsFromEntry ==
  /\ InGuestCode
  /\ "return" \in Calls /\ host # Main
  /\ ReturnFromEntry

\* ProcessAlarmQueue calls a handler from a checkpoint in guest code or from the
\* idle loop, with the scheduler disabled, and reschedules after it.
AlarmHandlerCalled ==
  /\ InGuestCode \/ At("idle")
  /\ \E f \in GuestCalls : f.op \in HandlerCalls /\ Sensible(f)
                           /\ Push(<<f, F("enable")>>)
  /\ disable' = disable + 1
  /\ UNCHANGED <<running, host, osvars, timerVars>>

\* Mutant: no deferred reschedule after the handler.
AlarmHandlerOnlyReturns ==
  /\ At("enable")
  /\ disable' = disable - 1
  /\ Return(<<>>)
  /\ UNCHANGED <<running, host, osvars, timerVars>>

AlarmHandlerReturns ==
  /\ At("enable")
  /\ disable' = disable - 1
  /\ Return(<<F("resched")>>)
  /\ UNCHANGED <<running, host, osvars, timerVars>>

-----------------------------------------------------------------------------
(* The system: the default thread runs, no other thread exists yet.        *)

Init ==
  /\ state = [t \in Threads |-> IF t = Main THEN "running" ELSE "dead"]
  /\ suspend = [t \in Threads |-> 0]
  /\ \E p \in Priorities : prio = [t \in Threads |-> p]
  /\ base = prio
  /\ detached = [t \in Threads |-> FALSE]
  /\ queue = [t \in Threads |-> NoQueue]
  /\ blockedOn = [t \in Threads |-> NoQueue]
  /\ held = [t \in Threads |-> {}]
  /\ threadList = {Main}
  /\ link = [q \in Queues |-> <<>>]
  /\ owner = [m \in Mutexes |-> NoThread]
  /\ count = [m \in Mutexes |-> 0]
  /\ pending = {}
  /\ resched = FALSE
  /\ disable = 0
  /\ running = Main
  /\ timers = {}
  /\ parks = {}
  /\ strandSeen = {}
  /\ host = Main
  /\ stack = [t \in Threads |-> <<>>]

SchedulerStep == SelectThreadReturns \/ SelectThreadPreempts \/ SelectThreadSwitches
                 \/ SelectThreadIdles \/ IdlePolls \/ IdleEnds \/ RescheduleIfRequested
QueueStep == WakeupThreadQueue \/ WakeupThreadQueueEnds \/ OSSleepThread
             \/ OSSleepThreadReturns
MutexStep == OSLockMutexTakes \/ OSLockMutexBlocks \/ OSUnlockMutexKeeps
             \/ OSUnlockMutexReleases \/ PromoteThreadPriority
             \/ PropagateMutexOwnerPriority
SuspendStep == OSSuspendThreadAgain \/ OSSuspendThread \/ OSResumeThreadCounts
               \/ OSResumeThread
TimerStep == OSSleepTicks \/ OSSleepTicksReturns
             \/ (\E due \in SUBSET timers : CollectDueTimers(due))
             \/ FireDueTimer \/ ReconcileParks \/ ReconcilerNotDue
             \/ HealLostSleeper
LifecycleStep == OSExitThread \/ OSCancelThreadIgnored \/ OSCancelThread
                 \/ UnlockAllThreadMutexes \/ UnlockAllThreadMutexesEnds
                 \/ FinishTerminated \/ WakeGuestThreadsOnQueueNoSwitch
                 \/ WakeGuestThreadsOnQueueNoSwitchEnds \/ OSJoinThreadSleeps
                 \/ OSJoinThreadReaps \/ OSDetachThread
GuestStep == GuestCallsOS \/ GuestCreatesThread \/ GuestReturnsFromEntry
             \/ AlarmHandlerCalled

\* What the host thread does on its own, as against what guest code asks for.
HostStep == SchedulerStep \/ QueueStep \/ MutexStep \/ SuspendStep \/ TimerStep
            \/ LifecycleStep \/ AlarmHandlerReturns
Next == HostStep \/ GuestStep

Spec == Init /\ [][Next]_vars

\* The host thread never stops, and the host clock advances: an armed timer is
\* due in the end, and so are a scan of the reconciler and its 100 ms.  The idle
\* loop looks for a pending thread again after at most eight alarm handlers.
\* Nothing is assumed of guest code.
TimerExpires(t) == \E due \in SUBSET timers : t \in due /\ CollectDueTimers(due)
ParkHealed(t) == ReconcileParks /\ t \in parks \ parks'
FairSpec ==
  /\ Spec
  /\ WF_vars(HostStep)
  /\ SF_vars(IdleEnds)
  /\ SF_vars(ReconcileParks)
  /\ \A t \in Threads : SF_vars(TimerExpires(t)) /\ SF_vars(ParkHealed(t))

-----------------------------------------------------------------------------
(* Properties.                                                             *)

\* The only type invariant: every variable holds what the guest structures can.
TypeOK ==
  /\ state \in [Threads -> States]
  /\ suspend \in [Threads -> Nat]
  /\ prio \in [Threads -> Priorities \cup {SuspendedWaitPriority}]
  /\ base \in [Threads -> Priorities]
  /\ detached \in [Threads -> BOOLEAN]
  /\ queue \in [Threads -> Queues \cup {NoQueue}]
  /\ blockedOn \in [Threads -> Mutexes \cup {NoQueue}]
  /\ held \in [Threads -> SUBSET Mutexes]
  /\ threadList \in SUBSET Threads
  /\ link \in [Queues -> Seq(Threads)]
  /\ owner \in [Mutexes -> Threads \cup {NoThread}]
  /\ count \in [Mutexes -> Nat]
  /\ pending \in SUBSET Priorities
  /\ resched \in BOOLEAN
  /\ disable \in Nat
  /\ running \in Threads \cup {NoThread}
  /\ timers \in SUBSET Threads
  /\ parks \in SUBSET Threads
  /\ strandSeen \in SUBSET Threads
  /\ host \in Threads
  /\ stack \in [Threads -> Seq(Frame)]

\* The bitmap SelectThread picks from names exactly the run queues with a thread
\* in them, so its two repair branches for a stale bit are never taken.
PendingExact == pending = {p \in Priorities : link[p] # <<>>}

\* Every thread on a run queue may be switched to: it is ready, not suspended
\* (hence not terminated) and queued under its own priority.
RunQueueSound ==
  \A p \in Priorities : \A i \in 1..Len(link[p]) :
    LET t == link[p][i] IN state[t] = "ready" /\ suspend[t] = 0 /\ prio[t] = p

\* A thread is linked at most once, in the queue its queue field names: with its
\* one pair of link fields any other insertion would corrupt two lists.
LinkedOnce ==
  \A q \in Queues : \A i \in 1..Len(link[q]) :
    /\ queue[link[q][i]] = q
    /\ \A j \in 1..Len(link[q]) : link[q][i] = link[q][j] => i = j

\* No thread is lost: a runnable one is on a run queue, a waiting one in the
\* queue its field names, and nothing but the fiber on the host is running.  It is
\* also what makes RemoveThreadFromQueue unlink only threads that are linked.
NoLostThread ==
  \A t \in Threads :
    /\ state[t] = "ready" /\ suspend[t] = 0 =>
         queue[t] \in Priorities /\ Member(link[queue[t]], t)
    /\ state[t] = "waiting" =>
         queue[t] \in Queues \ Priorities /\ Member(link[queue[t]], t)
    /\ state[t] = "running" => t = running /\ t = host

\* Whenever control is back in guest code, the thread whose fiber is on the host
\* is the one the scheduler calls running, and it is not suspended: an alarm
\* handler that suspended it was followed by a switch.
SuspendedNeverRuns ==
  InGuestCode =>
    running = host /\ state[host] = "running" /\ suspend[host] = 0 /\ disable = 0

\* Guest code runs only while no more urgent thread could: every wake, resume,
\* inherited priority and lost inheritance is followed by a reschedule.
UrgencyOrder == InGuestCode => prio[host] <= MostUrgent(pending)

\* Wait queues stay sorted by priority under inheritance and suspension, so their
\* head is the thread the owner inherits from and the first to be served.
WaitQueuesSorted ==
  \A q \in Queues \ Priorities : \A i, j \in 1..Len(link[q]) :
    i < j => prio[link[q][i]] <= prio[link[q][j]]

\* Whenever guest code runs, the owner of a contended mutex is at least as urgent
\* as the most urgent waiter, through chains of owners that wait themselves,
\* unless the owner is suspended.
NoPriorityInversion ==
  InGuestCode =>
    \A m \in Mutexes :
      owner[m] # NoThread /\ link[m] # <<>> /\ suspend[owner[m]] = 0 =>
        prio[owner[m]] <= prio[Head(link[m])]

\* No priority is inherited from nobody: a thread not suspended has exactly the
\* priority its base and the waiters of its mutexes give it.
InheritsOnlyFromWaiters ==
  InGuestCode =>
    \A t \in Threads :
      ~Terminated(t) /\ suspend[t] = 0 => prio[t] = EffectivePriority(t, held[t])

\* Nobody is left waiting for a free mutex: those who do are being woken by the call
\* that freed it, the next thing the host does, and look at the owner again before
\* they sleep.
NoOrphanWaiters ==
  \A m \in Mutexes :
    link[m] # <<>> /\ owner[m] = NoThread => (At("wake") \/ At("woke")) /\ Top.que = m

\* Those who wait on a queue are served: in the order of their priorities, and for a
\* mutex when it is freed.
WaitersServed == WaitQueuesSorted /\ NoOrphanWaiters

\* The mutex list of a thread and the owner fields of the mutexes agree, and the
\* recursion count is positive exactly while there is an owner.
MutexesAgree ==
  /\ \A m \in Mutexes, t \in Threads : owner[m] = t <=> m \in held[t]
  /\ \A m \in Mutexes : owner[m] # NoThread <=> count[m] > 0

\* A sleeper in OSSleepTicks is never without a wake-up to come: an armed timer,
\* an outstanding park for the reconciler, or a resume some fiber still owes it.
Sleeping(t) == \E i \in 1..Len(stack[t]) : stack[t][i].op = "ticked"
OwesWake(f, t) == \/ f.op \in {"fire", "heal"} /\ t \in f.due
                  \/ f.op = "resume" /\ f.thr = t
SleeperKept ==
  \A t \in Threads :
    Sleeping(t) /\ state[t] = "ready" /\ suspend[t] > 0 /\ t # host =>
      t \in timers \cup parks
      \/ \E h \in Threads : \E i \in 1..Len(stack[h]) : OwesWake(stack[h][i], t)

\* The threads that joined a terminated one are woken, now or by a fiber that is
\* still to do it.
JoinersWoken ==
  \A t \in Threads :
    Terminated(t) /\ link[JoinQueue(t)] # <<>> =>
      \E h \in Threads : \E i \in 1..Len(stack[h]) :
        stack[h][i].op \in {"wake", "woke", "drainjoin"}
        /\ stack[h][i].que = JoinQueue(t)

\* The list of all threads holds the live and the moribund ones, never a dead
\* one: OSCreateThread would link its node a second time.
ListedUntilDead == \A t \in Threads : t \in threadList <=> state[t] # "dead"

\* A due timer only wakes the sleep it was armed for: not a later one, whose own
\* timer is still armed.
DueTimerIsCurrent ==
  [][\A u \in Threads :
       At("fire") /\ u \in Top.due /\ u \in parks \ parks' => u \notin timers]_vars

\* Only a thread inside OSSleepTicks is resumed by a timer or by the reconciler:
\* "nothing outside this set is ever force-started" (os_sleep.cpp:57-59).
OnlySleepersForced ==
  [][\A t \in Threads :
       (At("fire") \/ At("heal")) /\ stack'[host] # <<>>
         /\ Head(stack'[host]) = FT("resume", t) => Sleeping(t)]_vars

\* The idle loop gets every sleeper going again, also one whose timer was lost:
\* it does not stay idle while a park is outstanding.
IdleServesSleepers == (running = NoThread /\ parks # {}) ~> (running # NoThread)

\* The idle loop is only where a fiber is while its thread does not run:
\* "idle until something becomes runnable" (os_scheduler.cpp:335).
RunningThreadNotIdle == At("idle") => state[host] # "running"
=============================================================================
