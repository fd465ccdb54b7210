---------------------------- MODULE GuestThreads ----------------------------
(***************************************************************************)
(* The guest OS scheduler of the runtime (runtime/src/hle/os and           *)
(* fiber_manager.cpp): OSThread records, the 32 run queues with their      *)
(* pending mask, wait queues, mutexes with priority inheritance, suspend   *)
(* counts, host-side sleep timers and the fiber that owns the host stack.  *)
(*                                                                         *)
(* One host thread executes all of it.  stack[t] is what is left to do of  *)
(* the C++ calls on the fiber of t, innermost first, one frame per call or *)
(* loop that can be suspended by a fiber switch in the middle.  The step   *)
(* of the system is a step of the top frame of the fiber on the host; with *)
(* no frame left the fiber runs guest code, which may call the OS again.   *)
(***************************************************************************)
EXTENDS Integers, FiniteSets, Sequences, SequencesExt

CONSTANTS
  Threads,      \* addresses of OSThread structures
  Main,         \* the default thread (kDefaultThreadContextAddr)
  Mutexes,      \* OSMutex addresses; an OSMutex starts with its wait queue
  WaitQueues,   \* other OSThreadQueues guest code sleeps on
  Priorities,   \* thread priorities in use, 0 the most urgent
  NoThread,     \* null OSThread pointer
  NoQueue,      \* null queue or mutex pointer
  Calls,        \* the OS entry points guest code uses in this instance
  HandlerCalls, \* those an alarm handler uses
  MaxSuspend,   \* bound on the suspend count guest code builds up
  MaxLock,      \* bound on the recursion count of a mutex
  MaxDepth      \* guest code runs on while no fiber has more calls to finish

SuspendedWaitPriority == 32   \* kSuspendedWaitPriority

JoinQueue(t) == t             \* threadPtr + kThreadJoinQueueOffset
Queues == Priorities \cup Mutexes \cup WaitQueues \cup Threads

ASSUME ConstantsAssumption ==
  /\ Main \in Threads /\ NoThread \notin Threads
  /\ Priorities \subseteq 0..31
  /\ NoQueue \notin Queues
  /\ Priorities \cap (Mutexes \cup WaitQueues \cup Threads) = {}
  /\ Mutexes \cap (WaitQueues \cup Threads) = {}
  /\ WaitQueues \cap Threads = {}
  /\ MaxSuspend \in Nat /\ MaxLock \in Nat /\ MaxDepth \in Nat

VARIABLES
  state,      \* OSThread.state: dead 0, ready 1, running 2, waiting 4, moribund 8
  suspend,    \* OSThread.suspend, the suspend count
  prio,       \* OSThread.priority, the effective priority
  base,       \* OSThread.base, the priority it was created with
  detached,   \* OSThread.attr bit 0
  queue,      \* OSThread.queue, the queue it says it is linked in
  blockedOn,  \* OSThread.mutex, the mutex it waits for
  held,       \* OSThread.queueMutex, the mutexes it has locked
  threadList, \* the list of all threads, as the set of its members
  link,       \* the members of every thread queue, head first
  owner,      \* OSMutex.thread
  count,      \* OSMutex.count
  pending,    \* kSchedulerPendingFlagAddr, the run queue bitmap
  resched,    \* kSchedulerReschedCounterAddr
  disable,    \* kSchedulerIdleFlagAddr, the scheduler disable count
  running,    \* kOSRunningContextAddr, NoThread while idle
  timers,     \* gSleepTimers
  parks,      \* gOutstandingParks
  strandSeen, \* strandFirstSeen, the parks the reconciler has found without a timer
  host,       \* the thread whose fiber is on the host
  stack       \* what is left of the calls on each fiber

lifeVars  == <<base, detached, threadList>>
mutexVars == <<blockedOn, held, owner, count>>
queueVars == <<queue, link, pending>>
timerVars == <<timers, parks, strandSeen>>
cpuVars   == <<disable, running, host>>
osvars == <<state, suspend, prio, lifeVars, mutexVars, queueVars, resched>>
vars == <<osvars, timerVars, cpuVars, stack>>

States == {"dead", "ready", "running", "waiting", "moribund"}

FrameOps == {"sleep", "parked", "wake", "woke", "drainjoin", "lock", "relock",
             "unlock", "promote", "propagate", "suspend", "resume", "sleepTicks",
             "ticked", "timers", "fire", "reconcile", "heal", "select", "yield",
             "resched", "idle", "enable", "exit", "cancel", "unlockall",
             "finish", "join", "joined", "detach"}
Frame == [op : FrameOps, thr : Threads \cup {NoThread},
          que : Queues \cup {NoQueue}, due : SUBSET Threads]

F(o)     == [op |-> o, thr |-> NoThread, que |-> NoQueue, due |-> {}]
FT(o, t) == [op |-> o, thr |-> t, que |-> NoQueue, due |-> {}]
FQ(o, q) == [op |-> o, thr |-> NoThread, que |-> q, due |-> {}]
FD(o, d) == [op |-> o, thr |-> NoThread, que |-> NoQueue, due |-> d]

At(o) == stack[host] # <<>> /\ Head(stack[host]).op = o
Top   == Head(stack[host])
\* The top frame is done; fs are the calls that come next, then its caller.
Return(fs) == stack' = [stack EXCEPT ![host] = fs \o Tail(@)]
Push(fs)   == stack' = [stack EXCEPT ![host] = fs \o @]

Terminated(t) == state[t] \in {"dead", "moribund"}

-----------------------------------------------------------------------------
(* Thread queues (os_thread.cpp, os_scheduler.cpp).                        *)

Member(s, t) == \E i \in 1..Len(s) : s[i] = t

\* Mutant: the head of a queue is not unlinked.
UnlinkNotHead(s, t) ==
  IF Member(s, t) /\ s[1] # t THEN RemoveAt(s, CHOOSE i \in 1..Len(s) : s[i] = t) ELSE s

\* UnlinkGuestListNode on a thread queue.
Unlink(s, t) ==
  IF Member(s, t) THEN RemoveAt(s, CHOOSE i \in 1..Len(s) : s[i] = t) ELSE s

\* Mutant: insertion at the tail, whatever the priority.
EnqueueAtTail(s, t, p) == Append(s, t)

\* InsertThreadIntoQueueByPriority: before the first thread less urgent than p.
Enqueue(s, t, p) ==
  LET less == {i \in 1..Len(s) : prio[s[i]] > p}
  IN  IF less = {} THEN Append(s, t)
      ELSE InsertAt(s, CHOOSE i \in less : \A j \in less : i <= j, t)

\* Mutant: a ready thread stays on its run queue.
RemovedFromWaitQueue(t) ==
  IF queue[t] \in Priorities \cup {NoQueue} THEN link
  ELSE [link EXCEPT ![queue[t]] = Unlink(@, t)]

\* RemoveThreadFromQueue, and the pending bits UpdatePendingMaskForQueue leaves.
Removed(t) ==
  IF queue[t] = NoQueue THEN link ELSE [link EXCEPT ![queue[t]] = Unlink(@, t)]

\* Mutant: the bit of an emptied run queue stays set.
PendingAfterRemovalKeeps(t) == pending

PendingAfterRemoval(t) ==
  IF queue[t] \in Priorities /\ Unlink(link[queue[t]], t) = <<>>
  THEN pending \ {queue[t]} ELSE pending

\* Mutant: the thread leaves its wait queue and is not put back.
RequeuedNot(u, p) == Removed(u)

\* A waiting thread moves to the place of priority p in the queue it waits in.
Requeued(u, p) ==
  IF queue[u] = NoQueue THEN link
  ELSE [Removed(u) EXCEPT ![queue[u]] = Enqueue(@, u, p)]

\* ComputeThreadEffectivePriority over the mutexes ms: the most urgent of the
\* base priority and the heads of the mutex wait queues.
Wanted(t, ms) ==
  {base[t]} \cup {prio[Head(link[m])] : m \in {n \in ms : link[n] # <<>>}}
EffectivePriority(t, ms) == CHOOSE p \in Wanted(t, ms) : \A r \in Wanted(t, ms) : p <= r

OwnerOf(m) == IF m = NoQueue THEN NoThread ELSE owner[m]

\* SetThreadEffectivePriority: a ready thread moves to the run queue of p, a
\* waiting one to its place in the queue it waits in.
SetPriority(u, p) ==
  /\ prio' = IF Terminated(u) THEN prio ELSE [prio EXCEPT ![u] = p]
  /\ CASE state[u] = "ready" ->
            /\ link' = [Removed(u) EXCEPT ![p] = Enqueue(@, u, p)]
            /\ queue' = [queue EXCEPT ![u] = p]
            /\ pending' = PendingAfterRemoval(u) \cup {p}
            /\ resched' = TRUE
       [] state[u] = "running" ->
            /\ resched' = TRUE
            /\ UNCHANGED <<queueVars>>
       [] state[u] = "waiting" ->
            /\ link' = Requeued(u, p)
            /\ UNCHANGED <<queue, pending, resched>>
       [] OTHER -> UNCHANGED <<resched, queueVars>>

\* Mutant: priorities are lent to the first owner only.
NextInChainNone(u) == NoThread

\* The next thread of a priority chain: the owner of what a waiting one waits for.
NextInChain(u) == IF state[u] = "waiting" THEN OwnerOf(blockedOn[u]) ELSE NoThread

\* PopThreadQueueHead, LinkThreadOnRunQueue and MarkRunQueuePending.
Popped(q) == [link EXCEPT ![q] = Tail(@)]
OnRunQueue(l, t) == [l EXCEPT ![prio[t]] = Append(@, t)]
=============================================================================
