-------------------------- MODULE GuestSchedulerInv --------------------------
(***************************************************************************)
(* The inductive invariant behind the safety properties of GuestScheduler, *)
(* for alarm handlers that do not block.  It ties together the frames on   *)
(* every fiber, what the fiber on the host is about to do, and the queues. *)
(***************************************************************************)
EXTENDS GuestScheduler

\* Alarm handlers only use calls that cannot block and take no mutex.
HandlersDontBlock ==
  HandlerCalls \subseteq {"suspend", "resume", "wake", "cancel", "detach"}

WaitQueue == Queues \ Priorities

\* A frame names a thread or a queue of the kind its call takes.
GoodFrame ==
  {f \in Frame :
     /\ f.op \in {"suspend", "resume", "cancel", "join", "joined", "detach", "unlockall"} =>
          f.thr \in Threads
     /\ f.op \in {"sleep", "parked", "wake", "woke", "drainjoin"} => f.que \in WaitQueue
     /\ f.op \in {"lock", "relock", "unlock"} => f.que \in Mutexes}

\* The calls that neither block nor rely on the fiber's own thread being the
\* running one: what SelectThread, the idle loop, handlers and the end of a thread use.
SafeOps == {"wake", "woke", "drainjoin", "unlockall", "propagate", "suspend", "resume",
            "cancel", "detach", "timers", "fire", "reconcile", "heal", "select",
            "resched", "finish"}

\* No frame from index i on belongs to an idle loop or a handler.
PlainFrom(s, i) == \A j \in 1..Len(s) : i <= j => s[j].op \notin {"idle", "enable"}
\* Every frame above index i is of a safe call.
SafeAbove(s, i) == \A j \in 1..Len(s) : j < i => s[j].op \in SafeOps
\* A frame that ends in SelectThread.
Selects(f) == f.op \in {"select", "finish"} \/ (f.op = "resched" /\ resched)

OnCPU == state[host] = "running" /\ suspend[host] = 0

\* The frames on the host fiber.
HostFrames == stack[host]

\* The thread of the host fiber runs, outside a handler.
Running == /\ disable = 0 /\ running = host /\ OnCPU
           /\ PlainFrom(HostFrames, 1)
\* It waits, is suspended or has ended, and SelectThread comes before anything else
\* that relies on it.
Leaving == /\ disable = 0 /\ running = host /\ state[host] # "running"
           /\ PlainFrom(HostFrames, 1)
           /\ \E i \in 1..Len(HostFrames) :
                SafeAbove(HostFrames, i) /\ Selects(HostFrames[i])
\* A handler was called from guest code.
InHandler == /\ disable = 1 /\ running = host
             /\ OnCPU \/ (state[host] # "running" /\ resched)
             /\ HostFrames # <<>> /\ SafeAbove(HostFrames, Len(HostFrames))
             /\ HostFrames[Len(HostFrames)].op = "enable"
\* The fiber is in the idle loop.
Idling == /\ disable = 0 /\ running = NoThread /\ state[host] # "running"
          /\ \E i \in 1..Len(HostFrames) :
               /\ SafeAbove(HostFrames, i) /\ HostFrames[i].op = "idle"
               /\ PlainFrom(HostFrames, i + 1)
\* A handler was called from the idle loop.
IdleHandler == /\ disable = 1 /\ running = NoThread /\ state[host] # "running"
               /\ \E i \in 1..Len(HostFrames) - 1 :
                    /\ SafeAbove(HostFrames, i) /\ HostFrames[i].op = "enable"
                    /\ HostFrames[i + 1].op = "idle" /\ PlainFrom(HostFrames, i + 2)

HostControl == Running \/ Leaving \/ InHandler \/ Idling \/ IdleHandler

\* The other fibers were left in SelectThread, and none of their threads runs.
OthersParked ==
  \A t \in Threads \ {host} : state[t] # "running" /\ PlainFrom(stack[t], 1)

FramesGood == stack \in [Threads -> Seq(GoodFrame)]

\* Only a suspended or terminated thread has the priority of suspended waiters.
PrioritySound ==
  \A t \in Threads : suspend[t] = 0 /\ ~Terminated(t) => prio[t] \in Priorities

\* The threads that have to be linked in a queue are linked in the one their queue
\* field names, and no others: a runnable one in the run queue of its priority, a
\* waiting one in a wait queue.
InQueue(t) == (state[t] = "ready" /\ suspend[t] = 0) \/ state[t] = "waiting"
LinkExact ==
  \A q \in Queues, t \in Threads : Member(link[q], t) <=> InQueue(t) /\ queue[t] = q
QueueFits ==
  \A t \in Threads :
    /\ state[t] = "ready" /\ suspend[t] = 0 => queue[t] = prio[t]
    /\ state[t] = "waiting" => queue[t] \in WaitQueue

Distinct(s) == \A i, j \in 1..Len(s) : s[i] = s[j] => i = j
LinkDistinct == \A q \in Queues : Distinct(link[q])

QueuesSound == LinkExact /\ QueueFits /\ LinkDistinct /\ PendingExact /\ PrioritySound

\* The calls in progress, the thread the scheduler calls running and the disable count
\* always fit together: whoever took the host thread away from its fiber's thread has a
\* SelectThread still to come below it, and every fiber switched out is inside one.
ControlSound == FramesGood /\ HostControl /\ OthersParked

IInv == TypeOK /\ ControlSound /\ QueuesSound /\ MutexesAgree

\* A thread only goes to sleep on a mutex while that has an owner: its sleep is the next
\* call of the host, after the owner was promoted, and no other fiber has one to come.
MutexSleep(f) == f.op = "sleep" /\ f.que \in Mutexes
SleepsOwned ==
  \A t \in Threads : \A i \in 1..Len(stack[t]) :
    MutexSleep(stack[t][i]) =>
      /\ t = host /\ owner[stack[t][i].que] # NoThread
      /\ i = 1 \/ (i = 2 /\ stack[t][1].op = "promote")

\* The inductive invariant behind WaitersServed, on top of IInv.
WaitInv == WaitQueuesSorted /\ SleepsOwned /\ NoOrphanWaiters
=============================================================================
