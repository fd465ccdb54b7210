--------------------------- MODULE GuestWaitProofs ---------------------------
(***************************************************************************)
(* What those who wait can rely on, for every set of threads, mutexes,     *)
(* wait queues and priorities: a wait queue is sorted by priority through  *)
(* every inheritance, suspension and cancellation, and nobody waits for a  *)
(* mutex that is free.                                                     *)
(***************************************************************************)
EXTENDS GuestSchedulerProofs

-----------------------------------------------------------------------------
(* Sorted queues.                                                          *)

\* The threads of s stand in the order of the priorities pr.
SortedBy(s, pr) == \A i, j \in 1..Len(s) : i < j => pr[s[i]] <= pr[s[j]]

\* Only the priorities of the members of a queue count.
LEMMA SortedSame ==
  ASSUME NEW s \in Seq(Threads), NEW pr, NEW new, SortedBy(s, pr),
         \A t \in Threads : Member(s, t) => new[t] = pr[t]
  PROVE  SortedBy(s, new)
<1>1. \A i \in 1..Len(s) : s[i] \in Threads /\ Member(s, s[i])
  BY ElementOfSeq DEF Member
<1>2. \A i \in 1..Len(s) : new[s[i]] = pr[s[i]]
  BY <1>1
<1> QED BY <1>2 DEF SortedBy

\* A queue stays sorted when a thread is taken off it.
LEMMA SortedUnlink ==
  ASSUME NEW s \in Seq(Threads), NEW pr, SortedBy(s, pr), NEW t
  PROVE  SortedBy(Unlink(s, t), pr)
<1>1. CASE ~Member(s, t)
  BY <1>1 DEF Unlink
<1>2. CASE Member(s, t)
  <2> DEFINE k == CHOOSE i \in 1..Len(s) : s[i] = t
             r == RemoveAt(s, k)
  <2>1. k \in 1..Len(s)
    BY <1>2 DEF Member
  <2>2. Unlink(s, t) = r
    BY <1>2 DEF Unlink
  <2> HIDE DEF k
  <2>3. /\ Len(r) = Len(s) - 1 /\ Len(s) \in Nat
        /\ \A j \in 1..Len(s) - 1 : r[j] = IF j < k THEN s[j] ELSE s[j + 1]
    BY <2>1, RemoveAtIs, LenProperties
  <2> HIDE DEF r
  <2> SUFFICES ASSUME NEW i \in 1..Len(r), NEW j \in 1..Len(r), i < j
               PROVE  pr[r[i]] <= pr[r[j]]
    BY <2>2 DEF SortedBy
  <2> DEFINE from(n) == IF n < k THEN n ELSE n + 1
  <2>4. from(i) \in 1..Len(s) /\ from(j) \in 1..Len(s) /\ from(i) < from(j)
    BY <2>1, <2>3
  <2>5. r[i] = s[from(i)] /\ r[j] = s[from(j)]
    BY <2>1, <2>3
  <2> HIDE DEF from
  <2> QED BY <2>4, <2>5 DEF SortedBy
<1> QED BY <1>1, <1>2

\* So does the rest of a queue whose head is woken.
LEMMA SortedTail ==
  ASSUME NEW s \in Seq(Threads), s # <<>>, NEW pr, SortedBy(s, pr)
  PROVE  SortedBy(Tail(s), pr)
<1>1. /\ Len(Tail(s)) = Len(s) - 1
      /\ \A i \in 1..Len(Tail(s)) : Tail(s)[i] = s[i + 1]
  BY HeadTailProperties
<1>2. Len(s) \in Nat \ {0}
  BY EmptySeq
<1> PICK r : r = Tail(s)
  OBVIOUS
<1>3. \A i \in 1..Len(r) : i + 1 \in 1..Len(s) /\ r[i] = s[i + 1]
  BY <1>1, <1>2
<1>4. \A i, j \in 1..Len(r) : i < j => i + 1 < j + 1
  BY <1>1, <1>2
<1> QED BY <1>3, <1>4 DEF SortedBy

\* InsertThreadIntoQueueByPriority keeps the order, for a thread whose priority becomes p
\* at the same time.
LEMMA SortedEnqueue ==
  ASSUME NEW s \in Seq(Threads), prio \in [Threads -> Nat], SortedBy(s, prio),
         NEW t \in Threads, NEW p \in Nat, NEW new,
         new[t] = p, \A u \in Threads : Member(s, u) => new[u] = prio[u]
  PROVE  SortedBy(Enqueue(s, t, p), new)
<1> DEFINE less == {i \in 1..Len(s) : prio[s[i]] > p}
<1>0. Len(s) \in Nat /\ \A i \in 1..Len(s) : s[i] \in Threads /\ prio[s[i]] \in Nat
  BY ElementOfSeq, LenProperties
<1>1. \A i \in 1..Len(s) : new[s[i]] = prio[s[i]]
  BY <1>0 DEF Member
<1>2. CASE less = {}
  <2> PICK r : r = Append(s, t)
    OBVIOUS
  <2>1. /\ Len(r) = Len(s) + 1 /\ r[Len(s) + 1] = t
        /\ \A i \in 1..Len(s) : r[i] = s[i]
    BY AppendProperties
  <2>2. \A i \in 1..Len(s) : prio[s[i]] <= p
    BY SMTT(30), <1>0, <1>2
  <2>3. Enqueue(s, t, p) = r
    BY <1>2 DEF Enqueue
  <2> SUFFICES ASSUME NEW i \in 1..Len(r), NEW j \in 1..Len(r), i < j
               PROVE  new[r[i]] <= new[r[j]]
    BY <2>3 DEF SortedBy
  <2>4. i \in 1..Len(s) /\ (j \in 1..Len(s) \/ j = Len(s) + 1)
    BY <1>0, <2>1
  <2>5. CASE j \in 1..Len(s)
    BY SMTT(30), <1>1, <2>1, <2>4, <2>5 DEF SortedBy
  <2>6. CASE j = Len(s) + 1
    BY <1>1, <2>1, <2>2, <2>4, <2>6
  <2> QED BY <2>4, <2>5, <2>6
<1>3. CASE less # {}
  <2> DEFINE k == CHOOSE i \in less : \A j \in less : i <= j
             r == InsertAt(s, k, t)
  <2>1. \E i \in less : \A j \in less : i <= j
    <3>1. less \in SUBSET Nat
      BY <1>0
    <3> HIDE DEF less
    <3> QED BY <1>3, <3>1, LeastNatural
  <2>2. k \in 1..Len(s) /\ prio[s[k]] > p /\ \A j \in less : k <= j
    BY <2>1
  <2>3. Enqueue(s, t, p) = r
    BY <1>3 DEF Enqueue
  <2>4. \A j \in 1..Len(s) : j < k => prio[s[j]] <= p
    BY SMTT(30), <1>0, <2>2
  <2> HIDE DEF k, less
  <2>5. \A j \in 1..Len(s) : k <= j => p <= prio[s[j]]
    <3> TAKE j \in 1..Len(s)
    <3> HAVE k <= j
    <3>1. prio[s[k]] <= prio[s[j]]
      BY <1>0, <2>2 DEF SortedBy
    <3> QED BY <1>0, <2>2, <3>1
  <2>6. /\ Len(r) = Len(s) + 1
        /\ \A j \in 1..Len(s) + 1 :
             r[j] = IF j < k THEN s[j] ELSE IF j = k THEN t ELSE s[j - 1]
    <3>1. k \in 1..Len(s) + 1
      BY <1>0, <2>2
    <3> QED BY <3>1, InsertAtIs
  <2> HIDE DEF r
  <2> SUFFICES ASSUME NEW i \in 1..Len(r), NEW j \in 1..Len(r), i < j
               PROVE  new[r[i]] <= new[r[j]]
    BY <2>3 DEF SortedBy
  <2> DEFINE from(n) == IF n < k THEN n ELSE n - 1
  <2>7. ASSUME NEW n \in 1..Len(r), n # k
        PROVE  from(n) \in 1..Len(s) /\ r[n] = s[from(n)]
    BY SMTT(30), <1>0, <2>2, <2>6, <2>7
  <2>8. r[k] = t
    BY <1>0, <2>2, <2>6
  <2>9. CASE i # k /\ j # k
    <3>1. from(i) <= from(j) /\ from(i) \in 1..Len(s) /\ from(j) \in 1..Len(s)
          /\ (from(i) = from(j) \/ from(i) < from(j))
      BY SMTT(30), <1>0, <2>2, <2>6, <2>7, <2>9
    <3>2. prio[s[from(i)]] <= prio[s[from(j)]]
      BY SMTT(30), <1>0, <3>1 DEF SortedBy
    <3> QED BY <1>1, <2>7, <2>9, <3>1, <3>2
  <2>10. CASE i = k
    <3>1. from(j) \in 1..Len(s) /\ k <= from(j) /\ r[j] = s[from(j)]
      BY <1>0, <2>2, <2>6, <2>7, <2>10
    <3> QED BY <1>1, <2>5, <2>8, <2>10, <3>1
  <2>11. CASE j = k
    <3>1. from(i) \in 1..Len(s) /\ from(i) < k /\ r[i] = s[from(i)]
      BY <1>0, <2>2, <2>6, <2>7, <2>11
    <3> QED BY <1>1, <2>4, <2>8, <2>11, <3>1
  <2> QED BY <2>9, <2>10, <2>11
<1> QED BY <1>2, <1>3

-----------------------------------------------------------------------------
(* Wait queues stay sorted.                                                *)

\* The wait queues, in the terms of the lemmas above.
LEMMA SortedQueues ==
  ASSUME IInv
  PROVE  /\ WaitQueuesSorted <=> \A q \in WaitQueue : SortedBy(link[q], prio)
         /\ \A q \in WaitQueue :
              q \in Queues /\ q \notin Priorities /\ link[q] \in Seq(Threads) /\ Distinct(link[q])
         /\ prio \in [Threads -> Nat]
<1>1. prio \in [Threads -> Nat]
  <2>1. Priorities \cup {32} \subseteq Nat
    BY ConstantsAssumption
  <2>2. prio \in [Threads -> Priorities \cup {32}]
    BY Basics DEF TypeOK, SuspendedWaitPriority
  <2> QED BY <2>1, <2>2
<1>2. \A q \in WaitQueue :
        q \in Queues /\ q \notin Priorities /\ link[q] \in Seq(Threads) /\ Distinct(link[q])
  BY Basics DEF TypeOK, WaitQueue, QueuesSound, LinkDistinct
<1>3. WaitQueuesSorted <=> \A q \in WaitQueue : SortedBy(link[q], prio)
  BY DEF WaitQueuesSorted, SortedBy, WaitQueue
<1> QED BY <1>1, <1>2, <1>3

\* A step that takes threads off wait queues, and changes no priority of those who stay.
LEMMA QueuesStaySorted ==
  ASSUME IInv, IInv', WaitQueuesSorted,
         \A q \in WaitQueue :
           \/ link'[q] = link[q] \/ link'[q] = <<>>
           \/ link[q] # <<>> /\ link'[q] = Tail(link[q])
           \/ \E t \in Threads : link'[q] = Unlink(link[q], t),
         \A q \in WaitQueue, t \in Threads : Member(link'[q], t) => prio'[t] = prio[t]
  PROVE  WaitQueuesSorted'
<1>1. \A q \in WaitQueue : link'[q] \in Seq(Threads)
  BY DEF IInv, TypeOK, WaitQueue
<1>2. WaitQueuesSorted' <=> \A q \in WaitQueue : SortedBy(link'[q], prio')
  BY DEF WaitQueuesSorted, SortedBy, WaitQueue
<1> SUFFICES ASSUME NEW q \in WaitQueue
             PROVE  SortedBy(link'[q], prio')
  BY <1>2
<1>3. link[q] \in Seq(Threads) /\ SortedBy(link[q], prio)
  BY SortedQueues
<1>4. SortedBy(<<>>, prio)
  BY DEF SortedBy
<1>5. SortedBy(link'[q], prio)
  BY <1>3, <1>4, SortedTail, SortedUnlink
<1> QED BY <1>1, <1>5, SortedSame

\* The threads that wait are those in the wait queues.
LEMMA WaitingIs ==
  ASSUME IInv, NEW t \in Threads
  PROVE  /\ \A q \in WaitQueue : Member(link[q], t) <=> state[t] = "waiting" /\ queue[t] = q
         /\ state[t] = "waiting" => queue[t] \in WaitQueue
<1>1. \A q \in WaitQueue : queue[t] = q /\ state[t] = "ready" /\ suspend[t] = 0 => FALSE
  BY Basics DEF QueuesSound, QueueFits, PrioritySound, Terminated, WaitQueue
<1> QED BY <1>1, Basics DEF QueuesSound, LinkExact, InQueue, QueueFits, WaitQueue

\* A step that changes the priority of threads that do not wait, and no wait queue.
LEMMA SortedAsBefore ==
  ASSUME IInv, IInv', WaitQueuesSorted,
         \A q \in WaitQueue : link'[q] = link[q],
         \A t \in Threads : state[t] = "waiting" => prio'[t] = prio[t]
  PROVE  WaitQueuesSorted'
<1>1. \A q \in WaitQueue, t \in Threads : Member(link'[q], t) => prio'[t] = prio[t]
  BY WaitingIs
<1> QED BY <1>1, QueuesStaySorted

\* The queue of a waiting thread after it was put at the place of priority p.
LEMMA PlacedSorted ==
  ASSUME IInv, WaitQueuesSorted, NEW u \in Threads, state[u] = "waiting", NEW p \in Nat,
         NEW new, new[u] = p, \A t \in Threads \ {u} : new[t] = prio[t]
  PROVE  SortedBy(Enqueue(Unlink(link[queue[u]], u), u, p), new)
<1> PICK r : r = Unlink(link[queue[u]], u)
  OBVIOUS
<1>1. link[queue[u]] \in Seq(Threads) /\ Distinct(link[queue[u]])
      /\ SortedBy(link[queue[u]], prio)
  BY WaitingIs, SortedQueues
<1>2. Drops(r, link[queue[u]], u) /\ SortedBy(r, prio)
  BY <1>1, UnlinkIs, SortedUnlink
<1>3. r \in Seq(Threads) /\ \A t \in Threads : Member(r, t) => new[t] = prio[t]
  BY <1>2 DEF Drops
<1>4. prio \in [Threads -> Nat]
  BY SortedQueues
<1>5. SortedBy(Enqueue(r, u, p), new)
  BY <1>2, <1>3, <1>4, SortedEnqueue
<1> QED BY <1>5

\* A waiting thread that gets the priority p is put at its place.
LEMMA RequeuedSorted ==
  ASSUME IInv, IInv', WaitQueuesSorted, NEW u \in Threads, state[u] = "waiting",
         NEW p \in Nat, link' = Requeued(u, p), prio' = [prio EXCEPT ![u] = p]
  PROVE  WaitQueuesSorted'
<1> PICK q0 : q0 = queue[u]
  OBVIOUS
<1>1. q0 \in WaitQueue /\ q0 \in Queues /\ q0 # NoQueue
  BY WaitingIs, ConstantsAssumption DEF WaitQueue
<1>2. link' = [Removed(u) EXCEPT ![q0] = Enqueue(@, u, p)]
      /\ Removed(u) = [link EXCEPT ![q0] = Unlink(@, u)]
  BY SMTT(30), <1>1 DEF Requeued, Removed
<1>3. /\ link'[q0] = Enqueue(Unlink(link[q0], u), u, p)
      /\ \A q \in WaitQueue \ {q0} : link'[q] = link[q]
  BY <1>1, <1>2, Basics DEF TypeOK, WaitQueue
<1>4. prio'[u] = p /\ \A t \in Threads \ {u} : prio'[t] = prio[t]
  BY Basics DEF TypeOK
<1>5. WaitQueuesSorted' <=> \A q \in WaitQueue : SortedBy(link'[q], prio')
  BY DEF WaitQueuesSorted, SortedBy, WaitQueue
<1>6. SortedBy(link'[q0], prio')
  <2>1. SortedBy(Enqueue(Unlink(link[queue[u]], u), u, p), prio')
    BY <1>4, PlacedSorted
  <2> QED BY <1>3, <2>1
<1>7. ASSUME NEW q \in WaitQueue \ {q0} PROVE SortedBy(link'[q], prio')
  <2>1. link[q] \in Seq(Threads) /\ SortedBy(link[q], prio)
    BY SortedQueues
  <2>2. \A t \in Threads : Member(link[q], t) => prio'[t] = prio[t]
    BY <1>4, WaitingIs
  <2>3. SortedBy(link[q], prio')
    BY ZenonT(60), <2>1, <2>2, SortedSame
  <2> QED BY <1>3, <2>3
<1> QED BY <1>5, <1>6, <1>7

\* A thread on a run queue leaves no trace in the wait queues when it is taken off it.
LEMMA RemovedFromRunQueue ==
  ASSUME IInv, NEW u \in Threads, state[u] = "ready", suspend[u] = 0
  PROVE  \A q \in WaitQueue : Removed(u)[q] = link[q]
<1>1. queue[u] \in Priorities
  BY Basics DEF QueuesSound, QueueFits, PrioritySound, Terminated
<1> QED BY <1>1, Basics DEF Removed, TypeOK, WaitQueue

\* SetThreadEffectivePriority.
LEMMA SetPrioritySorted ==
  ASSUME IInv, IInv', WaitQueuesSorted, NEW u \in Threads, NEW p \in Priorities,
         suspend[u] = 0, SetPriority(u, p)
  PROVE  WaitQueuesSorted'
<1>1. p \in Nat /\ p \in Queues
  BY ConstantsAssumption DEF Queues
<1>2. prio' = IF Terminated(u) THEN prio ELSE [prio EXCEPT ![u] = p]
  BY DEF SetPriority
<1>3. \A t \in Threads \ {u} : prio'[t] = prio[t]
  BY <1>2, Basics DEF TypeOK
<1>4. CASE state[u] = "waiting"
  <2>1. link' = Requeued(u, p)
    BY <1>4 DEF SetPriority
  <2>2. prio' = [prio EXCEPT ![u] = p]
    BY <1>2, <1>4 DEF Terminated
  <2> QED BY <1>1, <1>4, <2>1, <2>2, RequeuedSorted
<1>5. CASE state[u] = "ready"
  <2>1. link' = [Removed(u) EXCEPT ![p] = Enqueue(@, u, p)]
    BY <1>5 DEF SetPriority
  <2>2. \A q \in WaitQueue : Removed(u)[q] = link[q]
    BY <1>5, RemovedFromRunQueue
  <2>3. \A q \in WaitQueue : link'[q] = link[q]
    BY <2>1, <2>2, RemovedIs, Basics DEF LinksOK, WaitQueue
  <2> QED BY <1>3, <1>5, <2>3, SortedAsBefore
<1>6. CASE state[u] \notin {"ready", "waiting"}
  <2>1. link' = link
    BY <1>6 DEF SetPriority, queueVars
  <2> QED BY <1>3, <1>6, <2>1, SortedAsBefore
<1> QED BY <1>4, <1>5, <1>6

\* SelectThread takes its thread off a run queue.
LEMMA DispatchKeepsWaiting ==
  ASSUME IInv, NEW st, NEW qu, NEW ln, NEW mask \in SUBSET Priorities, mask # {},
         Dispatch(st, qu, ln, mask), ln \in [Queues -> Seq(Threads)]
  PROVE  prio' = prio /\ \A q \in WaitQueue : link'[q] = ln[q]
<1>1. MostUrgent(mask) \in Priorities
  BY MostUrgentIs
<1> QED BY <1>1 DEF Dispatch, WaitQueue

\* The thread that is preempted runs, under a priority that has a run queue.
LEMMA PreemptRuns ==
  ASSUME IInv, SelectThreadPreempts
  PROVE  /\ running \in Threads /\ state[running] = "running"
         /\ prio[running] \in Priorities /\ prio[running] \in Queues
<1>1. running \in Threads /\ state[running] = "running"
  BY Basics, ConstantsAssumption DEF SelectThreadPreempts, CannotSelect, TypeOK
<1> QED BY <1>1, RunningIsOnHost DEF Queues

\* It goes to a run queue.
LEMMA PreemptKeepsWaiting ==
  ASSUME IInv, SelectThreadPreempts
  PROVE  prio' = prio /\ \A q \in WaitQueue : link'[q] = link[q]
<1>1. running \in Threads
  BY PreemptRuns
<1>2. prio[running] \in Priorities /\ prio[running] \in Queues
  BY PreemptRuns
<1> PICK ln : ln = OnRunQueue(link, running)
  OBVIOUS
<1>3. ln \in [Queues -> Seq(Threads)] /\ \A q \in WaitQueue : ln[q] = link[q]
  BY <1>1, <1>2, Basics, AppendProperties DEF OnRunQueue, TypeOK, WaitQueue
<1>4. pending \cup {prio[running]} \in SUBSET Priorities
  BY <1>2, Basics DEF TypeOK
<1>5. PICK st, qu : Dispatch(st, qu, ln, pending \cup {prio[running]})
  BY DEF SelectThreadPreempts
<1>6. pending \cup {prio[running]} # {}
  OBVIOUS
<1> QED BY <1>3, <1>4, <1>5, <1>6, DispatchKeepsWaiting

\* A dispatch, an idle loop or a call that returns.
LEMMA SchedulerSorted ==
  ASSUME IInv, IInv', WaitQueuesSorted, SchedulerStep
  PROVE  WaitQueuesSorted'
<1>1. CASE SelectThreadPreempts
  BY <1>1, PreemptKeepsWaiting, SortedAsBefore
<1>2. CASE SelectThreadSwitches \/ IdleEnds
  BY <1>2, DispatchKeepsWaiting, SortedAsBefore, Basics
  DEF SelectThreadSwitches, IdleEnds, TypeOK
<1>3. CASE SelectThreadReturns \/ SelectThreadIdles \/ IdlePolls \/ RescheduleIfRequested
  BY <1>3, SortedAsBefore DEF SelectThreadReturns, SelectThreadIdles, IdlePolls,
     RescheduleIfRequested, osvars, queueVars
<1> QED BY <1>1, <1>2, <1>3 DEF SchedulerStep

\* One thread is taken off the head of a wait queue.
LEMMA WakeHeadSorted ==
  ASSUME IInv, IInv', WaitQueuesSorted, NEW q \in WaitQueue, link[q] # <<>>, NEW clears,
         WakeHead(q, clears), UNCHANGED <<suspend, prio>>
  PROVE  WaitQueuesSorted'
<1> PICK t : t = Head(link[q])
  OBVIOUS
<1>1. t \in Threads /\ q \in Queues /\ q \notin Priorities /\ link \in [Queues -> Seq(Threads)]
  BY SortedQueues, HeadTailProperties, Basics DEF TypeOK
<1>2. /\ Popped(q)[q] = Tail(link[q])
      /\ \A r \in WaitQueue \ {q} : Popped(q)[r] = link[r]
  BY <1>1 DEF Popped, WaitQueue
<1>3. Runnable(t) => prio[t] \in Priorities
  <2>1. suspend[t] \in Nat
    BY <1>1, Basics DEF TypeOK
  <2> QED BY <1>1, <2>1, Basics DEF Runnable, QueuesSound, PrioritySound
<1>4. Runnable(t) => \A r \in WaitQueue : OnRunQueue(Popped(q), t)[r] = Popped(q)[r]
  BY <1>1, <1>3 DEF OnRunQueue, Popped, WaitQueue
<1>5. link' \in {Popped(q), OnRunQueue(Popped(q), t)}
      /\ (link' = OnRunQueue(Popped(q), t) => Runnable(t) \/ link' = Popped(q))
  BY DEF WakeHead
<1>6. \A r \in WaitQueue : link'[r] = link[r] \/ (link[r] # <<>> /\ link'[r] = Tail(link[r]))
  BY <1>2, <1>4, <1>5
<1> QED BY <1>6, QueuesStaySorted

\* OSWakeupThread, OSSleepThread and their ends.
LEMMA QueueSorted ==
  ASSUME IInv, IInv', WaitQueuesSorted, QueueStep
  PROVE  WaitQueuesSorted'
<1>1. CASE WakeupThreadQueue
  <2>1. Top.que \in WaitQueue
    BY <1>1, TopFrame DEF WakeupThreadQueue, GoodFrame
  <2> QED BY <1>1, <2>1, WakeHeadSorted DEF WakeupThreadQueue
<1>2. CASE WakeupThreadQueueEnds
  BY <1>2, SortedAsBefore DEF WakeupThreadQueueEnds, osvars, queueVars
<1>3. CASE OSSleepThread
  <2>1. /\ Top.que \in WaitQueue /\ host \in Threads
        /\ state[host] = "running" /\ running = host /\ disable = 0
    BY <1>3, Basics, RunsUnder DEF OSSleepThread, FrameOps, SafeOps, GoodFrame
  <2>2. link' = [link EXCEPT ![Top.que] = Enqueue(@, host, prio[host])] /\ prio' = prio
    BY <1>3, <2>1, ConstantsAssumption DEF OSSleepThread
  <2>3. /\ link'[Top.que] = Enqueue(link[Top.que], host, prio[host])
        /\ \A q \in WaitQueue \ {Top.que} : link'[q] = link[q]
    BY <2>1, <2>2, Basics DEF TypeOK, WaitQueue
  <2>4. SortedBy(Enqueue(link[Top.que], host, prio[host]), prio)
    <3>1. link[Top.que] \in Seq(Threads) /\ SortedBy(link[Top.que], prio)
          /\ prio \in [Threads -> Nat]
      BY <2>1, SortedQueues
    <3>2. prio[host] \in Nat
      BY <2>1, <3>1
    <3> QED BY <2>1, <3>1, <3>2, SortedEnqueue
  <2>5. \A q \in WaitQueue : SortedBy(link'[q], prio)
    BY <2>3, <2>4, SortedQueues
  <2> QED BY <2>2, <2>5 DEF WaitQueuesSorted, SortedBy, WaitQueue
<1>4. CASE OSSleepThreadReturns
  <2>1. At("parked") /\ state[host] = "running"
    BY <1>4, RunsUnder DEF OSSleepThreadReturns, FrameOps, SafeOps
  <2> QED BY <1>4, <2>1, SortedAsBefore DEF OSSleepThreadReturns
<1> QED BY <1>1, <1>2, <1>3, <1>4 DEF QueueStep

\* Mutexes: an inherited priority moves a waiting thread with it.
LEMMA MutexSorted ==
  ASSUME IInv, IInv', WaitQueuesSorted, MutexStep
  PROVE  WaitQueuesSorted'
<1>1. CASE OSLockMutexTakes \/ OSLockMutexBlocks \/ OSUnlockMutexKeeps
  BY <1>1, SortedAsBefore DEF OSLockMutexTakes, OSLockMutexBlocks, OSUnlockMutexKeeps, queueVars
<1>2. CASE OSUnlockMutexReleases
  <2>1. host \in Threads /\ state[host] = "running"
    BY <1>2, Basics, RunsUnder DEF OSUnlockMutexReleases, FrameOps, SafeOps
  <2>2. link' = link
    BY <1>2 DEF OSUnlockMutexReleases, queueVars
  <2>3. \A t \in Threads \ {host} : prio'[t] = prio[t]
    BY <1>2, Basics DEF OSUnlockMutexReleases, TypeOK
  <2>4. \A t \in Threads : state[t] = "waiting" => prio'[t] = prio[t]
    BY <2>1, <2>3
  <2> QED BY <2>2, <2>4, SortedAsBefore
<1>3. CASE PromoteThreadPriority
  <2> PICK u : u = Top.thr
    OBVIOUS
  <2>1. CASE u = NoThread \/ suspend[u] > 0 \/ prio[u] <= prio[host]
    BY <1>3, <2>1, SortedAsBefore DEF PromoteThreadPriority, queueVars
  <2>2. CASE ~(u = NoThread \/ suspend[u] > 0 \/ prio[u] <= prio[host])
    <3>1. u \in Threads /\ suspend[u] = 0
      BY <1>3, <2>2, TopFrame, Basics DEF PromoteThreadPriority, GoodFrame, Frame, TypeOK
    <3>2. prio[host] \in Priorities
      BY <1>3, RunsUnder, Basics
      DEF PromoteThreadPriority, FrameOps, SafeOps, QueuesSound, PrioritySound, Terminated
    <3>3. SetPriority(u, prio[host])
      BY <1>3, <2>2 DEF PromoteThreadPriority
    <3> QED BY <3>1, <3>2, <3>3, SetPrioritySorted
  <2> QED BY <2>1, <2>2
<1>4. CASE PropagateMutexOwnerPriority
  <2> PICK u : u = Top.thr
    OBVIOUS
  <2>1. CASE u = NoThread \/ suspend[u] > 0 \/ prio[u] = EffectivePriority(u, held[u])
    BY <1>4, <2>1, SortedAsBefore DEF PropagateMutexOwnerPriority, queueVars
  <2>2. CASE ~(u = NoThread \/ suspend[u] > 0 \/ prio[u] = EffectivePriority(u, held[u]))
    <3>1. u \in Threads /\ suspend[u] = 0
      BY <1>4, <2>2, TopFrame, Basics DEF PropagateMutexOwnerPriority, GoodFrame, Frame, TypeOK
    <3>2. EffectivePriority(u, held[u]) \in Priorities
      BY <3>1, Basics, EffectiveInRange DEF TypeOK
    <3>3. SetPriority(u, EffectivePriority(u, held[u]))
      BY <1>4, <2>2 DEF PropagateMutexOwnerPriority
    <3> QED BY <3>1, <3>2, <3>3, SetPrioritySorted
  <2> QED BY <2>1, <2>2
<1> QED BY <1>1, <1>2, <1>3, <1>4 DEF MutexStep

\* A waiting thread that is suspended goes to the end of its queue, and comes back to its
\* place when it is resumed.
LEMMA SuspendSorted ==
  ASSUME IInv, IInv', WaitQueuesSorted, SuspendStep
  PROVE  WaitQueuesSorted'
<1>1. CASE OSSuspendThreadAgain \/ OSResumeThreadCounts
  BY <1>1, SortedAsBefore DEF OSSuspendThreadAgain, OSResumeThreadCounts, queueVars
<1>2. CASE OSSuspendThread
  <2> PICK u : u = Top.thr
    OBVIOUS
  <2>1. u \in Threads /\ suspend[u] = 0
    BY <1>2, TopFrame DEF OSSuspendThread, GoodFrame
  <2>2. CASE state[u] = "waiting"
    <3>1. link' = Requeued(u, SuspendedWaitPriority)
          /\ prio' = [prio EXCEPT ![u] = SuspendedWaitPriority]
      BY <1>2, <2>2 DEF OSSuspendThread
    <3>2. SuspendedWaitPriority \in Nat
      BY DEF SuspendedWaitPriority
    <3> QED BY <2>1, <2>2, <3>1, <3>2, RequeuedSorted
  <2>3. CASE state[u] = "ready"
    <3>1. link' = Removed(u) /\ prio' = prio
      BY <1>2, <2>3 DEF OSSuspendThread
    <3> QED BY <2>1, <2>3, <3>1, RemovedFromRunQueue, SortedAsBefore
  <2>4. CASE state[u] \notin {"ready", "waiting"}
    <3>1. link' = link /\ prio' = prio
      BY <1>2, <2>4 DEF OSSuspendThread
    <3> QED BY <3>1, SortedAsBefore
  <2> QED BY <2>2, <2>3, <2>4
<1>3. CASE OSResumeThread
  <2> PICK u, p : u = Top.thr /\ p = EffectivePriority(u, held[u])
    OBVIOUS
  <2>1. u \in Threads
    BY <1>3, TopFrame DEF OSResumeThread, GoodFrame
  <2>2. p \in Priorities /\ p \in Nat /\ p \in Queues
    <3>1. TypeOK /\ held[u] \in SUBSET Mutexes
      BY <2>1, Basics DEF TypeOK
    <3>2. p \in Priorities
      BY <2>1, <3>1, EffectiveInRange
    <3> QED BY <3>2, ConstantsAssumption DEF Queues
  <2>3. prio' = IF Terminated(u) THEN prio ELSE [prio EXCEPT ![u] = p]
    BY <1>3 DEF OSResumeThread
  <2>4. \A t \in Threads \ {u} : prio'[t] = prio[t]
    BY <2>3, Basics DEF TypeOK
  <2>5. CASE state[u] = "waiting"
    <3>1. link' = Requeued(u, p) /\ prio' = [prio EXCEPT ![u] = p]
      BY <1>3, <2>3, <2>5 DEF OSResumeThread, Terminated
    <3> QED BY <2>1, <2>2, <2>5, <3>1, RequeuedSorted
  <2>6. CASE state[u] # "waiting"
    <3>1. link' = link \/ link' = [link EXCEPT ![p] = Enqueue(@, u, p)]
      BY <1>3, <2>6 DEF OSResumeThread, queueVars
    <3>2. \A q \in WaitQueue : link'[q] = link[q]
      BY <2>2, <3>1, Basics DEF TypeOK, WaitQueue
    <3>3. \A t \in Threads : state[t] = "waiting" => prio'[t] = prio[t]
      BY <2>4, <2>6
    <3> QED BY <3>2, <3>3, SortedAsBefore
  <2> QED BY <2>5, <2>6
<1> QED BY <1>1, <1>2, <1>3 DEF SuspendStep

\* The sleep timers change no queue.
LEMMA TimerSorted ==
  ASSUME IInv, IInv', WaitQueuesSorted, TimerStep
  PROVE  WaitQueuesSorted'
<1>1. UNCHANGED <<prio, link>>
  BY DEF TimerStep, OSSleepTicks, OSSleepTicksReturns, CollectDueTimers, FireDueTimer,
     ReconcileParks, ReconcilerNotDue, HealLostSleeper, osvars, queueVars
<1> QED BY <1>1, SortedAsBefore

\* The end of a thread takes it off its queue, and wakes those in its own.
LEMMA LifecycleSorted ==
  ASSUME IInv, IInv', WaitQueuesSorted, LifecycleStep
  PROVE  WaitQueuesSorted'
<1>1. CASE OSCancelThread
  <2> PICK u : u = Top.thr
    OBVIOUS
  <2>1. link' = IF Linked(u) THEN Removed(u) ELSE link
    BY <1>1 DEF OSCancelThread
  <2>2. prio' = prio
    BY <1>1 DEF OSCancelThread
  <2>3. u \in Threads
    BY <1>1, TopFrame DEF OSCancelThread, GoodFrame
  <2>4. \A q \in WaitQueue : Removed(u)[q] = link[q] \/ Removed(u)[q] = Unlink(link[q], u)
    BY Basics DEF Removed, TypeOK, WaitQueue
  <2>5. \A q \in WaitQueue :
          link'[q] = link[q] \/ \E t \in Threads : link'[q] = Unlink(link[q], t)
    BY <2>1, <2>3, <2>4
  <2> QED BY <2>2, <2>5, QueuesStaySorted
<1>2. CASE WakeGuestThreadsOnQueueNoSwitch
  <2>1. Top.que \in WaitQueue
    BY <1>2, TopFrame DEF WakeGuestThreadsOnQueueNoSwitch, GoodFrame
  <2> QED BY <1>2, <2>1, WakeHeadSorted DEF WakeGuestThreadsOnQueueNoSwitch
<1>3. CASE ~OSCancelThread /\ ~WakeGuestThreadsOnQueueNoSwitch
  <2>1. UNCHANGED <<prio, link>>
    BY <1>3 DEF LifecycleStep, OSExitThread, OSCancelThreadIgnored, UnlockAllThreadMutexes,
       UnlockAllThreadMutexesEnds, FinishTerminated, WakeGuestThreadsOnQueueNoSwitchEnds,
       OSJoinThreadSleeps, OSJoinThreadReaps, OSDetachThread, osvars, queueVars
  <2> QED BY <2>1, SortedAsBefore
<1> QED BY <1>1, <1>2, <1>3

\* A new thread gets its priority while it is in no queue.
LEMMA GuestSorted ==
  ASSUME IInv, IInv', WaitQueuesSorted, GuestStep
  PROVE  WaitQueuesSorted'
<1>1. CASE GuestCreatesThread
  <2>1. PICK u \in Threads, p \in Priorities,
               d \in {FALSE, "detach" \in Calls} : OSCreateThread(u, p, d)
    BY <1>1 DEF GuestCreatesThread
  <2>2. \A q \in WaitQueue : link'[q] = link[q] \/ link'[q] = <<>>
    BY <2>1, Basics DEF OSCreateThread, TypeOK, WaitQueue
  <2>3. state[u] = "dead" /\ \A t \in Threads \ {u} : prio'[t] = prio[t]
    BY <2>1, Basics DEF OSCreateThread, TypeOK
  <2>4. \A q \in WaitQueue, t \in Threads : Member(link'[q], t) => Member(link[q], t)
    BY <2>2 DEF Member
  <2>5. \A q \in WaitQueue, t \in Threads : Member(link'[q], t) => prio'[t] = prio[t]
    BY <2>3, <2>4, WaitingIs
  <2> QED BY <2>2, <2>5, QueuesStaySorted
<1>2. CASE GuestCallsOS \/ GuestReturnsFromEntry \/ AlarmHandlerCalled
  <2>1. UNCHANGED <<prio, link>>
    BY <1>2 DEF GuestCallsOS, GuestReturnsFromEntry, ReturnFromEntry, AlarmHandlerCalled,
       osvars, queueVars
  <2> QED BY <2>1, SortedAsBefore
<1> QED BY <1>1, <1>2 DEF GuestStep

\* Every step keeps the wait queues sorted.
LEMMA SortedNext ==
  ASSUME HandlersDontBlock, IInv, WaitQueuesSorted, [Next]_vars
  PROVE  WaitQueuesSorted'
<1>1. IInv'
  BY NextStep
<1>2. CASE AlarmHandlerReturns \/ UNCHANGED vars
  <2>1. UNCHANGED <<prio, link>>
    BY <1>2 DEF AlarmHandlerReturns, vars, osvars, queueVars
  <2> QED BY <1>1, <2>1, SortedAsBefore
<1> QED BY <1>1, <1>2, SchedulerSorted, QueueSorted, MutexSorted, SuspendSorted, TimerSorted,
           LifecycleSorted, GuestSorted DEF Next, HostStep

-----------------------------------------------------------------------------
(* Nobody goes to sleep on a mutex that is free.                           *)

\* Frames none of which is a sleep on a mutex.
Quiet(fs) == fs \in Seq(GoodFrame) /\ \A i \in 1..Len(fs) : ~MutexSleep(fs[i])

\* No fiber has a sleep on a mutex to come.
NoSleepToCome == \A t \in Threads : \A i \in 1..Len(stack[t]) : ~MutexSleep(stack[t][i])

\* Frames of safe calls are quiet.
LEMMA SafeIsQuiet ==
  ASSUME NEW fs, SafeFrames(fs)
  PROVE  Quiet(fs)
  BY DEF SafeFrames, AllSafe, Quiet, MutexSleep, SafeOps

\* So are frames of other calls than sleep.
LEMMA OneIsQuiet ==
  ASSUME NEW f \in GoodFrame, ~MutexSleep(f)
  PROVE  Quiet(<<f>>)
<1> PICK fs : fs = <<f>>
  OBVIOUS
<1>1. fs \in Seq(GoodFrame) /\ Len(fs) = 1 /\ fs[1] = f
  OBVIOUS
<1> QED BY <1>1 DEF Quiet

LEMMA TwoAreQuiet ==
  ASSUME NEW f \in GoodFrame, NEW g \in GoodFrame, ~MutexSleep(f), ~MutexSleep(g)
  PROVE  Quiet(<<f, g>>)
<1> PICK fs : fs = <<f, g>>
  OBVIOUS
<1>1. fs \in Seq(GoodFrame) /\ Len(fs) = 2 /\ fs[1] = f /\ fs[2] = g
  OBVIOUS
<1>2. \A i \in 1..2 : i = 1 \/ i = 2
  OBVIOUS
<1> QED BY <1>1, <1>2 DEF Quiet

LEMMA ConcatIsQuiet ==
  ASSUME NEW a, NEW b, Quiet(a), Quiet(b)
  PROVE  Quiet(a \o b)
<1> PICK r : r = a \o b
  OBVIOUS
<1>1. a \in Seq(GoodFrame) /\ b \in Seq(GoodFrame)
  BY DEF Quiet
<1>2. Len(a) \in Nat /\ Len(b) \in Nat
  BY <1>1, LenProperties
<1>3. /\ r \in Seq(GoodFrame) /\ Len(r) = Len(a) + Len(b)
      /\ \A i \in 1..Len(a) + Len(b) : r[i] = IF i <= Len(a) THEN a[i] ELSE b[i - Len(a)]
  BY <1>1, ConcatProperties
<1>4. \A i \in 1..Len(r) : (i \in 1..Len(a) /\ r[i] = a[i])
                           \/ (i - Len(a) \in 1..Len(b) /\ r[i] = b[i - Len(a)])
  BY <1>2, <1>3
<1> QED BY <1>3, <1>4 DEF Quiet

LEMMA NoneIsQuiet == Quiet(<<>>)
  BY DEF Quiet

\* A call of SelectThread is quiet.
LEMMA SelectCallQuiet ==
  ASSUME NEW o \in {"select", "yield"}
  PROVE  Quiet(SelectCall(o))
<1>1. F(o) \in GoodFrame /\ ~MutexSleep(F(o)) /\ F("timers") \in GoodFrame
      /\ ~MutexSleep(F("timers"))
  BY PlainFrameIs DEF MutexSleep
<1> QED BY <1>1, OneIsQuiet, TwoAreQuiet DEF SelectCall

\* When no fiber has such a sleep to come, sleeps are owned.
LEMMA NoSleepIsOwned ==
  ASSUME NoSleepToCome'
  PROVE  SleepsOwned'
  BY DEF NoSleepToCome, SleepsOwned

\* The only sleep on a mutex that may be to come is below a promote frame, or on top.
LEMMA SleepOnTop ==
  ASSUME IInv, SleepsOwned, stack[host] = <<>> \/ Top.op # "promote",
         NEW t \in Threads, NEW i \in 1..Len(stack[t]), MutexSleep(stack[t][i])
  PROVE  t = host /\ i = 1
<1>1. t = host /\ (i = 1 \/ (i = 2 /\ stack[t][1].op = "promote"))
  BY DEF SleepsOwned
<1>2. stack[host] # <<>>
  BY <1>1
<1> QED BY <1>1, <1>2, TopIs, Basics

\* A frame other than promote returns quiet frames: nobody sleeps on a mutex next.
LEMMA QuietReturn ==
  ASSUME IInv, SleepsOwned, stack[host] # <<>>, Top.op # "promote",
         NEW fs, Quiet(fs), Returned(fs)
  PROVE  NoSleepToCome'
<1> PICK s : s = stack[host]
  OBVIOUS
<1> PICK r : r = stack'[host]
  OBVIOUS
<1>1. s \in Seq(GoodFrame) /\ s # <<>> /\ fs \in Seq(GoodFrame)
  BY Basics DEF FramesGood, Quiet
<1>2. r = fs \o Tail(s)
  BY DEF Returned
<1>3. /\ Len(s) \in Nat \ {0} /\ Len(fs) \in Nat /\ Len(r) = Len(fs) + Len(s) - 1
      /\ \A j \in 1..Len(fs) : r[j] = fs[j]
      /\ \A j \in Len(fs) + 1..Len(r) : r[j] = s[j + 1 - Len(fs)]
  BY <1>1, <1>2, ReplaceHead
<1>4. \A i \in 1..Len(s) : MutexSleep(s[i]) => i = 1
  BY SleepOnTop, Basics
<1>5. ASSUME NEW i \in 1..Len(r) PROVE ~MutexSleep(r[i])
  <2>1. CASE i \in 1..Len(fs)
    BY <2>1, <1>3 DEF Quiet
  <2>2. CASE i \in Len(fs) + 1..Len(r)
    <3>1. r[i] = s[i + 1 - Len(fs)] /\ i + 1 - Len(fs) \in 2..Len(s)
      BY <2>2, <1>3
    <3>2. i + 1 - Len(fs) \in 1..Len(s) /\ i + 1 - Len(fs) # 1
      BY <3>1, <1>3
    <3> QED BY <3>1, <3>2, <1>4
  <2> QED BY <2>1, <2>2, <1>3
<1>6. ASSUME NEW t \in Threads \ {host}, NEW i \in 1..Len(stack'[t])
      PROVE  ~MutexSleep(stack'[t][i])
  <2>1. stack'[t] = stack[t]
    BY <1>6 DEF Returned
  <2> QED BY <2>1, SleepOnTop
<1> QED BY <1>5, <1>6 DEF NoSleepToCome

\* The same for frames pushed on top of another frame than promote or sleep, or by
\* guest code.
LEMMA QuietPush ==
  ASSUME IInv, SleepsOwned, stack[host] = <<>> \/ Top.op \notin {"promote", "sleep"},
         NEW fs, Quiet(fs), Push(fs)
  PROVE  NoSleepToCome'
<1> PICK s : s = stack[host]
  OBVIOUS
<1> PICK r : r = stack'[host]
  OBVIOUS
<1>1. s \in Seq(GoodFrame) /\ fs \in Seq(GoodFrame)
  BY Basics DEF FramesGood, Quiet
<1>2. r = fs \o s /\ \A t \in Threads \ {host} : stack'[t] = stack[t]
  BY Basics DEF Push, FramesGood
<1>3. ASSUME NEW t \in Threads, NEW i \in 1..Len(stack[t]) PROVE ~MutexSleep(stack[t][i])
  <2> SUFFICES ASSUME MutexSleep(stack[t][i]) PROVE FALSE
    OBVIOUS
  <2>1. t = host /\ i = 1
    BY SleepOnTop
  <2>2. stack[host] # <<>>
    BY <2>1
  <2>3. Top = stack[host][1]
    BY <2>2, TopIs, Basics
  <2> QED BY <2>1, <2>2, <2>3 DEF MutexSleep
<1>4. Quiet(s)
  BY <1>1, <1>3, Basics DEF Quiet
<1>5. Quiet(r)
  BY <1>2, <1>4, ConcatIsQuiet
<1> QED BY <1>2, <1>3, <1>5 DEF NoSleepToCome, Quiet

\* A switch leaves nothing of that kind behind.
LEMMA DispatchQuiet ==
  ASSUME IInv, SleepsOwned, stack[host] # <<>>, Top.op # "promote",
         NEW st, NEW qu, NEW ln, NEW mask, Dispatch(st, qu, ln, mask)
  PROVE  NoSleepToCome'
<1>1. stack' = [stack EXCEPT ![host] = IF Terminated(host) THEN <<>> ELSE Tail(@)]
  BY DEF Dispatch
<1>2. stack[host] \in Seq(GoodFrame) /\ stack \in [Threads -> Seq(GoodFrame)]
      /\ host \in Threads
  BY Basics DEF FramesGood
<1>3. /\ Len(Tail(stack[host])) = Len(stack[host]) - 1
      /\ \A i \in 1..Len(Tail(stack[host])) : Tail(stack[host])[i] = stack[host][i + 1]
      /\ Len(stack[host]) \in Nat
  BY <1>2, HeadTailProperties, LenProperties
<1> SUFFICES ASSUME NEW t \in Threads, NEW i \in 1..Len(stack'[t])
             PROVE  ~MutexSleep(stack'[t][i])
  BY DEF NoSleepToCome
<1>4. CASE t # host
  <2>1. stack'[t] = stack[t]
    BY <1>1, <1>2, <1>4
  <2> QED BY <2>1, <1>4, SleepOnTop
<1>5. CASE t = host /\ Terminated(host)
  <2>1. stack'[t] = <<>>
    BY <1>1, <1>2, <1>5
  <2> QED BY <2>1
<1>6. CASE t = host /\ ~Terminated(host)
  <2>1. stack'[t] = Tail(stack[host])
    BY <1>1, <1>2, <1>6
  <2>2. i + 1 \in 1..Len(stack[host]) /\ i + 1 # 1 /\ stack'[t][i] = stack[host][i + 1]
    BY <2>1, <1>3
  <2> QED BY <2>2, <1>2, SleepOnTop
<1> QED BY <1>4, <1>5, <1>6

LEMMA SchedulerQuiet ==
  ASSUME IInv, SleepsOwned, SchedulerStep
  PROVE  NoSleepToCome'
<1>1. CASE SelectThreadPreempts \/ SelectThreadSwitches
  <2>1. stack[host] # <<>> /\ Top.op # "promote"
    BY <1>1, TopFrame DEF SelectThreadPreempts, SelectThreadSwitches, SelectFrame
  <2> QED BY <1>1, <2>1, DispatchQuiet DEF SelectThreadPreempts, SelectThreadSwitches
<1>2. CASE IdleEnds
  <2>1. stack[host] # <<>> /\ Top.op # "promote"
    BY <1>2, TopFrame DEF IdleEnds
  <2> QED BY <1>2, <2>1, DispatchQuiet DEF IdleEnds
<1>3. CASE IdlePolls
  <2>1. stack[host] # <<>> /\ Top.op \notin {"promote", "sleep"}
    BY <1>3, TopFrame DEF IdlePolls
  <2>2. Quiet(<<F("timers")>>)
    BY PlainFrameIs, OneIsQuiet DEF MutexSleep
  <2> QED BY <1>3, <2>1, <2>2, QuietPush DEF IdlePolls
<1>4. CASE SelectThreadReturns \/ SelectThreadIdles \/ RescheduleIfRequested
  <2>1. PICK o \in {"select", "yield", "resched"} : At(o)
    BY <1>4 DEF SelectThreadReturns, SelectThreadIdles, RescheduleIfRequested, SelectFrame
  <2>2. PICK fs : /\ Return(fs)
                  /\ fs \in {<<>>, <<F("idle")>>,
                             IF resched THEN SelectCall("select") ELSE <<>>}
    BY <1>4 DEF SelectThreadReturns, SelectThreadIdles, RescheduleIfRequested
  <2>3. Quiet(fs)
    <3>1. Quiet(<<F("idle")>>)
      BY PlainFrameIs, OneIsQuiet DEF MutexSleep
    <3> QED BY <2>2, <3>1, NoneIsQuiet, SelectCallQuiet
  <2>4. Returned(fs)
    BY <2>1, <2>2, <2>3, TopFrame, Basics, ReturnIs DEF Quiet
  <2> QED BY <2>1, <2>3, <2>4, TopFrame, QuietReturn
<1> QED BY <1>1, <1>2, <1>3, <1>4 DEF SchedulerStep

\* Any other step that returns quiet frames.
LEMMA QuietStep ==
  ASSUME IInv, SleepsOwned, NEW o, At(o), o # "promote", NEW fs, Quiet(fs), Return(fs)
  PROVE  NoSleepToCome'
<1>1. stack[host] # <<>> /\ Top.op # "promote"
  BY TopFrame
<1>2. Returned(fs)
  BY <1>1, Basics, ReturnIs DEF Quiet
<1> QED BY <1>1, <1>2, QuietReturn

LEMMA QueueQuiet ==
  ASSUME IInv, SleepsOwned, QueueStep
  PROVE  NoSleepToCome'
<1>1. CASE WakeupThreadQueue
  <2>1. PICK o \in {"wake", "woke"} : At(o)
    BY <1>1 DEF WakeupThreadQueue
  <2>2. Top.que \in WaitQueue /\ Top.op \in {"wake", "woke"}
    BY <2>1, TopFrame DEF GoodFrame
  <2>3. PICK p \in {"wake", "woke"} : Return(<<FQ(p, Top.que)>>)
    BY <1>1, <2>2 DEF WakeupThreadQueue
  <2>4. Quiet(<<FQ(p, Top.que)>>)
    BY <2>2, QueueFrameIs, OneIsQuiet DEF MutexSleep
  <2> QED BY <2>1, <2>3, <2>4, QuietStep
<1>2. CASE WakeupThreadQueueEnds
  <2>1. PICK o \in {"wake", "woke"} : At(o)
    BY <1>2 DEF WakeupThreadQueueEnds
  <2>2. PICK fs : fs = IF At("woke") THEN SelectCall("select") ELSE <<>>
    OBVIOUS
  <2>3. Return(fs) /\ Quiet(fs)
    BY <1>2, <2>2, SelectCallQuiet, NoneIsQuiet DEF WakeupThreadQueueEnds
  <2> QED BY <2>1, <2>3, QuietStep
<1>3. CASE OSSleepThread
  <2>1. At("sleep")
    BY <1>3 DEF OSSleepThread
  <2>2. Top.que \in WaitQueue
    BY <2>1, TopFrame DEF GoodFrame
  <2>3. Quiet(<<FQ("parked", Top.que)>>)
    BY <2>2, QueueFrameIs, OneIsQuiet DEF MutexSleep
  <2>4. Quiet(SelectCall("select") \o <<FQ("parked", Top.que)>>)
    BY <2>3, SelectCallQuiet, ConcatIsQuiet
  <2>5. Return(<<>>) \/ Return(SelectCall("select") \o <<FQ("parked", Top.que)>>)
    BY <1>3 DEF OSSleepThread
  <2> QED BY <2>1, <2>4, <2>5, NoneIsQuiet, QuietStep
<1>4. CASE OSSleepThreadReturns
  BY <1>4, NoneIsQuiet, QuietStep DEF OSSleepThreadReturns
<1> QED BY <1>1, <1>2, <1>3, <1>4 DEF QueueStep

\* The frame below a promote may be a sleep on a mutex: it stays on top, or comes up.
LEMMA PromoteOwned ==
  ASSUME IInv, SleepsOwned, PromoteThreadPriority
  PROVE  SleepsOwned'
<1> PICK s : s = stack[host]
  OBVIOUS
<1> PICK r : r = stack'[host]
  OBVIOUS
<1> PICK u : u = Top.thr
  OBVIOUS
<1>1. At("promote") /\ stack[host] # <<>> /\ Top \in GoodFrame /\ Top.op = "promote"
      /\ UNCHANGED <<owner, host>>
  BY TopFrame DEF PromoteThreadPriority, mutexVars, cpuVars
<1>2. PICK fs : fs \in {<<>>, <<FT("promote", NextInChain(u))>>} /\ Return(fs)
                /\ (fs = <<>> \/ u # NoThread)
  BY DEF PromoteThreadPriority
<1>3. u # NoThread => u \in Threads
  BY <1>1 DEF GoodFrame, Frame
<1>4. Quiet(fs) /\ Len(fs) \in {0, 1} /\ (Len(fs) = 1 => fs[1].op = "promote")
  <2>1. CASE fs = <<>>
    BY <2>1, NoneIsQuiet
  <2>2. CASE fs = <<FT("promote", NextInChain(u))>> /\ u \in Threads
    <3>1. /\ FT("promote", NextInChain(u)) \in GoodFrame
          /\ FT("promote", NextInChain(u)).op = "promote"
      BY <2>2, NextInChainIs, ChainFrameIs
    <3>2. Quiet(fs)
      BY <2>2, <3>1, OneIsQuiet DEF MutexSleep
    <3>3. Len(fs) = 1 /\ fs[1] = FT("promote", NextInChain(u))
      BY <2>2
    <3> QED BY <3>1, <3>2, <3>3
  <2> QED BY <1>2, <1>3, <2>1, <2>2
<1>5. s \in Seq(GoodFrame) /\ s # <<>> /\ fs \in Seq(GoodFrame) /\ host \in Threads
      /\ stack \in [Threads -> Seq(GoodFrame)]
  BY <1>1, <1>4, Basics DEF FramesGood, Quiet
<1>6. r = fs \o Tail(s) /\ \A t \in Threads \ {host} : stack'[t] = stack[t]
  BY <1>2, <1>5 DEF Return
<1>7. /\ Len(s) \in Nat \ {0} /\ Len(fs) \in Nat /\ Len(r) = Len(fs) + Len(s) - 1
      /\ \A j \in 1..Len(fs) : r[j] = fs[j]
      /\ \A j \in Len(fs) + 1..Len(r) : r[j] = s[j + 1 - Len(fs)]
  BY <1>5, <1>6, ReplaceHead
<1> SUFFICES ASSUME NEW t \in Threads, NEW i \in 1..Len(stack'[t]),
                    MutexSleep(stack'[t][i])
             PROVE  /\ t = host /\ owner[stack'[t][i].que] # NoThread
                    /\ i = 1 \/ (i = 2 /\ stack'[t][1].op = "promote")
  BY <1>1 DEF SleepsOwned
<1>8. t = host
  BY <1>6 DEF SleepsOwned
<1>9. i \in Len(fs) + 1..Len(r)
  BY <1>4, <1>7, <1>8 DEF Quiet
<1>10. r[i] = s[i + 1 - Len(fs)] /\ i + 1 - Len(fs) \in 1..Len(s)
  BY <1>7, <1>9
<1>11. /\ owner[r[i].que] # NoThread
       /\ i + 1 - Len(fs) = 1 \/ i + 1 - Len(fs) = 2
  BY <1>5, <1>8, <1>10 DEF SleepsOwned
<1>12. i = Len(fs) \/ i = Len(fs) + 1
  BY <1>7, <1>11
<1>13. i = 1 \/ (i = 2 /\ Len(fs) = 1)
  <2>1. Len(fs) = 0 \/ Len(fs) = 1
    BY <1>4
  <2>2. i >= 1 /\ i \in Int
    OBVIOUS
  <2>3. CASE Len(fs) = 0
    BY <2>2, <2>3, <1>12
  <2>4. CASE Len(fs) = 1
    BY <2>4, <1>12
  <2> QED BY <2>1, <2>3, <2>4
<1>14. Len(fs) = 1 => r[1].op = "promote"
  BY <1>4, <1>7
<1> QED BY <1>8, <1>11, <1>13, <1>14

\* A thread that is going to sleep on a mutex found an owner, whom it promotes first.
LEMMA BlocksOwned ==
  ASSUME IInv, SleepsOwned, OSLockMutexBlocks
  PROVE  SleepsOwned'
<1> PICK s : s = stack[host]
  OBVIOUS
<1> PICK r : r = stack'[host]
  OBVIOUS
<1>0. PICK o \in {"lock", "relock"} : At(o)
  BY DEF OSLockMutexBlocks
<1>1. stack[host] # <<>> /\ Top \in GoodFrame /\ Top.op = o /\ Top.que \in Mutexes
  BY <1>0, TopFrame DEF GoodFrame
<1>2. PICK m \in Mutexes : m = Top.que
  BY <1>1
<1>3. PICK fs : fs = <<FT("promote", owner[m]), FQ("sleep", m), FQ("relock", m)>>
                /\ Return(fs)
  BY <1>2 DEF OSLockMutexBlocks
<1>4. owner[m] \in Threads /\ m \in WaitQueue /\ owner[m] # NoThread
      /\ UNCHANGED <<owner, host>>
  BY <1>2, Basics, ConstantsAssumption
  DEF OSLockMutexBlocks, TypeOK, WaitQueue, Queues, cpuVars
<1>5. /\ Len(fs) = 3 /\ fs[1].op = "promote" /\ fs[2].que = m /\ ~MutexSleep(fs[3])
      /\ fs[1] \in GoodFrame /\ fs[2] \in GoodFrame /\ fs[3] \in GoodFrame
  BY <1>3, <1>4, ThreadFrameIs, QueueFrameIs, MutexFrameIs DEF FQ, MutexSleep
<1>6. s \in Seq(GoodFrame) /\ s # <<>> /\ host \in Threads
      /\ stack \in [Threads -> Seq(GoodFrame)] /\ fs \in Seq(GoodFrame)
  BY <1>1, <1>3, <1>5, Basics DEF FramesGood
<1>7. r = fs \o Tail(s) /\ \A t \in Threads \ {host} : stack'[t] = stack[t]
  BY <1>3, <1>6 DEF Return
<1>8. /\ Len(s) \in Nat \ {0} /\ Len(r) = 3 + Len(s) - 1
      /\ \A j \in 1..3 : r[j] = fs[j]
      /\ \A j \in 3 + 1..Len(r) : r[j] = s[j + 1 - 3]
  <2>1. /\ Len(s) \in Nat \ {0} /\ Len(r) = Len(fs) + Len(s) - 1
        /\ \A j \in 1..Len(fs) : r[j] = fs[j]
        /\ \A j \in Len(fs) + 1..Len(r) : r[j] = s[j + 1 - Len(fs)]
    BY <1>6, <1>7, ReplaceHead
  <2>2. Len(fs) = 3
    BY <1>5
  <2> QED BY ONLY <2>1, <2>2
<1> SUFFICES ASSUME NEW t \in Threads, NEW i \in 1..Len(stack'[t]),
                    MutexSleep(stack'[t][i])
             PROVE  /\ t = host /\ owner[stack'[t][i].que] # NoThread
                    /\ i = 1 \/ (i = 2 /\ stack'[t][1].op = "promote")
  BY <1>4 DEF SleepsOwned
<1>9. t = host
  BY <1>7 DEF SleepsOwned
<1>10. ~(i \in 3 + 1..Len(r))
  <2> SUFFICES ASSUME i \in 3 + 1..Len(r) PROVE FALSE
    OBVIOUS
  <2>1. r[i] = s[i + 1 - 3] /\ i + 1 - 3 \in 1..Len(s) /\ i + 1 - 3 # 1
    BY SMTT(30), <1>8
  <2> QED BY <2>1, <1>1, <1>9, <1>6, SleepOnTop
<1>11. i \in 1..3
  BY <1>8, <1>9, <1>10
<1>12. r[1] = fs[1] /\ r[2] = fs[2] /\ r[3] = fs[3]
  BY <1>8
<1>13. i # 1 /\ i # 3
  BY <1>5, <1>9, <1>12 DEF MutexSleep
<1>14. i = 2
  BY <1>11, <1>13
<1> QED BY <1>4, <1>5, <1>9, <1>12, <1>14

LEMMA MutexOwned ==
  ASSUME IInv, SleepsOwned, MutexStep
  PROVE  SleepsOwned'
<1>1. CASE OSLockMutexTakes
  <2>1. PICK o \in {"lock", "relock"} : At(o)
    BY <1>1 DEF OSLockMutexTakes
  <2> QED BY <1>1, <2>1, NoneIsQuiet, QuietStep, NoSleepIsOwned DEF OSLockMutexTakes
<1>2. CASE OSUnlockMutexKeeps
  BY <1>2, NoneIsQuiet, QuietStep, NoSleepIsOwned DEF OSUnlockMutexKeeps
<1>3. CASE OSUnlockMutexReleases
  <2>1. Top.que \in WaitQueue
    BY <1>3, TopFrame, ConstantsAssumption
    DEF OSUnlockMutexReleases, GoodFrame, WaitQueue, Queues
  <2>2. Quiet(<<FQ("wake", Top.que)>>)
    BY <2>1, QueueFrameIs, OneIsQuiet DEF MutexSleep
  <2> QED BY <1>3, <2>2, QuietStep, NoSleepIsOwned DEF OSUnlockMutexReleases
<1>4. CASE PropagateMutexOwnerPriority
  <2>1. Top.op = "propagate" /\ Top \in GoodFrame
    BY <1>4, TopFrame DEF PropagateMutexOwnerPriority
  <2>2. PICK u : u = Top.thr
    OBVIOUS
  <2>3. Return(<<>>) \/ (Return(<<FT("propagate", NextInChain(u))>>) /\ u \in Threads)
    BY <1>4, <2>1, <2>2 DEF PropagateMutexOwnerPriority, GoodFrame, Frame
  <2>4. u \in Threads => Quiet(<<FT("propagate", NextInChain(u))>>)
    BY NextInChainIs, ChainFrameIs, OneIsQuiet DEF MutexSleep
  <2> QED BY <1>4, <2>3, <2>4, NoneIsQuiet, QuietStep, NoSleepIsOwned
      DEF PropagateMutexOwnerPriority
<1> QED BY <1>1, <1>2, <1>3, <1>4, PromoteOwned, BlocksOwned DEF MutexStep

LEMMA SuspendQuiet ==
  ASSUME IInv, SleepsOwned, SuspendStep
  PROVE  NoSleepToCome'
<1>1. CASE OSSuspendThreadAgain
  BY <1>1, NoneIsQuiet, QuietStep DEF OSSuspendThreadAgain
<1>2. CASE OSResumeThreadCounts
  BY <1>2, NoneIsQuiet, QuietStep DEF OSResumeThreadCounts
<1>3. CASE OSSuspendThread \/ OSResumeThread
  <2>1. PICK o \in {"suspend", "resume"} : At(o)
    BY <1>3 DEF OSSuspendThread, OSResumeThread
  <2>2. Top.thr \in Threads
    BY <2>1, TopFrame DEF GoodFrame
  <2>3. PICK fs :
          /\ fs = (IF state[Top.thr] = "waiting"
                   THEN <<FT("propagate", OwnerOf(blockedOn[Top.thr]))>> ELSE <<>>)
                  \o <<F("resched")>>
          /\ Return(fs)
    BY <1>3 DEF OSSuspendThread, OSResumeThread
  <2>4. Quiet(fs)
    BY <2>2, <2>3, ChainAndResched, SafeIsQuiet
  <2> QED BY <2>1, <2>3, <2>4, QuietStep
<1> QED BY <1>1, <1>2, <1>3 DEF SuspendStep

LEMMA TimerQuiet ==
  ASSUME IInv, SleepsOwned, TimerStep
  PROVE  NoSleepToCome'
<1>1. CASE OSSleepTicks
  <2>1. /\ FT("suspend", host) \in GoodFrame /\ ~MutexSleep(FT("suspend", host))
        /\ F("ticked") \in GoodFrame /\ ~MutexSleep(F("ticked"))
    BY Basics, ThreadFrameIs, PlainFrameIs DEF MutexSleep
  <2>2. Quiet(<<FT("suspend", host), F("ticked")>>)
    BY <2>1, TwoAreQuiet
  <2> QED BY <1>1, <2>2, NoneIsQuiet, QuietStep DEF OSSleepTicks
<1>2. CASE OSSleepTicksReturns
  BY <1>2, NoneIsQuiet, QuietStep DEF OSSleepTicksReturns
<1>3. ASSUME NEW due \in SUBSET timers, CollectDueTimers(due) PROVE NoSleepToCome'
  <2>1. due \in SUBSET Threads
    BY Basics DEF TypeOK
  <2>2. Quiet(<<FD("fire", due)>>) /\ Quiet(<<F("reconcile")>>)
    BY <2>1, DueFrameIs, PlainFrameIs, OneIsQuiet DEF MutexSleep
  <2>3. Quiet(IF due = {} THEN <<>> ELSE <<FD("fire", due)>>)
    BY <2>2, NoneIsQuiet
  <2>4. Quiet((IF due = {} THEN <<>> ELSE <<FD("fire", due)>>) \o <<F("reconcile")>>)
    BY <2>2, <2>3, ConcatIsQuiet
  <2> QED BY <1>3, <2>4, QuietStep DEF CollectDueTimers
<1>4. CASE FireDueTimer
  <2>1. Top.due \in SUBSET Threads
    BY <1>4, TopFrame DEF FireDueTimer, GoodFrame, Frame
  <2>2. PICK u \in Top.due :
          LET rest == IF Top.due = {u} THEN <<>> ELSE <<FD("fire", Top.due \ {u})>>
          IN  Return((IF ParkShaped(u) THEN <<FT("resume", u)>> ELSE <<>>) \o rest)
    BY <1>4 DEF FireDueTimer
  <2>3. Quiet(<<FT("resume", u)>>) /\ Quiet(<<FD("fire", Top.due \ {u})>>)
    BY <2>1, DueFrameIs, ThreadFrameIs, OneIsQuiet DEF MutexSleep
  <2>4. /\ Quiet(IF ParkShaped(u) THEN <<FT("resume", u)>> ELSE <<>>)
        /\ Quiet(IF Top.due = {u} THEN <<>> ELSE <<FD("fire", Top.due \ {u})>>)
    BY <2>3, NoneIsQuiet
  <2>5. Quiet((IF ParkShaped(u) THEN <<FT("resume", u)>> ELSE <<>>)
              \o (IF Top.due = {u} THEN <<>> ELSE <<FD("fire", Top.due \ {u})>>))
    BY <2>4, ConcatIsQuiet
  <2> QED BY <1>4, <2>2, <2>5, QuietStep DEF FireDueTimer
<1>5. CASE ReconcileParks
  <2>1. PICK heal \in SUBSET parks :
          Return(IF heal = {} THEN <<>> ELSE <<FD("heal", heal)>>)
    BY <1>5 DEF ReconcileParks
  <2>2. heal \in SUBSET Threads
    BY <2>1, Basics DEF TypeOK
  <2>3. Quiet(<<FD("heal", heal)>>)
    BY <2>2, DueFrameIs, OneIsQuiet DEF MutexSleep
  <2>4. Quiet(IF heal = {} THEN <<>> ELSE <<FD("heal", heal)>>)
    BY <2>3, NoneIsQuiet
  <2> QED BY <1>5, <2>1, <2>4, QuietStep DEF ReconcileParks
<1>6. CASE ReconcilerNotDue
  BY <1>6, NoneIsQuiet, QuietStep DEF ReconcilerNotDue
<1>7. CASE HealLostSleeper
  <2>1. Top.due \in SUBSET Threads
    BY <1>7, TopFrame DEF HealLostSleeper, GoodFrame, Frame
  <2>2. PICK u \in Top.due :
          Return(<<FT("resume", u)>> \o
                 (IF Top.due = {u} THEN <<>> ELSE <<FD("heal", Top.due \ {u})>>))
    BY <1>7 DEF HealLostSleeper
  <2>3. Quiet(<<FT("resume", u)>>) /\ Quiet(<<FD("heal", Top.due \ {u})>>)
    BY <2>1, DueFrameIs, ThreadFrameIs, OneIsQuiet DEF MutexSleep
  <2>4. Quiet(IF Top.due = {u} THEN <<>> ELSE <<FD("heal", Top.due \ {u})>>)
    BY <2>3, NoneIsQuiet
  <2>5. Quiet(<<FT("resume", u)>> \o
              (IF Top.due = {u} THEN <<>> ELSE <<FD("heal", Top.due \ {u})>>))
    BY <2>3, <2>4, ConcatIsQuiet
  <2> QED BY <1>7, <2>2, <2>5, QuietStep DEF HealLostSleeper
<1> QED BY <1>1, <1>2, <1>3, <1>4, <1>5, <1>6, <1>7 DEF TimerStep

LEMMA LifecycleQuiet ==
  ASSUME IInv, SleepsOwned, LifecycleStep
  PROVE  NoSleepToCome'
<1>1. CASE OSExitThread
  <2>1. Quiet(AfterTermination(host)) /\ Quiet(<<F("finish")>>)
    BY Basics, AfterTerminationIs, SafeIsQuiet, PlainFrameIs, OneIsQuiet DEF MutexSleep
  <2> QED BY <1>1, <2>1, ConcatIsQuiet, QuietStep DEF OSExitThread
<1>2. CASE OSCancelThreadIgnored
  BY <1>2, NoneIsQuiet, QuietStep DEF OSCancelThreadIgnored
<1>3. CASE OSCancelThread
  <2>1. stack[host] # <<>> /\ Top.op = "cancel" /\ Top \in GoodFrame
    BY <1>3, TopFrame DEF OSCancelThread
  <2>2. PICK u \in Threads : u = Top.thr
    BY <2>1 DEF GoodFrame
  <2>3. PICK fs : fs = AfterTermination(u) \o <<F("resched")>>
    OBVIOUS
  <2>4. stack' = [stack EXCEPT ![u] = <<>>, ![host] = fs \o Tail(stack[host])]
    BY <1>3, <2>2, <2>3 DEF OSCancelThread
  <2>5. Quiet(AfterTermination(u)) /\ Quiet(<<F("resched")>>)
    BY <2>2, AfterTerminationIs, SafeIsQuiet, PlainFrameIs, OneIsQuiet DEF MutexSleep
  <2>6. Quiet(fs)
    BY <2>3, <2>5, ConcatIsQuiet
  <2>7. stack \in [Threads -> Seq(GoodFrame)] /\ host \in Threads
    BY Basics DEF FramesGood
  <2>8. fs \o Tail(stack[host]) \in Seq(GoodFrame)
    BY <2>1, <2>6, <2>7, ReplaceHead DEF Quiet
  <2>9. <<>> \in Seq(GoodFrame)
    OBVIOUS
  <2>10. Returned(fs)
    BY <2>4, <2>7, <2>8, <2>9 DEF Returned
  <2> QED BY <2>1, <2>6, <2>10, QuietReturn
<1>4. CASE UnlockAllThreadMutexes
  <2>1. Top \in GoodFrame /\ Top.op = "unlockall" /\ Top.thr \in Threads
    BY <1>4, TopFrame DEF UnlockAllThreadMutexes, GoodFrame
  <2>2. PICK m \in held[Top.thr] : Return(<<FQ("wake", m), Top>>)
    BY <1>4 DEF UnlockAllThreadMutexes
  <2>3. m \in WaitQueue
    BY <2>1, <2>2, Basics, ConstantsAssumption DEF TypeOK, WaitQueue, Queues
  <2>4. Quiet(<<FQ("wake", m), Top>>)
    BY <2>1, <2>3, QueueFrameIs, TwoAreQuiet DEF MutexSleep
  <2> QED BY <1>4, <2>2, <2>4, QuietStep DEF UnlockAllThreadMutexes
<1>5. CASE UnlockAllThreadMutexesEnds
  BY <1>5, NoneIsQuiet, QuietStep DEF UnlockAllThreadMutexesEnds
<1>6. CASE FinishTerminated
  BY <1>6, SelectCallQuiet, QuietStep DEF FinishTerminated
<1>7. CASE WakeGuestThreadsOnQueueNoSwitch
  <2>1. Top \in GoodFrame /\ Top.op = "drainjoin"
    BY <1>7, TopFrame DEF WakeGuestThreadsOnQueueNoSwitch
  <2>2. Quiet(<<Top>>)
    BY <2>1, OneIsQuiet DEF MutexSleep
  <2> QED BY <1>7, <2>2, QuietStep DEF WakeGuestThreadsOnQueueNoSwitch
<1>8. CASE WakeGuestThreadsOnQueueNoSwitchEnds
  BY <1>8, NoneIsQuiet, QuietStep DEF WakeGuestThreadsOnQueueNoSwitchEnds
<1>9. CASE OSJoinThreadSleeps
  <2>1. Top.thr \in Threads
    BY <1>9, TopFrame DEF OSJoinThreadSleeps, GoodFrame
  <2>2. JoinQueue(Top.thr) \in WaitQueue /\ JoinQueue(Top.thr) \notin Mutexes
    BY <2>1, ConstantsAssumption DEF JoinQueue, WaitQueue, Queues
  <2>3. /\ FQ("sleep", JoinQueue(Top.thr)) \in GoodFrame
        /\ ~MutexSleep(FQ("sleep", JoinQueue(Top.thr)))
        /\ FT("joined", Top.thr) \in GoodFrame /\ ~MutexSleep(FT("joined", Top.thr))
    BY <2>1, <2>2, QueueFrameIs, ThreadFrameIs DEF MutexSleep, FQ
  <2>4. Quiet(<<FQ("sleep", JoinQueue(Top.thr)), FT("joined", Top.thr)>>)
    BY <2>3, TwoAreQuiet
  <2> QED BY <1>9, <2>4, QuietStep DEF OSJoinThreadSleeps
<1>10. CASE OSJoinThreadReaps
  <2>1. PICK o \in {"join", "joined"} : At(o)
    BY <1>10 DEF OSJoinThreadReaps
  <2> QED BY <1>10, <2>1, NoneIsQuiet, QuietStep DEF OSJoinThreadReaps
<1>11. CASE OSDetachThread
  <2>1. Top.thr \in Threads
    BY <1>11, TopFrame DEF OSDetachThread, GoodFrame
  <2>2. JoinQueue(Top.thr) \in WaitQueue
    BY <2>1, ConstantsAssumption DEF JoinQueue, WaitQueue, Queues
  <2>3. Quiet(<<FQ("wake", JoinQueue(Top.thr))>>)
    BY <2>2, QueueFrameIs, OneIsQuiet DEF MutexSleep
  <2> QED BY <1>11, <2>3, QuietStep DEF OSDetachThread
<1> QED BY <1>1, <1>2, <1>3, <1>4, <1>5, <1>6, <1>7, <1>8, <1>9, <1>10, <1>11
    DEF LifecycleStep

\* Guest code sleeps on wait queues of its own, never on that of a mutex.
LEMMA GuestQuiet ==
  ASSUME HandlersDontBlock, IInv, SleepsOwned, GuestStep
  PROVE  NoSleepToCome'
<1>1. ASSUME NEW f \in GuestCalls
      PROVE  f \in GoodFrame /\ ~MutexSleep(f)
  <2>1. CASE f \in {FQ(o, q) : o \in {"sleep", "wake"}, q \in WaitQueues}
    <3>1. PICK o \in {"sleep", "wake"}, q \in WaitQueues : f = FQ(o, q)
      BY <2>1
    <3>2. q \in WaitQueue /\ q \notin Mutexes
      BY ConstantsAssumption DEF WaitQueue, Queues
    <3> QED BY <3>1, <3>2, QueueFrameIs DEF MutexSleep, FQ
  <2>2. CASE f \in {FQ(o, m) : o \in {"lock", "unlock"}, m \in Mutexes}
    BY <2>2, MutexFrameIs DEF MutexSleep
  <2>3. CASE f \in {FT(o, u) : o \in {"suspend", "resume"}, u \in Threads}
             \/ f \in {FT(o, u) : o \in {"cancel", "join", "detach"}, u \in Threads \ {Main}}
    BY <2>3, ThreadFrameIs DEF MutexSleep
  <2>4. CASE f = F("sleepTicks")
    BY <2>4, PlainFrameIs DEF MutexSleep
  <2> QED BY <2>1, <2>2, <2>3, <2>4 DEF GuestCalls
<1>2. CASE GuestCallsOS
  <2>1. stack[host] = <<>>
    BY <1>2 DEF GuestCallsOS, InGuestCode
  <2>2. Quiet(<<F("exit")>>) /\ Quiet(SelectCall("yield"))
    BY PlainFrameIs, OneIsQuiet, SelectCallQuiet DEF MutexSleep
  <2>3. \A f \in GuestCalls : Quiet(<<f>>)
    BY <1>1, OneIsQuiet
  <2> QED BY <1>2, <2>1, <2>2, <2>3, QuietPush DEF GuestCallsOS
<1>3. CASE GuestReturnsFromEntry
  <2>1. stack[host] = <<>>
    BY <1>3 DEF GuestReturnsFromEntry, InGuestCode
  <2>2. JoinQueue(host) \in WaitQueue
    BY Basics, ConstantsAssumption DEF JoinQueue, WaitQueue, Queues
  <2>3. Quiet(<<FQ("drainjoin", JoinQueue(host)), F("finish")>>)
    BY <2>2, QueueFrameIs, PlainFrameIs, TwoAreQuiet DEF MutexSleep
  <2> QED BY <1>3, <2>1, <2>3, QuietPush DEF GuestReturnsFromEntry, ReturnFromEntry
<1>4. CASE AlarmHandlerCalled
  <2>1. stack[host] = <<>> \/ Top.op \notin {"promote", "sleep"}
    BY <1>4, TopFrame DEF AlarmHandlerCalled, InGuestCode
  <2>2. PICK f \in GuestCalls : Push(<<f, F("enable")>>)
    BY <1>4 DEF AlarmHandlerCalled
  <2>3. Quiet(<<f, F("enable")>>)
    BY <1>1, PlainFrameIs, TwoAreQuiet DEF MutexSleep
  <2> QED BY <2>1, <2>2, <2>3, QuietPush
<1>5. CASE GuestCreatesThread
  <2>1. PICK u \in Threads, p \in Priorities,
               d \in {FALSE, "detach" \in Calls} : OSCreateThread(u, p, d)
    BY <1>5 DEF GuestCreatesThread
  <2>2. stack[host] = <<>> /\ stack' = [stack EXCEPT ![u] = <<>>]
    BY <1>5, <2>1 DEF GuestCreatesThread, InGuestCode, OSCreateThread
  <2>3. stack \in [Threads -> Seq(GoodFrame)] /\ host \in Threads
    BY Basics DEF FramesGood
  <2> SUFFICES ASSUME NEW t \in Threads, NEW i \in 1..Len(stack'[t])
               PROVE  ~MutexSleep(stack'[t][i])
    BY DEF NoSleepToCome
  <2>4. stack'[t] = stack[t]
    BY <2>2, <2>3
  <2>5. t # host
    BY <2>2, <2>4
  <2> QED BY <2>2, <2>4, <2>5, SleepOnTop
<1> QED BY <1>2, <1>3, <1>4, <1>5 DEF GuestStep

\* Sleeps on mutexes stay owned in every step.
LEMMA SleepsStayOwned ==
  ASSUME HandlersDontBlock, IInv, SleepsOwned, [Next]_vars
  PROVE  SleepsOwned'
<1>1. CASE SchedulerStep \/ QueueStep \/ SuspendStep \/ TimerStep \/ LifecycleStep
           \/ GuestStep
  BY <1>1, SchedulerQuiet, QueueQuiet, SuspendQuiet, TimerQuiet, LifecycleQuiet,
     GuestQuiet, NoSleepIsOwned
<1>2. CASE AlarmHandlerReturns
  <2>1. Quiet(<<F("resched")>>)
    BY PlainFrameIs, OneIsQuiet DEF MutexSleep
  <2> QED BY <1>2, <2>1, QuietStep, NoSleepIsOwned DEF AlarmHandlerReturns
<1>3. CASE UNCHANGED vars
  BY <1>3 DEF SleepsOwned, MutexSleep, vars, osvars, mutexVars, cpuVars
<1> QED BY <1>1, <1>2, <1>3, MutexOwned DEF Next, HostStep

-----------------------------------------------------------------------------
(* Nobody is left waiting for a free mutex.                                *)

\* Threads that wait after the step waited before it, in the same queue.
NobodyStartsToWait ==
  \A t \in Threads : state'[t] = "waiting" => state[t] = "waiting" /\ queue'[t] = queue[t]

\* Who stands in the queue of a mutex waits in it.
LEMMA WaitsForMutex ==
  ASSUME IInv, NEW m \in Mutexes, NEW t \in Threads,
         state[t] = "waiting", queue[t] = m
  PROVE  link[m] # <<>>
<1>1. m \in Queues
  BY DEF Queues
<1>2. Member(link[m], t)
  BY <1>1, Basics DEF QueuesSound, LinkExact, InQueue
<1> QED BY <1>2 DEF Member

\* The queue of a mutex does not fill when nobody starts to wait.
LEMMA StaysEmpty ==
  ASSUME IInv, IInv', NobodyStartsToWait, NEW m \in Mutexes, link'[m] # <<>>
  PROVE  link[m] # <<>>
<1>1. m \in Queues /\ m \notin Priorities
  BY ConstantsAssumption DEF Queues
<1>2. PICK s : s = link'[m]
  OBVIOUS
<1>3. s \in Seq(Threads) /\ s # <<>>
  BY <1>1, <1>2 DEF IInv, TypeOK
<1>4. 1 \in 1..Len(s) /\ s[1] \in Threads
  BY <1>3, EmptySeq, ElementOfSeq, LenProperties
<1>5. PICK t \in Threads : Member(s, t)
  BY <1>4 DEF Member
<1>6. ((state'[t] = "ready" /\ suspend'[t] = 0) \/ state'[t] = "waiting") /\ queue'[t] = m
  BY <1>1, <1>2, <1>5 DEF IInv, QueuesSound, LinkExact, InQueue, Member
<1>7. state'[t] = "ready" /\ suspend'[t] = 0 => queue'[t] \in Priorities
  BY DEF IInv, QueuesSound, QueueFits, PrioritySound, Terminated
<1>8. state[t] = "waiting" /\ queue[t] = m
  BY <1>1, <1>6, <1>7 DEF NobodyStartsToWait
<1> QED BY <1>8, WaitsForMutex

\* A step that is no wake-up orphans nobody when it frees no mutex.
LEMMA NoneOrphaned ==
  ASSUME IInv, IInv', NoOrphanWaiters, ~At("wake"), ~At("woke"), NobodyStartsToWait,
         \A m \in Mutexes : owner[m] # NoThread => owner'[m] # NoThread
  PROVE  NoOrphanWaiters'
<1> SUFFICES ASSUME NEW m \in Mutexes, link'[m] # <<>>, owner'[m] = NoThread
             PROVE  FALSE
  BY DEF NoOrphanWaiters
<1>1. link[m] # <<>>
  BY StaysEmpty
<1> QED BY <1>1 DEF NoOrphanWaiters

\* A step that frees one mutex wakes those who wait for it next.
LEMMA FreedIsWoken ==
  ASSUME IInv, IInv', NoOrphanWaiters, ~At("wake"), ~At("woke"), NobodyStartsToWait,
         NEW m \in Mutexes, \A n \in Mutexes \ {m} : owner'[n] = owner[n],
         NEW fs \in Seq(GoodFrame), fs # <<>>, fs[1] = FQ("wake", m),
         Return(fs), host' = host, stack[host] # <<>>
  PROVE  NoOrphanWaiters'
<1>1. stack[host] \in Seq(GoodFrame)
  BY Basics DEF FramesGood
<1>2. PICK r : r = stack'[host']
  OBVIOUS
<1>3. r = fs \o Tail(stack[host])
  BY <1>2, Basics DEF Return, FramesGood
<1>4. 1 \in 1..Len(fs)
  BY EmptySeq, LenProperties
<1>5. r # <<>> /\ r[1] = fs[1] /\ r \in Seq(GoodFrame)
  BY <1>1, <1>3, <1>4, ReplaceHead, EmptySeq, LenProperties
<1>6. Head(r) = FQ("wake", m)
  BY <1>5
<1> SUFFICES ASSUME NEW n \in Mutexes, link'[n] # <<>>, owner'[n] = NoThread
             PROVE  n = m
  BY <1>2, <1>5, <1>6 DEF NoOrphanWaiters, At, Top, FQ
<1>7. link[n] # <<>>
  BY StaysEmpty
<1> QED BY <1>7 DEF NoOrphanWaiters

\* A dispatch puts nobody on a wait queue.
LEMMA DispatchStarts ==
  ASSUME NEW st, NEW qu, NEW ln, NEW mask, Dispatch(st, qu, ln, mask), IInv,
         st \in [Threads -> States], qu \in [Threads -> Queues \cup {NoQueue}],
         \A t \in Threads : st[t] = "waiting" => state[t] = "waiting" /\ qu[t] = queue[t]
  PROVE  NobodyStartsToWait /\ owner' = owner
  BY DEF Dispatch, NobodyStartsToWait, mutexVars

LEMMA SchedulerServes ==
  ASSUME IInv, IInv', NoOrphanWaiters, SchedulerStep
  PROVE  NoOrphanWaiters'
<1>1. ~At("wake") /\ ~At("woke")
  BY DEF SchedulerStep, SelectThreadReturns, SelectThreadPreempts, SelectThreadSwitches,
     SelectThreadIdles, IdlePolls, IdleEnds, RescheduleIfRequested, SelectFrame, At
<1>2. state \in [Threads -> States] /\ queue \in [Threads -> Queues \cup {NoQueue}]
      /\ prio \in [Threads -> Priorities \cup {32}]
  BY Basics DEF TypeOK, SuspendedWaitPriority
<1>3. NobodyStartsToWait /\ owner' = owner
  <2>1. CASE SelectThreadSwitches \/ IdleEnds
    BY <1>2, <2>1, DispatchStarts DEF SelectThreadSwitches, IdleEnds
  <2>2. CASE SelectThreadPreempts
    <3>1. running \in Threads /\ prio[running] \in Queues
      BY <2>2, PreemptRuns
    <3>2. /\ [state EXCEPT ![running] = "ready"] \in [Threads -> States]
          /\ [queue EXCEPT ![running] = prio[running]] \in [Threads -> Queues \cup {NoQueue}]
      BY <1>2, <3>1 DEF States
    <3>3. \A t \in Threads : [state EXCEPT ![running] = "ready"][t] = "waiting" =>
            /\ state[t] = "waiting"
            /\ [queue EXCEPT ![running] = prio[running]][t] = queue[t]
      BY <1>2, <3>1
    <3> QED BY <2>2, <3>2, <3>3, DispatchStarts DEF SelectThreadPreempts
  <2>3. CASE SelectThreadReturns \/ SelectThreadIdles \/ IdlePolls \/ RescheduleIfRequested
    BY <2>3 DEF SelectThreadReturns, SelectThreadIdles, IdlePolls, RescheduleIfRequested,
       NobodyStartsToWait, osvars, mutexVars, queueVars
  <2> QED BY <2>1, <2>2, <2>3 DEF SchedulerStep
<1> QED BY <1>1, <1>3, NoneOrphaned

\* Taking the head off a wait queue makes nobody wait.
LEMMA WakeHeadStarts ==
  ASSUME IInv, NEW q \in WaitQueue, NEW c, link[q] # <<>>, WakeHead(q, c)
  PROVE  NobodyStartsToWait
<1> PICK t : t = Head(link[q])
  OBVIOUS
<1>1. t \in Threads
  <2>1. link[q] \in Seq(Threads)
    BY Basics DEF TypeOK, WaitQueue
  <2> QED BY <2>1, EmptySeq, ElementOfSeq
<1>2. state \in [Threads -> States] /\ queue \in [Threads -> Queues \cup {NoQueue}]
  BY Basics DEF TypeOK
<1>3. CASE Terminated(t)
  BY <1>1, <1>2, <1>3 DEF WakeHead, NobodyStartsToWait, Terminated
<1>4. CASE ~Terminated(t) /\ Runnable(t)
  BY <1>1, <1>2, <1>4 DEF WakeHead, NobodyStartsToWait
<1>5. CASE ~Terminated(t) /\ ~Runnable(t)
  BY <1>1, <1>2, <1>5 DEF WakeHead, NobodyStartsToWait
<1> QED BY <1>3, <1>4, <1>5

\* A wake-up goes on with the same queue until it is empty.
LEMMA WakeupServes ==
  ASSUME IInv, IInv', NoOrphanWaiters, WakeupThreadQueue
  PROVE  NoOrphanWaiters'
<1>1. PICK o \in {"wake", "woke"} : At(o)
  BY DEF WakeupThreadQueue
<1>2. stack[host] # <<>> /\ Top.que \in WaitQueue /\ Top.op \in {"wake", "woke"}
      /\ stack[host] \in Seq(GoodFrame)
  BY <1>1, TopFrame, Basics DEF GoodFrame, FramesGood
<1>3. PICK p \in {"wake", "woke"} : Return(<<FQ(p, Top.que)>>)
  BY <1>2 DEF WakeupThreadQueue
<1>4. PICK f, fs : f = FQ(p, Top.que) /\ fs = <<f>>
  OBVIOUS
<1>5. f \in GoodFrame /\ fs \in Seq(GoodFrame) /\ Len(fs) = 1 /\ fs[1] = f
  BY <1>2, <1>4, QueueFrameIs
<1>6. PICK r : r = stack'[host']
  OBVIOUS
<1>7. r = fs \o Tail(stack[host])
  BY <1>3, <1>4, <1>6, Basics DEF Return, FramesGood, WakeupThreadQueue, cpuVars
<1>8. r # <<>> /\ r[1] = f
  <2>1. 1 \in 1..Len(fs)
    BY <1>5
  <2>2. /\ r \in Seq(GoodFrame) /\ Len(stack[host]) \in Nat \ {0}
        /\ Len(r) = Len(fs) + Len(stack[host]) - 1
        /\ \A j \in 1..Len(fs) : r[j] = fs[j]
    BY <1>2, <1>5, <1>7, ReplaceHead
  <2>3. Len(r) # 0
    BY <1>5, <2>2
  <2> QED BY <1>5, <2>1, <2>2, <2>3
<1>9. Head(r) = f /\ f.op \in {"wake", "woke"} /\ f.que = Top.que
  BY <1>4, <1>8 DEF FQ
<1>10. NobodyStartsToWait /\ owner' = owner
  BY <1>2, WakeHeadStarts DEF WakeupThreadQueue, mutexVars
<1> SUFFICES ASSUME NEW m \in Mutexes, link'[m] # <<>>, owner'[m] = NoThread
             PROVE  m = Top.que
  BY <1>6, <1>8, <1>9 DEF NoOrphanWaiters, At, Top
<1>11. link[m] # <<>>
  BY <1>10, StaysEmpty
<1> QED BY <1>10, <1>11 DEF NoOrphanWaiters

\* It ends when the queue is empty.
LEMMA WakeupEndServes ==
  ASSUME IInv, NoOrphanWaiters, WakeupThreadQueueEnds
  PROVE  NoOrphanWaiters'
<1>1. link' = link /\ owner' = owner /\ link[Top.que] = <<>>
  BY DEF WakeupThreadQueueEnds, osvars, queueVars, mutexVars
<1> QED BY <1>1 DEF NoOrphanWaiters

\* A thread that goes to sleep on a mutex found an owner.
LEMMA SleepServes ==
  ASSUME IInv, IInv', SleepsOwned, NoOrphanWaiters, OSSleepThread
  PROVE  NoOrphanWaiters'
<1>1. At("sleep") /\ stack[host] # <<>> /\ Top.op = "sleep" /\ Top.que \in WaitQueue
      /\ Top = stack[host][1] /\ Len(stack[host]) \in Nat \ {0} /\ host \in Threads
  BY TopFrame, TopIs, Basics DEF OSSleepThread, GoodFrame
<1>2. ~At("wake") /\ ~At("woke")
  BY <1>1 DEF At
<1>3. owner' = owner
  BY DEF OSSleepThread, osvars, mutexVars
<1>4. Top.que \in Mutexes => owner[Top.que] # NoThread
  <2>1. 1 \in 1..Len(stack[host])
    BY <1>1
  <2> QED BY <1>1, <2>1 DEF SleepsOwned, MutexSleep
<1>5. \A m \in Mutexes \ {Top.que} : link'[m] = link[m]
  <2>1. Mutexes \subseteq Queues
    BY DEF Queues
  <2> QED BY <1>1, <2>1, Basics DEF OSSleepThread, osvars, queueVars, TypeOK, Queues
<1> QED BY <1>2, <1>3, <1>4, <1>5 DEF NoOrphanWaiters

LEMMA QueueServes ==
  ASSUME IInv, IInv', SleepsOwned, NoOrphanWaiters, QueueStep
  PROVE  NoOrphanWaiters'
<1>1. CASE OSSleepThreadReturns
  <2>1. ~At("wake") /\ ~At("woke")
    BY <1>1 DEF OSSleepThreadReturns, At
  <2>2. NobodyStartsToWait /\ owner' = owner
    BY <1>1, Basics DEF OSSleepThreadReturns, NobodyStartsToWait, TypeOK, mutexVars
  <2> QED BY <2>1, <2>2, NoneOrphaned
<1> QED BY <1>1, WakeupServes, WakeupEndServes, SleepServes DEF QueueStep

\* A change of priority makes nobody wait.
LEMMA SetPriorityStarts ==
  ASSUME IInv, NEW u \in Threads, NEW p, SetPriority(u, p), state' = state
  PROVE  NobodyStartsToWait
<1>1. queue \in [Threads -> Queues \cup {NoQueue}]
  BY Basics DEF TypeOK
<1>2. CASE state[u] = "ready"
  BY <1>1, <1>2 DEF SetPriority, NobodyStartsToWait
<1>3. CASE state[u] = "running"
  BY <1>3 DEF SetPriority, NobodyStartsToWait, queueVars
<1>4. CASE state[u] = "waiting"
  BY <1>4 DEF SetPriority, NobodyStartsToWait
<1>5. CASE state[u] \notin {"ready", "running", "waiting"}
  BY <1>5 DEF SetPriority, NobodyStartsToWait, queueVars
<1> QED BY <1>2, <1>3, <1>4, <1>5

LEMMA MutexServes ==
  ASSUME IInv, IInv', NoOrphanWaiters, MutexStep
  PROVE  NoOrphanWaiters'
<1>1. ~At("wake") /\ ~At("woke")
  BY DEF MutexStep, OSLockMutexTakes, OSLockMutexBlocks, OSUnlockMutexKeeps,
     OSUnlockMutexReleases, PromoteThreadPriority, PropagateMutexOwnerPriority, At
<1>2. CASE OSLockMutexTakes \/ OSLockMutexBlocks \/ OSUnlockMutexKeeps
  <2>1. NobodyStartsToWait
    BY <1>2 DEF OSLockMutexTakes, OSLockMutexBlocks, OSUnlockMutexKeeps,
       NobodyStartsToWait, queueVars
  <2>2. \A m \in Mutexes : owner[m] # NoThread => owner'[m] # NoThread
    BY SMTT(30), <1>2, Basics, ConstantsAssumption
    DEF OSLockMutexTakes, OSLockMutexBlocks, OSUnlockMutexKeeps, TypeOK
  <2> QED BY <1>1, <2>1, <2>2, NoneOrphaned
<1>3. CASE OSUnlockMutexReleases
  <2>1. stack[host] # <<>> /\ Top.que \in Mutexes /\ At("unlock")
    BY <1>3, TopFrame DEF OSUnlockMutexReleases, GoodFrame
  <2>2. PICK m \in Mutexes : m = Top.que
    BY <2>1
  <2>3. m \in WaitQueue
    BY ConstantsAssumption DEF WaitQueue, Queues
  <2>4. PICK fs : fs = <<FQ("wake", m)>>
    OBVIOUS
  <2>5. fs \in Seq(GoodFrame) /\ fs # <<>> /\ fs[1] = FQ("wake", m)
    BY <2>3, <2>4, QueueFrameIs
  <2>6. Return(fs) /\ host' = host /\ NobodyStartsToWait
    BY <1>3, <2>2, <2>4 DEF OSUnlockMutexReleases, cpuVars, NobodyStartsToWait, queueVars
  <2>7. \A n \in Mutexes \ {m} : owner'[n] = owner[n]
    BY <1>3, <2>2, Basics DEF OSUnlockMutexReleases, TypeOK
  <2> QED BY <1>1, <2>1, <2>5, <2>6, <2>7, FreedIsWoken
<1>4. CASE PromoteThreadPriority \/ PropagateMutexOwnerPriority
  <2>1. PICK o \in {"promote", "propagate"} : At(o)
    BY <1>4 DEF PromoteThreadPriority, PropagateMutexOwnerPriority
  <2>2. Top.thr \in Threads \cup {NoThread}
    BY <2>1, TopFrame DEF GoodFrame, Frame
  <2>3. owner' = owner /\ state' = state
    BY <1>4 DEF PromoteThreadPriority, PropagateMutexOwnerPriority, mutexVars
  <2>4. NobodyStartsToWait
    <3>1. CASE UNCHANGED queueVars
      BY <2>3, <3>1 DEF NobodyStartsToWait, queueVars
    <3>2. CASE Top.thr \in Threads /\ \E p : SetPriority(Top.thr, p)
      BY <2>3, <3>2, SetPriorityStarts
    <3> QED BY <1>4, <2>2, <3>1, <3>2
        DEF PromoteThreadPriority, PropagateMutexOwnerPriority
  <2> QED BY <1>1, <2>3, <2>4, NoneOrphaned
<1> QED BY <1>2, <1>3, <1>4 DEF MutexStep

LEMMA SuspendServes ==
  ASSUME IInv, IInv', NoOrphanWaiters, SuspendStep
  PROVE  NoOrphanWaiters'
<1>1. PICK o \in {"suspend", "resume"} : At(o)
  BY DEF SuspendStep, OSSuspendThreadAgain, OSSuspendThread, OSResumeThreadCounts,
     OSResumeThread
<1>2. ~At("wake") /\ ~At("woke")
  BY <1>1 DEF At
<1>3. Top.thr \in Threads
  BY <1>1, TopFrame DEF GoodFrame
<1>4. PICK u \in Threads : u = Top.thr
  BY <1>3
<1>5. state \in [Threads -> States] /\ queue \in [Threads -> Queues \cup {NoQueue}]
  BY Basics DEF TypeOK
<1>6. owner' = owner
  BY DEF SuspendStep, OSSuspendThreadAgain, OSSuspendThread, OSResumeThreadCounts,
     OSResumeThread, mutexVars
<1>7. CASE OSSuspendThreadAgain \/ OSResumeThreadCounts
  <2>1. NobodyStartsToWait
    BY <1>7 DEF OSSuspendThreadAgain, OSResumeThreadCounts, NobodyStartsToWait, queueVars
  <2> QED BY <1>2, <1>6, <2>1, NoneOrphaned
<1>8. CASE OSSuspendThread
  <2>1. /\ state' = IF state[u] = "running" THEN [state EXCEPT ![u] = "ready"] ELSE state
        /\ queue' = IF state[u] = "ready" THEN [queue EXCEPT ![u] = NoQueue] ELSE queue
    BY <1>4, <1>8 DEF OSSuspendThread
  <2>2. NobodyStartsToWait
    BY <1>5, <2>1 DEF NobodyStartsToWait
  <2> QED BY <1>2, <1>6, <2>2, NoneOrphaned
<1>9. CASE OSResumeThread
  <2>1. \/ state' = state /\ queue' = queue
        \/ /\ state' = [state EXCEPT ![u] = "ready"]
           /\ \E p : queue' = [queue EXCEPT ![u] = p]
    <3>1. CASE state[u] \in {"ready", "running"}
      BY <1>4, <1>9, <3>1 DEF OSResumeThread
    <3>2. CASE state[u] = "waiting"
      BY <1>4, <1>9, <3>2 DEF OSResumeThread
    <3>3. CASE state[u] \notin {"ready", "running", "waiting"}
      BY <1>4, <1>9, <3>3 DEF OSResumeThread, queueVars
    <3> QED BY <3>1, <3>2, <3>3
  <2>2. NobodyStartsToWait
    BY <1>5, <2>1 DEF NobodyStartsToWait
  <2> QED BY <1>2, <1>6, <2>2, NoneOrphaned
<1> QED BY <1>7, <1>8, <1>9 DEF SuspendStep

LEMMA TimerServes ==
  ASSUME IInv, IInv', NoOrphanWaiters, TimerStep
  PROVE  NoOrphanWaiters'
<1>1. ~At("wake") /\ ~At("woke")
  BY DEF TimerStep, OSSleepTicks, OSSleepTicksReturns, CollectDueTimers, FireDueTimer,
     ReconcileParks, ReconcilerNotDue, HealLostSleeper, At
<1>2. owner' = owner
  BY DEF TimerStep, OSSleepTicks, OSSleepTicksReturns, CollectDueTimers, FireDueTimer,
     ReconcileParks, ReconcilerNotDue, HealLostSleeper, osvars, mutexVars
<1>3. CASE OSSleepTicksReturns
  <2>1. NobodyStartsToWait
    BY <1>3, Basics DEF OSSleepTicksReturns, NobodyStartsToWait, queueVars, TypeOK
  <2> QED BY <1>1, <1>2, <2>1, NoneOrphaned
<1>4. CASE ~OSSleepTicksReturns
  <2>1. NobodyStartsToWait
    BY <1>4 DEF TimerStep, OSSleepTicks, CollectDueTimers, FireDueTimer,
       ReconcileParks, ReconcilerNotDue, HealLostSleeper, osvars, queueVars,
       NobodyStartsToWait
  <2> QED BY <1>1, <1>2, <2>1, NoneOrphaned
<1> QED BY <1>3, <1>4

LEMMA LifecycleServes ==
  ASSUME IInv, IInv', NoOrphanWaiters, LifecycleStep
  PROVE  NoOrphanWaiters'
<1>1. ~At("wake") /\ ~At("woke")
  BY DEF LifecycleStep, OSExitThread, OSCancelThreadIgnored, OSCancelThread,
     UnlockAllThreadMutexes, UnlockAllThreadMutexesEnds, FinishTerminated,
     WakeGuestThreadsOnQueueNoSwitch, WakeGuestThreadsOnQueueNoSwitchEnds,
     OSJoinThreadSleeps, OSJoinThreadReaps, OSDetachThread, At
<1>2. state \in [Threads -> States] /\ queue \in [Threads -> Queues \cup {NoQueue}]
      /\ host \in Threads
  BY Basics DEF TypeOK
<1>3. CASE UnlockAllThreadMutexes
  <2>1. stack[host] # <<>> /\ Top \in GoodFrame /\ Top.thr \in Threads
    BY <1>3, TopFrame DEF UnlockAllThreadMutexes, GoodFrame
  <2>2. PICK m \in held[Top.thr] :
          owner' = [owner EXCEPT ![m] = NoThread] /\ Return(<<FQ("wake", m), Top>>)
    BY <1>3 DEF UnlockAllThreadMutexes
  <2>3. m \in Mutexes
    BY <2>1, <2>2, Basics DEF TypeOK
  <2>4. m \in WaitQueue
    BY <2>3, ConstantsAssumption DEF WaitQueue, Queues
  <2>5. PICK fs : fs = <<FQ("wake", m), Top>>
    OBVIOUS
  <2>6. FQ("wake", m) \in GoodFrame
    BY <2>4, QueueFrameIs
  <2>7. fs \in Seq(GoodFrame) /\ fs # <<>> /\ fs[1] = FQ("wake", m)
    BY <2>1, <2>5, <2>6
  <2>8. Return(fs) /\ host' = host /\ NobodyStartsToWait
    BY <1>3, <2>2, <2>5 DEF UnlockAllThreadMutexes, cpuVars, NobodyStartsToWait, queueVars
  <2>9. \A n \in Mutexes \ {m} : owner'[n] = owner[n]
    BY <2>2, Basics DEF TypeOK
  <2> QED BY <1>1, <2>1, <2>3, <2>7, <2>8, <2>9, FreedIsWoken
<1>4. CASE ~UnlockAllThreadMutexes
  <2>1. owner' = owner
    BY <1>4 DEF LifecycleStep, OSExitThread, OSCancelThreadIgnored, OSCancelThread,
     UnlockAllThreadMutexesEnds, FinishTerminated,
     WakeGuestThreadsOnQueueNoSwitch, WakeGuestThreadsOnQueueNoSwitchEnds,
     OSJoinThreadSleeps, OSJoinThreadReaps, OSDetachThread, osvars, mutexVars
  <2>2. CASE OSExitThread
    BY <1>1, <1>2, <2>1, <2>2, NoneOrphaned
    DEF OSExitThread, TerminateThreadCommon, NobodyStartsToWait, queueVars
  <2>3. CASE OSCancelThread
    <3>1. PICK u \in Threads : u = Top.thr
      BY <2>3, TopFrame DEF OSCancelThread, GoodFrame
    <3>2. /\ state' = [state EXCEPT ![u] = IF detached[u] THEN "dead" ELSE "moribund"]
          /\ queue' = IF Linked(u) THEN [queue EXCEPT ![u] = NoQueue] ELSE queue
      BY <2>3, <3>1 DEF OSCancelThread, TerminateThreadCommon
    <3>3. NobodyStartsToWait
      BY <1>2, <3>2 DEF NobodyStartsToWait
    <3> QED BY <1>1, <2>1, <3>3, NoneOrphaned
  <2>4. CASE WakeGuestThreadsOnQueueNoSwitch
    <3>1. Top.que \in WaitQueue
      BY <2>4, TopFrame DEF WakeGuestThreadsOnQueueNoSwitch, GoodFrame
    <3>2. NobodyStartsToWait
      BY <2>4, <3>1, WakeHeadStarts DEF WakeGuestThreadsOnQueueNoSwitch
    <3> QED BY <1>1, <2>1, <3>2, NoneOrphaned
  <2>5. CASE OSJoinThreadReaps \/ OSDetachThread
    <3>1. PICK o \in {"join", "joined", "detach"} : At(o)
      BY <2>5 DEF OSJoinThreadReaps, OSDetachThread
    <3>2. Top.thr \in Threads
      BY <3>1, TopFrame DEF GoodFrame
    <3>3. (state' = state \/ state' = [state EXCEPT ![Top.thr] = "dead"]) /\ queue' = queue
      BY <2>5 DEF OSJoinThreadReaps, OSDetachThread, queueVars
    <3>4. NobodyStartsToWait
      BY <1>2, <3>2, <3>3 DEF NobodyStartsToWait
    <3> QED BY <1>1, <2>1, <3>4, NoneOrphaned
  <2>6. CASE OSCancelThreadIgnored \/ UnlockAllThreadMutexesEnds \/ FinishTerminated
             \/ WakeGuestThreadsOnQueueNoSwitchEnds \/ OSJoinThreadSleeps
    <3>1. NobodyStartsToWait
      BY <2>6 DEF OSCancelThreadIgnored, UnlockAllThreadMutexesEnds, FinishTerminated,
         WakeGuestThreadsOnQueueNoSwitchEnds, OSJoinThreadSleeps, osvars, queueVars,
         NobodyStartsToWait
    <3> QED BY <1>1, <2>1, <3>1, NoneOrphaned
  <2> QED BY <1>4, <2>2, <2>3, <2>4, <2>5, <2>6 DEF LifecycleStep
<1> QED BY <1>3, <1>4

LEMMA GuestServes ==
  ASSUME IInv, IInv', NoOrphanWaiters, GuestStep
  PROVE  NoOrphanWaiters'
<1>1. ~At("wake") /\ ~At("woke")
  BY DEF GuestStep, GuestCallsOS, GuestCreatesThread, GuestReturnsFromEntry,
     AlarmHandlerCalled, InGuestCode, At
<1>2. CASE GuestCallsOS \/ AlarmHandlerCalled
  BY <1>1, <1>2, NoneOrphaned
  DEF GuestCallsOS, AlarmHandlerCalled, NobodyStartsToWait, osvars, queueVars, mutexVars
<1>3. CASE GuestCreatesThread
  <2>1. PICK u \in Threads, p \in Priorities,
               d \in {FALSE, "detach" \in Calls} : OSCreateThread(u, p, d)
    BY <1>3 DEF GuestCreatesThread
  <2> QED BY <1>1, <2>1, NoneOrphaned, Basics DEF OSCreateThread, NobodyStartsToWait, TypeOK
<1>4. CASE GuestReturnsFromEntry
  BY <1>1, <1>4, NoneOrphaned, Basics
  DEF GuestReturnsFromEntry, ReturnFromEntry, NobodyStartsToWait, queueVars, mutexVars,
      TypeOK
<1> QED BY <1>2, <1>3, <1>4 DEF GuestStep

\* Nobody is orphaned by any step.
LEMMA NextServes ==
  ASSUME HandlersDontBlock, IInv, SleepsOwned, NoOrphanWaiters, [Next]_vars
  PROVE  NoOrphanWaiters'
<1>1. IInv'
  BY NextStep
<1>2. CASE AlarmHandlerReturns
  <2>1. ~At("wake") /\ ~At("woke")
    BY <1>2 DEF AlarmHandlerReturns, At
  <2> QED BY <1>1, <1>2, <2>1, NoneOrphaned
      DEF AlarmHandlerReturns, NobodyStartsToWait, osvars, queueVars, mutexVars
<1>3. CASE UNCHANGED vars
  BY <1>3 DEF NoOrphanWaiters, At, Top, vars, osvars, queueVars, mutexVars, cpuVars
<1> QED BY <1>1, <1>2, <1>3, SchedulerServes, QueueServes, MutexServes, SuspendServes,
           TimerServes, LifecycleServes, GuestServes DEF Next, HostStep

-----------------------------------------------------------------------------
(* The theorems.                                                           *)

\* The invariant holds initially: nobody waits and no call is in progress.
LEMMA WaitInit ==
  ASSUME Init
  PROVE  WaitInv
<1>1. \A q \in Queues : Len(link[q]) = 0 /\ link[q] = <<>>
  BY DEF Init
<1>2. WaitQueuesSorted
  BY <1>1 DEF WaitQueuesSorted
<1>3. \A m \in Mutexes : link[m] = <<>>
  BY <1>1 DEF Queues
<1>4. NoOrphanWaiters
  BY <1>3 DEF NoOrphanWaiters
<1>5. \A t \in Threads : Len(stack[t]) = 0
  BY DEF Init
<1>6. SleepsOwned
  BY <1>5 DEF SleepsOwned
<1> QED BY <1>2, <1>4, <1>6 DEF WaitInv

LEMMA WaitInvariance ==
  ASSUME HandlersDontBlock
  PROVE  Spec => [](IInv /\ WaitInv)
<1>1. Init => IInv /\ WaitInv
  BY InitStep, WaitInit
<1>2. IInv /\ WaitInv /\ [Next]_vars => IInv' /\ WaitInv'
  BY NextStep, SortedNext, SleepsStayOwned, NextServes DEF WaitInv
<1> QED BY <1>1, <1>2, PTL DEF Spec

\* Those who wait are served: every wait queue is in the order of the priorities,
\* through each inheritance, loss of an inherited priority, suspension, resumption and
\* cancellation, so that its head is the most urgent; and nobody waits for a mutex that
\* is free, unless the call that freed it is just waking those who wait.
THEOREM WaitersAreServed ==
  ASSUME HandlersDontBlock
  PROVE  Spec => []WaitersServed
<1>1. WaitInv => WaitersServed
  BY DEF WaitInv, WaitersServed
<1> QED BY <1>1, WaitInvariance, PTL

\* A thread only falls asleep on a mutex that is owned: between its look at the owner and
\* its sleep nothing runs but the promotion of that owner, so that no unlock is missed.
THEOREM SleepsAreOwned ==
  ASSUME HandlersDontBlock
  PROVE  Spec => []SleepsOwned
<1>1. WaitInv => SleepsOwned
  BY DEF WaitInv
<1> QED BY <1>1, WaitInvariance, PTL
=============================================================================
