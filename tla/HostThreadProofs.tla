-------------------------- MODULE HostThreadProofs --------------------------
(***************************************************************************)
(* Four services around the host thread: the alarm queue, the task thread, *)
(* the guest fibers and the audio DMA.                                     *)
(*                                                                         *)
(* AlarmsInOrder, for any threads, urgencies, alarms, offsets and batch.   *)
(* The queue is kept sorted by fire time and without repetitions, so a     *)
(* new fire time written into an alarm cannot disturb its neighbours. The  *)
(* disable count is what the pump has put there, and a pump that has lost  *)
(* the host has put nothing there: so only a pump without a handler is     *)
(* ever switched out, whatever the handler before did to its thread.       *)
(*                                                                         *)
(* TasksInOrder, for every set of slots, every number of requests and      *)
(* every capacity of the token queue. The invariant counts tokens: those   *)
(* called, the one in hand and those in the inbox are 1 .. requests, in    *)
(* this order. So a slot is never twice in the inbox, and a request cannot *)
(* get at the slot in work.                                                *)
(*                                                                         *)
(* FibersKeepContexts, for all sets of threads and contexts. The invariant *)
(* of the contexts says whose each of them is: named by one entry of the   *)
(* table, listed once for the next reaper, or the scheduler's. That of the *)
(* registers says for each thread, wherever it was left, that the two      *)
(* saved copies agree where its switch may choose either; a thread leaves  *)
(* this account when it is switched out in the middle of an IOS callback   *)
(* or starts on the scratch file of one, and comes back when it dies.      *)
(*                                                                         *)
(* AudioExact, for any lengths of blocks, bounds and answers of the host.  *)
(* A look at the clock never takes time that has not passed, a boundary is *)
(* paid for when it is taken, and the block that plays is not older than   *)
(* any that was played. A prompt title has one block programmed behind it, *)
(* so a replay that takes one boundary at a time finds the next each time. *)
(***************************************************************************)
EXTENDS AlarmQueue, TaskThread, GuestFibers, AudioDma, SequenceTheorems,
        FiniteSetTheorems, WellFoundedInduction, TLAPS

AlarmAssumptions == ThreadsAssumption /\ AlarmsAssumption /\ NoFrameAssumption

-----------------------------------------------------------------------------
(* The queue: sequences without repetitions, in the order of a function.   *)

Linked(q, a) == \E i \in 1 .. Len(q) : q[i] = a
Once(q) == \A i, j \in 1 .. Len(q) : q[i] = q[j] => i = j
Sorted(q, f) == \A i, j \in 1 .. Len(q) : i <= j => f[q[i]] <= f[q[j]]

\* r is q with a at place k.
Placed(r, q, k, a) ==
  /\ r \in Seq(Alarms) /\ Len(r) = Len(q) + 1
  /\ \A j \in 1 .. Len(q) + 1 : r[j] = IF j < k THEN q[j] ELSE IF j = k THEN a ELSE q[j - 1]

\* r is q without what is at place k.
Without(r, q, k) ==
  /\ r \in Seq(Alarms) /\ Len(r) = Len(q) - 1
  /\ \A j \in 1 .. Len(q) - 1 : r[j] = IF j < k THEN q[j] ELSE q[j + 1]

\* A set of naturals that is not empty has a least element.
LEMMA LeastNatural ==
  ASSUME NEW T \in SUBSET Nat, T # {}
  PROVE  \E p \in T : \A r \in T : p <= r
<1>1. PICK x \in T : \A y \in T : ~(<<y, x>> \in OpToRel(<, Nat))
  BY NatLessThanWellFounded, WFMin
<1>2. \A y \in T : <<y, x>> \in OpToRel(<, Nat) <=> y < x
  BY DEF OpToRel
<1>3. x \in Nat /\ \A y \in T : y \in Nat /\ ~(y < x)
  BY <1>1, <1>2
<1> QED BY <1>3

\* What InsertAt does.
LEMMA InsertAtPlaces ==
  ASSUME NEW q \in Seq(Alarms), NEW k \in 1 .. Len(q) + 1, NEW a \in Alarms
  PROVE  Placed(InsertAt(q, k, a), q, k, a)
<1> DEFINE front == SubSeq(q, 1, k - 1)
           back == SubSeq(q, k, Len(q))
           front1 == front \o <<a>>
<1>0. Len(q) \in Nat /\ k \in Nat
  BY LenProperties
<1>1. /\ front \in Seq(Alarms) /\ Len(front) = k - 1
      /\ \A j \in 1 .. k - 1 : front[j] = q[j]
  BY <1>0, SubSeqProperties, SMTT(30)
<1>2. /\ back \in Seq(Alarms) /\ Len(back) = Len(q) - k + 1
      /\ \A j \in 1 .. Len(q) - k + 1 : back[j] = q[j + k - 1]
  BY <1>0, SubSeqProperties, SMTT(30)
<1>3. <<a>> \in Seq(Alarms) /\ Len(<<a>>) = 1 /\ <<a>>[1] = a
  OBVIOUS
<1>4. InsertAt(q, k, a) = front1 \o back
  BY DEF InsertAt
<1> HIDE DEF front, back
<1>5. /\ front1 \in Seq(Alarms) /\ Len(front1) = k
      /\ \A j \in 1 .. k : front1[j] = IF j < k THEN q[j] ELSE a
  BY <1>0, <1>1, <1>3, ConcatProperties
<1> HIDE DEF front1
<1>6. /\ front1 \o back \in Seq(Alarms) /\ Len(front1 \o back) = Len(front1) + Len(back)
      /\ \A j \in 1 .. Len(front1) + Len(back) :
           (front1 \o back)[j] = IF j <= Len(front1) THEN front1[j] ELSE back[j - Len(front1)]
  BY <1>2, <1>5, ConcatProperties
<1>7. ASSUME NEW j \in 1 .. Len(q) + 1
      PROVE  (front1 \o back)[j] = IF j < k THEN q[j] ELSE IF j = k THEN a ELSE q[j - 1]
  <2>1. CASE j <= k
    BY <2>1, <1>0, <1>2, <1>5, <1>6
  <2>2. CASE ~(j <= k)
    <3>1. (front1 \o back)[j] = back[j - k]
      BY <2>2, <1>0, <1>2, <1>5, <1>6
    <3>2. j - k \in 1 .. Len(q) - k + 1 /\ (j - k) + k - 1 = j - 1
      BY <2>2, <1>0
    <3>3. back[j - k] = q[(j - k) + k - 1]
      BY <3>2, <1>2
    <3> QED BY SMTT(30), <3>1, <3>2, <3>3, <2>2, <1>0
  <2> QED BY <2>1, <2>2
<1>8. Len(front1 \o back) = Len(q) + 1
  BY <1>0, <1>2, <1>5, <1>6
<1> QED BY <1>4, <1>6, <1>7, <1>8 DEF Placed

\* What RemoveAt does.
LEMMA RemoveAtTakes ==
  ASSUME NEW q \in Seq(Alarms), NEW k \in 1 .. Len(q)
  PROVE  Without(RemoveAt(q, k), q, k)
<1> DEFINE front == SubSeq(q, 1, k - 1)
           back == SubSeq(q, k + 1, Len(q))
<1>0. Len(q) \in Nat /\ k \in Nat
  BY LenProperties
<1>1. /\ front \in Seq(Alarms) /\ Len(front) = k - 1
      /\ \A j \in 1 .. k - 1 : front[j] = q[j]
  BY <1>0, SubSeqProperties, SMTT(30)
<1>2. /\ back \in Seq(Alarms) /\ Len(back) = Len(q) - k
      /\ \A j \in 1 .. Len(q) - k : back[j] = q[j + k]
  BY <1>0, SubSeqProperties, SMTT(30)
<1>3. RemoveAt(q, k) = front \o back
  BY DEF RemoveAt
<1> HIDE DEF front, back
<1>4. /\ front \o back \in Seq(Alarms) /\ Len(front \o back) = Len(front) + Len(back)
      /\ \A j \in 1 .. Len(front) + Len(back) :
           (front \o back)[j] = IF j <= Len(front) THEN front[j] ELSE back[j - Len(front)]
  BY <1>1, <1>2, ConcatProperties
<1>5. ASSUME NEW j \in 1 .. Len(q) - 1
      PROVE  (front \o back)[j] = IF j < k THEN q[j] ELSE q[j + 1]
  <2>1. CASE j < k
    BY <2>1, <1>0, <1>1, <1>2, <1>4
  <2>2. CASE ~(j < k)
    <3>1. (front \o back)[j] = back[j - (k - 1)]
      BY <2>2, <1>0, <1>1, <1>2, <1>4
    <3>2. j - (k - 1) \in 1 .. Len(q) - k /\ (j - (k - 1)) + k = j + 1
      BY <2>2, <1>0
    <3>3. back[j - (k - 1)] = q[(j - (k - 1)) + k]
      BY <3>2, <1>2
    <3> QED BY SMTT(30), <3>1, <3>2, <3>3, <2>2, <1>0
  <2> QED BY <2>1, <2>2
<1>6. Len(front \o back) = Len(q) - 1
  BY <1>0, <1>1, <1>2, <1>4
<1> QED BY <1>3, <1>4, <1>5, <1>6 DEF Without

\* A queue loses an element: the rest stays in order, and the element is gone.
LEMMA WithoutKeeps ==
  ASSUME NEW q \in Seq(Alarms), Once(q), NEW f \in [Alarms -> Nat], Sorted(q, f),
         NEW k \in 1 .. Len(q), NEW r, Without(r, q, k)
  PROVE  Once(r) /\ Sorted(r, f) /\ ~Linked(r, q[k])
<1> DEFINE from(j) == IF j < k THEN j ELSE j + 1
<1>0. /\ Len(q) \in Nat /\ Len(r) = Len(q) - 1
      /\ \A j \in 1 .. Len(q) - 1 : r[j] = IF j < k THEN q[j] ELSE q[j + 1]
  BY LenProperties DEF Without
<1>1. ASSUME NEW j \in 1 .. Len(r)
      PROVE  from(j) \in 1 .. Len(q) /\ from(j) # k /\ r[j] = q[from(j)]
  <2>1. j \in 1 .. Len(q) - 1
    BY <1>0
  <2>2. r[j] = IF j < k THEN q[j] ELSE q[j + 1]
    BY <1>0, <2>1
  <2>3. from(j) \in 1 .. Len(q) /\ from(j) # k
    BY <1>0, <2>1
  <2> QED BY <2>2, <2>3
<1>2. \A i, j \in 1 .. Len(r) : (from(i) = from(j) => i = j) /\ (i <= j => from(i) <= from(j))
  BY <1>0
<1> HIDE DEF from
<1>3. Once(r)
  <2> SUFFICES ASSUME NEW i \in 1 .. Len(r), NEW j \in 1 .. Len(r), r[i] = r[j]
               PROVE  i = j
    BY DEF Once
  <2>1. from(i) \in 1 .. Len(q) /\ from(j) \in 1 .. Len(q) /\ q[from(i)] = q[from(j)]
    BY <1>1
  <2>2. from(i) = from(j)
    BY <2>1 DEF Once
  <2> QED BY <1>2, <2>2
<1>4. Sorted(r, f)
  <2> SUFFICES ASSUME NEW i \in 1 .. Len(r), NEW j \in 1 .. Len(r), i <= j
               PROVE  f[r[i]] <= f[r[j]]
    BY DEF Sorted
  <2>1. from(i) \in 1 .. Len(q) /\ from(j) \in 1 .. Len(q) /\ from(i) <= from(j)
    BY <1>1, <1>2
  <2>2. f[q[from(i)]] <= f[q[from(j)]]
    BY <2>1 DEF Sorted
  <2> QED BY <1>1, <2>2
<1>5. ~Linked(r, q[k])
  BY <1>1 DEF Linked, Once
<1> QED BY <1>3, <1>4, <1>5

\* A queue gains an element between those that fire no later and those that do: it
\* stays in order, also when the fire time of the element is written down.
LEMMA PlacedKeeps ==
  ASSUME NEW q \in Seq(Alarms), Once(q), NEW f \in [Alarms -> Nat], Sorted(q, f),
         NEW a \in Alarms, ~Linked(q, a), NEW time \in Nat,
         NEW k \in 1 .. Len(q) + 1, NEW r, Placed(r, q, k, a),
         \A j \in 1 .. Len(q) : IF j < k THEN f[q[j]] <= time ELSE time <= f[q[j]]
  PROVE  Once(r) /\ Sorted(r, [f EXCEPT ![a] = time])
<1> DEFINE g == [f EXCEPT ![a] = time]
           from(j) == IF j < k THEN j ELSE j - 1
<1>0. /\ Len(q) \in Nat
      /\ \A j \in 1 .. Len(q) : q[j] \in Alarms /\ q[j] # a /\ f[q[j]] \in Nat
  BY LenProperties, ElementOfSeq DEF Linked
<1>1. g[a] = time /\ \A j \in 1 .. Len(q) : g[q[j]] = f[q[j]]
  BY <1>0
<1>2. /\ k \in 1 .. Len(r) /\ r[k] = a /\ Len(r) = Len(q) + 1
      /\ \A j \in 1 .. Len(r) : j # k => from(j) \in 1 .. Len(q) /\ r[j] = q[from(j)]
  BY SMTT(30), <1>0 DEF Placed
<1>3. \A i, j \in 1 .. Len(r) :
        i # k /\ j # k => (from(i) = from(j) => i = j) /\ (i <= j => from(i) <= from(j))
  BY <1>0, <1>2
<1>4. \A j \in 1 .. Len(r) : /\ j < k => f[q[from(j)]] <= time
                             /\ j > k => time <= f[q[from(j)]]
  <2> TAKE j \in 1 .. Len(r)
  <2>1. CASE j < k
    BY <2>1, <1>0, <1>2
  <2>2. CASE j > k
    <3>1. from(j) \in 1 .. Len(q) /\ ~(from(j) < k)
      BY <2>2, <1>0, <1>2
    <3> QED BY <2>2, <3>1
  <2> QED BY <2>1, <2>2, <1>0, <1>2
<1> HIDE DEF g, from
<1>5. Once(r)
  <2> SUFFICES ASSUME NEW i \in 1 .. Len(r), NEW j \in 1 .. Len(r), r[i] = r[j]
               PROVE  i = j
    BY DEF Once
  <2>1. CASE i # k /\ j # k
    BY <2>1, <1>2, <1>3 DEF Once
  <2>2. CASE i = k \/ j = k
    BY <2>2, <1>0, <1>2
  <2> QED BY <2>1, <2>2
<1>6. Sorted(r, g)
  <2> SUFFICES ASSUME NEW i \in 1 .. Len(r), NEW j \in 1 .. Len(r), i <= j
               PROVE  g[r[i]] <= g[r[j]]
    BY DEF Sorted
  <2>1. CASE i # k /\ j # k
    <3>1. from(i) \in 1 .. Len(q) /\ from(j) \in 1 .. Len(q) /\ from(i) <= from(j)
      BY <2>1, <1>2, <1>3
    <3>2. f[q[from(i)]] <= f[q[from(j)]]
      BY <3>1 DEF Sorted
    <3> QED BY <2>1, <3>1, <3>2, <1>1, <1>2
  <2>2. CASE i = k /\ j # k
    <3>1. j > k
      BY SMTT(30), <2>2, <1>0, <1>2
    <3> QED BY SMTT(30), <2>2, <3>1, <1>1, <1>2, <1>4
  <2>3. CASE i # k /\ j = k
    <3>1. i < k
      BY SMTT(30), <2>3, <1>0, <1>2
    <3> QED BY SMTT(30), <2>3, <3>1, <1>1, <1>2, <1>4
  <2>4. CASE i = k /\ j = k
    BY <2>4, <1>1, <1>2
  <2> QED BY <2>1, <2>2, <2>3, <2>4
<1> QED BY <1>5, <1>6 DEF g

-----------------------------------------------------------------------------
(* The operations on the queue.                                            *)

\* OSSetAlarm's place: behind the alarms that fire no later, before those that fire later.
LEMMA InsertedKeeps ==
  ASSUME NEW q \in Seq(Alarms), Once(q), fire \in [Alarms -> Nat], Sorted(q, fire),
         NEW a \in Alarms, ~Linked(q, a), NEW time \in Nat
  PROVE  /\ AlarmInserted(q, a, time) \in Seq(Alarms)
         /\ Once(AlarmInserted(q, a, time))
         /\ Sorted(AlarmInserted(q, a, time), [fire EXCEPT ![a] = time])
<1> DEFINE later == {i \in 1 .. Len(q) : fire[q[i]] > time}
           r == AlarmInserted(q, a, time)
<1>0. /\ Len(q) \in Nat
      /\ \A j \in 1 .. Len(q) : fire[q[j]] \in Nat
  BY LenProperties, ElementOfSeq
<1>1. PICK k \in 1 .. Len(q) + 1 :
        /\ Placed(r, q, k, a)
        /\ \A j \in 1 .. Len(q) : IF j < k THEN fire[q[j]] <= time ELSE time <= fire[q[j]]
  <2>1. CASE later = {}
    <3>1. r = Append(q, a)
      BY <2>1 DEF AlarmInserted
    <3>2. Placed(Append(q, a), q, Len(q) + 1, a)
      BY <1>0, AppendProperties DEF Placed
    <3>3. \A j \in 1 .. Len(q) : j < Len(q) + 1 /\ fire[q[j]] <= time
      BY <1>0, <2>1
    <3> QED BY <1>0, <3>1, <3>2, <3>3
  <2>2. CASE later # {}
    <3> DEFINE k == CHOOSE i \in later : \A j \in later : i <= j
    <3>1. \E i \in later : \A j \in later : i <= j
      <4>1. later \in SUBSET Nat
        BY <1>0
      <4> HIDE DEF later
      <4> QED BY <2>2, <4>1, LeastNatural
    <3>2. k \in later /\ \A j \in later : k <= j
      BY <3>1
    <3>3. r = InsertAt(q, k, a)
      BY <2>2 DEF AlarmInserted
    <3> HIDE DEF k
    <3>4. k \in 1 .. Len(q) + 1 /\ fire[q[k]] > time /\ k \in 1 .. Len(q)
      BY <1>0, <3>2
    <3>5. \A j \in 1 .. Len(q) : j < k => fire[q[j]] <= time
      BY <1>0, <3>2, <3>4
    <3>6. \A j \in 1 .. Len(q) : ~(j < k) => time <= fire[q[j]]
      BY <1>0, <3>4 DEF Sorted
    <3>7. Placed(r, q, k, a)
      BY <3>3, <3>4, InsertAtPlaces
    <3> QED BY <3>4, <3>5, <3>6, <3>7
  <2> QED BY <2>1, <2>2
<1> HIDE DEF r, later
<1>2. Once(r) /\ Sorted(r, [fire EXCEPT ![a] = time])
  BY <1>1, PlacedKeeps
<1> QED BY <1>1, <1>2 DEF r, Placed

\* Cancellation takes out one alarm.
LEMMA RemovedKeeps ==
  ASSUME NEW q \in Seq(Alarms), Once(q), fire \in [Alarms -> Nat], Sorted(q, fire),
         NEW a \in Alarms, Linked(q, a)
  PROVE  /\ AlarmRemoved(q, a) \in Seq(Alarms)
         /\ Once(AlarmRemoved(q, a)) /\ Sorted(AlarmRemoved(q, a), fire)
<1> DEFINE k == CHOOSE i \in 1 .. Len(q) : q[i] = a
<1>1. k \in 1 .. Len(q)
  BY DEF Linked
<1>2. AlarmRemoved(q, a) = RemoveAt(q, k)
  BY DEF AlarmRemoved
<1> HIDE DEF k
<1>3. Without(AlarmRemoved(q, a), q, k)
  BY <1>1, <1>2, RemoveAtTakes
<1> QED BY <1>1, <1>3, WithoutKeeps DEF Without

\* So does the dispatch, which takes the head.
LEMMA TailKeeps ==
  ASSUME NEW q \in Seq(Alarms), q # <<>>, Once(q), fire \in [Alarms -> Nat], Sorted(q, fire)
  PROVE  /\ Head(q) \in Alarms /\ Tail(q) \in Seq(Alarms)
         /\ Once(Tail(q)) /\ Sorted(Tail(q), fire) /\ ~Linked(Tail(q), Head(q))
<1>1. /\ Head(q) \in Alarms /\ Tail(q) \in Seq(Alarms) /\ Len(Tail(q)) = Len(q) - 1
      /\ \A i \in 1 .. Len(Tail(q)) : Tail(q)[i] = q[i + 1]
  BY HeadTailProperties
<1>2. Len(q) \in Nat \ {0} /\ Head(q) = q[1] /\ 1 \in 1 .. Len(q)
  BY EmptySeq
<1>3. Without(Tail(q), q, 1)
  BY <1>1, <1>2 DEF Without
<1> QED BY <1>1, <1>2, <1>3, WithoutKeeps

\* The fire time of a periodic alarm is a time.
LEMMA NextFireIsTime ==
  ASSUME now \in Nat, NEW start \in Nat, NEW p \in Nat
  PROVE  NextFire(start, p) \in Nat
<1>1. CASE p = 0 \/ start > now
  BY <1>1 DEF NextFire
<1>2. CASE p # 0 /\ ~(start > now)
  <2> DEFINE n == (now - start) \div p
  <2>1. n \in Int /\ n >= 0
    BY <1>2, SMTT(30)
  <2> HIDE DEF n
  <2>2. p * (n + 1) \in Nat
    BY <2>1, SMTT(30)
  <2>3. NextFire(start, p) = start + p * (n + 1)
    BY <1>2 DEF NextFire, n
  <2> QED BY <2>2, <2>3
<1> QED BY <1>1, <1>2

-----------------------------------------------------------------------------
(* The invariant.                                                          *)

\* The disable count is what the pump has put there: one for a host wait that pumps,
\* one for the handler that runs.
DisableCounted ==
  disabled = IF alarmFrame = NoFrame THEN 0
             ELSE (IF alarmFrame.deferred THEN 1 ELSE 0)
                  + (IF alarmFrame.handler # NoAlarm THEN 1 ELSE 0)

QueueInv ==
  /\ now \in Nat /\ now <= MaxTime
  /\ alarmQueue \in Seq(Alarms)
  /\ fire \in [Alarms -> Nat]
  /\ period \in [Alarms -> Offsets \cup {0}]
  /\ Once(alarmQueue) /\ Sorted(alarmQueue, fire)

PumpInv ==
  /\ alarmReady \subseteq AlarmThreads
  /\ alarmHost \in AlarmThreads \cup {NoThread}
  /\ alarmFrame \in AlarmFrames \cup {NoFrame}
  /\ DisableCounted /\ GuardCarriedBetween

AlarmInv == QueueInv /\ PumpInv

\* Everything that the pump and its caller can be.
LEMMA FrameFields ==
  ASSUME AlarmAssumptions, AlarmInv, alarmFrame # NoFrame
  PROVE  /\ alarmFrame \in AlarmFrames
         /\ alarmFrame.deferred \in BOOLEAN
         /\ alarmFrame.handler \in Alarms \cup {NoAlarm}
         /\ alarmFrame.left \in 0 .. AlarmBatch
         /\ alarmFrame.thread \in AlarmThreads \cup {NoThread, Gone}
         /\ alarmFrame.dying \in BOOLEAN
  BY DEF AlarmInv, PumpInv, AlarmFrames

\* The types; no alarm is linked twice.
LEMMA InvIsTyped ==
  ASSUME AlarmAssumptions, AlarmInv
  PROVE  AlarmTypeOK
<1>1. now \in 0 .. MaxTime
  BY DEF AlarmInv, QueueInv, AlarmAssumptions, AlarmsAssumption
<1>2. disabled \in 0 .. 2
  BY FrameFields DEF AlarmInv, PumpInv, DisableCounted
<1> QED BY <1>1, <1>2 DEF AlarmTypeOK, AlarmInv, QueueInv, PumpInv, Once

\* SelectThread gives the host to a thread or to the idle loop, and never takes it while
\* the scheduler is disabled.
LEMMA SelectsThread ==
  ASSUME AlarmInv, NEW R \in SUBSET AlarmThreads, NEW d, AlarmSelectThread(R, d)
  PROVE  /\ alarmHost' \in AlarmThreads \cup {NoThread}
         /\ d > 0 => alarmHost' = alarmHost
         /\ alarmHost = NoThread => alarmHost' = NoThread
  BY DEF AlarmSelectThread, Chosen, AlarmInv, PumpInv

LEMMA AlarmInitHolds ==
  ASSUME AlarmAssumptions, AlarmInit
  PROVE  AlarmInv
<1>1. QueueInv
  <2>1. <<>> \in Seq(Alarms) /\ Len(<<>>) = 0
    OBVIOUS
  <2> QED BY <2>1 DEF AlarmInit, QueueInv, Once, Sorted, AlarmAssumptions, AlarmsAssumption
<1>2. PumpInv
  BY DEF AlarmInit, PumpInv, DisableCounted, GuardCarriedBetween, Chosen
<1> QED BY <1>1, <1>2 DEF AlarmInv

-----------------------------------------------------------------------------
(* The steps.                                                              *)

\* Linking an alarm that is not linked keeps the queue in order.
LEMMA LinkKeeps ==
  ASSUME AlarmAssumptions, AlarmInv, now' = now,
         NEW q \in Seq(Alarms), Once(q), Sorted(q, fire),
         NEW a \in Alarms, ~Linked(q, a), NEW time \in Nat, NEW p \in Offsets \cup {0},
         LinkAlarm(q, a, time, p)
  PROVE  QueueInv'
<1>1. /\ alarmQueue' \in Seq(Alarms) /\ Once(alarmQueue')
      /\ Sorted(alarmQueue', [fire EXCEPT ![a] = time])
  BY InsertedKeeps DEF LinkAlarm, AlarmInv, QueueInv
<1>2. /\ fire' = [fire EXCEPT ![a] = time]
      /\ period' = [period EXCEPT ![a] = p]
  BY DEF LinkAlarm
<1>3. fire' \in [Alarms -> Nat] /\ period' \in [Alarms -> Offsets \cup {0}]
  BY <1>2 DEF AlarmInv, QueueInv
<1> QED BY <1>1, <1>2, <1>3 DEF AlarmInv, QueueInv

\* The calls of the guest on the queue.
LEMMA CallsKeep ==
  ASSUME AlarmAssumptions, AlarmInv,
         \/ \E a \in Alarms, d \in Offsets : OSSetAlarm(a, d)
         \/ \E a \in Alarms, p \in Offsets : OSSetPeriodicAlarm(a, p)
         \/ \E a \in Alarms : OSCancelAlarm(a)
  PROVE  AlarmInv'
<1>1. QueueInv'
  <2>0. /\ alarmQueue \in Seq(Alarms) /\ Once(alarmQueue) /\ Sorted(alarmQueue, fire)
        /\ now \in Nat /\ Offsets \subseteq Nat
    BY DEF AlarmInv, QueueInv, AlarmAssumptions, AlarmsAssumption
  <2>1. ASSUME NEW a \in Alarms, NEW d \in Offsets, OSSetAlarm(a, d) PROVE QueueInv'
    <3>1. ~Linked(alarmQueue, a) /\ now' = now /\ LinkAlarm(alarmQueue, a, now + d, 0)
      BY <2>1 DEF OSSetAlarm, Queued, Linked
    <3>2. now + d \in Nat
      BY <2>0
    <3> QED BY <2>0, <3>1, <3>2, LinkKeeps
  <2>2. ASSUME NEW a \in Alarms, NEW p \in Offsets, OSSetPeriodicAlarm(a, p) PROVE QueueInv'
    <3>1. ~Linked(alarmQueue, a) /\ now' = now /\ LinkAlarm(alarmQueue, a, NextFire(now, p), p)
      BY <2>2 DEF OSSetPeriodicAlarm, Queued, Linked
    <3>2. NextFire(now, p) \in Nat
      BY <2>0, NextFireIsTime
    <3> QED BY <2>0, <3>1, <3>2, LinkKeeps
  <2>3. ASSUME NEW a \in Alarms, OSCancelAlarm(a) PROVE QueueInv'
    <3>1. Linked(alarmQueue, a) /\ alarmQueue' = AlarmRemoved(alarmQueue, a)
      BY <2>3 DEF OSCancelAlarm, Queued, Linked
    <3>2. UNCHANGED <<now, fire, period>>
      BY <2>3 DEF OSCancelAlarm
    <3>3. /\ AlarmRemoved(alarmQueue, a) \in Seq(Alarms)
          /\ Once(AlarmRemoved(alarmQueue, a)) /\ Sorted(AlarmRemoved(alarmQueue, a), fire)
      BY <2>0, <3>1, RemovedKeeps DEF AlarmInv, QueueInv
    <3> QED BY <3>1, <3>2, <3>3 DEF AlarmInv, QueueInv
  <2> QED BY <2>1, <2>2, <2>3
<1>2. UNCHANGED <<alarmReady, alarmHost, alarmFrame, disabled>>
  BY DEF OSSetAlarm, OSSetPeriodicAlarm, OSCancelAlarm
<1>3. PumpInv'
  BY <1>2 DEF AlarmInv, PumpInv, DisableCounted, GuardCarriedBetween
<1> QED BY <1>1, <1>3 DEF AlarmInv

\* The steps that leave the queue alone.
LEMMA QueueUntouched ==
  ASSUME AlarmInv, UNCHANGED <<now, queueVars>>
  PROVE  QueueInv'
  BY DEF AlarmInv, QueueInv, queueVars

\* A thread gives up the host only when no pump of its own is on it.
LEMMA SleepKeeps ==
  ASSUME AlarmAssumptions, AlarmInv, NEW t \in AlarmThreads, AlarmThreadSleeps(t)
  PROVE  AlarmInv'
<1>1. QueueInv'
  BY QueueUntouched DEF AlarmThreadSleeps
<1>2. /\ alarmHost = t /\ alarmFrame' = alarmFrame /\ disabled' = disabled
      /\ alarmReady' \subseteq AlarmThreads
      /\ alarmFrame # NoFrame => alarmFrame.thread # t
      /\ alarmHost' \in AlarmThreads \cup {NoThread}
  BY DEF AlarmThreadSleeps, OnGuestStack, HoldsGuard, Chosen, AlarmInv, PumpInv
<1>3. DisableCounted'
  BY <1>2 DEF AlarmInv, PumpInv, DisableCounted
<1>4. GuardCarriedBetween'
  BY <1>2 DEF AlarmInv, PumpInv, GuardCarriedBetween
<1> QED BY <1>1, <1>2, <1>3, <1>4 DEF AlarmInv, PumpInv

\* The idle loop hands the host on only after its own pump.
LEMMA IdleEndsKeeps ==
  ASSUME AlarmAssumptions, AlarmInv, IdleEnds
  PROVE  AlarmInv'
<1>1. QueueInv'
  BY QueueUntouched DEF IdleEnds
<1>2. /\ alarmHost = NoThread
      /\ UNCHANGED <<alarmReady, alarmFrame, disabled>>
      /\ alarmFrame # NoFrame => alarmFrame.thread # NoThread
      /\ alarmHost' \in AlarmThreads
  BY DEF IdleEnds, HoldsGuard, Chosen, AlarmInv, PumpInv
<1>3. GuardCarriedBetween'
  BY <1>2 DEF AlarmInv, PumpInv, GuardCarriedBetween
<1>4. DisableCounted'
  BY <1>2 DEF AlarmInv, PumpInv, DisableCounted
<1> QED BY <1>1, <1>2, <1>3, <1>4 DEF AlarmInv, PumpInv

\* Whoever calls the scheduler in a handler has it disabled; else the call comes from no
\* pump at all.
LEMMA CallerCounts ==
  ASSUME AlarmAssumptions, AlarmInv,
         \/ CallsAlarms
         \/ alarmHost = NoThread /\ ~HoldsGuard(NoThread)
  PROVE  HoldsGuard(alarmHost) => disabled > 0
<1>1. ASSUME HoldsGuard(alarmHost) PROVE alarmFrame.handler # NoAlarm /\ alarmFrame # NoFrame
  BY <1>1 DEF CallsAlarms, InHandler, OnGuestStack, HoldsGuard
<1> QED BY <1>1, FrameFields DEF AlarmInv, PumpInv, DisableCounted

\* A call that leaves the pump as it is may only take the host from a thread whose pump it
\* is not.
LEMMA SchedulerCall ==
  ASSUME AlarmAssumptions, AlarmInv,
         \/ CallsAlarms
         \/ alarmHost = NoThread /\ ~HoldsGuard(NoThread),
         alarmReady' \in SUBSET AlarmThreads, AlarmSelectThread(alarmReady', disabled),
         UNCHANGED <<now, queueVars, alarmFrame, disabled>>
  PROVE  AlarmInv' /\ (HoldsGuard(alarmHost) => alarmHost' = alarmHost)
<1>1. QueueInv'
  BY QueueUntouched
<1>2. /\ alarmHost' \in AlarmThreads \cup {NoThread}
      /\ disabled > 0 => alarmHost' = alarmHost
      /\ alarmHost = NoThread => alarmHost' = NoThread
  BY SelectsThread
<1>3. HoldsGuard(alarmHost) => alarmHost' = alarmHost
  BY <1>2, CallerCounts
<1>4. DisableCounted'
  BY DEF AlarmInv, PumpInv, DisableCounted
<1>5. GuardCarriedBetween'
  BY <1>3 DEF AlarmInv, PumpInv, GuardCarriedBetween, HoldsGuard
<1> QED BY <1>1, <1>2, <1>3, <1>4, <1>5 DEF AlarmInv, PumpInv

LEMMA WakesKeep ==
  ASSUME AlarmAssumptions, AlarmInv, NEW t \in AlarmThreads,
         AlarmWakesThread(t) \/ AlarmSuspendsThread(t)
  PROVE  AlarmInv' /\ (HoldsGuard(alarmHost) => alarmHost' = alarmHost)
<1>1. /\ alarmReady' \in SUBSET AlarmThreads
      /\ AlarmSelectThread(alarmReady', disabled)
      /\ UNCHANGED <<now, queueVars, alarmFrame, disabled>>
      /\ \/ CallsAlarms
         \/ alarmHost = NoThread /\ ~HoldsGuard(NoThread)
  BY DEF AlarmWakesThread, AlarmSuspendsThread, AlarmInv, PumpInv
<1> QED BY <1>1, SchedulerCall

\* A pump that a cancelled thread takes along had lost the host: it had no handler and no
\* disable count. One that has the host goes on until its handler returns.
LEMMA CancelKeeps ==
  ASSUME AlarmAssumptions, AlarmInv, NEW t \in AlarmThreads, AlarmCancelsThread(t)
  PROVE  AlarmInv' /\ (HoldsGuard(alarmHost) => alarmHost' = alarmHost)
<1>1. /\ alarmReady' \in SUBSET AlarmThreads
      /\ AlarmSelectThread(alarmReady', disabled)
      /\ UNCHANGED <<now, queueVars, disabled>>
      /\ CallsAlarms
  BY DEF AlarmCancelsThread, AlarmInv, PumpInv
<1>2. CASE ~HoldsGuard(t)
  <2>1. alarmFrame' = alarmFrame
    BY <1>2 DEF AlarmCancelsThread
  <2> QED BY <1>1, <2>1, SchedulerCall
<1>3. CASE HoldsGuard(t)
  <2> DEFINE f == IF t = alarmHost THEN [alarmFrame EXCEPT !.dying = TRUE]
                  ELSE [alarmFrame EXCEPT !.thread = Gone]
  <2>1. alarmFrame' = f /\ alarmFrame \in AlarmFrames /\ NoFrame \notin AlarmFrames
    BY <1>3, FrameFields
    DEF AlarmCancelsThread, HoldsGuard, AlarmAssumptions, NoFrameAssumption
  <2>2. /\ f \in AlarmFrames
        /\ f.deferred = alarmFrame.deferred /\ f.handler = alarmFrame.handler
        /\ f.thread = IF t = alarmHost THEN alarmFrame.thread ELSE Gone
    BY <2>1 DEF AlarmFrames
  <2>3. QueueInv'
    BY <1>1, QueueUntouched
  <2>4. /\ alarmHost' \in AlarmThreads \cup {NoThread}
        /\ disabled > 0 => alarmHost' = alarmHost
        /\ alarmHost = NoThread => alarmHost' = NoThread
    BY <1>1, SelectsThread
  <2>5. HoldsGuard(alarmHost) => alarmHost' = alarmHost
    BY <1>1, <2>4, CallerCounts
  <2>6. alarmFrame' # NoFrame /\ alarmFrame # NoFrame
    BY <1>3, <2>1, <2>2 DEF HoldsGuard
  <2> HIDE DEF f
  <2>7. DisableCounted'
    BY <1>1, <2>1, <2>2, <2>6 DEF AlarmInv, PumpInv, DisableCounted
  <2>8. GuardCarriedBetween'
    <3>1. CASE t = alarmHost
      BY <1>3, <2>1, <2>2, <2>5, <3>1 DEF GuardCarriedBetween, HoldsGuard
    <3>2. CASE t # alarmHost
      <4>1. ~alarmFrame.deferred /\ alarmFrame.handler = NoAlarm
        BY <1>3, <3>2 DEF AlarmInv, PumpInv, GuardCarriedBetween, HoldsGuard
      <4> QED BY <2>1, <2>2, <3>2, <4>1
              DEF GuardCarriedBetween, AlarmAssumptions, ThreadsAssumption
    <3> QED BY <3>1, <3>2
  <2> QED BY <1>1, <2>1, <2>2, <2>3, <2>4, <2>5, <2>7, <2>8 DEF AlarmInv, PumpInv
<1> QED BY <1>2, <1>3

\* A pump begins on the host, under a count of its own if it is deferred.
LEMMA PumpBeginsKeeps ==
  ASSUME AlarmAssumptions, AlarmInv, NEW deferred \in BOOLEAN, AlarmPumpBegins(deferred)
  PROVE  AlarmInv'
<1>1. QueueInv'
  BY QueueUntouched DEF AlarmPumpBegins
<1> DEFINE pump == [thread |-> alarmHost, left |-> AlarmBatch, deferred |-> deferred,
                    handler |-> NoAlarm, dying |-> FALSE]
<1>2. /\ alarmFrame = NoFrame /\ alarmFrame' = pump
      /\ UNCHANGED <<alarmReady, alarmHost>>
      /\ disabled' = IF deferred THEN disabled + 1 ELSE disabled
  BY DEF AlarmPumpBegins
<1>3. pump \in AlarmFrames /\ pump # NoFrame
  <2>1. /\ alarmHost \in AlarmThreads \cup {NoThread, Gone}
        /\ AlarmBatch \in 0 .. AlarmBatch
        /\ NoAlarm \in Alarms \cup {NoAlarm}
        /\ FALSE \in BOOLEAN
    BY DEF AlarmInv, PumpInv, AlarmAssumptions, AlarmsAssumption
  <2>2. pump \in AlarmFrames
    BY <2>1, Zenon DEF AlarmFrames
  <2> QED BY <2>2 DEF AlarmAssumptions, NoFrameAssumption
<1>4. /\ pump.thread = alarmHost /\ pump.deferred = deferred /\ pump.handler = NoAlarm
  OBVIOUS
<1> HIDE DEF pump
<1>5. disabled = 0
  BY <1>2 DEF AlarmInv, PumpInv, DisableCounted
<1>6. DisableCounted'
  BY <1>2, <1>3, <1>4, <1>5 DEF DisableCounted
<1>7. GuardCarriedBetween'
  BY <1>2, <1>3, <1>4 DEF GuardCarriedBetween
<1> QED BY <1>1, <1>2, <1>3, <1>6, <1>7 DEF AlarmInv, PumpInv

\* The head is taken off before its handler, or put back where its next fire time belongs.
LEMMA HandlerBeginsKeeps ==
  ASSUME AlarmAssumptions, AlarmInv, HandlerBegins
  PROVE  AlarmInv'
<1> DEFINE a == Head(alarmQueue)
<1>0. /\ alarmQueue # <<>> /\ alarmFrame # NoFrame /\ alarmFrame.thread = alarmHost
      /\ alarmFrame.handler = NoAlarm /\ alarmFrame.left > 0
      /\ now' = now /\ disabled' = disabled + 1 /\ UNCHANGED <<alarmReady, alarmHost>>
      /\ alarmFrame' = [alarmFrame EXCEPT !.left = @ - 1, !.handler = a]
  BY DEF HandlerBegins, AlarmDue, AlarmPumping, HoldsGuard
<1>1. /\ a \in Alarms /\ Tail(alarmQueue) \in Seq(Alarms) /\ Once(Tail(alarmQueue))
      /\ Sorted(Tail(alarmQueue), fire) /\ ~Linked(Tail(alarmQueue), a)
  BY <1>0, TailKeeps DEF AlarmInv, QueueInv
<1>2. /\ fire[a] \in Nat /\ period[a] \in Offsets \cup {0} /\ now \in Nat
      /\ Offsets \subseteq Nat
  BY <1>1 DEF AlarmInv, QueueInv, AlarmAssumptions, AlarmsAssumption
<1>3. QueueInv'
  <2>1. CASE period[a] = 0
    <3>1. alarmQueue' = Tail(alarmQueue) /\ UNCHANGED <<fire, period>>
      BY <2>1 DEF HandlerBegins, AlarmDequeue
    <3> QED BY <1>0, <1>1, <3>1 DEF AlarmInv, QueueInv
  <2>2. CASE period[a] # 0
    <3>1. LinkAlarm(Tail(alarmQueue), a, NextFire(fire[a], period[a]), period[a])
      BY <2>2 DEF HandlerBegins, AlarmDequeue
    <3>2. NextFire(fire[a], period[a]) \in Nat
      <4> HIDE DEF a
      <4>1. \A p \in Offsets \cup {0} : p \in Nat
        BY <1>2
      <4> QED BY <1>2, <4>1, NextFireIsTime
    <3> HIDE DEF a
    <3> QED BY <1>0, <1>1, <1>2, <3>1, <3>2, LinkKeeps
  <2> QED BY <2>1, <2>2
<1> HIDE DEF a
<1>4. /\ alarmFrame' \in AlarmFrames /\ alarmFrame' # NoFrame
      /\ alarmFrame'.thread = alarmFrame.thread /\ alarmFrame'.deferred = alarmFrame.deferred
      /\ alarmFrame'.handler = a /\ a # NoAlarm
  <2>1. alarmFrame \in AlarmFrames /\ alarmFrame.left \in 0 .. AlarmBatch
    BY <1>0, FrameFields
  <2>2. alarmFrame.left - 1 \in 0 .. AlarmBatch
    BY <1>0, <2>1 DEF AlarmAssumptions, AlarmsAssumption
  <2> QED
    BY <1>0, <1>1, <2>1, <2>2 DEF AlarmFrames, AlarmAssumptions, AlarmsAssumption,
                                  NoFrameAssumption
<1>5. DisableCounted'
  BY <1>0, <1>4, FrameFields DEF AlarmInv, PumpInv, DisableCounted
<1>6. GuardCarriedBetween'
  BY <1>0, <1>4 DEF GuardCarriedBetween
<1> QED BY <1>0, <1>3, <1>4, <1>5, <1>6 DEF AlarmInv, PumpInv

\* Behind a handler the host may go, but not from a deferred pump.
LEMMA HandlerReturnsKeeps ==
  ASSUME AlarmAssumptions, AlarmInv, HandlerReturns
  PROVE  AlarmInv' /\ (alarmFrame.deferred => alarmHost' = alarmHost)
<1>1. QueueInv'
  BY QueueUntouched DEF HandlerReturns
<1>2. /\ alarmFrame # NoFrame /\ alarmFrame.thread = alarmHost /\ alarmFrame.handler # NoAlarm
      /\ alarmReady' = alarmReady /\ disabled' = disabled - 1
      /\ AlarmSelectThread(alarmReady, disabled')
  BY DEF HandlerReturns, InHandler, HoldsGuard
<1> DEFINE goes == alarmFrame.dying /\ disabled' = 0
           f == [alarmFrame EXCEPT !.handler = NoAlarm, !.thread = IF goes THEN Gone ELSE @]
<1>3. disabled' = IF alarmFrame.deferred THEN 1 ELSE 0
  BY <1>2, FrameFields DEF AlarmInv, PumpInv, DisableCounted
<1>4. alarmFrame' = f
  BY DEF HandlerReturns
<1>5. /\ f \in AlarmFrames /\ f # NoFrame
      /\ f.thread = IF goes THEN Gone ELSE alarmFrame.thread
      /\ f.deferred = alarmFrame.deferred /\ f.handler = NoAlarm
  <2> HIDE DEF goes
  <2> QED BY <1>2, FrameFields DEF AlarmFrames, AlarmAssumptions, NoFrameAssumption
<1> HIDE DEF f
<1>6. DisableCounted'
  BY <1>3, <1>4, <1>5 DEF DisableCounted
<1>7. /\ alarmHost' \in AlarmThreads \cup {NoThread}
      /\ disabled' > 0 => alarmHost' = alarmHost
      /\ alarmHost = NoThread => alarmHost' = NoThread
  BY <1>2, SelectsThread DEF AlarmInv, PumpInv
<1>8. alarmFrame.deferred => alarmHost' = alarmHost /\ ~goes
  BY <1>3, <1>7
<1>9. GuardCarriedBetween'
  <2>1. alarmFrame.deferred => alarmFrame'.thread = alarmHost'
    BY <1>2, <1>4, <1>5, <1>8
  <2>2. alarmFrame'.thread = NoThread => alarmHost' = NoThread
    BY <1>2, <1>4, <1>5, <1>7 DEF AlarmAssumptions, ThreadsAssumption
  <2>3. alarmFrame'.handler = NoAlarm /\ alarmFrame'.deferred = alarmFrame.deferred
    BY <1>4, <1>5
  <2> QED BY <2>1, <2>2, <2>3 DEF GuardCarriedBetween
<1>10. alarmReady' \subseteq AlarmThreads /\ alarmFrame' \in AlarmFrames
  BY <1>2, <1>4, <1>5 DEF AlarmInv, PumpInv
<1> QED BY <1>1, <1>6, <1>7, <1>8, <1>9, <1>10 DEF AlarmInv, PumpInv

\* The end of a pump gives back what it held.
LEMMA PumpEndsKeeps ==
  ASSUME AlarmAssumptions, AlarmInv, AlarmPumpEnds
  PROVE  AlarmInv' /\ alarmFrame' = NoFrame
<1>1. QueueInv'
  BY QueueUntouched DEF AlarmPumpEnds
<1>2. /\ alarmFrame # NoFrame /\ alarmFrame.handler = NoAlarm /\ alarmFrame' = NoFrame
      /\ alarmReady' \in SUBSET AlarmThreads
      /\ AlarmSelectThread(alarmReady', disabled)
      /\ disabled' = IF alarmFrame.deferred THEN disabled - 1 ELSE disabled
  BY DEF AlarmPumpEnds, AlarmPumping, HoldsGuard, ReleaseGuard
<1>3. disabled' = 0
  BY <1>2, FrameFields DEF AlarmInv, PumpInv, DisableCounted
<1>4. alarmHost' \in AlarmThreads \cup {NoThread}
  BY <1>2, SelectsThread
<1>5. DisableCounted' /\ GuardCarriedBetween'
  BY <1>2, <1>3 DEF DisableCounted, GuardCarriedBetween
<1> QED BY <1>1, <1>2, <1>4, <1>5 DEF AlarmInv, PumpInv

LEMMA AlarmNextKeeps ==
  ASSUME AlarmAssumptions, AlarmInv, [AlarmNext]_alarmVars
  PROVE  AlarmInv'
<1>1. ASSUME AlarmTick PROVE AlarmInv'
  <2>1. /\ now' = now + 1
        /\ UNCHANGED <<alarmQueue, fire, period, alarmReady, alarmHost, alarmFrame, disabled>>
    BY <1>1 DEF AlarmTick, queueVars
  <2>2. QueueInv'
    BY <1>1, <2>1 DEF AlarmInv, QueueInv, AlarmTick, AlarmAssumptions, AlarmsAssumption
  <2>3. PumpInv'
    BY <2>1 DEF AlarmInv, PumpInv, DisableCounted, GuardCarriedBetween
  <2> QED BY <2>2, <2>3 DEF AlarmInv
<1>2. ASSUME UNCHANGED alarmVars PROVE AlarmInv'
  <2>1. /\ UNCHANGED <<now, queueVars>>
        /\ UNCHANGED <<alarmReady, alarmHost, alarmFrame, disabled>>
    BY <1>2 DEF alarmVars
  <2>2. PumpInv'
    BY <2>1 DEF AlarmInv, PumpInv, DisableCounted, GuardCarriedBetween
  <2> QED BY <2>1, <2>2, QueueUntouched DEF AlarmInv
<1> QED
  BY <1>1, <1>2, CallsKeep, SleepKeeps, IdleEndsKeeps, WakesKeep, CancelKeeps, PumpBeginsKeeps,
     HandlerBeginsKeeps, HandlerReturnsKeeps, PumpEndsKeeps DEF AlarmNext

\* A deferred pump keeps the host until it ends.
LEMMA StepKeepsHost ==
  ASSUME AlarmAssumptions, AlarmInv, [AlarmNext]_alarmVars,
         alarmFrame # NoFrame, alarmFrame.deferred, alarmFrame.thread = alarmHost,
         alarmFrame' # NoFrame
  PROVE  alarmHost' = alarmHost
<1>1. ASSUME NEW t \in AlarmThreads, AlarmThreadSleeps(t) PROVE FALSE
  BY <1>1 DEF AlarmThreadSleeps, OnGuestStack, HoldsGuard
<1>2. ASSUME IdleEnds PROVE FALSE
  BY <1>2 DEF IdleEnds, HoldsGuard
<1>3. ASSUME NEW t \in AlarmThreads,
             AlarmWakesThread(t) \/ AlarmSuspendsThread(t) \/ AlarmCancelsThread(t)
      PROVE  alarmHost' = alarmHost
  <2>1. HoldsGuard(alarmHost)
    BY DEF HoldsGuard
  <2> QED BY <1>3, <2>1, WakesKeep, CancelKeeps
<1>4. ASSUME HandlerReturns PROVE alarmHost' = alarmHost
  BY <1>4, HandlerReturnsKeeps
<1>5. ASSUME AlarmPumpEnds PROVE FALSE
  BY <1>5, PumpEndsKeeps
<1>6. ASSUME \/ \E a \in Alarms, d \in Offsets : OSSetAlarm(a, d)
             \/ \E a \in Alarms, p \in Offsets : OSSetPeriodicAlarm(a, p)
             \/ \E a \in Alarms : OSCancelAlarm(a)
             \/ \E deferred \in BOOLEAN : AlarmPumpBegins(deferred)
             \/ HandlerBegins \/ AlarmTick \/ UNCHANGED alarmVars
      PROVE  alarmHost' = alarmHost
  BY <1>6 DEF OSSetAlarm, OSSetPeriodicAlarm, OSCancelAlarm, AlarmPumpBegins, HandlerBegins, AlarmTick, alarmVars
<1> QED BY <1>1, <1>2, <1>3, <1>4, <1>5, <1>6 DEF AlarmNext

-----------------------------------------------------------------------------
(* The theorem.                                                            *)

\* What the invariant says of a state and of a step.
LEMMA InvImplies ==
  ASSUME AlarmAssumptions, AlarmInv
  PROVE  /\ DisabledByPump /\ GuardCarriedBetween
         /\ \A i \in 1 .. Len(alarmQueue) : fire[Head(alarmQueue)] <= fire[alarmQueue[i]]
<1>1. DisabledByPump
  BY FrameFields DEF AlarmInv, PumpInv, DisableCounted, GuardCarriedBetween, DisabledByPump,
                     AlarmPumping, HoldsGuard
<1>2. ASSUME NEW i \in 1 .. Len(alarmQueue)
      PROVE  fire[Head(alarmQueue)] <= fire[alarmQueue[i]]
  <2>1. Head(alarmQueue) = alarmQueue[1] /\ 1 \in 1 .. Len(alarmQueue) /\ 1 <= i
    BY <1>2, EmptySeq, LenProperties DEF AlarmInv, QueueInv
  <2> QED BY <2>1 DEF AlarmInv, QueueInv, Sorted
<1> QED BY <1>1, <1>2 DEF AlarmInv, PumpInv

\* Every variable of the alarm queue keeps its type, and no alarm is ever linked twice.
THEOREM AlarmsAreTyped ==
  ASSUME AlarmAssumptions
  PROVE  AlarmSpec => []AlarmTypeOK
<1>1. AlarmInit => AlarmInv
  BY AlarmInitHolds
<1>2. AlarmInv /\ [AlarmNext]_alarmVars => AlarmInv'
  BY AlarmNextKeeps
<1>3. AlarmInv => AlarmTypeOK
  BY InvIsTyped
<1> QED BY <1>1, <1>2, <1>3, PTL DEF AlarmSpec

\* For any threads and urgencies, any alarms and offsets and any batch, and whichever
\* threads are woken, suspended or cancelled by the others and by handlers: a guard is
\* carried away from the host only between two handlers of a thread's own pump, only the
\* pump that has the host disables the scheduler, a deferred pump keeps the host, and alarms
\* are dispatched in the order of their fire times (os_alarm.cpp:146-232, 268-353).
THEOREM AlarmsAreInOrder ==
  ASSUME AlarmAssumptions
  PROVE  AlarmSpec => AlarmsInOrder
<1>1. AlarmInit => AlarmInv
  BY AlarmInitHolds
<1>2. AlarmInv /\ [AlarmNext]_alarmVars => AlarmInv'
  BY AlarmNextKeeps
<1>3. AlarmInv => GuardCarriedBetween /\ DisabledByPump
  BY InvImplies
<1>4. AlarmInv /\ [AlarmNext]_alarmVars =>
        [/\ alarmFrame # NoFrame /\ alarmFrame.deferred /\ alarmFrame.thread = alarmHost
         /\ alarmFrame' # NoFrame
         => alarmHost' = alarmHost]_alarmVars
  BY StepKeepsHost
<1>5. AlarmInv /\ [AlarmNext]_alarmVars =>
        [HandlerBegins =>
           \A i \in 1 .. Len(alarmQueue) : fire[Head(alarmQueue)] <= fire[alarmQueue[i]]]_alarmVars
  BY InvImplies
<1>6. AlarmSpec => []AlarmInv
  BY <1>1, <1>2, PTL DEF AlarmSpec
<1> QED BY <1>3, <1>4, <1>5, <1>6, PTL DEF AlarmSpec, AlarmsInOrder, DeferredKeepsHost, EarliestFirst

-----------------------------------------------------------------------------
(* The task thread.                                                        *)

\* The jobs that have left the inbox: those called and the one about to be called.
Begun == Len(calledBack) + (IF pc = "callback" THEN 1 ELSE 0)

InWork == pc # "receive"

HandSound ==
  /\ InWork <=> current # NoJob
  /\ InWork => /\ hand = job[current]
               /\ hand.token = Begun

Numbered ==
  /\ requests = Begun + Len(inbox)
  /\ \A i \in 1 .. Len(inbox) : job[inbox[i]].token = Begun + i

TaskInv ==
  /\ TaskTypeOK
  /\ HandSound
  /\ Numbered
  /\ TasksInOrder

LEMMA TaskInitHolds == TaskAssumption /\ TaskInit => TaskInv
<1> SUFFICES ASSUME TaskAssumption, TaskInit PROVE TaskInv
  OBVIOUS
<1>1. Free \in Job /\ Free.token = 0
  BY DEF Free, Job, TaskAssumption
<1>2. TaskTypeOK
  <2>1. /\ <<>> \in Seq(JobSlots) /\ <<>> \in Seq(1 .. MaxJobs)
        /\ Len(<<>>) = 0
        /\ MaxJobs \in Nat /\ DoneSize \in Nat
    BY DEF TaskAssumption
  <2>2. job \in [JobSlots -> Job]
    BY <1>1 DEF TaskInit
  <2>3. requests \in 0 .. MaxJobs /\ done \in Seq(1 .. MaxJobs) /\ Len(done) <= DoneSize
    BY <2>1 DEF TaskInit
  <2>4. inbox \in Seq(JobSlots) /\ {calledBack, completions} \subseteq Seq(1 .. MaxJobs)
    BY <2>1 DEF TaskInit
  <2>5. /\ hand \in Job /\ current \in JobSlots \cup {NoJob}
        /\ pc \in {"receive", "callback", "complete", "report", "retire"}
        /\ {open, prepared, refused} \subseteq BOOLEAN
    BY <1>1 DEF TaskInit
  <2> QED BY <2>2, <2>3, <2>4, <2>5 DEF TaskTypeOK
<1>3. HandSound /\ Numbered
  BY DEF TaskInit, HandSound, InWork, Begun, Numbered
<1>4. TasksInOrder
  BY <1>1 DEF TaskAssumption, TaskInit, TasksInOrder, SlotTakenUntilRetired, CalledInOrder,
              CompletesWhatItCalled, NeverRefused
<1> QED BY <1>2, <1>3, <1>4 DEF TaskInv

\* The slot of a request is free, so it is neither in the inbox nor in work.
LEMMA RequestKeeps ==
  ASSUME TaskAssumption, TaskInv,
         NEW s \in JobSlots, NEW onDone \in BOOLEAN, NEW kind \in {"task", "prepare"},
         Request(s, onDone, kind)
  PROVE  TaskInv'
<1> USE DEF TaskInv
<1> DEFINE new == [token |-> requests + 1, onDone |-> onDone, kind |-> kind]
<1>1. /\ requests \in Nat /\ Len(inbox) \in Nat /\ Len(calledBack) \in Nat
      /\ \A i \in 1 .. Len(inbox) : inbox[i] \in JobSlots
  BY DEF TaskTypeOK, TaskAssumption
<1>2. /\ s # current
      /\ \A i \in 1 .. Len(inbox) : inbox[i] # s
  BY DEF Request, TasksInOrder, SlotTakenUntilRetired
<1>3. /\ Len(inbox') = Len(inbox) + 1
      /\ inbox'[Len(inbox) + 1] = s
      /\ \A i \in 1 .. Len(inbox) : inbox'[i] = inbox[i]
  BY <1>1 DEF Request, Sends, TaskTypeOK
<1>4. /\ job'[s] = new
      /\ \A t \in JobSlots \ {s} : job'[t] = job[t]
  BY DEF Request, TaskTypeOK
<1>5. TaskTypeOK'
  <2>1. job' \in [JobSlots -> Job] /\ requests' \in 0 .. MaxJobs
    BY <1>1 DEF Request, TaskTypeOK, Job, TaskAssumption
  <2>2. inbox' \in Seq(JobSlots)
    BY DEF Request, Sends, TaskTypeOK
  <2> QED BY <2>1, <2>2 DEF Request, TaskTypeOK, movie
<1>6. HandSound'
  BY <1>2, <1>4 DEF HandSound, InWork, Begun, Request, TaskTypeOK, TaskAssumption
<1>7. Numbered'
  <2>1. Begun' = Begun /\ Begun \in Nat
    BY <1>1 DEF Begun, Request
  <2>2. requests' = Begun + Len(inbox)'
    BY <1>1, <1>3, <2>1 DEF Numbered, Request
  <2>3. ASSUME NEW i \in 1 .. Len(inbox) PROVE job'[inbox'[i]].token = Begun + i
    BY <1>1, <1>2, <1>3, <1>4, <2>3 DEF Numbered
  <2>4. job'[inbox'[Len(inbox) + 1]].token = Begun + (Len(inbox) + 1)
    BY <1>1, <1>3, <1>4, <2>1 DEF Numbered
  <2>5. \A i \in 1 .. Len(inbox') : i \in 1 .. Len(inbox) \/ i = Len(inbox) + 1
    BY <1>1, <1>3
  <2> QED BY <2>1, <2>2, <2>3, <2>4, <2>5 DEF Numbered
<1>8. SlotTakenUntilRetired'
  <2> SUFFICES ASSUME NEW t \in JobSlots
               PROVE  job'[t].token # 0 <=> t = current' \/ \E i \in 1 .. Len(inbox') : inbox'[i] = t
    BY DEF SlotTakenUntilRetired
  <2>1. CASE t = s
    BY <1>1, <1>3, <1>4, <2>1
  <2>2. CASE t # s
    <3>1. (\E i \in 1 .. Len(inbox') : inbox'[i] = t) <=> \E i \in 1 .. Len(inbox) : inbox[i] = t
      BY <1>1, <1>3, <2>2
    <3> QED BY <1>4, <2>2, <3>1 DEF TasksInOrder, SlotTakenUntilRetired, Request
  <2> QED BY <2>1, <2>2
<1> QED
  BY <1>5, <1>6, <1>7, <1>8
     DEF TasksInOrder, CalledInOrder, CompletesWhatItCalled, NeverRefused, Request, movie

\* The titles' other calls leave jobs and worker alone.
LEMMA TitleKeeps ==
  ASSUME TaskAssumption, TaskInv, TakeToken \/ UnloadMovie
  PROVE  TaskInv'
<1> USE DEF TaskInv
<1>1. TaskTypeOK'
  <2>1. CASE TakeToken
    <3>1. Tail(done) \in Seq(1 .. MaxJobs) /\ Len(Tail(done)) <= DoneSize
      BY <2>1 DEF TakeToken, TaskTypeOK, TaskAssumption
    <3> QED BY <2>1, <3>1 DEF TakeToken, TaskTypeOK, movie
  <2>2. CASE UnloadMovie
    BY <2>2 DEF UnloadMovie, TaskTypeOK
  <2> QED BY <2>1, <2>2
<1>2. UNCHANGED <<job, inbox, pc, current, hand, requests, calledBack, completions, refused>>
  BY DEF TakeToken, UnloadMovie, movie
<1>3. HandSound' /\ Numbered'
  BY <1>2 DEF HandSound, InWork, Begun, Numbered
<1>4. TasksInOrder'
  BY <1>2 DEF TasksInOrder, SlotTakenUntilRetired, CalledInOrder, CompletesWhatItCalled,
              NeverRefused
<1> QED BY <1>1, <1>3, <1>4

\* The worker takes the job that is first in the inbox: its slot stays taken.
LEMMA ReceiveKeeps ==
  ASSUME TaskAssumption, TaskInv, Receive
  PROVE  TaskInv'
<1> USE DEF TaskInv
<1>1. /\ requests \in Nat /\ Len(calledBack) \in Nat /\ Len(inbox) \in Nat \ {0}
      /\ \A i \in 1 .. Len(inbox) : inbox[i] \in JobSlots
      /\ Head(inbox) = inbox[1]
  BY DEF TaskTypeOK, TaskAssumption, Receive
<1>2. /\ inbox' \in Seq(JobSlots)
      /\ Len(inbox') = Len(inbox) - 1
      /\ \A i \in 1 .. Len(inbox) - 1 : inbox'[i] = inbox[i + 1]
  BY DEF Receive, TaskTypeOK
<1>3. current = NoJob /\ current' \in JobSlots /\ job' = job
  BY <1>1 DEF Receive, Taken, HandSound, InWork
<1>4. TaskTypeOK'
  BY <1>1, <1>2, <1>3 DEF Receive, TaskTypeOK, movie
<1>5. Begun' = Begun + 1 /\ Begun = Len(calledBack) /\ calledBack' = calledBack
  BY <1>1 DEF Begun, Receive
<1>6. HandSound'
  BY <1>1, <1>3, <1>5 DEF HandSound, InWork, Numbered, Receive, TaskAssumption
<1>7. Numbered'
  BY <1>1, <1>2, <1>3, <1>5 DEF Numbered, Receive
<1>8. SlotTakenUntilRetired'
  <2> SUFFICES ASSUME NEW t \in JobSlots
               PROVE  job[t].token # 0 <=> t = inbox[1] \/ \E i \in 1 .. Len(inbox') : inbox'[i] = t
    BY <1>1, <1>3 DEF SlotTakenUntilRetired, Receive
  <2>1. (\E i \in 1 .. Len(inbox) : inbox[i] = t)
          <=> t = inbox[1] \/ \E i \in 1 .. Len(inbox') : inbox'[i] = t
    <3>1. ASSUME NEW i \in 1 .. Len(inbox), inbox[i] = t, t # inbox[1]
          PROVE  \E k \in 1 .. Len(inbox') : inbox'[k] = t
      <4>1. i - 1 \in 1 .. Len(inbox) - 1 /\ i = (i - 1) + 1
        BY <1>1, <3>1
      <4> QED BY <1>1, <1>2, <3>1, <4>1
    <3>2. ASSUME NEW k \in 1 .. Len(inbox'), inbox'[k] = t
          PROVE  \E i \in 1 .. Len(inbox) : inbox[i] = t
      BY <1>1, <1>2, <3>2
    <3>3. 1 \in 1 .. Len(inbox)
      BY <1>1
    <3> QED BY <3>1, <3>2, <3>3
  <2> QED BY <1>3, <2>1, TaskAssumption DEF TasksInOrder, SlotTakenUntilRetired, TaskAssumption
<1> QED
  BY <1>4, <1>6, <1>7, <1>8
     DEF TasksInOrder, CalledInOrder, CompletesWhatItCalled, NeverRefused, Receive, movie

\* The token in hand is the next in the order of requests.
LEMMA CallbackKeeps ==
  ASSUME TaskAssumption, TaskInv, Callback
  PROVE  TaskInv'
<1> USE DEF TaskInv
<1>1. /\ requests \in Nat /\ Len(calledBack) \in Nat /\ Len(inbox) \in Nat
      /\ hand.token = Len(calledBack) + 1
  BY DEF TaskTypeOK, TaskAssumption, Callback, HandSound, InWork, Begun
<1>2. hand.token \in 1 .. MaxJobs
  BY <1>1 DEF TaskTypeOK, Job, Numbered, Callback, Begun, TaskAssumption
<1>3. /\ calledBack' \in Seq(1 .. MaxJobs)
      /\ Len(calledBack') = Len(calledBack) + 1
      /\ calledBack'[Len(calledBack) + 1] = hand.token
      /\ \A i \in 1 .. Len(calledBack) : calledBack'[i] = calledBack[i]
  BY <1>1, <1>2 DEF TaskTypeOK, Callback
<1>4. open' \in BOOLEAN /\ prepared' \in BOOLEAN /\ refused' = FALSE
  BY DEF Callback, Prepare, Opens, TaskTypeOK, movie, TasksInOrder, NeverRefused
<1>5. TaskTypeOK'
  BY <1>3, <1>4 DEF Callback, TaskTypeOK
<1>6. Begun' = Begun
  BY <1>1, <1>3 DEF Begun, Callback
<1>7. HandSound' /\ Numbered'
  BY <1>1, <1>6 DEF HandSound, Numbered, InWork, Callback
<1>8. CalledInOrder'
  <2>1. calledBack' = [i \in 1 .. Len(calledBack') |-> calledBack'[i]]
    BY <1>3
  <2>2. ASSUME NEW i \in 1 .. Len(calledBack') PROVE calledBack'[i] = i
    BY <1>1, <1>3 DEF TasksInOrder, CalledInOrder
  <2> QED BY <2>1, <2>2 DEF CalledInOrder
<1>9. SlotTakenUntilRetired' /\ CompletesWhatItCalled' /\ NeverRefused'
  BY <1>4 DEF TasksInOrder, SlotTakenUntilRetired, CompletesWhatItCalled, NeverRefused, Callback
<1> QED BY <1>5, <1>7, <1>8, <1>9 DEF TasksInOrder

\* The job that is current is still the one whose callback was called last.
LEMMA CompleteKeeps ==
  ASSUME TaskAssumption, TaskInv, Complete
  PROVE  TaskInv'
<1> USE DEF TaskInv
<1>1. /\ Len(calledBack) \in Nat
      /\ current \in JobSlots /\ hand = job[current] /\ hand.token = Len(calledBack)
  BY DEF TaskTypeOK, Complete, HandSound, InWork, Begun
<1>2. Len(calledBack) \in 1 .. MaxJobs /\ calledBack[Len(calledBack)] = Len(calledBack)
  <2>1. job[current].token # 0
    BY <1>1 DEF TasksInOrder, SlotTakenUntilRetired
  <2>2. Len(calledBack) \in 1 .. MaxJobs
    BY <1>1, <2>1 DEF TaskTypeOK, Job, TaskAssumption
  <2> QED BY <2>2 DEF TasksInOrder, CalledInOrder
<1>3. /\ completions' \in Seq(1 .. MaxJobs)
      /\ hand.onDone => completions' # <<>> /\ completions'[Len(completions')] = calledBack[Len(calledBack)]
  <2>1. CASE hand.onDone
    <3>1. completions' = Append(completions, Len(calledBack))
      BY <1>1, <2>1 DEF Complete, TaskAssumption
    <3>2. /\ completions' \in Seq(1 .. MaxJobs)
          /\ Len(completions') = Len(completions) + 1 /\ Len(completions) \in Nat
          /\ completions'[Len(completions) + 1] = Len(calledBack)
      BY <1>2, <3>1 DEF TaskTypeOK
    <3> QED BY <1>2, <3>2
  <2>2. CASE ~hand.onDone
    BY <2>2 DEF Complete, TaskTypeOK
  <2> QED BY <2>1, <2>2
<1>4. TaskTypeOK'
  BY <1>3 DEF Complete, TaskTypeOK, movie
<1> QED
  BY <1>1, <1>3, <1>4
     DEF Complete, HandSound, InWork, Begun, Numbered, TasksInOrder, SlotTakenUntilRetired,
         CalledInOrder, CompletesWhatItCalled, NeverRefused, movie

\* A token that finds no room is lost, and nothing else changes.
LEMMA ReportKeeps ==
  ASSUME TaskAssumption, TaskInv, Report
  PROVE  TaskInv'
<1> USE DEF TaskInv
<1>1. hand.token \in 1 .. MaxJobs
  <2>1. current \in JobSlots /\ hand = job[current]
    BY DEF TaskTypeOK, Report, HandSound, InWork
  <2>2. job[current].token # 0
    BY <2>1 DEF TasksInOrder, SlotTakenUntilRetired
  <2>3. hand.token \in 0 .. MaxJobs
    BY DEF TaskTypeOK, Job
  <2> QED BY <2>1, <2>2, <2>3 DEF TaskAssumption
<1>2. done' \in Seq(1 .. MaxJobs) /\ Len(done') <= DoneSize
  <2>1. /\ Len(done) \in Nat /\ DoneSize \in Nat
        /\ Append(done, hand.token) \in Seq(1 .. MaxJobs)
        /\ Len(Append(done, hand.token)) = Len(done) + 1
    BY <1>1 DEF TaskTypeOK, TaskAssumption
  <2>2. CASE Len(done) < DoneSize
    BY <2>1, <2>2 DEF Report
  <2>3. CASE ~(Len(done) < DoneSize)
    BY <2>3 DEF Report, TaskTypeOK
  <2> QED BY <2>2, <2>3
<1>3. TaskTypeOK'
  BY <1>2 DEF Report, TaskTypeOK, movie
<1> QED
  BY <1>3 DEF Report, HandSound, InWork, Begun, Numbered, TasksInOrder, SlotTakenUntilRetired,
              CalledInOrder, CompletesWhatItCalled, NeverRefused, movie

\* The slot that becomes free is in no other place: the tokens of the inbox are others.
LEMMA RetireKeeps ==
  ASSUME TaskAssumption, TaskInv, Retire
  PROVE  TaskInv'
<1> USE DEF TaskInv
<1>1. /\ Len(calledBack) \in Nat /\ Len(inbox) \in Nat
      /\ current \in JobSlots /\ hand = job[current]
      /\ hand.token = Begun /\ Begun = Len(calledBack) /\ Begun' = Begun
      /\ \A i \in 1 .. Len(inbox) : inbox[i] \in JobSlots
  BY DEF TaskTypeOK, Retire, HandSound, InWork, Begun
<1>2. \A i \in 1 .. Len(inbox) : inbox[i] # current
  <2> SUFFICES ASSUME NEW i \in 1 .. Len(inbox), inbox[i] = current PROVE FALSE
    OBVIOUS
  <2>1. job[current].token = Begun + i /\ job[current].token = Begun
    BY <1>1 DEF Numbered
  <2> QED BY <1>1, <2>1
<1>3. /\ job'[current] = Free /\ Free \in Job /\ Free.token = 0
      /\ \A t \in JobSlots \ {current} : job'[t] = job[t]
  BY <1>1 DEF Retire, TaskTypeOK, Free, Job, TaskAssumption
<1>4. TaskTypeOK'
  BY <1>3 DEF Retire, TaskTypeOK, movie
<1>5. HandSound' /\ Numbered'
  BY <1>1, <1>2, <1>3 DEF HandSound, Numbered, InWork, Retire
<1>6. SlotTakenUntilRetired'
  <2> SUFFICES ASSUME NEW t \in JobSlots
               PROVE  job'[t].token # 0 <=> t = NoJob \/ \E i \in 1 .. Len(inbox) : inbox[i] = t
    BY DEF SlotTakenUntilRetired, Retire
  <2>1. CASE t = current
    BY <1>1, <1>2, <1>3, <2>1 DEF TaskAssumption
  <2>2. CASE t # current
    BY <1>3, <2>2 DEF TaskAssumption, TasksInOrder, SlotTakenUntilRetired
  <2> QED BY <2>1, <2>2
<1> QED
  BY <1>4, <1>5, <1>6
     DEF TasksInOrder, CalledInOrder, CompletesWhatItCalled, NeverRefused, Retire, movie

-----------------------------------------------------------------------------
LEMMA TaskNextKeeps ==
  ASSUME TaskAssumption, TaskInv, [TaskNext]_taskVars
  PROVE  TaskInv'
<1>1. CASE TaskNext
  BY <1>1, RequestKeeps, TitleKeeps, ReceiveKeeps, CallbackKeeps, CompleteKeeps, ReportKeeps,
     RetireKeeps DEF TaskNext, Worker
<1>2. CASE UNCHANGED taskVars
  BY <1>2 DEF taskVars, movie, TaskInv, TaskTypeOK, HandSound, InWork, Begun, Numbered, TasksInOrder,
              SlotTakenUntilRetired, CalledInOrder, CompletesWhatItCalled, NeverRefused
<1> QED BY <1>1, <1>2

LEMMA TaskInvariance == ASSUME TaskAssumption PROVE TaskSpec => []TaskInv
<1>1. TaskInit => TaskInv
  BY TaskInitHolds
<1>2. TaskInv /\ [TaskNext]_taskVars => TaskInv'
  BY TaskNextKeeps
<1> QED BY <1>1, <1>2, PTL DEF TaskSpec

\* Jobs are called once each and in order, complete as the job that was called, keep
\* their slot until they are reported, and no half-opened player refuses a movie: the
\* loop of task_thread.cpp 170-260, whatever threads run in its callbacks.
THEOREM TasksAreInOrder == ASSUME TaskAssumption PROVE TaskSpec => []TasksInOrder
<1>1. TaskInv => TasksInOrder
  BY DEF TaskInv
<1> QED BY <1>1, TaskInvariance, PTL

\* The types, with the token queue never over its capacity (task_thread.cpp 236-240).
THEOREM TasksAreTyped == ASSUME TaskAssumption PROVE TaskSpec => []TaskTypeOK
<1>1. TaskInv => TaskTypeOK
  BY DEF TaskInv
<1> QED BY <1>1, TaskInvariance, PTL
-----------------------------------------------------------------------------
(* Guest fibers.                                                           *)

FiberAssumptions == FibersAssumption /\ EntriesAssumption

-----------------------------------------------------------------------------
(* Contexts: on[t] is the one fiber t names, lv those that exist, pd those  *)
(* on the list of the next reaper, cur the one that executes.               *)

Accounted(on, lv, pd, cur) ==
  /\ on \in [Threads -> Contexts \cup {NoContext}]
  /\ lv \subseteq Contexts /\ Scheduler \in lv /\ cur \in lv
  /\ pd \in Seq(Contexts)
  /\ \A i \in 1 .. Len(pd) : pd[i] \in lv /\ pd[i] # Scheduler
  /\ \A i, j \in 1 .. Len(pd) : pd[i] = pd[j] => i = j
  /\ \A t \in Threads : on[t] # NoContext => on[t] \in lv
  /\ \A t \in Threads : \A i \in 1 .. Len(pd) : on[t] # pd[i]
  /\ \A t, u \in Threads : on[t] = on[u] /\ on[t] # NoContext => t = u
  /\ \A c \in lv \ {Scheduler} :
       \/ \E t \in Threads : on[t] = c
       \/ \E i \in 1 .. Len(pd) : pd[i] = c

\* A fiber gives up its context: it is destroyed, or listed if it is the current one.
LEMMA GivesUp ==
  ASSUME NEW on, NEW lv, NEW pd, NEW cur, Accounted(on, lv, pd, cur), FiberAssumptions,
         NEW t \in Threads, on[t] # NoContext, on[t] # Scheduler
  PROVE  Accounted([on EXCEPT ![t] = NoContext],
                   IF on[t] = cur THEN lv ELSE lv \ {on[t]},
                   IF on[t] = cur THEN Append(pd, on[t]) ELSE pd, cur)
<1> DEFINE c == on[t]
           on1 == [on EXCEPT ![t] = NoContext]
           lv1 == IF c = cur THEN lv ELSE lv \ {c}
           pd1 == IF c = cur THEN Append(pd, c) ELSE pd
<1>1. c \in lv /\ c \in Contexts /\ NoContext \notin Contexts
  BY DEF Accounted, FiberAssumptions, FibersAssumption
<1>2. /\ on1 \in [Threads -> Contexts \cup {NoContext}]
      /\ \A u \in Threads : on1[u] = IF u = t THEN NoContext ELSE on[u]
      /\ \A u \in Threads : u # t => on[u] # c
  BY <1>1 DEF Accounted
<1>3. /\ pd1 \in Seq(Contexts)
      /\ c = cur => /\ Len(pd1) = Len(pd) + 1 /\ Len(pd) \in Nat
                    /\ pd1[Len(pd) + 1] = c
                    /\ \A i \in 1 .. Len(pd) : pd1[i] = pd[i]
      /\ c # cur => pd1 = pd
  BY <1>1 DEF Accounted
<1>4. \A i \in 1 .. Len(pd) : pd[i] # c /\ pd[i] # NoContext /\ pd[i] \in lv
  BY <1>1 DEF Accounted
<1>5. /\ \A i \in 1 .. Len(pd1) : /\ pd1[i] \in lv1 /\ pd1[i] # Scheduler
                                  /\ pd1[i] = c \/ \E j \in 1 .. Len(pd) : pd1[i] = pd[j]
      /\ \A i, j \in 1 .. Len(pd1) : pd1[i] = pd1[j] => i = j
  <2>1. CASE c = cur
    <3>1. \A i \in 1 .. Len(pd1) : i \in 1 .. Len(pd) \/ i = Len(pd) + 1
      BY <2>1, <1>3
    <3> QED BY <2>1, <3>1, <1>1, <1>3, <1>4 DEF Accounted
  <2>2. CASE c # cur
    BY <2>2, <1>3, <1>4 DEF Accounted
  <2> QED BY <2>1, <2>2
<1>6. \A u \in Threads : \A i \in 1 .. Len(pd1) : on1[u] # pd1[i]
  <2> SUFFICES ASSUME NEW u \in Threads, NEW i \in 1 .. Len(pd1) PROVE on1[u] # pd1[i]
    OBVIOUS
  <2>1. pd1[i] = c \/ \E j \in 1 .. Len(pd) : pd1[i] = pd[j]
    BY <1>5
  <2> QED BY <2>1, <1>1, <1>2, <1>4 DEF Accounted
<1>7. \A d \in lv1 \ {Scheduler} :
        \/ \E u \in Threads : on1[u] = d
        \/ \E i \in 1 .. Len(pd1) : pd1[i] = d
  <2> SUFFICES ASSUME NEW d \in lv1 \ {Scheduler}
               PROVE  \/ \E u \in Threads : on1[u] = d
                      \/ \E i \in 1 .. Len(pd1) : pd1[i] = d
    OBVIOUS
  <2>1. CASE d = c
    <3>1. c = cur
      BY <2>1
    <3> QED BY <3>1, <2>1, <1>3
  <2>2. CASE \E i \in 1 .. Len(pd) : pd[i] = d
    BY <2>2, <1>3
  <2>3. CASE d # c /\ \E u \in Threads : on[u] = d
    BY <2>3, <1>2
  <2> QED BY <2>1, <2>2, <2>3 DEF Accounted
<1>8. \A u \in Threads : on1[u] # NoContext => on1[u] \in lv1
  BY <1>1, <1>2 DEF Accounted
<1>9. \A u, v \in Threads : on1[u] = on1[v] /\ on1[u] # NoContext => u = v
  BY <1>2 DEF Accounted
<1>10. lv1 \subseteq Contexts /\ Scheduler \in lv1 /\ cur \in lv1
  BY DEF Accounted
<1> HIDE DEF c, on1, lv1, pd1
<1>11. Accounted(on1, lv1, pd1, cur)
  BY <1>2, <1>3, <1>5, <1>6, <1>7, <1>8, <1>9, <1>10 DEF Accounted
<1> QED BY <1>11 DEF c, on1, lv1, pd1

\* A fiber that names no context, or the scheduler's, is given a new one.
LEMMA GivenNew ==
  ASSUME NEW on, NEW lv, NEW pd, NEW cur, Accounted(on, lv, pd, cur), FiberAssumptions,
         NEW t \in Threads, on[t] = NoContext \/ on[t] = Scheduler,
         NEW c \in Contexts \ lv
  PROVE  Accounted([on EXCEPT ![t] = c], lv \cup {c}, pd, cur)
<1> DEFINE on1 == [on EXCEPT ![t] = c]
<1>1. /\ on1 \in [Threads -> Contexts \cup {NoContext}]
      /\ \A u \in Threads : on1[u] = IF u = t THEN c ELSE on[u]
      /\ NoContext \notin Contexts
  BY DEF Accounted, FiberAssumptions, FibersAssumption
<1>2. \A u \in Threads : on[u] # c
  BY <1>1 DEF Accounted
<1>3. \A d \in (lv \cup {c}) \ {Scheduler} :
        \/ \E u \in Threads : on1[u] = d
        \/ \E i \in 1 .. Len(pd) : pd[i] = d
  <2> SUFFICES ASSUME NEW d \in (lv \cup {c}) \ {Scheduler}
               PROVE  \/ \E u \in Threads : on1[u] = d
                      \/ \E i \in 1 .. Len(pd) : pd[i] = d
    OBVIOUS
  <2>1. CASE d = c
    BY <2>1, <1>1
  <2>2. CASE d # c /\ \E u \in Threads : on[u] = d
    <3>1. PICK u \in Threads : on[u] = d
      BY <2>2
    <3>2. d # NoContext /\ u # t
      BY <3>1, <1>1 DEF Accounted
    <3> QED BY <3>1, <3>2, <1>1
  <2> QED BY <2>1, <2>2 DEF Accounted
<1>4. \A u \in Threads : \A i \in 1 .. Len(pd) : on1[u] # pd[i]
  BY <1>1 DEF Accounted
<1>5. \A u, v \in Threads : on1[u] = on1[v] /\ on1[u] # NoContext => u = v
  BY <1>1, <1>2 DEF Accounted
<1>6. \A u \in Threads : on1[u] # NoContext => on1[u] \in lv \cup {c}
  BY <1>1 DEF Accounted
<1>7. /\ lv \cup {c} \subseteq Contexts /\ Scheduler \in lv \cup {c} /\ cur \in lv \cup {c}
      /\ pd \in Seq(Contexts)
      /\ \A i \in 1 .. Len(pd) : pd[i] \in lv \cup {c} /\ pd[i] # Scheduler
      /\ \A i, j \in 1 .. Len(pd) : pd[i] = pd[j] => i = j
  BY DEF Accounted
<1> HIDE DEF on1
<1>8. Accounted(on1, lv \cup {c}, pd, cur)
  BY <1>1, <1>3, <1>4, <1>5, <1>6, <1>7 DEF Accounted
<1> QED BY <1>8 DEF on1

LEMMA Repeated ==
  ASSUME NEW n \in Nat, NEW S, NEW x \in S
  PROVE  LET r == [i \in 1 .. n |-> x]
         IN  r \in Seq(S) /\ Len(r) = n /\ \A i \in 1 .. n : r[i] = x
OBVIOUS

LEMMA ListedOnce ==
  ASSUME NEW pd, NEW cur, pd \in Seq(Contexts), cur \in Contexts,
         \A i, j \in 1 .. Len(pd) : pd[i] = pd[j] => i = j
  PROVE  LET n == Cardinality({i \in DOMAIN pd : pd[i] = cur})
         IN  n \in {0, 1} /\ (n = 1 <=> \E i \in 1 .. Len(pd) : pd[i] = cur)
<1> DEFINE stays == {i \in DOMAIN pd : pd[i] = cur}
<1>1. \A i : i \in stays <=> i \in 1 .. Len(pd) /\ pd[i] = cur
  OBVIOUS
<1> HIDE DEF stays
<1>2. CASE \E i \in 1 .. Len(pd) : pd[i] = cur
  <2>1. PICK k \in 1 .. Len(pd) : pd[k] = cur
    BY <1>2
  <2>2. stays = {k}
    BY <2>1, <1>1
  <2>3. Cardinality(stays) = 1
    BY <2>2, FS_Singleton
  <2> QED BY <2>3, <1>2 DEF stays
<1>3. CASE ~ \E i \in 1 .. Len(pd) : pd[i] = cur
  <2>1. stays = {}
    BY <1>1, <1>3
  <2>2. Cardinality(stays) = 0
    BY <2>1, FS_EmptySet
  <2> QED BY <2>2, <1>3 DEF stays
<1> QED BY <1>2, <1>3

\* What PurgePendingFibers leaves of the list: the current context, once at most.
Unreaped(pd, cur) == [i \in 1 .. Cardinality({j \in DOMAIN pd : pd[j] = cur}) |-> cur]

LEMMA PurgeList ==
  ASSUME NEW pd, NEW cur, pd \in Seq(Contexts), cur \in Contexts,
         \A i, j \in 1 .. Len(pd) : pd[i] = pd[j] => i = j,
         NEW pd1, pd1 = Unreaped(pd, cur)
  PROVE  /\ pd1 \in Seq(Contexts)
         /\ \A i, j \in 1 .. Len(pd1) : pd1[i] = pd1[j] => i = j
         /\ \A i \in 1 .. Len(pd1) : pd1[i] = cur /\ \E j \in 1 .. Len(pd) : pd[j] = cur
         /\ (\E j \in 1 .. Len(pd) : pd[j] = cur) => \E i \in 1 .. Len(pd1) : pd1[i] = cur
<1> DEFINE n == Cardinality({j \in DOMAIN pd : pd[j] = cur})
<1>1. n \in {0, 1} /\ (n = 1 <=> \E i \in 1 .. Len(pd) : pd[i] = cur)
  BY ListedOnce
<1>2. n \in Nat /\ pd1 = [i \in 1 .. n |-> cur]
  BY <1>1 DEF Unreaped
<1> HIDE DEF n
<1>3. pd1 \in Seq(Contexts) /\ Len(pd1) = n /\ \A i \in 1 .. n : pd1[i] = cur
  BY <1>2, Repeated
<1>4. \A i \in 1 .. Len(pd1) : i = 1 /\ n = 1
  BY <1>1, <1>3
<1>5. n = 1 => 1 \in 1 .. Len(pd1) /\ pd1[1] = cur
  BY <1>3
<1> QED BY <1>1, <1>3, <1>4, <1>5

\* The next switch reaps the list and goes to a context that a fiber names, or back to the
\* scheduler's.
LEMMA Reaped ==
  ASSUME NEW on, NEW lv, NEW pd, NEW cur, Accounted(on, lv, pd, cur), FiberAssumptions,
         NEW u \in Threads, on[u] # NoContext,
         NEW lv1, lv1 = lv \ {pd[i] : i \in DOMAIN pd \ {j \in DOMAIN pd : pd[j] = cur}}
  PROVE  /\ Accounted(on, lv1, Unreaped(pd, cur), on[u])
         /\ Accounted(on, lv1, Unreaped(pd, cur), Scheduler)
         /\ cur \in lv1
<1> DEFINE pd1 == Unreaped(pd, cur)
<1>0. DOMAIN pd = 1 .. Len(pd)
  BY DEF Accounted
<1>1. /\ pd1 \in Seq(Contexts)
      /\ \A i, j \in 1 .. Len(pd1) : pd1[i] = pd1[j] => i = j
      /\ \A i \in 1 .. Len(pd1) : pd1[i] = cur /\ \E j \in 1 .. Len(pd) : pd[j] = cur
      /\ (\E j \in 1 .. Len(pd) : pd[j] = cur) => \E i \in 1 .. Len(pd1) : pd1[i] = cur
  <2>1. /\ pd \in Seq(Contexts) /\ cur \in Contexts
        /\ \A i, j \in 1 .. Len(pd) : pd[i] = pd[j] => i = j
    BY DEF Accounted
  <2> QED BY <2>1, PurgeList
<1>2. \A d : d \in lv1 <=> d \in lv /\ \A i \in 1 .. Len(pd) : pd[i] = d => d = cur
  BY <1>0
<1> HIDE DEF pd1
<1>3. cur \in lv1 /\ Scheduler \in lv1 /\ lv1 \subseteq Contexts
  BY <1>2 DEF Accounted
<1>4. \A t \in Threads : on[t] # NoContext => on[t] \in lv1
  BY <1>2 DEF Accounted
<1>5. \A i \in 1 .. Len(pd1) : pd1[i] \in lv1 /\ pd1[i] # Scheduler
  BY <1>1, <1>3 DEF Accounted
<1>6. \A t \in Threads : \A i \in 1 .. Len(pd1) : on[t] # pd1[i]
  BY <1>1 DEF Accounted
<1>7. \A d \in lv1 \ {Scheduler} :
        \/ \E t \in Threads : on[t] = d
        \/ \E i \in 1 .. Len(pd1) : pd1[i] = d
  BY <1>1, <1>2 DEF Accounted
<1>8. Accounted(on, lv1, pd1, on[u]) /\ Accounted(on, lv1, pd1, Scheduler)
  BY <1>1, <1>3, <1>4, <1>5, <1>6, <1>7 DEF Accounted
<1> QED BY <1>3, <1>8 DEF pd1

-----------------------------------------------------------------------------
(* Contexts are kept.                                                       *)

\* The context t names.
On == [t \in Threads |-> IF Has(t) THEN table[t].context ELSE NoContext]

\* Who is alive has a context, and only the scheduler's entry names the scheduler's.
Named ==
  /\ \A t \in alive : Has(t) /\ ~table[t].terminated /\ table[t].context # NoContext
  /\ \A t \in Threads : Has(t) => (table[t].scheduler <=> table[t].context = Scheduler)

ContextsInv ==
  /\ FiberTypeOK
  /\ Accounted(On, live, pendingDelete, currentContext)
  /\ Named
  /\ currentContext # Scheduler => parked[Scheduler] \in Parked

\* What the invariant says is what the module promises.
LEMMA ContextsInvSuffices ==
  ASSUME ContextsInv, FiberAssumptions
  PROVE  /\ ReapedOnce /\ NoLeak
         /\ currentContext \in live
         /\ \A t \in alive : Has(t) /\ ~table[t].terminated /\ table[t].context \in live
<1>1. /\ On \in [Threads -> Contexts \cup {NoContext}]
      /\ \A t \in Threads : On[t] = IF Has(t) THEN table[t].context ELSE NoContext
      /\ NoContext \notin Contexts /\ alive \subseteq Threads
  BY DEF ContextsInv, Accounted, On, FiberAssumptions, FibersAssumption, FiberTypeOK
<1>2. Accounted(On, live, pendingDelete, currentContext) /\ Named
  BY DEF ContextsInv
<1> HIDE DEF On
<1>3. ReapedOnce
  BY <1>1, <1>2 DEF ReapedOnce, Accounted
<1>4. NoLeak
  BY <1>1, <1>2 DEF NoLeak, Accounted
<1>5. \A t \in alive : Has(t) /\ ~table[t].terminated /\ table[t].context \in live
  BY <1>1, <1>2 DEF Accounted, Named
<1> QED BY <1>2, <1>3, <1>4, <1>5 DEF Accounted

\* An entry of the table.
LEMMA EntryTypes ==
  ASSUME FiberTypeOK, FiberAssumptions, NEW t \in Threads, Has(t)
  PROVE  /\ table[t] \in Fiber
         /\ table[t].context \in Contexts \cup {NoContext}
         /\ table[t].terminated \in BOOLEAN /\ table[t].scheduler \in BOOLEAN
         /\ table[t].cpuContext \in Registers
<1>1. table[t] \in Fiber
  BY DEF FiberTypeOK, Has
<1> QED BY <1>1 DEF Fiber

\* The registers in the register file.
LEMMA CurrentTypes ==
  ASSUME FiberTypeOK
  PROVE  /\ \A c \in Contexts : File(c) \in Files
         /\ Current \in Registers
BY DEF FiberTypeOK, File, Current, Files

\* Saving registers changes nothing else in the table.
LEMMA SavedEntries ==
  ASSUME FiberTypeOK, FiberAssumptions, NEW u \in Threads, table' = Saved(u)
  PROVE  /\ table' \in [Threads -> Fiber \cup {NoEntry}]
         /\ \A t \in Threads :
              /\ Has(t)' <=> Has(t)
              /\ t # guest => table'[t] = table[t]
              /\ Has(t) => /\ table'[t].context = table[t].context
                           /\ table'[t].terminated = table[t].terminated
                           /\ table'[t].scheduler = table[t].scheduler
                           /\ t = guest => table'[t].cpuContext = Current
<1>1. CASE guest # NoGuest /\ Has(guest)
  <2>1. guest \in Threads
    BY <1>1 DEF FiberTypeOK
  <2>2. table[guest] \in Fiber /\ Current \in Registers
    BY <1>1, <2>1, EntryTypes, CurrentTypes
  <2> DEFINE e == [table[guest] EXCEPT !.cpuContext = Current]
  <2>3. /\ e \in Fiber
        /\ e.context = table[guest].context /\ e.terminated = table[guest].terminated
        /\ e.scheduler = table[guest].scheduler /\ e.cpuContext = Current
    BY <2>2 DEF Fiber
  <2>4. table' = [table EXCEPT ![guest] = e]
    BY <1>1 DEF Saved
  <2> HIDE DEF e
  <2>5. /\ table' \in [Threads -> Fiber \cup {NoEntry}]
        /\ \A t \in Threads : table'[t] = IF t = guest THEN e ELSE table[t]
    BY <2>3, <2>4 DEF FiberTypeOK
  <2>6. e # NoEntry
    BY <2>3 DEF FiberAssumptions, EntriesAssumption
  <2> QED BY <1>1, <2>3, <2>5, <2>6 DEF Has
<1>2. CASE ~(guest # NoGuest /\ Has(guest))
  <2>1. table' = table
    BY <1>2 DEF Saved
  <2>2. \A t \in Threads : t # NoGuest
    BY DEF FiberAssumptions, FibersAssumption
  <2> QED BY <1>2, <2>1, <2>2 DEF FiberTypeOK, Has
<1> QED BY <1>1, <1>2

LEMMA InitContexts ==
  ASSUME FiberInit, FiberAssumptions
  PROVE  ContextsInv
<1>1. 0 \in Registers
  BY DEF Registers
<1>2. [context |-> Scheduler, terminated |-> FALSE, scheduler |-> TRUE,
       cpuContext |-> 0] \in Fiber
  BY <1>1 DEF Fiber, FiberAssumptions, FibersAssumption
<1> DEFINE e == [context |-> Scheduler, terminated |-> FALSE, scheduler |-> TRUE,
                 cpuContext |-> 0]
<1>3. /\ e \in Fiber /\ e # NoEntry /\ e.context = Scheduler /\ e.terminated = FALSE
      /\ e.scheduler = TRUE
  BY <1>2 DEF FiberAssumptions, EntriesAssumption
<1>4. table = [t \in Threads |-> IF t = Main THEN e ELSE NoEntry]
  BY DEF FiberInit
<1> HIDE DEF e
<1>5. /\ Main \in Threads /\ Scheduler \in Contexts /\ NoContext \notin Contexts
  BY DEF FiberAssumptions, FibersAssumption
<1>6. FiberTypeOK
  <2>1. table \in [Threads -> Fiber \cup {NoEntry}]
    BY <1>3, <1>4
  <2>2. /\ expected \in [Threads -> Registers] /\ kept \in Registers
        /\ cpu \in [Files -> Registers] /\ under \in Registers /\ computed \in Nat
    BY <1>1, <1>5 DEF FiberInit
  <2>3. pendingDelete \in Seq(Contexts)
    BY DEF FiberInit
  <2> QED BY <1>5, <2>1, <2>2, <2>3 DEF FiberTypeOK, FiberInit, Files
<1>7. /\ On \in [Threads -> Contexts \cup {NoContext}]
      /\ \A t \in Threads : On[t] = IF t = Main THEN Scheduler ELSE NoContext
  BY <1>3, <1>4, <1>5 DEF On, Has
<1>8. Named
  BY <1>3, <1>4, <1>5 DEF Named, Has, FiberInit
<1>9. live = {Scheduler} /\ currentContext = Scheduler /\ pendingDelete = <<>>
  BY DEF FiberInit
<1>10. pendingDelete \in Seq(Contexts) /\ 1 .. Len(pendingDelete) = {}
  BY <1>9
<1> HIDE DEF On
<1>11. Accounted(On, live, pendingDelete, currentContext)
  BY <1>5, <1>7, <1>9, <1>10 DEF Accounted
<1> QED BY <1>6, <1>8, <1>9, <1>11 DEF ContextsInv

\* A parked SwitchToThread, or a fiber that has not called its entry function.
LEMMA ParkedTypes ==
  ASSUME FiberTypeOK, FiberAssumptions, NEW c \in Contexts
  PROVE  /\ parked[c] \in Parked \cup {Fresh, Starting}
         /\ AtStart(c) <=> parked[c] \notin Parked
         /\ ~AtStart(c) => /\ parked[c].previous \in Threads \cup {NoGuest}
                           /\ parked[c].caller \in Registers
<1>1. /\ parked[c] \in Parked \cup {Fresh, Starting}
      /\ Fresh \notin Parked /\ Starting \notin Parked
  BY DEF FiberTypeOK, FiberAssumptions, EntriesAssumption
<1> QED BY <1>1 DEF AtStart, Parked

\* Types of the registers after the return of a SwitchToThread.
LEMMA ReturnsTypes ==
  ASSUME FiberTypeOK, NEW c \in Contexts, NEW u \in Threads, NEW left \in Parked,
         Returns(c, u, left), table'[u].cpuContext \in Registers
  PROVE  cpu' \in [Files -> Registers] /\ guest' \in {u, NoGuest}
<1>1. /\ File(currentContext) \in Files /\ File(c) \in Files
      /\ cpu \in [Files -> Registers] /\ left.caller \in Registers
  BY CurrentTypes DEF FiberTypeOK, Parked
<1> DEFINE loaded == Loaded(u)
<1>2. loaded \in [Files -> Registers]
  BY <1>1 DEF Loaded
<1>3. CASE left.previous = u
  <2>1. cpu' = [loaded EXCEPT ![File(c)] = table'[u].cpuContext] /\ guest' = u
    BY <1>3 DEF Returns
  <2> HIDE DEF loaded
  <2> QED BY <2>1, <1>1, <1>2
<1>4. CASE left.previous # u
  <2>1. cpu' = [loaded EXCEPT ![File(c)] = left.caller] /\ guest' = NoGuest
    BY <1>4 DEF Returns
  <2> HIDE DEF loaded
  <2> QED BY <2>1, <1>1, <1>2
<1> QED BY <1>3, <1>4

\* A switch to another context: where it ends, and the types of what it leaves.
LEMMA SwitchTypes ==
  ASSUME FiberTypeOK, FiberAssumptions, NEW u \in Threads,
         NEW c \in Contexts, c # currentContext, SwitchContext(c, u),
         table'[u].cpuContext \in Registers,
         currentContext # Scheduler => parked[Scheduler] \in Parked
  PROVE  /\ cpu' \in [Files -> Registers] /\ base' \in [Contexts -> Files]
         /\ guest' \in {u, NoGuest}
         /\ parked' \in [Contexts -> Parked \cup {Fresh, Starting}]
         /\ currentContext' \in {c, Scheduler}
         /\ currentContext' # Scheduler => parked'[Scheduler] \in Parked
         /\ AtStart(c) => c # Scheduler
<1> DEFINE here == [previous |-> guest, caller |-> Current]
           left == [parked EXCEPT ![currentContext] = here]
<1>1. /\ here \in Parked /\ currentContext \in Contexts /\ Scheduler \in Contexts
      /\ parked \in [Contexts -> Parked \cup {Fresh, Starting}]
  BY CurrentTypes DEF Parked, FiberTypeOK, FiberAssumptions, FibersAssumption
<1>2. /\ base' = IF parked[c] = Fresh THEN [base EXCEPT ![c] = File(currentContext)] ELSE base
      /\ \/ parked' = left /\ Arrive(c, u)
         \/ parked' = [left EXCEPT ![c] = Starting] /\ Defer(c, u)
  BY DEF SwitchContext
<1> HIDE DEF here
<1>3. base' \in [Contexts -> Files]
  BY <1>2, CurrentTypes DEF FiberTypeOK
<1>4. /\ left \in [Contexts -> Parked \cup {Fresh, Starting}]
      /\ left[Scheduler] \in Parked
      /\ AtStart(c) => c # Scheduler
  BY <1>1, ParkedTypes
<1> HIDE DEF left
<1>5. CASE parked' = left /\ Arrive(c, u)
  <2>1. cpu' \in [Files -> Registers] /\ guest' \in {u, NoGuest}
    <3>1. CASE AtStart(c)
      <4>1. cpu' = Loaded(u) /\ guest' = u
        BY <1>5, <3>1 DEF Arrive
      <4> QED BY <4>1, CurrentTypes DEF Loaded, FiberTypeOK
    <3>2. CASE ~AtStart(c)
      <4>1. Returns(c, u, parked[c]) /\ parked[c] \in Parked
        BY <1>5, <3>2, ParkedTypes DEF Arrive
      <4> QED BY <4>1, ReturnsTypes
    <3> QED BY <3>1, <3>2
  <2> QED BY <1>3, <1>4, <1>5, <2>1 DEF Arrive
<1>6. CASE parked' = [left EXCEPT ![c] = Starting] /\ Defer(c, u)
  <2>1. /\ parked' \in [Contexts -> Parked \cup {Fresh, Starting}]
        /\ parked'[Scheduler] \in Parked
    BY <1>1, <1>4, <1>6 DEF Defer
  <2>2. Returns(Scheduler, u, parked'[Scheduler])
    BY <1>6 DEF Defer
  <2>3. cpu' \in [Files -> Registers] /\ guest' \in {u, NoGuest}
    BY <1>1, <2>1, <2>2, ReturnsTypes
  <2> QED BY <1>3, <1>4, <1>6, <2>1, <2>3 DEF Defer
<1> QED BY <1>2, <1>5, <1>6

\* A switch keeps every context, its own and the one it leaves among them.
LEMMA DispatchContexts ==
  ASSUME ContextsInv, FiberAssumptions, NEW u \in Threads, Dispatch(u)
  PROVE  ContextsInv' /\ currentContext \in live'
<1>0. /\ u \in alive /\ running' = u /\ PurgePendingFibers /\ table' = Saved(u)
      /\ UNCHANGED <<alive, computed, expected, callbackVars>>
      /\ FiberTypeOK /\ Named
      /\ Accounted(On, live, pendingDelete, currentContext)
      /\ currentContext # Scheduler => parked[Scheduler] \in Parked
  BY DEF ContextsInv, Dispatch, SwitchToThread
<1>1. /\ table' \in [Threads -> Fiber \cup {NoEntry}]
      /\ \A t \in Threads :
           /\ Has(t)' <=> Has(t)
           /\ Has(t) => /\ table'[t].context = table[t].context
                        /\ table'[t].terminated = table[t].terminated
                        /\ table'[t].scheduler = table[t].scheduler
  BY <1>0, SavedEntries
<1>2. On' = On
  BY <1>1 DEF On
<1>3. Has(u) /\ On[u] = table[u].context /\ On[u] # NoContext
  BY <1>0 DEF Named, On
<1>4. /\ pendingDelete' = Unreaped(pendingDelete, currentContext)
      /\ live' = live \ {pendingDelete[i] : i \in DOMAIN pendingDelete \
                           {j \in DOMAIN pendingDelete : pendingDelete[j] = currentContext}}
  BY <1>0 DEF PurgePendingFibers, Unreaped
<1>5. /\ Accounted(On, live', pendingDelete', On[u])
      /\ Accounted(On, live', pendingDelete', Scheduler)
      /\ currentContext \in live'
  <2> HIDE DEF On
  <2>1. /\ Accounted(On, live, pendingDelete, currentContext)
        /\ On[u] # NoContext /\ FiberAssumptions
    BY <1>0, <1>3
  <2> QED BY ONLY <2>1, <1>4, u \in Threads, Reaped
<1>6. /\ pendingDelete' \in Seq(Contexts) /\ live' \subseteq Contexts
      /\ table[u].context \in Contexts
  BY <1>3, <1>5 DEF Accounted
<1>7. table'[u].cpuContext \in Registers
  <2>1. table'[u] \in Fiber
    BY <1>1, <1>3 DEF Has
  <2> QED BY <2>1 DEF Fiber
<1>8. /\ cpu' \in [Files -> Registers] /\ base' \in [Contexts -> Files]
      /\ guest' \in {u, NoGuest}
      /\ parked' \in [Contexts -> Parked \cup {Fresh, Starting}]
      /\ currentContext' \in {table[u].context, Scheduler}
      /\ currentContext' # Scheduler => parked'[Scheduler] \in Parked
      /\ astray' \subseteq Threads
  <2>1. CASE table[u].context = currentContext
    BY <2>1, <1>0 DEF Dispatch, SwitchToThread, FiberTypeOK
  <2>2. CASE table[u].context # currentContext
    <3>1. SwitchContext(table[u].context, u)
      BY <2>2 DEF Dispatch, SwitchToThread
    <3>2. astray' \subseteq Threads
      BY <3>1, <1>0 DEF SwitchContext, GivenUp, Mistaken, Executing, FiberTypeOK
    <3> QED BY <2>2, <3>1, <3>2, <1>0, <1>6, <1>7, SwitchTypes
  <2> QED BY <2>1, <2>2
<1>9. Accounted(On, live, pendingDelete, currentContext)'
  <2>1. currentContext' = On[u] \/ currentContext' = Scheduler
    BY <1>3, <1>8
  <2> HIDE DEF On
  <2> QED BY <1>2, <1>5, <2>1
<1>10. Named'
  BY <1>0, <1>1 DEF Named, FiberTypeOK
<1>11. FiberTypeOK'
  <2>1. currentContext' \in Contexts
    BY <1>6, <1>8 DEF FiberAssumptions, FibersAssumption
  <2> QED BY <1>0, <1>1, <1>6, <1>8, <2>1 DEF FiberTypeOK, callbackVars
<1> QED BY <1>5, <1>8, <1>9, <1>10, <1>11 DEF ContextsInv

\* A thread that is alive ends: what becomes of its entry and its context.
LEMMA ExitEntries ==
  ASSUME ContextsInv, FiberAssumptions, NEW t \in alive, ExitGuestThread(t),
         alive' = alive \ {t}, currentContext' = currentContext
  PROVE  /\ table' \in [Threads -> Fiber \cup {NoEntry}]
         /\ \A v \in Threads : v # t => table'[v] = table[v]
         /\ Has(t)' /\ Has(t)
         /\ table'[t].context = IF table[t].scheduler THEN table[t].context ELSE NoContext
         /\ table'[t].scheduler = table[t].scheduler
         /\ Accounted(On, live, pendingDelete, currentContext)'
         /\ Named'
         /\ guest' = IF guest = t THEN NoGuest ELSE guest
<1>0. /\ FiberTypeOK /\ Named /\ Accounted(On, live, pendingDelete, currentContext)
      /\ t \in Threads /\ alive \subseteq Threads
  BY DEF ContextsInv, FiberTypeOK
<1>1. /\ Has(t) /\ ~table[t].terminated /\ table[t].context # NoContext
      /\ table[t].scheduler <=> table[t].context = Scheduler
      /\ table[t] \in Fiber /\ table[t].scheduler \in BOOLEAN
      /\ NoContext # Scheduler /\ NoContext \notin Contexts
  BY <1>0, EntryTypes DEF Named, FiberAssumptions, FibersAssumption
<1> DEFINE c == IF table[t].scheduler THEN table[t].context ELSE NoContext
           e == [table[t] EXCEPT !.terminated = TRUE, !.context = c]
<1>2. /\ e \in Fiber /\ e.context = c /\ e.scheduler = table[t].scheduler /\ e # NoEntry
  <2>1. e \in Fiber
    BY <1>0, <1>1 DEF Fiber
  <2> QED BY <2>1, <1>1 DEF Fiber, FiberAssumptions, EntriesAssumption
<1>3. table' = [table EXCEPT ![t] = e]
  BY <1>0 DEF ExitGuestThread, FiberTypeOK
<1> HIDE DEF e
<1>4. /\ table' \in [Threads -> Fiber \cup {NoEntry}]
      /\ \A v \in Threads : table'[v] = IF v = t THEN e ELSE table[v]
  BY <1>0, <1>2, <1>3 DEF FiberTypeOK
<1>5. Has(t)' /\ table'[t].context = c /\ table'[t].scheduler = table[t].scheduler
  BY <1>0, <1>2, <1>4 DEF Has
<1>6. On' = [On EXCEPT ![t] = c]
  <2>1. \A v \in Threads : On[v]' = IF v = t THEN c ELSE On[v]
    BY <1>0, <1>4, <1>5 DEF On, Has
  <2> QED BY <2>1, <1>0 DEF On
<1>7. On[t] = table[t].context
  BY <1>0, <1>1 DEF On
<1>8. Retired(t) = IF table[t].scheduler THEN NoContext ELSE On[t]
  BY <1>1, <1>7 DEF Retired
<1>9. Accounted(On', live', pendingDelete', currentContext)
  <2>1. CASE table[t].scheduler
    <3>1. On' = On
      BY <2>1, <1>0, <1>6, <1>7 DEF On
    <3>2. live' = live /\ pendingDelete' = pendingDelete
      BY <2>1, <1>8 DEF ExitGuestThread
    <3> QED BY <3>1, <3>2, <1>0
  <2>2. CASE ~table[t].scheduler
    <3>1. /\ On[t] # NoContext /\ On[t] # Scheduler /\ Retired(t) = On[t]
          /\ On' = [On EXCEPT ![t] = NoContext]
      BY <2>2, <1>1, <1>6, <1>7, <1>8
    <3>2. /\ live' = IF On[t] = currentContext THEN live ELSE live \ {On[t]}
          /\ pendingDelete' = IF On[t] = currentContext THEN Append(pendingDelete, On[t])
                                                        ELSE pendingDelete
      BY <3>1 DEF ExitGuestThread, PendingWith, LiveWithout
    <3> HIDE DEF On
    <3> QED BY <3>1, <3>2, <1>0, GivesUp
  <2> QED BY <2>1, <2>2
<1>10. Accounted(On, live, pendingDelete, currentContext)'
  BY <1>9
<1>11. Named'
  <2>1. \A v \in alive' : v # t /\ Has(v)' /\ ~table'[v].terminated /\ table'[v].context # NoContext
    BY <1>0, <1>4 DEF Named, Has
  <2>2. \A v \in Threads : Has(v)' => (table'[v].scheduler <=> table'[v].context = Scheduler)
    <3> SUFFICES ASSUME NEW v \in Threads, Has(v)'
                 PROVE  table'[v].scheduler <=> table'[v].context = Scheduler
      OBVIOUS
    <3>1. CASE v = t
      BY <3>1, <1>1, <1>5
    <3>2. CASE v # t
      BY <3>2, <1>0, <1>4 DEF Named, Has
    <3> QED BY <3>1, <3>2
  <2> QED BY <2>1, <2>2 DEF Named
<1>12. guest' = IF guest = t THEN NoGuest ELSE guest
  BY DEF ExitGuestThread
<1> QED BY <1>1, <1>4, <1>5, <1>10, <1>11, <1>12

LEMMA ExitContexts ==
  ASSUME ContextsInv, FiberAssumptions, Exit
  PROVE  ContextsInv'
<1>1. /\ running \in alive /\ ExitGuestThread(running) /\ alive' = alive \ {running}
      /\ running' = NoGuest /\ FiberTypeOK
      /\ UNCHANGED <<currentContext, parked, cpu, computed, fileVars, expected, astray>>
  BY DEF Exit, ContextsInv, FiberTypeOK
<1>2. /\ table' \in [Threads -> Fiber \cup {NoEntry}]
      /\ Accounted(On, live, pendingDelete, currentContext)'
      /\ Named'
      /\ guest' \in {guest, NoGuest}
  BY <1>1, ExitEntries
<1>3. pendingDelete' \in Seq(Contexts) /\ live' \subseteq Contexts
  BY <1>2 DEF Accounted
<1>4. FiberTypeOK'
  BY <1>1, <1>2, <1>3 DEF FiberTypeOK, fileVars, callbackVars
<1> QED BY <1>1, <1>2, <1>4 DEF ContextsInv

LEMMA CancelContexts ==
  ASSUME ContextsInv, FiberAssumptions, NEW t \in Threads, Cancel(t)
  PROVE  ContextsInv'
<1>1. /\ t \in alive /\ t # running /\ ExitGuestThread(t) /\ alive' = alive \ {t}
      /\ FiberTypeOK
      /\ UNCHANGED <<running, currentContext, parked, cpu, computed, fileVars, expected, astray>>
  BY DEF Cancel, ContextsInv
<1>2. /\ table' \in [Threads -> Fiber \cup {NoEntry}]
      /\ Accounted(On, live, pendingDelete, currentContext)'
      /\ Named'
      /\ guest' \in {guest, NoGuest}
  BY <1>1, ExitEntries
<1>3. pendingDelete' \in Seq(Contexts) /\ live' \subseteq Contexts
  BY <1>2 DEF Accounted
<1>4. FiberTypeOK'
  BY <1>1, <1>2, <1>3 DEF FiberTypeOK, fileVars, callbackVars
<1> QED BY <1>1, <1>2, <1>4 DEF ContextsInv

\* The entry of a thread that returns keeps its context, and is marked.
LEMMA ReturnEntries ==
  ASSUME ContextsInv, FiberAssumptions, Return
  PROVE  /\ table' \in [Threads -> Fiber \cup {NoEntry}]
         /\ \A v \in Threads : /\ Has(v)' <=> Has(v)
                               /\ v # running => table'[v] = table[v]
         /\ Has(running) /\ table'[running].context = table[running].context
         /\ table'[running].scheduler = table[running].scheduler
<1>0. FiberTypeOK /\ running \in Threads /\ Has(running)
  BY DEF ContextsInv, Return, FiberTypeOK, Named
<1> DEFINE e == [table[running] EXCEPT !.terminated = TRUE]
<1>1. /\ e \in Fiber /\ e # NoEntry
      /\ e.context = table[running].context /\ e.scheduler = table[running].scheduler
  <2>1. table[running] \in Fiber
    BY <1>0, EntryTypes
  <2>2. e \in Fiber
    BY <2>1 DEF Fiber
  <2> QED BY <2>1, <2>2 DEF Fiber, FiberAssumptions, EntriesAssumption
<1>2. table' = [table EXCEPT ![running] = e]
  BY DEF Return
<1> HIDE DEF e
<1> QED BY <1>0, <1>1, <1>2 DEF Has, FiberTypeOK

LEMMA ReturnContexts ==
  ASSUME ContextsInv, FiberAssumptions, Return
  PROVE  ContextsInv'
<1>0. /\ FiberTypeOK /\ Named /\ Accounted(On, live, pendingDelete, currentContext)
      /\ running \in alive /\ alive' = alive \ {running} /\ running' = NoGuest
      /\ alive \subseteq Threads
      /\ UNCHANGED <<pendingDelete, guest, live, currentContext, parked, cpu, computed, fileVars,
                     expected, astray>>
  BY DEF ContextsInv, Return, FiberTypeOK
<1>1. /\ table' \in [Threads -> Fiber \cup {NoEntry}]
      /\ \A v \in Threads : /\ Has(v)' <=> Has(v)
                            /\ v # running => table'[v] = table[v]
      /\ Has(running) /\ table'[running].context = table[running].context
      /\ table'[running].scheduler = table[running].scheduler
  BY ReturnEntries
<1>2. On' = On
  BY <1>1 DEF On
<1>3. Accounted(On, live, pendingDelete, currentContext)'
  BY <1>0, <1>2
<1>4. Named'
  BY <1>0, <1>1 DEF Named
<1>5. FiberTypeOK'
  BY <1>0, <1>1 DEF FiberTypeOK, fileVars, callbackVars
<1> QED BY <1>0, <1>3, <1>4, <1>5 DEF ContextsInv

\* A thread is created at an address nobody lives at: it has a new context.
LEMMA CreateEntries ==
  ASSUME ContextsInv, FiberAssumptions, NEW t \in Threads, Create(t)
  PROVE  \E c \in Contexts :
           /\ c # currentContext /\ c # Scheduler
           /\ \A v \in Threads : v # t /\ Has(v) => table[v].context # c
           /\ table' \in [Threads -> Fiber \cup {NoEntry}]
           /\ \A v \in Threads : v # t => table'[v] = table[v]
           /\ Has(t)' /\ ~table'[t].terminated /\ ~table'[t].scheduler
           /\ table'[t].context = c /\ table'[t].cpuContext = computed'
           /\ parked' = [parked EXCEPT ![c] = Fresh]
           /\ callback' = IF callback = c THEN NoContext ELSE callback
           /\ Accounted(On, live, pendingDelete, currentContext)'
<1> USE DEF FiberAssumptions
<1>0. /\ FiberTypeOK /\ Named /\ Accounted(On, live, pendingDelete, currentContext)
      /\ NoContext \notin Contexts /\ Scheduler \in Contexts
      /\ currentContext' = currentContext
  BY DEF ContextsInv, Create, FibersAssumption
<1> DEFINE left == IF Retired(t) = NoContext THEN live ELSE LiveWithout(Retired(t))
           on1 == IF Retired(t) = NoContext THEN On ELSE [On EXCEPT ![t] = NoContext]
           pd1 == IF Retired(t) = NoContext THEN pendingDelete ELSE PendingWith(Retired(t))
<1>1. PICK c \in Contexts \ left :
        /\ live' = left \cup {c}
        /\ table' = [table EXCEPT ![t] = [context |-> c, terminated |-> FALSE,
                                          scheduler |-> FALSE, cpuContext |-> computed']]
        /\ parked' = [parked EXCEPT ![c] = Fresh]
        /\ callback' = IF callback = c THEN NoContext ELSE callback
  BY DEF Create
<1>2. pendingDelete' = pd1
  BY DEF Create, Replace
<1>3. /\ \A v \in Threads : On[v] = IF Has(v) THEN table[v].context ELSE NoContext
      /\ On \in [Threads -> Contexts \cup {NoContext}]
  BY <1>0 DEF On, Accounted
<1>4. /\ Has(t) => (table[t].scheduler <=> table[t].context = Scheduler)
      /\ Retired(t) = IF Has(t) /\ ~table[t].scheduler THEN table[t].context ELSE NoContext
  BY <1>0 DEF Named, Retired
<1> HIDE DEF On
<1>5. Accounted(on1, left, pd1, currentContext) /\ on1[t] \in {NoContext, Scheduler}
  <2>1. CASE Retired(t) = NoContext
    BY <2>1, <1>0, <1>3, <1>4
  <2>2. CASE Retired(t) # NoContext
    <3>1. On[t] # NoContext /\ On[t] # Scheduler /\ Retired(t) = On[t]
      BY <2>2, <1>3, <1>4
    <3>2. /\ left = IF On[t] = currentContext THEN live ELSE live \ {On[t]}
          /\ pd1 = IF On[t] = currentContext THEN Append(pendingDelete, On[t])
                                             ELSE pendingDelete
          /\ on1 = [On EXCEPT ![t] = NoContext]
      BY <2>2, <3>1 DEF PendingWith, LiveWithout
    <3>3. on1[t] = NoContext
      BY <3>2, <1>3
    <3> HIDE DEF left, pd1, on1
    <3> QED BY <3>1, <3>2, <3>3, <1>0, GivesUp
  <2> QED BY <2>1, <2>2
<1>6. /\ Accounted([on1 EXCEPT ![t] = c], live', pendingDelete', currentContext)
      /\ c # currentContext /\ c # Scheduler
  <2> HIDE DEF left, pd1, on1
  <2>1. currentContext \in left /\ Scheduler \in left /\ c \notin left
    BY <1>5 DEF Accounted
  <2> QED BY <2>1, <1>1, <1>2, <1>5, GivenNew
<1> DEFINE e == [context |-> c, terminated |-> FALSE, scheduler |-> FALSE,
                 cpuContext |-> computed']
<1>7. /\ e \in Fiber /\ e # NoEntry /\ e.context = c /\ e.terminated = FALSE
      /\ e.scheduler = FALSE /\ e.cpuContext = computed'
  <2>2. computed' \in Registers
    BY <1>0 DEF Create, FiberTypeOK, Registers
  <2>3. e \in Fiber
    BY <2>2 DEF Fiber
  <2> QED BY <2>3 DEF EntriesAssumption
<1>8. table' = [table EXCEPT ![t] = e]
  BY <1>1
<1> HIDE DEF e
<1>9. /\ table' \in [Threads -> Fiber \cup {NoEntry}]
      /\ \A v \in Threads : table'[v] = IF v = t THEN e ELSE table[v]
  BY <1>0, <1>7, <1>8 DEF FiberTypeOK
<1>10. On' = [on1 EXCEPT ![t] = c]
  <2>1. \A v \in Threads : On[v]' = IF v = t THEN c ELSE On[v]
    BY <1>3, <1>7, <1>9 DEF On, Has
  <2>2. \A v \in Threads : [on1 EXCEPT ![t] = c][v] = IF v = t THEN c ELSE On[v]
    BY <1>3
  <2>3. DOMAIN On' = Threads /\ DOMAIN [on1 EXCEPT ![t] = c] = Threads
    BY <1>3 DEF On
  <2>4. On' = [v \in Threads |-> On'[v]] /\ [on1 EXCEPT ![t] = c] = [v \in Threads |-> [on1 EXCEPT ![t] = c][v]]
    BY <1>3, <2>3 DEF On
  <2> QED BY <2>1, <2>2, <2>4
<1>11. Accounted(On, live, pendingDelete, currentContext)'
  BY <1>0, <1>6, <1>10
<1>12. \A v \in Threads : v # t /\ Has(v) => table[v].context # c
  <2>1. \A v \in Threads : On'[v] = IF v = t THEN c ELSE On[v]
    BY <1>3, <1>10
  <2>2. c # NoContext
    BY <1>0
  <2> QED BY <2>1, <2>2, <1>3, <1>11 DEF Accounted
<1> QED BY <1>1, <1>6, <1>7, <1>9, <1>11, <1>12 DEF Has

LEMMA CreateContexts ==
  ASSUME ContextsInv, FiberAssumptions, NEW t \in Threads, Create(t)
  PROVE  ContextsInv'
<1>0. /\ FiberTypeOK /\ Named /\ alive' = alive \cup {t}
      /\ expected' = [expected EXCEPT ![t] = computed'] /\ computed' \in Nat
      /\ guest' \in {guest, NoGuest} /\ astray' = astray \ {t}
      /\ currentContext # Scheduler => parked[Scheduler] \in Parked
      /\ UNCHANGED <<running, currentContext, cpu, base, draining, inDisc, kept, under>>
  BY DEF ContextsInv, Create, GuestAfterCreate, FiberTypeOK
<1>1. PICK c \in Contexts :
        /\ c # currentContext /\ c # Scheduler
        /\ table' \in [Threads -> Fiber \cup {NoEntry}]
        /\ \A v \in Threads : v # t => table'[v] = table[v]
        /\ Has(t)' /\ ~table'[t].terminated /\ ~table'[t].scheduler
        /\ table'[t].context = c /\ table'[t].cpuContext = computed'
        /\ parked' = [parked EXCEPT ![c] = Fresh]
        /\ callback' = IF callback = c THEN NoContext ELSE callback
        /\ Accounted(On, live, pendingDelete, currentContext)'
  BY CreateEntries
<1>2. c # NoContext
  BY DEF FiberAssumptions, FibersAssumption
<1>4. Named'
  BY <1>0, <1>1, <1>2 DEF Named, Has, FiberTypeOK
<1>5. FiberTypeOK'
  <2>1. pendingDelete' \in Seq(Contexts) /\ live' \subseteq Contexts
    BY <1>1 DEF Accounted
  <2> QED BY <1>0, <1>1, <2>1 DEF FiberTypeOK, Registers
<1>6. currentContext' # Scheduler => parked'[Scheduler] \in Parked
  BY <1>0, <1>1 DEF FiberTypeOK, FiberAssumptions, FibersAssumption
<1> QED BY <1>1, <1>4, <1>5, <1>6 DEF ContextsInv

\* A step of the register files alone.
FileStep == Compute \/ CallbackBegins \/ CallbackEnds \/ DiscBegins \/ DiscEnds

LEMMA FileTypes ==
  ASSUME FiberTypeOK, FiberAssumptions, FileStep
  PROVE  /\ cpu' \in [Files -> Registers] /\ computed' \in Nat
         /\ expected' \in [Threads -> Registers]
         /\ callback' \in Contexts \cup {NoContext}
         /\ draining' \in BOOLEAN /\ inDisc' \in BOOLEAN
         /\ kept' \in Registers /\ under' \in Registers
<1>1. Current \in Registers /\ File(currentContext) \in Files
  BY CurrentTypes DEF FiberTypeOK
<1>2. /\ cpu \in [Files -> Registers] /\ computed \in Nat
      /\ kept \in Registers /\ under \in Registers
      /\ {"scratch", "persistent"} \subseteq Files
  BY DEF FiberTypeOK, Files
<1>3. ASSUME NEW r \in Registers, Sees(r) PROVE expected' \in [Threads -> Registers]
  BY <1>3 DEF Sees, FiberTypeOK
<1>4. CASE Compute
  <2>1. computed' \in Registers /\ cpu' = [cpu EXCEPT ![File(currentContext)] = computed']
    BY <1>2, <1>4 DEF Compute, Registers
  <2> QED BY <2>1, <1>1, <1>2, <1>3, <1>4 DEF Compute, FiberTypeOK, fileVars, callbackVars,
                                               Registers
<1>5. CASE CallbackBegins
  BY <1>1, <1>2, <1>5 DEF CallbackBegins, FiberTypeOK
<1>6. CASE CallbackEnds
  BY <1>2, <1>3, <1>6 DEF CallbackEnds, FiberTypeOK
<1>7. CASE DiscBegins
  BY <1>2, <1>3, <1>7 DEF DiscBegins, FiberTypeOK
<1>8. CASE DiscEnds
  BY <1>2, <1>3, <1>8 DEF DiscEnds, FiberTypeOK
<1> QED BY <1>4, <1>5, <1>6, <1>7, <1>8 DEF FileStep

\* What does not touch the table keeps the contexts.
LEMMA QuietContexts ==
  ASSUME ContextsInv, FiberAssumptions, FileStep \/ Sleep \/ UNCHANGED fiberVars
  PROVE  ContextsInv' /\ currentContext' = currentContext
<1>1. /\ UNCHANGED <<alive, tableVars, currentContext, base, astray>>
      /\ running' \in {running, NoGuest}
  BY DEF FileStep, Compute, CallbackBegins, CallbackEnds, DiscBegins, DiscEnds, Sleep,
         fiberVars, hostVars, fileVars
<1>2. On' = On /\ Named'
  BY <1>1 DEF On, Has, Named, tableVars, ContextsInv
<1>3. /\ cpu' \in [Files -> Registers] /\ computed' \in Nat
      /\ expected' \in [Threads -> Registers]
      /\ callback' \in Contexts \cup {NoContext}
      /\ draining' \in BOOLEAN /\ inDisc' \in BOOLEAN
      /\ kept' \in Registers /\ under' \in Registers
  <2>1. CASE FileStep
    BY <2>1, FileTypes DEF ContextsInv
  <2>2. CASE Sleep \/ UNCHANGED fiberVars
    BY <2>2 DEF Sleep, fiberVars, fileVars, callbackVars, ContextsInv, FiberTypeOK
  <2> QED BY <2>1, <2>2
<1>4. FiberTypeOK'
  BY <1>1, <1>3 DEF ContextsInv, FiberTypeOK, tableVars
<1>5. Accounted(On, live, pendingDelete, currentContext)'
  BY <1>1, <1>2 DEF ContextsInv, tableVars
<1> QED BY <1>1, <1>2, <1>4, <1>5 DEF ContextsInv, tableVars

LEMMA NextContexts ==
  ASSUME ContextsInv, FiberAssumptions, [FiberNext]_fiberVars
  PROVE  ContextsInv' /\ currentContext \in live'
<1>1. CASE \E u \in Threads : Dispatch(u)
  BY <1>1, DispatchContexts
<1>2. CASE ~ \E u \in Threads : Dispatch(u)
  <2>1. ContextsInv'
    <3>1. CASE \E t \in Threads : Cancel(t)
      BY <3>1, CancelContexts
    <3>2. CASE \E t \in Threads : Create(t)
      BY <3>2, CreateContexts
    <3>3. CASE FileStep \/ Sleep \/ UNCHANGED fiberVars
      BY <3>3, QuietContexts
    <3>4. CASE Exit
      BY <3>4, ExitContexts
    <3>5. CASE Return
      BY <3>5, ReturnContexts
    <3> QED BY <1>2, <3>1, <3>2, <3>3, <3>4, <3>5 DEF FiberNext, FileStep
  <2>2. currentContext' = currentContext
    BY <1>2, QuietContexts DEF FiberNext, FileStep, Cancel, Create, Exit, Return
  <2> QED BY <2>1, <2>2 DEF ContextsInv, Accounted
<1> QED BY <1>1, <1>2

\* For every set of threads and contexts, also when callbacks give the host to another
\* thread and starts are deferred: no context is given up twice or lost, the one that executes is not destroyed
\* under its own feet, and who is alive has one to be resumed on (fiber_manager.cpp:27-45,
\* 242-303, 336-358).
THEOREM ContextsStayWhole ==
  ASSUME FiberAssumptions
  PROVE  FiberSpec => ContextsAreKept
<1> DEFINE Resumes == \A t \in alive : Has(t) /\ ~table[t].terminated /\ table[t].context \in live
<1>1. FiberInit => ContextsInv
  BY InitContexts
<1>2. ContextsInv /\ [FiberNext]_fiberVars => ContextsInv'
  BY NextContexts
<1>3. ContextsInv => ReapedOnce /\ NoLeak /\ Resumes
  BY ContextsInvSuffices
<1>4. ContextsInv /\ [FiberNext]_fiberVars /\ Resumes' =>
        [/\ currentContext \in live'
         /\ \A t \in alive' : Has(t)' /\ ~table'[t].terminated /\ table'[t].context \in live']_fiberVars
  BY NextContexts
<1> HIDE DEF Resumes
<1>5. FiberSpec => []ContextsInv
  BY <1>1, <1>2, PTL DEF FiberSpec
<1> QED BY <1>3, <1>4, <1>5, PTL DEF FiberSpec, ContextsAreKept, NoDanglingContext

\* The types of the fibers.
THEOREM FibersAreTyped ==
  ASSUME FiberAssumptions
  PROVE  FiberSpec => []FiberTypeOK
<1>1. FiberInit => ContextsInv
  BY InitContexts
<1>2. ContextsInv /\ [FiberNext]_fiberVars => ContextsInv'
  BY NextContexts
<1>3. ContextsInv => FiberTypeOK
  BY DEF ContextsInv
<1> QED BY <1>1, <1>2, <1>3, PTL DEF FiberSpec

-----------------------------------------------------------------------------
(* Registers are kept, whatever callbacks do.                               *)

\* Nobody lives on the scheduler's context, and nobody can come to again.
Orphaned == \A t \in alive : table[t].context # Scheduler

\* A thread that runs does so on its own context, but for a deferred start.
RunningHere ==
  running # NoGuest =>
    \/ table[running].context = currentContext
    \/ currentContext = Scheduler /\ parked[table[running].context] = Starting

\* s_currentGuestThread is the fiber of the current context, and the scheduler's only while
\* its thread is alive, as its address may be used again; or that of a deferred start which
\* the scheduler's context took for the thread it had left there, itself dead by now.
GuestHere ==
  guest # NoGuest =>
    /\ Has(guest)
    /\ \/ /\ table[guest].context = currentContext
          /\ table[guest].scheduler => guest \in alive
       \/ guest \in alive \cap astray /\ currentContext = Scheduler /\ Orphaned

\* What a SwitchToThread keeps on a stack is of the thread whose stack it is.
ParkedOwn ==
  \A t \in alive :
    ~AtStart(table[t].context) => parked[table[t].context].previous \in {t, NoGuest}

\* The registers of t are where its next switch will look for them.
LeftOff(t) ==
  LET left == parked[table[t].context]
  IN  IF AtStart(table[t].context) THEN table[t].cpuContext = expected[t]
      ELSE /\ left.caller = expected[t]
           /\ left.previous = t => table[t].cpuContext = expected[t]

\* The registers of t are in the register file if it is on the current context, and
\* otherwise where it left them; its context uses the shared file, and so a callback on it
\* gives back there what it found.
RegistersKept(t) ==
  LET c == table[t].context
  IN  /\ c = currentContext \/ parked[c] # Fresh => base[c] = "persistent"
      /\ c = callback => /\ c = currentContext
                         /\ inDisc => under = kept
                         /\ ~inDisc => cpu["persistent"] = kept
      /\ c = currentContext => Current = expected[t]
      /\ c # currentContext => LeftOff(t)

RegistersInv ==
  /\ RunningHere /\ GuestHere /\ ParkedOwn
  /\ ~draining => callback = NoContext
  /\ \A t \in alive \ astray : RegistersKept(t)

LEMMA RegistersInvSuffices ==
  ASSUME RegistersInv
  PROVE  RegistersBelong
BY DEF RegistersInv, RunningHere, RegistersKept, RegistersBelong, Executing

\* What the steps need of the contexts.
LEMMA ContextFacts ==
  ASSUME ContextsInv, FiberAssumptions
  PROVE  /\ FiberTypeOK /\ alive \subseteq Threads
         /\ NoContext \notin Contexts /\ NoGuest \notin Threads
         /\ currentContext \in Contexts /\ Scheduler \in Contexts
         /\ \A t \in alive : Has(t) /\ table[t].context \in Contexts
         /\ \A t, u \in Threads :
              /\ Has(t) /\ Has(u)
              /\ table[t].context = table[u].context /\ table[t].context \in Contexts
              => t = u
<1>1. FiberTypeOK /\ ReapedOnce
  BY ContextsInvSuffices DEF ContextsInv
<1>2. NoContext \notin Contexts /\ NoGuest \notin Threads /\ Scheduler \in Contexts
  BY DEF FiberAssumptions, FibersAssumption
<1>3. alive \subseteq Threads /\ live \subseteq Contexts /\ currentContext \in Contexts
  BY <1>1 DEF FiberTypeOK
<1>4. \A t \in alive : Has(t) /\ table[t].context \in Contexts
  BY <1>3, ContextsInvSuffices
<1> QED BY <1>1, <1>2, <1>3, <1>4 DEF ReapedOnce

\* Whose registers s_currentGuestThread can stand for.
LEMMA GuestFacts ==
  ASSUME ContextsInv, FiberAssumptions, GuestHere
  PROVE  /\ \A t \in alive : table[t].context = currentContext => guest \in {t, NoGuest}
         /\ \A t \in alive \ astray : table[t].context # currentContext => guest # t
<1>1. /\ FiberTypeOK /\ alive \subseteq Threads
      /\ currentContext \in Contexts /\ NoGuest \notin Threads
      /\ \A t \in alive : Has(t) /\ table[t].context \in Contexts
      /\ \A t, u \in Threads :
           /\ Has(t) /\ Has(u)
           /\ table[t].context = table[u].context /\ table[t].context \in Contexts
           => t = u
  BY ContextFacts
<1>2. guest \in Threads \cup {NoGuest}
  BY <1>1 DEF FiberTypeOK
<1> QED BY <1>1, <1>2 DEF GuestHere, Orphaned

LEMMA InitRegisters ==
  ASSUME FiberInit, FiberAssumptions
  PROVE  RegistersInv
<1>1. ContextsInv
  BY InitContexts
<1>2. /\ Main \in Threads /\ Scheduler \in Contexts /\ NoContext \notin Contexts
      /\ alive = {Main} /\ running = Main /\ guest = Main /\ currentContext = Scheduler
      /\ callback = NoContext /\ base = [c \in Contexts |-> "persistent"]
      /\ parked = [c \in Contexts |-> Fresh]
      /\ cpu = [f \in Files |-> 0] /\ expected = [t \in Threads |-> 0]
  BY DEF FiberInit, FiberAssumptions, FibersAssumption
<1>3. Has(Main) /\ table[Main].context = Scheduler
  <2>1. /\ table[Main] = [context |-> Scheduler, terminated |-> FALSE,
                          scheduler |-> TRUE, cpuContext |-> 0]
    BY <1>2 DEF FiberInit
  <2> QED BY <2>1, <1>1, <1>2 DEF ContextsInv, Named
<1>4. Current = 0
  BY <1>2 DEF Current, File, Files
<1>5. AtStart(Scheduler)
  BY <1>2 DEF AtStart
<1>6. RunningHere /\ GuestHere /\ ParkedOwn
  BY <1>2, <1>3, <1>5 DEF RunningHere, GuestHere, ParkedOwn
<1>7. \A t \in alive : RegistersKept(t)
  BY <1>2, <1>3, <1>4 DEF RegistersKept
<1> QED BY <1>2, <1>6, <1>7 DEF RegistersInv

\* A step that touches nothing of a thread that is elsewhere.
LEMMA ElsewhereKept ==
  ASSUME NEW t, RegistersKept(t), table'[t] = table[t], expected'[t] = expected[t],
         table[t].context # currentContext, table[t].context # currentContext',
         parked'[table[t].context] = parked[table[t].context],
         base'[table[t].context] = base[table[t].context],
         callback' = table[t].context => callback' = callback
  PROVE  RegistersKept(t)'
BY DEF RegistersKept, LeftOff, AtStart

\* A step that touches nothing of a thread but who runs.
LEMMA SameKept ==
  ASSUME NEW t, RegistersKept(t), table'[t] = table[t], expected'[t] = expected[t],
         parked'[table[t].context] = parked[table[t].context],
         UNCHANGED <<currentContext, cpu, base, inDisc, kept, under>>,
         callback' = callback \/ (callback # table[t].context /\ callback' # table[t].context)
  PROVE  RegistersKept(t)'
<1>1. table[t].context = currentContext => Current' = Current
  BY DEF Current, File
<1> QED BY <1>1 DEF RegistersKept, LeftOff, AtStart

-----------------------------------------------------------------------------
(* A switch.                                                                *)

\* The thread that executed on the context that is left.
LEMMA LeaverKept ==
  ASSUME ContextsInv, FiberAssumptions, GuestHere, NEW t \in alive, RegistersKept(t),
         table[t].context = currentContext, currentContext' # currentContext,
         callback # currentContext, callback' = callback, expected' = expected,
         table'[t].context = table[t].context,
         t = guest => table'[t].cpuContext = Current,
         parked'[currentContext] = [previous |-> guest, caller |-> Current],
         base'[currentContext] = base[currentContext]
  PROVE  RegistersKept(t)'
<1>1. [previous |-> guest, caller |-> Current] \in Parked
  BY ContextFacts, CurrentTypes DEF Parked, FiberTypeOK
<1>2. /\ parked'[currentContext] \notin {Fresh, Starting}
      /\ base[currentContext] = "persistent" /\ Current = expected[t]
  BY <1>1 DEF FiberAssumptions, EntriesAssumption, RegistersKept
<1>3. guest \in {t, NoGuest} /\ t # NoGuest
  BY GuestFacts, ContextFacts
<1>4. LeftOff(t)'
  BY <1>2, <1>3 DEF LeftOff, AtStart
<1> QED BY <1>2, <1>4 DEF RegistersKept

\* A switch to a thread on the context that executes already: nothing moves.
LEMMA StayRegisters ==
  ASSUME RegistersInv, ContextsInv, FiberAssumptions, NEW u \in Threads, Dispatch(u),
         table[u].context = currentContext
  PROVE  RegistersInv'
<1>1. /\ u \in alive /\ running' = u /\ table' = Saved(u) /\ guest' = u
      /\ UNCHANGED <<alive, expected, draining, callback, inDisc, kept, under,
                     currentContext, parked, cpu, base, astray>>
  BY DEF Dispatch, SwitchToThread, callbackVars
<1>2. /\ FiberTypeOK /\ alive \subseteq Threads /\ \A t \in alive : Has(t)
  BY ContextFacts
<1>3. \A t \in Threads :
        /\ Has(t)' <=> Has(t)
        /\ t # guest => table'[t] = table[t]
        /\ Has(t) => table'[t].context = table[t].context
  BY <1>1, <1>2, SavedEntries
<1>4. RunningHere' /\ GuestHere'
  BY <1>1, <1>2, <1>3 DEF RunningHere, GuestHere
<1>5. ParkedOwn'
  BY <1>1, <1>2, <1>3 DEF RegistersInv, ParkedOwn, AtStart
<1>6. ASSUME NEW t \in alive \ astray PROVE RegistersKept(t)'
  <2>1. RegistersKept(t) /\ t \in Threads /\ Has(t)
    BY <1>2 DEF RegistersInv
  <2>2. CASE table[t].context = currentContext
    <3>1. Current' = Current /\ table'[t].context = table[t].context
      BY <2>1, <1>1, <1>3 DEF Current, File
    <3> QED BY <2>1, <2>2, <3>1, <1>1 DEF RegistersKept
  <2>3. CASE table[t].context # currentContext
    <3>1. table'[t] = table[t]
      BY <2>1, <2>3, <1>3, GuestFacts DEF RegistersInv
    <3> QED BY <2>1, <3>1, <1>1, SameKept
  <2> QED BY <2>2, <2>3
<1> QED BY <1>1, <1>4, <1>5, <1>6 DEF RegistersInv

\* What the two ways to another context have in common.
Leaves(c, u) ==
  /\ u \in alive /\ c = table[u].context /\ c # currentContext /\ running' = u
  /\ \A t \in alive : /\ table'[t].context = table[t].context
                      /\ t # guest => table'[t] = table[t]
                      /\ t = guest => table'[t].cpuContext = Current
  /\ UNCHANGED <<alive, expected, draining, callback, inDisc, kept, under>>
  /\ astray \cup GivenUp(u) \subseteq astray'
  /\ parked'[currentContext] = [previous |-> guest, caller |-> Current]
  /\ \A d \in Contexts : d # c /\ d # currentContext => parked'[d] = parked[d]
  /\ \A d \in Contexts : d # c => base'[d] = base[d]
  /\ base'[c] = IF parked[c] = Fresh THEN File(currentContext) ELSE base[c]

\* The thread a switch leaves, and those that are elsewhere, find their registers later.
LEMMA OthersKept ==
  ASSUME RegistersInv, ContextsInv, FiberAssumptions, NEW c, NEW u, Leaves(c, u),
         NEW t \in alive \ astray', t # u, table[t].context # currentContext',
         currentContext' # currentContext \/ table[t].context # currentContext
  PROVE  RegistersKept(t)'
<1>1. /\ RegistersKept(t) /\ t \in alive /\ t \notin astray /\ t \in Threads
      /\ table[t].context \in Contexts /\ table[t].context # c
      /\ u \in alive /\ u \in Threads /\ currentContext \in Contexts
  BY ContextFacts DEF RegistersInv, Leaves
<1>2. CASE table[t].context = currentContext
  <2>1. callback # currentContext
    BY <1>1, <1>2 DEF Leaves, GivenUp, Executing
  <2>2. /\ table'[t].context = table[t].context
        /\ t = guest => table'[t].cpuContext = Current
        /\ parked'[currentContext] = [previous |-> guest, caller |-> Current]
        /\ base'[currentContext] = base[currentContext]
        /\ callback' = callback /\ expected' = expected
    BY <1>1, <1>2 DEF Leaves
  <2> QED BY <1>1, <1>2, <2>1, <2>2, LeaverKept DEF RegistersInv
<1>3. CASE table[t].context # currentContext
  <2>1. table'[t] = table[t]
    BY <1>1, <1>3, GuestFacts DEF RegistersInv, Leaves
  <2>2. /\ parked'[table[t].context] = parked[table[t].context]
        /\ base'[table[t].context] = base[table[t].context]
        /\ callback' = callback /\ expected' = expected
    BY <1>1, <1>3 DEF Leaves
  <2> QED BY <1>1, <1>3, <2>1, <2>2, ElsewhereKept
<1> QED BY <1>2, <1>3

\* Parked records after a switch.
LEMMA ParkedStaysOwn ==
  ASSUME RegistersInv, ContextsInv, FiberAssumptions, NEW c, NEW u, Leaves(c, u),
         parked'[c] \in {parked[c], Starting}
  PROVE  ParkedOwn'
<1> SUFFICES ASSUME NEW t \in alive, parked'[table[t].context] \notin {Fresh, Starting}
             PROVE  parked'[table[t].context].previous \in {t, NoGuest}
  BY DEF Leaves, ParkedOwn, AtStart
<1>1. table[t].context \in Contexts
  BY ContextFacts
<1>2. CASE table[t].context = currentContext
  BY <1>2, GuestFacts DEF RegistersInv, Leaves
<1>3. CASE table[t].context # currentContext
  <2>1. parked'[table[t].context] = parked[table[t].context]
    BY <1>1, <1>3 DEF Leaves
  <2> QED BY <2>1 DEF RegistersInv, ParkedOwn, AtStart
<1> QED BY <1>2, <1>3

\* The thread a switch goes to: its context does not use the scratch file.
LEMMA TargetFile ==
  ASSUME RegistersInv, ContextsInv, FiberAssumptions, NEW c, NEW u, Leaves(c, u),
         u \notin astray'
  PROVE  /\ RegistersKept(u) /\ LeftOff(u) /\ table'[u] = table[u]
         /\ base'[c] = "persistent" /\ callback # c
         /\ AtStart(c) => File(currentContext) = "persistent"
         /\ ~AtStart(c) => File(c) = "persistent"
<1>1. /\ RegistersKept(u) /\ u \in alive /\ u \notin astray
      /\ c = table[u].context /\ c # currentContext
  BY DEF RegistersInv, Leaves
<1>2. LeftOff(u) /\ callback # c /\ (parked[c] # Fresh => base[c] = "persistent")
  BY <1>1 DEF RegistersKept
<1>3. table'[u] = table[u]
  BY <1>1, GuestFacts DEF RegistersInv, Leaves
<1>4. AtStart(c) => File(currentContext) = "persistent"
  <2>1. AtStart(c) => File(currentContext) # "scratch"
    BY <1>1 DEF Leaves, GivenUp
  <2>2. File(currentContext) \in {"persistent", "scratch"}
    BY CurrentTypes, ContextFacts DEF Files
  <2> QED BY <2>1, <2>2
<1>5. parked[c] = Fresh => AtStart(c)
  BY DEF AtStart
<1>6. base'[c] = "persistent"
  BY <1>2, <1>4, <1>5 DEF Leaves
<1>7. ~AtStart(c) => File(c) = "persistent"
  BY <1>2, <1>5 DEF File
<1> QED BY <1>1, <1>2, <1>3, <1>4, <1>6, <1>7

\* On its own context the thread finds what it left off with.
LEMMA ArriveRegisters ==
  ASSUME RegistersInv, ContextsInv, FiberAssumptions, NEW c \in Contexts, NEW u \in Threads,
         Leaves(c, u), Arrive(c, u), parked'[c] = parked[c], Has(u)'
  PROVE  RegistersInv'
<1>1. /\ u \in alive /\ c = table[u].context /\ c # currentContext /\ running' = u
      /\ alive' = alive /\ currentContext' = c /\ table'[u].context = c
      /\ callback' = callback /\ draining' = draining /\ expected' = expected
      /\ FiberTypeOK /\ guest' \in {u, NoGuest}
      /\ \A t, v \in alive : table[t].context = table[v].context => t = v
      /\ \A t \in alive : table'[t].context = table[t].context
  BY ContextFacts DEF Leaves, Arrive, Returns
<1>2. RunningHere' /\ GuestHere'
  BY <1>1 DEF RunningHere, GuestHere
<1>3. ParkedOwn'
  BY ParkedStaysOwn
<1>4. u \notin astray' => RegistersKept(u)'
  <2> SUFFICES ASSUME u \notin astray' PROVE RegistersKept(u)'
    OBVIOUS
  <2>1. /\ LeftOff(u) /\ table'[u] = table[u] /\ base'[c] = "persistent" /\ callback # c
        /\ AtStart(c) => File(currentContext) = "persistent"
        /\ ~AtStart(c) => File(c) = "persistent"
    BY TargetFile
  <2>2. Current' = cpu'["persistent"]
    BY <1>1, <2>1 DEF Current, File
  <2>3. cpu \in [Files -> Registers] /\ "persistent" \in Files /\ File(currentContext) \in Files
    BY <1>1, CurrentTypes DEF FiberTypeOK, Files
  <2>4. cpu'["persistent"] = expected[u]
    <3>1. CASE AtStart(c)
      BY <3>1, <1>1, <2>1, <2>3 DEF Arrive, Loaded, LeftOff
    <3>2. CASE ~AtStart(c)
      <4>1. Returns(c, u, parked[c])
        BY <3>2 DEF Arrive
      <4>2. Loaded(u) \in [Files -> Registers \cup {table'[u].cpuContext}]
        BY <2>3 DEF Loaded
      <4>3. cpu'["persistent"] = IF parked[c].previous = u THEN table'[u].cpuContext
                                                           ELSE parked[c].caller
        BY <3>2, <2>1, <2>3, <4>1, <4>2 DEF Returns
      <4> QED BY <3>2, <4>3, <1>1, <2>1 DEF LeftOff
    <3> QED BY <3>1, <3>2
  <2> QED BY <1>1, <2>1, <2>2, <2>4 DEF RegistersKept
<1>5. ASSUME NEW t \in alive \ astray', t # u PROVE RegistersKept(t)'
  BY <1>1, <1>5, OthersKept
<1> QED BY <1>1, <1>2, <1>3, <1>4, <1>5 DEF RegistersInv

\* When a start is deferred, the scheduler's context goes on with the registers its own
\* thread left off with, if that one is alive; the thread that waits for its start has those
\* CreateGuestFiber gave it.
LEMMA DeferRegisters ==
  ASSUME RegistersInv, ContextsInv, FiberAssumptions, NEW c \in Contexts, NEW u \in Threads,
         Leaves(c, u), Defer(c, u), parked'[c] = Starting, Has(u)', c # Scheduler,
         astray \cup GivenUp(u) \cup Mistaken(u) \subseteq astray',
         currentContext # Scheduler => parked[Scheduler] \in Parked
  PROVE  RegistersInv'
<1> DEFINE left == parked'[Scheduler]
<1>1. /\ u \in alive /\ c = table[u].context /\ c # currentContext /\ running' = u
      /\ alive' = alive /\ currentContext' = Scheduler /\ table'[u].context = c
      /\ callback' = callback /\ draining' = draining /\ expected' = expected
      /\ FiberTypeOK /\ Scheduler \in Contexts /\ Returns(Scheduler, u, left) /\ AtStart(c)
      /\ \A t, v \in alive : table[t].context = table[v].context => t = v
      /\ \A t \in alive : table'[t].context = table[t].context
      /\ u # NoGuest
  BY ContextFacts DEF Leaves, Defer
<1>2. \A t \in alive : table[t].context = Scheduler =>
        /\ left.previous # u
        /\ currentContext = Scheduler => left.caller = Current
        /\ currentContext # Scheduler => /\ left = parked[Scheduler] /\ ~AtStart(Scheduler)
  <2> SUFFICES ASSUME NEW t \in alive, table[t].context = Scheduler
               PROVE  /\ left.previous # u
                      /\ currentContext = Scheduler => left.caller = Current
                      /\ currentContext # Scheduler => /\ left = parked[Scheduler]
                                                       /\ ~AtStart(Scheduler)
    OBVIOUS
  <2>1. t # u
    BY <1>1
  <2>2. CASE currentContext = Scheduler
    <3>1. guest \in {t, NoGuest}
      BY <2>2, GuestFacts DEF RegistersInv
    <3> QED BY <2>1, <2>2, <3>1, <1>1 DEF Leaves
  <2>3. CASE currentContext # Scheduler
    <3>1. left = parked[Scheduler] /\ ~AtStart(Scheduler)
      BY <2>3, <1>1, ParkedTypes DEF Leaves
    <3>2. left.previous \in {t, NoGuest}
      BY <3>1 DEF RegistersInv, ParkedOwn
    <3> QED BY <2>1, <2>3, <3>1, <3>2, <1>1
  <2> QED BY <2>2, <2>3
<1>3. RunningHere'
  BY <1>1 DEF RunningHere
<1>4. GuestHere'
  <2>1. CASE left.previous = u
    <3>1. guest' = u /\ u \in astray'
      BY <2>1, <1>1 DEF Returns, Mistaken
    <3>2. Orphaned'
      BY <2>1, <1>1, <1>2 DEF Orphaned
    <3> QED BY <3>1, <3>2, <1>1 DEF GuestHere
  <2>2. CASE left.previous # u
    BY <2>2, <1>1 DEF Returns, GuestHere
  <2> QED BY <2>1, <2>2
<1>5. ParkedOwn'
  BY ParkedStaysOwn
<1>6. u \notin astray' => RegistersKept(u)'
  <2> SUFFICES ASSUME u \notin astray' PROVE RegistersKept(u)'
    OBVIOUS
  <2>1. LeftOff(u) /\ table'[u] = table[u] /\ base'[c] = "persistent" /\ callback # c
    BY TargetFile
  <2>2. LeftOff(u)'
    BY <2>1, <1>1 DEF LeftOff, AtStart
  <2> QED BY <1>1, <2>1, <2>2 DEF RegistersKept
<1>7. ASSUME NEW t \in alive \ astray', t # u PROVE RegistersKept(t)'
  <2>1. RegistersKept(t) /\ t \in alive /\ t \notin astray
    BY <1>7 DEF RegistersInv, Leaves
  <2>2. CASE table[t].context # Scheduler
    <3>1. currentContext' # currentContext \/ table[t].context # currentContext
      BY <2>2, <1>1
    <3> QED BY <2>2, <3>1, <1>1, <1>7, OthersKept
  <2>3. CASE table[t].context = Scheduler
    <3>1. callback # Scheduler /\ base[Scheduler] = "persistent"
      <4>1. CASE currentContext = Scheduler
        <5>1. callback # currentContext
          BY <4>1, <2>1, <2>3, <1>7 DEF Leaves, GivenUp, Executing
        <5> QED BY <4>1, <5>1, <2>1, <2>3 DEF RegistersKept
      <4>2. CASE currentContext # Scheduler
        <5>1. parked[Scheduler] # Fresh
          BY <4>2, <2>1, <2>3, <1>2 DEF AtStart
        <5> QED BY <4>2, <5>1, <2>1, <2>3 DEF RegistersKept
      <4> QED BY <4>1, <4>2
    <3>2. base'[Scheduler] = "persistent" /\ File(Scheduler) = "persistent"
      BY <3>1, <1>1 DEF Leaves, File
    <3>3. Current' = cpu'["persistent"]
      BY <3>1, <3>2, <1>1 DEF Current, File
    <3>4. cpu'["persistent"] = left.caller
      <4>1. cpu' = [Loaded(u) EXCEPT !["persistent"] = left.caller]
        BY <3>2, <2>1, <2>3, <1>1, <1>2 DEF Returns
      <4>2. "persistent" \in DOMAIN Loaded(u)
        BY <1>1 DEF Loaded, FiberTypeOK, Files
      <4> HIDE DEF left
      <4> QED BY <4>1, <4>2
    <3>5. left.caller = expected[t]
      <4>1. CASE currentContext = Scheduler
        BY <4>1, <2>1, <2>3, <1>2 DEF RegistersKept
      <4>2. CASE currentContext # Scheduler
        BY <4>2, <2>1, <2>3, <1>2 DEF RegistersKept, LeftOff
      <4> QED BY <4>1, <4>2
    <3> QED BY <3>1, <3>2, <3>3, <3>4, <3>5, <2>1, <2>3, <1>1 DEF RegistersKept
  <2> QED BY <2>2, <2>3
<1> QED BY <1>1, <1>3, <1>4, <1>5, <1>6, <1>7 DEF RegistersInv

LEMMA DispatchRegisters ==
  ASSUME RegistersInv, ContextsInv, FiberAssumptions, NEW u \in Threads, Dispatch(u)
  PROVE  RegistersInv'
<1>1. CASE table[u].context = currentContext
  BY <1>1, StayRegisters
<1>2. CASE table[u].context # currentContext
  <2> DEFINE c == table[u].context
             here == [previous |-> guest, caller |-> Current]
             left == [parked EXCEPT ![currentContext] = here]
  <2>1. /\ FiberTypeOK /\ alive \subseteq Threads
        /\ currentContext \in Contexts /\ Scheduler \in Contexts
        /\ \A t \in alive : Has(t) /\ table[t].context \in Contexts
        /\ currentContext # Scheduler => parked[Scheduler] \in Parked
    BY ContextFacts DEF ContextsInv
  <2>2. /\ u \in alive /\ running' = u /\ table' = Saved(u) /\ c \in Contexts
        /\ UNCHANGED <<alive, expected, draining, callback, inDisc, kept, under>>
        /\ SwitchContext(c, u)
    BY <1>2, <2>1 DEF Dispatch, SwitchToThread, callbackVars
  <2>3. /\ \A t \in Threads :
             /\ Has(t)' <=> Has(t)
             /\ t # guest => table'[t] = table[t]
             /\ Has(t) => /\ table'[t].context = table[t].context
                          /\ t = guest => table'[t].cpuContext = Current
    BY <2>1, <2>2, SavedEntries
  <2>4. /\ base' = IF parked[c] = Fresh THEN [base EXCEPT ![c] = File(currentContext)] ELSE base
        /\ astray \cup GivenUp(u) \subseteq astray'
        /\ \/ parked' = left /\ Arrive(c, u)
           \/ /\ parked' = [left EXCEPT ![c] = Starting] /\ Defer(c, u)
              /\ Mistaken(u) \subseteq astray'
    BY <2>2 DEF SwitchContext
  <2>5. /\ \A d \in Contexts : d # c => base'[d] = base[d]
        /\ base'[c] = IF parked[c] = Fresh THEN File(currentContext) ELSE base[c]
    BY <2>1, <2>2, <2>4 DEF FiberTypeOK
  <2> HIDE DEF here
  <2>6. /\ left[currentContext] = here /\ left[c] = parked[c]
        /\ \A d \in Contexts : d # currentContext => left[d] = parked[d]
        /\ DOMAIN left = Contexts
    BY <1>2, <2>1 DEF FiberTypeOK
  <2> HIDE DEF left
  <2>7. /\ parked'[currentContext] = here
        /\ \A d \in Contexts : d # c /\ d # currentContext => parked'[d] = parked[d]
        /\ \/ Arrive(c, u) /\ parked'[c] = parked[c]
           \/ Defer(c, u) /\ parked'[c] = Starting /\ Mistaken(u) \subseteq astray'
    BY <1>2, <2>1, <2>2, <2>4, <2>6
  <2>8. Leaves(c, u)
    BY <1>2, <2>1, <2>2, <2>3, <2>4, <2>5, <2>7 DEF Leaves, here
  <2>9. Has(u)'
    BY <2>1, <2>2, <2>3
  <2>10. CASE Arrive(c, u) /\ parked'[c] = parked[c]
    BY <2>2, <2>8, <2>9, <2>10, ArriveRegisters
  <2>11. CASE Defer(c, u) /\ parked'[c] = Starting /\ Mistaken(u) \subseteq astray'
    <3>1. c # Scheduler
      BY <1>2, <2>1, <2>2, <2>11, ParkedTypes DEF Defer
    <3>2. astray \cup GivenUp(u) \cup Mistaken(u) \subseteq astray'
      BY <2>4, <2>11
    <3> HIDE DEF c
    <3> QED BY <2>1, <2>2, <2>8, <2>9, <2>11, <3>1, <3>2, DeferRegisters
  <2> QED BY <2>7, <2>10, <2>11
<1> QED BY <1>1, <1>2

-----------------------------------------------------------------------------
(* The other steps.                                                         *)

\* A thread ends, itself or by another: nothing of the others is touched.
LEMMA ExitRegisters ==
  ASSUME RegistersInv, ContextsInv, FiberAssumptions, NEW t \in alive, ExitGuestThread(t),
         alive' = alive \ {t},
         UNCHANGED <<currentContext, parked, cpu, computed, fileVars, expected, astray>>,
         running' = NoGuest \/ (running' = running /\ t # running)
  PROVE  RegistersInv'
<1>1. /\ UNCHANGED <<base, draining, callback, inDisc, kept, under>>
      /\ FiberTypeOK /\ alive \subseteq Threads /\ NoGuest \notin Threads
      /\ running \in alive \cup {NoGuest} /\ guest \in Threads \cup {NoGuest}
  BY ContextFacts DEF fileVars, callbackVars, FiberTypeOK
<1>2. /\ \A v \in Threads : v # t => table'[v] = table[v]
      /\ guest' = IF guest = t THEN NoGuest ELSE guest
  BY ExitEntries
<1>3. RunningHere'
  BY <1>1, <1>2 DEF RegistersInv, RunningHere
<1>4. GuestHere'
  BY <1>1, <1>2 DEF RegistersInv, GuestHere, Orphaned, Has
<1>5. ParkedOwn'
  BY <1>1, <1>2 DEF RegistersInv, ParkedOwn, AtStart
<1>6. ASSUME NEW v \in alive' \ astray' PROVE RegistersKept(v)'
  <2>1. RegistersKept(v) /\ table'[v] = table[v]
    BY <1>1, <1>2 DEF RegistersInv
  <2> QED BY <2>1, <1>1, SameKept
<1> QED BY <1>1, <1>3, <1>4, <1>5, <1>6 DEF RegistersInv

LEMMA ReturnRegisters ==
  ASSUME RegistersInv, ContextsInv, FiberAssumptions, Return
  PROVE  RegistersInv'
<1>1. /\ UNCHANGED <<base, draining, callback, inDisc, kept, under, guest, currentContext,
                     parked, cpu, expected, astray>>
      /\ running \in alive /\ alive' = alive \ {running} /\ running' = NoGuest
      /\ ~table[running].scheduler /\ table[running].context = currentContext
      /\ FiberTypeOK /\ alive \subseteq Threads /\ NoGuest \notin Threads
      /\ guest \in Threads \cup {NoGuest}
  BY ContextFacts DEF Return, fileVars, callbackVars, FiberTypeOK
<1>2. /\ \A v \in Threads : /\ Has(v)' <=> Has(v)
                            /\ v # running => table'[v] = table[v]
      /\ table'[running].context = table[running].context
      /\ table'[running].scheduler = table[running].scheduler
  BY ReturnEntries
<1>3. RunningHere'
  BY <1>1 DEF RunningHere
<1>4. GuestHere'
  BY <1>1, <1>2 DEF RegistersInv, GuestHere, Orphaned
<1>5. ParkedOwn'
  BY <1>1, <1>2 DEF RegistersInv, ParkedOwn, AtStart
<1>6. ASSUME NEW v \in alive' \ astray' PROVE RegistersKept(v)'
  <2>1. RegistersKept(v) /\ table'[v] = table[v]
    BY <1>1, <1>2 DEF RegistersInv
  <2> QED BY <2>1, <1>1, SameKept
<1> QED BY <1>1, <1>3, <1>4, <1>5, <1>6 DEF RegistersInv

\* A new thread has a new context and a new entry; an old one at its address that still
\* was s_currentGuestThread is forgotten, or its registers would be saved over the new.
LEMMA CreateRegisters ==
  ASSUME RegistersInv, ContextsInv, FiberAssumptions, NEW t \in Threads, Create(t)
  PROVE  RegistersInv'
<1>1. /\ t \notin alive /\ alive' = alive \cup {t} /\ guest' = GuestAfterCreate(t)
      /\ expected' = [expected EXCEPT ![t] = computed'] /\ astray' = astray \ {t}
      /\ UNCHANGED <<running, currentContext, cpu, base, draining, inDisc, kept, under>>
      /\ FiberTypeOK /\ alive \subseteq Threads
      /\ NoContext \notin Contexts /\ NoGuest \notin Threads
      /\ \A v \in alive : Has(v) /\ table[v].context \in Contexts
      /\ running \in alive \cup {NoGuest} /\ guest \in Threads \cup {NoGuest}
  BY ContextFacts DEF Create, FiberTypeOK
<1>2. PICK c \in Contexts :
        /\ c # currentContext /\ c # Scheduler
        /\ \A v \in Threads : v # t /\ Has(v) => table[v].context # c
        /\ \A v \in Threads : v # t => table'[v] = table[v]
        /\ Has(t)' /\ table'[t].context = c /\ table'[t].cpuContext = computed'
        /\ parked' = [parked EXCEPT ![c] = Fresh]
        /\ callback' = IF callback = c THEN NoContext ELSE callback
  BY CreateEntries
<1>3. /\ \A d \in Contexts : parked'[d] = IF d = c THEN Fresh ELSE parked[d]
      /\ \A v \in Threads : expected'[v] = IF v = t THEN computed' ELSE expected[v]
      /\ callback' # c /\ callback' \in {callback, NoContext}
  BY <1>1, <1>2 DEF FiberTypeOK
<1>4. \A v \in alive : /\ v # t /\ table'[v] = table[v] /\ table[v].context # c
                       /\ parked'[table[v].context] = parked[table[v].context]
  BY <1>1, <1>2, <1>3
<1>5. RunningHere'
  BY <1>1, <1>4 DEF RegistersInv, RunningHere
<1>6. GuestHere'
  <2>1. CASE Retired(t) = currentContext
    BY <2>1, <1>1 DEF GuestHere, GuestAfterCreate
  <2>2. CASE Retired(t) # currentContext
    <3>1. guest' = guest
      BY <2>2, <1>1 DEF GuestAfterCreate
    <3>2. guest # t
      BY <2>2, <1>1 DEF RegistersInv, GuestHere, Retired
    <3>3. Orphaned => Orphaned'
      BY <1>1, <1>2, <1>4 DEF Orphaned
    <3> QED BY <3>1, <3>2, <3>3, <1>1, <1>2 DEF RegistersInv, GuestHere, Has
  <2> QED BY <2>1, <2>2
<1>7. ParkedOwn'
  <2>1. ASSUME NEW v \in alive', parked'[table'[v].context] \notin {Fresh, Starting}
        PROVE  parked'[table'[v].context].previous \in {v, NoGuest}
    <3>1. v # t /\ v \in alive
      BY <2>1, <1>1, <1>2, <1>3
    <3> QED BY <2>1, <3>1, <1>4 DEF RegistersInv, ParkedOwn, AtStart
  <2> QED BY <2>1 DEF ParkedOwn, AtStart
<1>8. RegistersKept(t)'
  <2>1. LeftOff(t)'
    BY <1>2, <1>3 DEF LeftOff, AtStart
  <2> QED BY <2>1, <1>1, <1>2, <1>3 DEF RegistersKept
<1>9. ASSUME NEW v \in alive' \ astray', v # t PROVE RegistersKept(v)'
  <2>1. /\ RegistersKept(v) /\ v \in alive
        /\ table'[v] = table[v] /\ expected'[v] = expected[v]
        /\ parked'[table[v].context] = parked[table[v].context]
        /\ table[v].context # c /\ table[v].context # NoContext
    BY <1>1, <1>3, <1>4, <1>9 DEF RegistersInv
  <2>2. callback' = callback \/ (callback # table[v].context /\ callback' # table[v].context)
    BY <2>1, <1>2
  <2> QED BY <2>1, <2>2, <1>1, SameKept
<1> QED BY <1>1, <1>3, <1>5, <1>6, <1>7, <1>8, <1>9 DEF RegistersInv

\* The code on the current context computes, or is called back, on the register file that
\* is in use there.
LEMMA FileRegisters ==
  ASSUME RegistersInv, ContextsInv, FiberAssumptions, FileStep
  PROVE  RegistersInv'
<1>1. /\ running # NoGuest
      /\ UNCHANGED <<alive, running, table, guest, parked, currentContext, base, astray>>
  BY DEF FileStep, Compute, CallbackBegins, CallbackEnds, DiscBegins, DiscEnds,
         hostVars, tableVars, fileVars
<1>2. /\ FiberTypeOK /\ alive \subseteq Threads
      /\ NoContext \notin Contexts /\ currentContext \in Contexts
      /\ cpu \in [Files -> Registers] /\ {"scratch", "persistent"} \subseteq Files
  BY ContextFacts DEF FiberTypeOK, Files
<1>3. RunningHere' /\ GuestHere' /\ ParkedOwn'
  BY <1>1 DEF RegistersInv, RunningHere, GuestHere, Orphaned, ParkedOwn, AtStart, Has
<1>4. ~draining' => callback' = NoContext
  BY DEF RegistersInv, FileStep, Compute, CallbackBegins, CallbackEnds, DiscBegins, DiscEnds,
         fileVars, callbackVars
<1>5. ASSUME NEW t \in alive \ astray PROVE RegistersKept(t)'
  <2>1. RegistersKept(t) /\ t \in Threads
    BY <1>2 DEF RegistersInv
  <2>2. CASE table[t].context # currentContext
    <3>1. expected'[t] = expected[t]
      BY <2>1, <2>2, <1>2 DEF FileStep, Compute, CallbackBegins, CallbackEnds, DiscBegins,
                              DiscEnds, Sees, Executing, FiberTypeOK
    <3>2. callback' \in {callback, currentContext, NoContext}
      BY DEF FileStep, Compute, CallbackBegins, CallbackEnds, DiscBegins, DiscEnds,
             fileVars, callbackVars
    <3>3. table[t].context # NoContext
      BY <1>2, ContextFacts
    <3> QED BY <2>1, <2>2, <3>1, <3>2, <3>3, <1>1, ElsewhereKept
  <2>3. CASE table[t].context = currentContext
    <3>1. /\ base[currentContext] = "persistent" /\ Current = expected[t]
          /\ callback = currentContext => /\ inDisc => under = kept
                                          /\ ~inDisc => cpu["persistent"] = kept
      BY <2>1, <2>3 DEF RegistersKept
    <3>2. t \in Executing
      BY <2>3 DEF Executing
    <3>3. /\ base'[currentContext] = "persistent" /\ Current' = expected'[t]
          /\ callback' = currentContext => /\ inDisc' => under' = kept'
                                           /\ ~inDisc' => cpu'["persistent"] = kept'
      <4>1. CASE Compute
        <5>1. /\ cpu' = [cpu EXCEPT ![File(currentContext)] = computed']
              /\ expected'[t] = computed'
              /\ UNCHANGED <<base, callback, inDisc, kept, under>>
          BY <4>1, <3>2, <2>1 DEF Compute, Sees, fileVars, callbackVars
        <5>2. File(currentContext) \in Files
          BY <1>2, CurrentTypes
        <5>3. Current' = computed'
          BY <5>1, <5>2, <1>1, <1>2 DEF Current, File
        <5>4. callback = currentContext /\ ~inDisc => cpu'["persistent"] = cpu["persistent"]
          BY <5>1, <1>2 DEF File
        <5> QED BY <5>1, <5>3, <5>4, <3>1
      <4>2. CASE CallbackBegins
        <5>1. /\ callback = NoContext /\ callback' = currentContext /\ inDisc' = FALSE
              /\ cpu' = [cpu EXCEPT !["scratch"] = Current] /\ kept' = Current
              /\ expected' = expected /\ base' = base
          BY <4>2 DEF CallbackBegins, RegistersInv
        <5>2. Current = cpu["persistent"]
          BY <5>1, <3>1, <1>2 DEF Current, File
        <5>3. cpu'["scratch"] = Current /\ cpu'["persistent"] = Current
          BY <5>1, <5>2, <1>2
        <5>4. Current' = Current
          BY <5>1, <5>3, <1>1 DEF Current, File
        <5> QED BY <5>1, <5>3, <5>4, <3>1
      <4>3. CASE CallbackEnds
        <5>1. /\ callback = currentContext /\ ~inDisc /\ callback' = NoContext
              /\ expected'[t] = kept /\ UNCHANGED <<cpu, base, inDisc, kept, under>>
          BY <4>3, <3>2, <2>1 DEF CallbackEnds, Sees
        <5>2. Current' = kept
          BY <5>1, <3>1, <1>1, <1>2 DEF Current, File
        <5> QED BY <5>1, <5>2, <3>1, <1>2
      <4>4. CASE DiscBegins
        <5>1. /\ callback = currentContext /\ ~inDisc /\ inDisc' = TRUE
              /\ under' = cpu["persistent"] /\ expected'[t] = cpu["persistent"]
              /\ UNCHANGED <<cpu, base, callback, kept>>
          BY <4>4, <3>2, <2>1 DEF DiscBegins, Sees
        <5>2. Current' = cpu["persistent"]
          BY <5>1, <1>1 DEF Current, File
        <5> QED BY <5>1, <5>2, <3>1
      <4>5. CASE DiscEnds
        <5>1. /\ callback = currentContext /\ inDisc /\ inDisc' = FALSE
              /\ cpu' = [cpu EXCEPT !["persistent"] = under] /\ expected'[t] = cpu["scratch"]
              /\ UNCHANGED <<base, callback, kept, under>>
          BY <4>5, <3>2, <2>1 DEF DiscEnds, Sees
        <5>2. cpu'["persistent"] = under /\ cpu'["scratch"] = cpu["scratch"]
          BY <5>1, <1>2
        <5>3. Current' = cpu["scratch"]
          BY <5>1, <5>2, <1>1 DEF Current, File
        <5> QED BY <5>1, <5>2, <5>3, <3>1
      <4> QED BY <4>1, <4>2, <4>3, <4>4, <4>5 DEF FileStep
    <3> QED BY <2>3, <3>3, <1>1 DEF RegistersKept
  <2> QED BY <2>2, <2>3
<1> QED BY <1>1, <1>3, <1>4, <1>5 DEF RegistersInv

LEMMA SleepRegisters ==
  ASSUME RegistersInv, Sleep \/ UNCHANGED fiberVars
  PROVE  RegistersInv'
<1>1. /\ UNCHANGED <<alive, table, guest, parked, currentContext, cpu, base, draining, callback,
                     inDisc, kept, under, expected, astray>>
      /\ running' \in {running, NoGuest}
  BY DEF Sleep, tableVars, fileVars, callbackVars, hostVars, fiberVars
<1>2. RunningHere' /\ GuestHere' /\ ParkedOwn'
  BY <1>1 DEF RegistersInv, RunningHere, GuestHere, Orphaned, ParkedOwn, AtStart, Has
<1>3. ASSUME NEW t \in alive \ astray PROVE RegistersKept(t)'
  BY <1>1, SameKept DEF RegistersInv
<1> QED BY <1>1, <1>2, <1>3 DEF RegistersInv

LEMMA NextRegisters ==
  ASSUME RegistersInv, ContextsInv, FiberAssumptions, [FiberNext]_fiberVars
  PROVE  RegistersInv'
<1>1. CASE \E u \in Threads : Dispatch(u)
  BY <1>1, DispatchRegisters
<1>2. CASE \E t \in Threads : Cancel(t)
  <2>1. PICK t \in Threads : Cancel(t)
    BY <1>2
  <2> QED BY <2>1, ExitRegisters DEF Cancel
<1>3. CASE \E t \in Threads : Create(t)
  BY <1>3, CreateRegisters
<1>4. CASE FileStep
  BY <1>4, FileRegisters
<1>5. CASE Sleep \/ UNCHANGED fiberVars
  BY <1>5, SleepRegisters
<1>6. CASE Exit
  <2>1. running \in alive
    BY <1>6 DEF Exit, ContextsInv, FiberTypeOK
  <2> QED BY <1>6, <2>1, ExitRegisters DEF Exit
<1>7. CASE Return
  BY <1>7, ReturnRegisters
<1> QED BY <1>1, <1>2, <1>3, <1>4, <1>5, <1>6, <1>7 DEF FiberNext, FileStep

\* For every set of threads and contexts, with callbacks that give the host to another thread
\* and starts that are deferred: the thread whose code executes has the registers it left off
\* with, whatever ran, died or was created at its address in between and whatever callback it
\* is in or was interrupted by, but for those a switch inside an IOS callback gives up,
\* and those a deferral at the address of a dead main thread mistakes; and contexts are kept (fiber_manager.cpp:360-492, 649-680, nand_async.cpp:64-79,
\* dvd.cpp:455-466).
THEOREM FibersStayApart ==
  ASSUME FiberAssumptions
  PROVE  FiberSpec => FibersKeepContexts
<1>1. FiberInit => RegistersInv /\ ContextsInv
  BY InitRegisters, InitContexts
<1>2. RegistersInv /\ ContextsInv /\ [FiberNext]_fiberVars => RegistersInv' /\ ContextsInv'
  BY NextRegisters, NextContexts
<1>3. RegistersInv => RegistersBelong
  BY RegistersInvSuffices
<1> QED BY <1>1, <1>2, <1>3, ContextsStayWhole, PTL DEF FiberSpec, FibersKeepContexts,
                                                       ContextsAreKept

-----------------------------------------------------------------------------
(* The audio DMA.                                                          *)

\* Where the service is shows in the phase.
ServiceInv ==
  /\ servicesInside = IF aiService = "none" THEN 0 ELSE 1
  /\ dmaPhase = "guest" <=> aiService = "none"
  /\ dmaPhase \in {"loop", "end"} => aiService = "replay"
  /\ callbackBusy <=> dmaPhase = "callback"
  /\ aiService = "replay" => replayTarget # 0 /\ replayTarget <= audioClock
  /\ aiService = "replay" /\ dmaPhase \in {"callback", "dsp"} => replayed < MaxReplay

\* The time of what the host was handed.
TimeOf(h) == h.real + h.silent + h.covered + h.dropped

\* A replay looks no further than its target: behind it is only a DMA that its callback has
\* just started, of which no time has been taken.
NearTarget(d, h) ==
  \/ d.cursor \in {0, replayTarget}
  \/ /\ d.acc = 0
     /\ Running(d) => /\ TimeOf(h) = 0
                      /\ d.cursor = dmaStarted /\ dmaStarted = replayTarget + dmaBehind
ReplayCursor == aiService = "replay" => NearTarget(dma, audioHost)

\* A DMA that is on has been looked at; it was not behind for longer than there was time.
CursorInv ==
  /\ dma.cursor <= audioClock /\ dmaStarted <= audioClock /\ dmaBehind < dmaStarted
  /\ dma.on => dma.cursor # 0
  /\ ReplayCursor

\* What was played once is behind the block that plays.
OnceOf(d, h) ==
  /\ \A n \in Submissions : h.plays[n] <= 1
  /\ d.active.n <= d.programmed.n
  /\ d.programmed.n = 0 => d.programmed.len = 0
  /\ Running(d) =>
       /\ d.last <= d.active.n /\ d.active.n # 0
       /\ \A n \in Submissions : h.plays[n] > 0 => n <= d.last

\* The order of a prompt title's submissions.
PlayedInTurn(d, h) ==
  /\ ~h.failed /\ h.silent = 0 /\ h.covered = 0
  /\ \A n \in Submissions : h.plays[n] = IF n < d.active.n THEN 1 ELSE 0
  /\ d.on => d.active.len # 0 /\ d.programmed.len # 0 /\ d.last + 1 = d.active.n

\* A prompt title has always one block programmed behind the block that plays, but between
\* the interrupt and what its callback submits; in a service no block ends.
Turn(d, h, stage, submitted, service, clock) ==
  /\ PlayedInTurn(d, h)
  /\ ~d.on => /\ stage = "guest" /\ ~d.aid /\ d.active = NoBuffer
              /\ d.programmed.n = IF d.programmed.len = 0 THEN 0 ELSE 1
  /\ d.on =>
       /\ d.programmed.n =
            d.active.n + IF d.aid \/ (stage = "callback" /\ ~submitted) THEN 0 ELSE 1
       /\ d.aid => stage \in {"guest", "loop", "end"}
       /\ service = "tick" => Elapsed(d, clock) < d.active.len

PromptInv ==
  Prompt => dmaLatch /\ dmaCallback /\ Turn(dma, audioHost, dmaPhase, fed, aiService, audioClock)

AudioInv ==
  /\ AudioTypeOK /\ ServiceInv /\ CursorInv /\ ClockConserved
  /\ OnceOf(dma, audioHost) /\ PromptInv

LEMMA Multiples ==
  ASSUME NEW j \in Nat, NEW k \in Nat, NEW len \in Nat, j <= k
  PROVE  j * len <= k * len /\ j * len \in Nat
<1>1. k - j \in Nat /\ (k - j) * len \in Nat
  BY SMT
<1>2. k * len = j * len + (k - j) * len
  BY SMT
<1>3. j * len \in Nat
  BY SMT
<1> QED BY <1>1, <1>2, <1>3

\* As many blocks as the division says fit into a time.
LEMMA Quotients ==
  ASSUME NEW time \in Nat, NEW len \in Nat \ {0}
  PROVE  /\ time \div len \in Nat
         /\ (time \div len) * len <= time
         /\ time < len => time \div len = 0
<1>1. /\ time \div len \in Nat /\ time % len \in 0 .. len - 1
      /\ time = len * (time \div len) + (time % len)
  BY SMT
<1>2. ASSUME NEW q \in Nat, NEW rest \in 0 .. len - 1, time = len * q + rest
      PROVE  q * len <= time /\ (time < len => q = 0)
  <2>1. q * len = len * q /\ q * len \in Nat
    BY SMT
  <2>2. CASE q = 0
    BY <1>2, <2>1, <2>2, SMT
  <2>3. CASE q # 0
    <3>1. len <= q * len
      BY <2>3, Multiples, 1 <= q, 1 * len = len
    <3> QED BY <1>2, <2>1, <3>1
  <2> QED BY <2>2, <2>3
<1> QED BY <1>1, <1>2

\* States of the DMA of any size, without the bounds of the run.
AnyBuffers == [n : Nat, len : Nat]
AnyDma ==
  [on : BOOLEAN, active : AnyBuffers, programmed : AnyBuffers, last : Nat, acc : Nat,
   cursor : Nat, aid : BOOLEAN]

\* The time at hand is what was kept and what has passed since the last look.
LEMMA ElapsedIsTime ==
  ASSUME NEW d \in AnyDma, NEW t \in Nat
  PROVE  /\ Elapsed(d, t) \in Nat /\ Since(d, t) \in Nat
         /\ d.acc <= Elapsed(d, t)
         /\ d.cursor # 0 /\ d.cursor <= t => Elapsed(d, t) = d.acc + (t - d.cursor)
BY DEF AnyDma, Elapsed, Since

\* How many boundaries there are, and what they take: no more than the time that passed, and
\* all of it but less than the block in front where nothing limits their number.
LEMMA BoundariesFit ==
  ASSUME NEW d \in AnyDma, NEW t \in Nat, NEW max \in Nat
  PROVE  LET k == Boundaries(d, t, max)
         IN  /\ k \in Nat /\ k <= max
             /\ Spent(d, k) \in Nat /\ Spent(d, k) <= Elapsed(d, t)
             /\ k # 0 => Running(d) /\ d.active.len <= Elapsed(d, t)
             /\ k # 0 => d.active.len <= Spent(d, k)
             /\ k > 1 => d.programmed.len # 0 /\ d.active.len + d.programmed.len <= Spent(d, k)
             /\ k = 0 /\ Running(d) /\ max # 0 => Elapsed(d, t) < d.active.len
             /\ Elapsed(d, t) < d.active.len + d.programmed.len => k <= 1
             /\ k = 1 => Spent(d, k) = d.active.len
<1> DEFINE e == Elapsed(d, t)
           a == d.active.len
           p == d.programmed.len
           k == Boundaries(d, t, max)
<1>1. e \in Nat /\ a \in Nat /\ p \in Nat
  BY ElapsedIsTime DEF AnyDma, AnyBuffers
<1>2. CASE ~Running(d) \/ e < a \/ max = 0
  <2>1. k = 0
    BY <1>2 DEF Boundaries
  <2> QED BY <1>1, <1>2, <2>1 DEF Spent
<1>3. CASE ~(~Running(d) \/ e < a \/ max = 0) /\ p = 0
  <2>1. k = 1
    BY <1>3 DEF Boundaries
  <2>2. Spent(d, 1) = a
    BY <1>1, <1>3 DEF Spent
  <2> QED BY <1>1, <1>3, <2>1, <2>2
<1>4. CASE ~(~Running(d) \/ e < a \/ max = 0) /\ p # 0
  <2> DEFINE q == (e - a) \div p
  <2>1. /\ q \in Nat /\ q * p <= e - a
        /\ e - a < p => q = 0
    <3>1. e - a \in Nat /\ p \in Nat \ {0}
      BY <1>1, <1>4
    <3> HIDE DEF e, a, p
    <3> QED BY <3>1, Quotients, Zenon
  <2>2. k = Lesser(max, 1 + q)
    BY <1>4 DEF Boundaries
  <2> HIDE DEF q, k, e, a, p
  <2>3. /\ k \in Nat /\ k # 0 /\ k <= max /\ k - 1 \in Nat /\ k - 1 <= q
        /\ e < a + p => k = 1
    BY <1>1, <1>4, <2>1, <2>2 DEF Lesser
  <2>4. (k - 1) * p <= q * p /\ (k - 1) * p \in Nat /\ q * p \in Nat
    BY <1>1, <2>1, <2>3, Multiples
  <2>5. Spent(d, k) = a + (k - 1) * p
    BY <2>3 DEF Spent, a, p
  <2>6. k = 1 => (k - 1) * p = 0
    BY <1>1
  <2>7. k > 1 => p <= (k - 1) * p
    <3>1. HAVE k > 1
    <3>2. 1 <= k - 1 /\ 1 * p = p
      BY <1>1, <2>3, <3>1
    <3> QED BY <1>1, <2>3, <3>2, Multiples
  <2>8. /\ k \in Nat /\ k <= max
        /\ Spent(d, k) \in Nat /\ Spent(d, k) <= e
        /\ k # 0 => Running(d) /\ a <= e
        /\ k # 0 => a <= Spent(d, k)
        /\ k > 1 => p # 0 /\ a + p <= Spent(d, k)
        /\ k = 0 /\ Running(d) /\ max # 0 => e < a
        /\ e < a + p => k <= 1
        /\ k = 1 => Spent(d, k) = a
    BY <1>1, <1>4, <2>1, <2>3, <2>4, <2>5, <2>6, <2>7
  <2> QED BY <2>8 DEF k, e, a, p
<1> QED BY <1>2, <1>3, <1>4

\* What taking time does to the DMA, field by field.
LEMMA AdvancedFields ==
  ASSUME NEW d \in AnyDma, NEW t \in Nat, NEW max \in Nat
  PROVE  LET k == Boundaries(d, t, max)
             a == Advanced(d, t, max)
         IN  /\ a \in AnyDma
             /\ a.on = d.on /\ a.programmed = d.programmed /\ a.cursor = t
             /\ k = 0 => /\ a.active = d.active /\ a.last = d.last /\ a.aid = d.aid
                         /\ a.acc = IF Running(d) THEN Elapsed(d, t) ELSE d.acc
             /\ k # 0 => /\ a.aid /\ a.active = d.programmed
                         /\ a.last = IF k = 1 THEN d.active.n ELSE d.programmed.n
                         /\ a.acc = IF d.programmed.len = 0 THEN 0
                                    ELSE Elapsed(d, t) - Spent(d, k)
<1> DEFINE k == Boundaries(d, t, max)
           e == Elapsed(d, t)
           s == Spent(d, k)
<1>1. /\ k \in Nat /\ e \in Nat /\ s \in Nat /\ s <= e
      /\ k # 0 => Running(d)
  BY ElapsedIsTime, BoundariesFit
<1>2. Advanced(d, t, max) =
        IF ~Running(d) THEN [d EXCEPT !.cursor = t]
        ELSE IF k = 0 THEN [d EXCEPT !.cursor = t, !.acc = e]
        ELSE [d EXCEPT !.cursor = t, !.aid = TRUE, !.active = d.programmed,
                       !.last = IF k = 1 THEN d.active.n ELSE d.programmed.n,
                       !.acc = IF d.programmed.len = 0 THEN 0 ELSE e - s]
  BY DEF Advanced
<1> HIDE DEF k, e, s
<1>3. CASE k = 0
  BY <1>1, <1>2, <1>3 DEF AnyDma, AnyBuffers, k, e, s
<1>4. CASE k # 0
  <2>1. Running(d) /\ e - s \in Nat
    BY <1>1, <1>4
  <2> DEFINE a == Advanced(d, t, max)
  <2>2. a = [d EXCEPT !.cursor = t, !.aid = TRUE, !.active = d.programmed,
                      !.last = IF k = 1 THEN d.active.n ELSE d.programmed.n,
                      !.acc = IF d.programmed.len = 0 THEN 0 ELSE e - s]
    BY <1>2, <1>4, <2>1
  <2> HIDE DEF a
  <2>3. /\ a \in AnyDma
        /\ a.on = d.on /\ a.programmed = d.programmed /\ a.cursor = t
        /\ a.aid /\ a.active = d.programmed
        /\ a.last = IF k = 1 THEN d.active.n ELSE d.programmed.n
        /\ a.acc = IF d.programmed.len = 0 THEN 0 ELSE e - s
    BY <2>1, <2>2 DEF AnyDma, AnyBuffers
  <2> QED BY <1>4, <2>3 DEF k, e, s, a
<1> QED BY <1>3, <1>4

\* No more is new than what was played.
LEMMA FreshIsSpent ==
  ASSUME NEW d \in AnyDma, NEW k \in Nat, NEW s \in Nat,
         d.active.len <= s, k > 1 => d.active.len + d.programmed.len <= s
  PROVE  FreshTime(d, k) \in Nat /\ FreshTime(d, k) <= s
<1>1. /\ d.active.len \in Nat /\ d.programmed.len \in Nat
      /\ d.programmed.n \in FreshBlocks(d, k) \ {d.active.n} => k > 1
  BY DEF FreshBlocks, AnyDma, AnyBuffers
<1> QED BY <1>1 DEF FreshTime

\* Handing over k blocks counts their time once, and each new submission once.
LEMMA PublishedFields ==
  ASSUME NEW d \in AnyDma, NEW k \in Nat, NEW h \in HandedOver, NEW replay \in BOOLEAN,
         Spent(d, k) \in Nat, d.active.len <= Spent(d, k),
         k > 1 => d.active.len + d.programmed.len <= Spent(d, k),
         MaxCredit \in Nat
  PROVE  LET p == Published(h, d, k, replay)
         IN  /\ p \in HandedOver
             /\ TimeOf(p) = TimeOf(h) + Spent(d, k)
             /\ p.failed = h.failed
             /\ \A n \in Submissions :
                  p.plays[n] = h.plays[n] + (IF Suppresses /\ dmaCallback /\ n \in FreshBlocks(d, k)
                                             THEN 1 ELSE 0)
             /\ Suppresses /\ dmaCallback /\ FreshTime(d, k) = Spent(d, k) =>
                  p.silent = h.silent /\ p.covered = h.covered
<1> DEFINE policy == Suppresses /\ dmaCallback
           real == IF policy THEN FreshTime(d, k) ELSE Spent(d, k)
           stale == Spent(d, k) - real
           covered == Lesser(stale, h.credit)
           resolve == stale # 0 \/ ~replay
           played == [n \in Submissions |->
                        h.plays[n] + IF policy /\ n \in FreshBlocks(d, k) THEN 1 ELSE 0]
           p == Published(h, d, k, replay)
<1>1. h.credit \in Nat /\ h.credit <= MaxCredit
  BY DEF HandedOver
<1>2. real \in Nat /\ stale \in Nat /\ real + stale = Spent(d, k)
  BY FreshIsSpent
<1>3. covered \in Nat /\ covered <= stale /\ covered <= h.credit
  BY <1>1, <1>2 DEF Lesser
<1>4. played \in [Submissions -> Nat]
  BY DEF HandedOver
<1>5. p = [h EXCEPT !.real = @ + real, !.silent = @ + stale - covered, !.covered = @ + covered,
                    !.plays = played, !.credit = IF resolve THEN 0 ELSE @,
                    !.lost = IF replay /\ resolve THEN @ + h.credit - covered ELSE @]
  BY DEF Published, HandedOver
<1>6. policy /\ FreshTime(d, k) = Spent(d, k) => stale = 0 /\ covered = 0
  BY <1>1, <1>2, <1>3
<1>7. \A n \in Submissions :
        played[n] = h.plays[n] + (IF policy /\ n \in FreshBlocks(d, k) THEN 1 ELSE 0)
  OBVIOUS
<1>8. resolve \in BOOLEAN
  OBVIOUS
<1> HIDE DEF real, stale, covered, played, resolve, p
<1> DEFINE amount == IF resolve THEN 0 ELSE h.credit
           lost == IF replay /\ resolve THEN h.lost + h.credit - covered ELSE h.lost
<1>9. amount \in 0 .. MaxCredit /\ lost \in Nat
  BY <1>1, <1>3, <1>8 DEF HandedOver
<1>10. p = [h EXCEPT !.real = @ + real, !.silent = @ + stale - covered, !.covered = @ + covered,
                     !.plays = played, !.credit = amount, !.lost = lost]
  BY <1>5
<1> HIDE DEF amount, lost
<1>11. /\ h.real + real \in Nat /\ h.silent + stale - covered \in Nat
       /\ h.covered + covered \in Nat
  BY <1>2, <1>3 DEF HandedOver
<1>12. /\ p \in HandedOver
      /\ p.real = h.real + real /\ p.silent = h.silent + stale - covered
      /\ p.covered = h.covered + covered /\ p.dropped = h.dropped
      /\ p.failed = h.failed /\ p.plays = played
  BY <1>4, <1>9, <1>10, <1>11 DEF HandedOver
<1>13. h.real \in Nat /\ h.silent \in Nat /\ h.covered \in Nat /\ h.dropped \in Nat
  BY DEF HandedOver
<1>14. TimeOf(p) = TimeOf(h) + Spent(d, k)
  BY <1>2, <1>3, <1>12, <1>13 DEF TimeOf
<1>15. policy /\ FreshTime(d, k) = Spent(d, k) => p.silent = h.silent /\ p.covered = h.covered
  BY <1>6, <1>12, <1>13
<1> QED BY <1>7, <1>12, <1>14, <1>15 DEF p

-----------------------------------------------------------------------------
(* Time is taken in every handler.                                         *)

\* The invariant's types, for the provers.
LEMMA AudioTypes ==
  ASSUME AudioAssumption, AudioTypeOK
  PROVE  /\ dma \in AnyDma /\ dma \in AIDmaState /\ audioHost \in HandedOver
         /\ MaxClock[Prompt] \in Nat \ {0} /\ MaxPrograms[Prompt] \in Nat \ {0}
         /\ Unbounded \in Nat \ {0} /\ MaxCredit \in Nat /\ MaxReplay \in Nat
         /\ audioClock \in Nat \ {0} /\ audioClock <= MaxClock[Prompt]
         /\ dmaStarted \in Nat \ {0} /\ dmaBehind \in Nat /\ replayTarget \in Nat
         /\ Prompt \in BOOLEAN /\ Suppresses \in BOOLEAN
         /\ Prompt => Suppresses
         /\ PerService \in Nat \ {0} /\ (Suppresses => PerService = 1)
<1>1. Prompt \in BOOLEAN /\ Suppresses \in BOOLEAN /\ (Prompt => Suppresses)
  BY DEF AudioAssumption, AudioTypeOK, Prompt, Suppresses
<1>2. MaxClock[Prompt] \in Nat \ {0} /\ MaxPrograms[Prompt] \in Nat \ {0}
  <2>1. MaxClock \in [BOOLEAN -> Nat \ {0}] /\ MaxPrograms \in [BOOLEAN -> Nat \ {0}]
    BY DEF AudioAssumption
  <2> HIDE DEF Prompt
  <2> QED BY <1>1, <2>1
<1>3. /\ dma \in AIDmaState /\ audioHost \in HandedOver /\ audioClock \in 1 .. MaxClock[Prompt]
      /\ dmaStarted \in 1 .. MaxClock[Prompt] /\ replayTarget \in 0 .. MaxClock[Prompt]
      /\ dmaBehind \in 0 .. MaxClock[Prompt]
      /\ MaxCredit \in Nat /\ MaxReplay \in Nat
  BY DEF AudioAssumption, AudioTypeOK
<1>4. dma \in AnyDma
  BY <1>2, <1>3 DEF AIDmaState, DmaBlocks, AnyDma, AnyBuffers
<1>5. Unbounded \in Nat \ {0}
  BY <1>2 DEF Unbounded
<1>6. PerService \in Nat \ {0} /\ (Suppresses => PerService = 1)
  BY <1>5 DEF PerService
<1> QED BY <1>1, <1>2, <1>3, <1>4, <1>5, <1>6

\* The time of a DMA that runs, in its parts.
LEMMA SeenInParts ==
  ASSUME AudioAssumption, AudioInv, Running(dma)
  PROVE  Consumed + dma.acc + (audioClock - dma.cursor) - (audioClock - dmaStarted)
           \in {0, dmaBehind}
<1>1. TimeSeen - (audioClock - dmaStarted) \in {0, dmaBehind}
  BY DEF AudioInv, ClockConserved
<1>2. TimeSeen = Consumed + dma.acc + (audioClock - dma.cursor)
  BY DEF TimeSeen
<1>3. /\ Consumed \in Nat /\ dma.acc \in Nat /\ dma.cursor \in Nat /\ audioClock \in Nat
      /\ dmaStarted \in Nat /\ dmaBehind \in Nat
  BY AudioTypes DEF AudioInv, AnyDma, HandedOver, Consumed
<1> HIDE DEF Consumed
<1>4. TimeSeen - (audioClock - dmaStarted)
        = Consumed + dma.acc + (audioClock - dma.cursor) - (audioClock - dmaStarted)
  BY <1>2, <1>3
<1> QED BY <1>1, <1>4, Zenon

\* A DMA that runs keeps no more time than there was.
LEMMA ElapsedBounded ==
  ASSUME AudioAssumption, AudioInv, NEW t \in 0 .. audioClock, dma.on => dma.cursor <= t
  PROVE  Running(dma) => /\ Elapsed(dma, t) = dma.acc + (t - dma.cursor)
                         /\ Elapsed(dma, t) \in 0 .. audioClock
<1>1. /\ dma \in AnyDma /\ audioHost \in HandedOver /\ audioClock \in Nat /\ dmaStarted \in Nat
      /\ t \in Nat /\ t <= audioClock /\ dmaBehind \in Nat /\ dmaBehind < dmaStarted
  BY AudioTypes DEF AudioInv, CursorInv
<1>2. dma.cursor \in Nat /\ dma.acc \in Nat /\ Consumed \in Nat
  BY <1>1 DEF AnyDma, HandedOver, Consumed
<1>3. ASSUME Running(dma)
      PROVE  /\ Elapsed(dma, t) = dma.acc + (t - dma.cursor)
             /\ Elapsed(dma, t) \in 0 .. audioClock
  <2>1. dma.on /\ dma.cursor # 0 /\ dma.cursor <= t
    BY <1>3 DEF Running, AudioInv, CursorInv
  <2>2. Elapsed(dma, t) = dma.acc + (t - dma.cursor)
    BY <1>1, <2>1, ElapsedIsTime
  <2>3. Consumed + dma.acc + (audioClock - dma.cursor) - (audioClock - dmaStarted)
          \in {0, dmaBehind}
    BY <1>3, SeenInParts
  <2> QED BY <1>1, <1>2, <2>1, <2>2, <2>3
<1> QED BY <1>3

\* What a handler that takes time up to t leaves: the types, the time, what is programmed, an
\* interrupt that only a failure of the host takes away, and no submission twice.
TimeTaken(r, t) ==
  /\ r.d \in AIDmaState /\ r.h \in HandedOver
  /\ r.d.programmed = dma.programmed /\ r.d.cursor = t
  /\ r.d.on => dma.on
  /\ dma.aid /\ ~r.d.aid => r.h.failed
  /\ Running(r.d) => Running(dma) /\ TimeOf(r.h) + r.d.acc = Consumed + Elapsed(dma, t)
  /\ OnceOf(r.d, r.h)

\* A look at the clock up to t takes the time up to t, whatever the host answers.
LEMMA AdvanceTakesTime ==
  ASSUME AudioAssumption, AudioInv, NEW t \in 0 .. audioClock, dma.on => dma.cursor <= t,
         NEW max \in Nat, NEW r \in Advances(t, max)
  PROVE  TimeTaken(r, t)
<1> DEFINE k == Boundaries(dma, t, max)
           a == Advanced(dma, t, max)
           s == Spent(dma, k)
           e == Elapsed(dma, t)
<1>1. /\ dma \in AnyDma /\ dma \in AIDmaState /\ audioHost \in HandedOver
      /\ MaxClock[Prompt] \in Nat \ {0} /\ audioClock \in Nat /\ audioClock <= MaxClock[Prompt]
      /\ MaxPrograms[Prompt] \in Nat \ {0}
      /\ t \in Nat /\ MaxCredit \in Nat
  BY AudioTypes DEF AudioInv
<1>2. /\ k \in Nat /\ s \in Nat /\ s <= e /\ e \in Nat
      /\ k # 0 => Running(dma) /\ dma.active.len <= s
      /\ k > 1 => dma.programmed.len # 0 /\ dma.active.len + dma.programmed.len <= s
  BY <1>1, BoundariesFit, ElapsedIsTime
<1>3. /\ a.on = dma.on /\ a.programmed = dma.programmed /\ a.cursor = t /\ a \in AnyDma
      /\ k = 0 => /\ a.active = dma.active /\ a.last = dma.last /\ a.aid = dma.aid
                  /\ a.acc = IF Running(dma) THEN e ELSE dma.acc
      /\ k # 0 => /\ a.aid /\ a.active = dma.programmed
                  /\ a.last = IF k = 1 THEN dma.active.n ELSE dma.programmed.n
                  /\ a.acc = IF dma.programmed.len = 0 THEN 0 ELSE e - s
  BY <1>1, AdvancedFields
<1>4. Running(dma) => e \in 0 .. audioClock
  BY ElapsedBounded
<1>5. OnceOf(dma, audioHost)
  BY DEF AudioInv
<1>6. a \in AIDmaState
  <2>1. a.acc \in 0 .. MaxClock[Prompt]
    <3>1. dma.acc \in 0 .. MaxClock[Prompt]
      BY <1>1 DEF AIDmaState
    <3> HIDE DEF k, a, s, e
    <3> QED BY <1>1, <1>2, <1>3, <1>4, <3>1
  <2>2. a.active \in DmaBlocks /\ a.programmed \in DmaBlocks /\ a.last \in 0 .. MaxPrograms[Prompt]
    <3> HIDE DEF k, a, s, e
    <3> QED BY <1>1, <1>2, <1>3 DEF AIDmaState, DmaBlocks
  <2> HIDE DEF k, a, s, e
  <2> QED BY <1>1, <1>3, <2>1, <2>2 DEF AIDmaState, AnyDma
<1>7. CASE k = 0
  <2>1. r.d = a /\ r.h = audioHost
    BY <1>7 DEF Advances
  <2>2. Running(a) => Running(dma) /\ a.acc = e
    BY <1>3, <1>7 DEF Running
  <2>3. OnceOf(a, audioHost)
    <3> HIDE DEF k, a, s, e
    <3> QED BY <1>3, <1>5, <1>7 DEF OnceOf, Running
  <2>4. TimeOf(audioHost) = Consumed
    BY DEF TimeOf, Consumed
  <2> HIDE DEF a, k, e, s
  <2>5. r.d.on => dma.on
    BY <1>3, <2>1
  <2>6. ~(dma.aid /\ ~r.d.aid)
    BY <1>3, <1>7, <2>1
  <2> QED BY <1>1, <1>3, <1>6, <2>1, <2>2, <2>3, <2>4, <2>5, <2>6 DEF TimeTaken, e
<1>8. CASE k # 0
  <2> DEFINE dropped == [audioHost EXCEPT !.dropped = @ + s]
             handed == Published(audioHost, dma, k, aiService = "replay")
  <2>1. \/ r.d = a /\ r.h \in {handed, dropped}
        \/ r.d = [a EXCEPT !.on = FALSE, !.aid = FALSE] /\ r.h = [dropped EXCEPT !.failed = TRUE]
    <3>1. PICK how \in Answers :
            /\ r.d = IF how = "fails" THEN [a EXCEPT !.on = FALSE, !.aid = FALSE] ELSE a
            /\ r.h = CASE how = "ok" -> handed
                       [] how = "absent" -> dropped
                       [] how = "fails" -> [dropped EXCEPT !.failed = TRUE]
      <4>1. Advances(t, max) =
              {[d |-> IF how = "fails" THEN [a EXCEPT !.on = FALSE, !.aid = FALSE] ELSE a,
                h |-> CASE how = "ok" -> handed
                        [] how = "absent" -> dropped
                        [] how = "fails" -> [dropped EXCEPT !.failed = TRUE]] : how \in Answers}
        BY <1>8 DEF Advances
      <4> HIDE DEF k, a, s, e, handed, dropped
      <4>2. PICK how \in Answers :
              r = [d |-> IF how = "fails" THEN [a EXCEPT !.on = FALSE, !.aid = FALSE] ELSE a,
                   h |-> CASE how = "ok" -> handed
                           [] how = "absent" -> dropped
                           [] how = "fails" -> [dropped EXCEPT !.failed = TRUE]]
        BY <4>1, Zenon
      <4> QED BY <4>2, Zenon
    <3>2. how \in {"ok", "absent", "fails"}
      BY DEF Answers, AudioAssumption
    <3> QED BY <3>1, <3>2
  <2>2. /\ handed \in HandedOver
        /\ TimeOf(handed) = TimeOf(audioHost) + s
        /\ \A n \in Submissions :
             handed.plays[n] = audioHost.plays[n]
               + (IF Suppresses /\ dmaCallback /\ n \in FreshBlocks(dma, k)
                                                THEN 1 ELSE 0)
    <3>1. dma.active.len <= s
      BY <1>2, <1>8
    <3> HIDE DEF k
    <3>2. ASSUME NEW replay \in BOOLEAN
          PROVE  LET p == Published(audioHost, dma, k, replay)
                 IN  /\ p \in HandedOver /\ TimeOf(p) = TimeOf(audioHost) + Spent(dma, k)
                     /\ \A n \in Submissions :
                          p.plays[n] = audioHost.plays[n]
                            + (IF Suppresses /\ dmaCallback /\ n \in FreshBlocks(dma, k)
                               THEN 1 ELSE 0)
      BY <1>1, <1>2, <3>1, PublishedFields
    <3>3. (aiService = "replay") \in BOOLEAN
      OBVIOUS
    <3> QED BY <3>2, <3>3, Zenon
  <2>3. /\ dropped \in HandedOver /\ TimeOf(dropped) = TimeOf(audioHost) + s
        /\ dropped.plays = audioHost.plays
        /\ [dropped EXCEPT !.failed = TRUE] \in HandedOver
        /\ [dropped EXCEPT !.failed = TRUE].plays = audioHost.plays
        /\ [dropped EXCEPT !.failed = TRUE].failed
    <3>1. audioHost.dropped \in Nat /\ s \in Nat
      BY <1>1, <1>2 DEF HandedOver
    <3> HIDE DEF s
    <3>2. dropped \in HandedOver /\ dropped.plays = audioHost.plays
      BY <1>1, <3>1 DEF HandedOver
    <3>3. TimeOf(dropped) = TimeOf(audioHost) + s
      BY <1>1, <3>1 DEF HandedOver, TimeOf
    <3> HIDE DEF dropped
    <3> QED BY <3>2, <3>3 DEF HandedOver
  <2>4. TimeOf(audioHost) = Consumed /\ Consumed \in Nat
    BY <1>1 DEF TimeOf, Consumed, HandedOver
  <2>5. Running(a) => a.acc = e - s
    <3> HIDE DEF k, a, s, e
    <3> QED BY <1>3, <1>8 DEF Running
  <2>6. OnceOf(a, audioHost)
    <3> HIDE DEF k, a, s, e
    <3>1. /\ dma.active.n \in Nat /\ dma.programmed.n \in Nat /\ dma.last \in Nat
          /\ Running(dma) /\ a.active = dma.programmed /\ a.programmed = dma.programmed
          /\ a.last \in {dma.active.n, dma.programmed.n}
      BY <1>1, <1>2, <1>3, <1>8 DEF AnyDma, AnyBuffers
    <3>2. /\ dma.last <= dma.active.n /\ dma.active.n <= dma.programmed.n
          /\ dma.programmed.n = 0 => dma.programmed.len = 0
          /\ \A n \in Submissions :
               audioHost.plays[n] <= 1 /\ (audioHost.plays[n] > 0 => n <= dma.last)
      BY <1>5, <3>1 DEF OnceOf
    <3>3. a.last <= dma.programmed.n /\ dma.last <= a.last /\ a.last \in Nat
      BY <3>1, <3>2
    <3>4. ASSUME NEW n \in Submissions
          PROVE  audioHost.plays[n] <= 1 /\ (audioHost.plays[n] > 0 => n <= a.last)
      BY <3>1, <3>2, <3>3 DEF Submissions
    <3> QED BY <3>1, <3>2, <3>3, <3>4 DEF OnceOf, Running
  <2>7. OnceOf(a, handed)
    <3> HIDE DEF a, s, e
    <3>1. ASSUME NEW n \in Submissions
          PROVE  handed.plays[n] <= 1 /\ (handed.plays[n] > 0 => n <= a.last)
      <4>1. audioHost.plays[n] \in Nat /\ n \in Nat
        BY <1>1 DEF HandedOver, Submissions
      <4>2. audioHost.plays[n] <= 1 /\ (audioHost.plays[n] > 0 => n <= dma.last)
        BY <1>2, <1>5, <1>8 DEF OnceOf
      <4>3. /\ dma.last <= dma.active.n /\ dma.active.n <= dma.programmed.n
            /\ dma.last \in Nat /\ dma.active.n \in Nat /\ dma.programmed.n \in Nat
        BY <1>1, <1>2, <1>5, <1>8 DEF OnceOf, AnyDma, AnyBuffers
      <4>4. n \in FreshBlocks(dma, k) => /\ n > dma.last
                                         /\ n = dma.active.n \/ (k > 1 /\ n = dma.programmed.n)
        BY <4>1, <4>3 DEF FreshBlocks
      <4>5. dma.active.n <= a.last /\ (k > 1 => dma.programmed.n <= a.last)
        <5> HIDE DEF k
        <5> QED BY <1>2, <1>3, <1>8, <4>3
      <4>6. a.last \in Nat
        BY <1>3 DEF AnyDma
      <4>7. handed.plays[n] = audioHost.plays[n]
                  + (IF Suppresses /\ dmaCallback /\ n \in FreshBlocks(dma, k)
                                               THEN 1 ELSE 0)
        BY <2>2
      <4> HIDE DEF k, handed
      <4> QED BY <4>1, <4>2, <4>3, <4>4, <4>5, <4>6, <4>7
    <3> HIDE DEF k, handed
    <3> QED BY <2>6, <3>1 DEF OnceOf
  <2>8. ASSUME r.d = a, r.h \in {handed, dropped}
        PROVE  TimeTaken(r, t)
    <3>1. r.h \in HandedOver /\ TimeOf(r.h) = Consumed + s /\ OnceOf(r.d, r.h)
      <4> HIDE DEF a, handed
      <4>1. OnceOf(a, dropped)
        <5> HIDE DEF dropped
        <5> QED BY <2>3, <2>6 DEF OnceOf
      <4> HIDE DEF dropped
      <4> QED BY <2>2, <2>3, <2>4, <2>7, <2>8, <4>1
    <3>2. r.d \in AIDmaState /\ r.d.programmed = dma.programmed /\ r.d.cursor = t /\ r.d.aid
          /\ r.d.on = dma.on
      BY <1>3, <1>6, <1>8, <2>8
    <3>3. Running(r.d) => TimeOf(r.h) + r.d.acc = Consumed + e
      <4> HIDE DEF a, s, e
      <4> QED BY <1>2, <2>4, <2>5, <2>8, <3>1
    <3> QED BY <1>2, <1>8, <3>1, <3>2, <3>3 DEF TimeTaken
  <2>9. ASSUME r.d = [a EXCEPT !.on = FALSE, !.aid = FALSE],
               r.h = [dropped EXCEPT !.failed = TRUE]
        PROVE  TimeTaken(r, t)
    <3> HIDE DEF a, dropped
    <3>1. /\ r.d \in AIDmaState /\ ~r.d.on /\ r.d.active = a.active
          /\ r.d.programmed = dma.programmed /\ r.d.cursor = t
      BY <1>3, <1>6, <2>9 DEF AIDmaState
    <3>2. r.h \in HandedOver /\ r.h.failed /\ r.h.plays = audioHost.plays
      BY <2>3, <2>9
    <3>3. OnceOf(r.d, r.h)
      BY <1>3, <2>6, <3>1, <3>2 DEF OnceOf, Running
    <3> QED BY <3>1, <3>2, <3>3 DEF TimeTaken, Running
  <2> QED BY <2>1, <2>8, <2>9
<1> QED BY <1>7, <1>8

\* What a handler leaves that ends at most one block of a prompt title, and that one only
\* when the next is programmed: its submissions are played in their turn.
TurnTaken(r, t, k) ==
  /\ r.d.on = dma.on /\ PlayedInTurn(r.d, r.h)
  /\ k = 0 => /\ r.d.active = dma.active /\ r.d.aid = dma.aid
              /\ dma.on => r.d.acc = Elapsed(dma, t)
  /\ k = 1 => /\ dma.on /\ r.d.aid /\ r.d.active = dma.programmed
              /\ r.d.acc = Elapsed(dma, t) - dma.active.len

\* A look at the clock that ends at most one block of a prompt title keeps its turns.
LEMMA AdvanceTakesTurn ==
  ASSUME AudioAssumption, AudioInv, Prompt,
         NEW t \in 0 .. audioClock, NEW max \in Nat, NEW r \in Advances(t, max),
         Boundaries(dma, t, max) <= 1,
         Boundaries(dma, t, max) = 1 => dma.programmed.n = dma.active.n + 1
  PROVE  TurnTaken(r, t, Boundaries(dma, t, max))
<1> DEFINE k == Boundaries(dma, t, max)
           a == Advanced(dma, t, max)
           e == Elapsed(dma, t)
           p == Published(audioHost, dma, k, aiService = "replay")
<1>1. /\ dma \in AnyDma /\ audioHost \in HandedOver /\ Suppresses /\ MaxCredit \in Nat
      /\ t \in Nat /\ audioClock \in Nat
  BY AudioTypes DEF AudioInv
<1>2. /\ k \in Nat /\ Spent(dma, k) \in Nat
      /\ k # 0 => Running(dma)
      /\ k = 1 => Spent(dma, k) = dma.active.len
      /\ k > 1 => dma.active.len + dma.programmed.len <= Spent(dma, k)
  BY <1>1, BoundariesFit
<1>3. k \in {0, 1} /\ e \in Nat /\ (k = 1 => Running(dma))
  <2>1. e \in Nat
    BY <1>1, ElapsedIsTime
  <2> QED BY <1>2, <2>1
<1>4. /\ a.on = dma.on /\ a.programmed = dma.programmed
      /\ k = 0 => /\ a.active = dma.active /\ a.last = dma.last /\ a.aid = dma.aid
                  /\ a.acc = IF Running(dma) THEN e ELSE dma.acc
      /\ k # 0 => /\ a.aid /\ a.active = dma.programmed
                  /\ a.last = IF k = 1 THEN dma.active.n ELSE dma.programmed.n
                  /\ a.acc = IF dma.programmed.len = 0 THEN 0 ELSE e - Spent(dma, k)
  <2>1. dma \in AnyDma /\ t \in Nat /\ max \in Nat
    BY <1>1
  <2> QED BY <2>1, AdvancedFields
<1>5. /\ a.on = dma.on /\ a.programmed = dma.programmed
      /\ k = 0 => /\ a.active = dma.active /\ a.last = dma.last /\ a.aid = dma.aid
                  /\ a.acc = IF Running(dma) THEN e ELSE dma.acc
      /\ k = 1 => /\ a.aid /\ a.active = dma.programmed /\ a.last = dma.active.n
                  /\ a.acc = IF dma.programmed.len = 0 THEN 0 ELSE e - Spent(dma, k)
  <2> HIDE DEF k, a, e
  <2> QED BY <1>4
<1>6. dmaCallback /\ PlayedInTurn(dma, audioHost)
  BY DEF AudioInv, PromptInv, Turn
<1>7. dma.on => Running(dma) /\ dma.programmed.len # 0 /\ dma.last + 1 = dma.active.n
  BY <1>6 DEF PlayedInTurn, Running
<1>8. CASE k = 0
  <2>1. r.d = a /\ r.h = audioHost
    BY <1>8 DEF Advances
  <2>2. PlayedInTurn(r.d, r.h)
    <3> HIDE DEF k, a, e
    <3>1. /\ a.on = dma.on /\ a.programmed = dma.programmed /\ a.active = dma.active
          /\ a.last = dma.last
      BY <1>5, <1>8
    <3> QED BY <1>6, <2>1, <3>1 DEF PlayedInTurn
  <2>3. k # 1
    BY <1>8
  <2> HIDE DEF k, a, e
  <2> QED BY <1>5, <1>7, <1>8, <2>1, <2>2, <2>3, Zenon DEF TurnTaken, k, e
<1>9. CASE k = 1
  <2>1. r.d = a /\ r.h = p
    <3>1. Answers = {"ok"}
      BY DEF Answers
    <3>2. Advances(t, max) = {[d |-> a, h |-> p]}
      BY <1>9, <3>1 DEF Advances
    <3> HIDE DEF a, p
    <3> QED BY <3>2
  <2>2. /\ dma.on /\ dma.active.len \in Nat /\ dma.active.len # 0
        /\ dma.last \in Nat /\ dma.active.n \in Nat /\ dma.programmed.n \in Nat
    BY <1>1, <1>3, <1>9 DEF AnyDma, AnyBuffers, Running
  <2>3. FreshBlocks(dma, k) = {dma.active.n}
    BY <1>7, <1>9, <2>2 DEF FreshBlocks
  <2>4. FreshTime(dma, k) = Spent(dma, k)
    BY <1>2, <1>9, <2>2, <2>3 DEF FreshTime
  <2>5. /\ p.failed = audioHost.failed
        /\ \A n \in Submissions :
             p.plays[n] = audioHost.plays[n] + (IF n \in FreshBlocks(dma, k) THEN 1 ELSE 0)
        /\ p.silent = audioHost.silent /\ p.covered = audioHost.covered
    <3>1. dma.active.len <= Spent(dma, k)
      BY <1>9, <1>2, <2>2
    <3> HIDE DEF k
    <3>2. ASSUME NEW replay \in BOOLEAN
          PROVE  LET q == Published(audioHost, dma, k, replay)
                 IN  /\ q.failed = audioHost.failed
                     /\ \A n \in Submissions :
                          q.plays[n] = audioHost.plays[n]
                                         + (IF n \in FreshBlocks(dma, k) THEN 1 ELSE 0)
                     /\ q.silent = audioHost.silent /\ q.covered = audioHost.covered
      BY <1>1, <1>6, <1>2, <2>4, <3>1, PublishedFields
    <3>3. (aiService = "replay") \in BOOLEAN
      OBVIOUS
    <3> QED BY <3>2, <3>3, Zenon
  <2> HIDE DEF k, a, p, e
  <2>6. ASSUME NEW n \in Submissions
        PROVE  p.plays[n] = IF n < a.active.n THEN 1 ELSE 0
    <3>1. a.active.n = dma.active.n + 1 /\ n \in Nat
      BY <1>5, <1>9 DEF k, Submissions
    <3>2. audioHost.plays[n] = IF n < dma.active.n THEN 1 ELSE 0
      BY <1>6 DEF PlayedInTurn
    <3>3. p.plays[n] = audioHost.plays[n] + (IF n = dma.active.n THEN 1 ELSE 0)
      BY <2>3, <2>5
    <3> QED BY <2>2, <3>1, <3>2, <3>3
  <2>7. PlayedInTurn(a, p)
    <3>1. a.active.n = dma.active.n + 1
      BY <1>5, <1>9 DEF k
    <3> QED BY <1>5, <1>6, <1>7, <1>9, <2>2, <2>5, <2>6, <3>1 DEF PlayedInTurn
  <2>8. a.acc = e - dma.active.len
    BY <1>5, <1>7, <1>9, <1>2, <2>2
  <2>9. k # 0
    BY <1>9
  <2> QED BY <1>5, <1>9, <2>1, <2>2, <2>7, <2>8, <2>9, Zenon DEF TurnTaken, k, e
<1> QED BY <1>3, <1>8, <1>9

\* The time seen, without the time since the DMA was started.
KeptTime(d, h) == TimeOf(h) + d.acc + (audioClock - d.cursor) - (audioClock - dmaStarted)

\* The DMA and what the host was handed, at this moment of the clock.
DmaOf(d, h) ==
  /\ d \in AIDmaState /\ h \in HandedOver
  /\ d.cursor <= audioClock /\ (d.on => d.cursor # 0)
  /\ Running(d) => KeptTime(d, h) \in {0, dmaBehind}
  /\ OnceOf(d, h)

\* What any handler finds when it has looked at the clock.
Looked(r) ==
  /\ DmaOf(r.d, r.h) /\ r.d.programmed = dma.programmed
  /\ dma.aid /\ ~r.d.aid => r.h.failed
  /\ aiService = "replay" => NearTarget(r.d, r.h)

\* The invariant says of the present DMA what is asked of one that was looked at.
LEMMA InvLooked ==
  ASSUME AudioAssumption, AudioInv
  PROVE  DmaOf(dma, audioHost) /\ ReplayCursor
<1>1. TimeOf(audioHost) = Consumed
  BY DEF TimeOf, Consumed
<1>2. Running(dma) => KeptTime(dma, audioHost) \in {0, dmaBehind}
  BY <1>1, SeenInParts, Zenon DEF KeptTime
<1> QED BY <1>2, AudioTypes DEF AudioInv, CursorInv, DmaOf

\* So does taking time up to a moment that has come, the target in a replay.
LEMMA TakenIsLooked ==
  ASSUME AudioAssumption, AudioInv, NEW t \in 1 .. audioClock, dma.on => dma.cursor <= t,
         aiService = "replay" => t = replayTarget,
         NEW max \in Nat, NEW r \in Advances(t, max)
  PROVE  Looked(r) /\ r.d.cursor = t
<1>1. t \in 0 .. audioClock /\ t # 0 /\ t <= audioClock /\ t \in Nat /\ audioClock \in Nat
  BY AudioTypes DEF AudioInv
<1>2. TimeTaken(r, t)
  BY <1>1, AdvanceTakesTime
<1>3. ASSUME Running(r.d)
      PROVE  TimeOf(r.h) + r.d.acc + (audioClock - t) - (audioClock - dmaStarted)
               \in {0, dmaBehind}
  <2>1. Running(dma) /\ TimeOf(r.h) + r.d.acc = Consumed + Elapsed(dma, t)
    BY <1>2, <1>3 DEF TimeTaken
  <2>2. Elapsed(dma, t) = dma.acc + (t - dma.cursor)
    BY <1>1, <2>1, ElapsedBounded
  <2>3. Consumed + dma.acc + (audioClock - dma.cursor) - (audioClock - dmaStarted)
          \in {0, dmaBehind}
    BY <2>1, SeenInParts
  <2>4. /\ dma.acc \in Nat /\ dma.cursor \in Nat /\ Consumed \in Nat /\ r.d.acc \in Nat
        /\ TimeOf(r.h) \in Nat /\ dmaStarted \in Nat /\ dmaBehind \in Nat
    <3>1. /\ dma \in AnyDma /\ audioHost \in HandedOver
          /\ dmaStarted \in Nat /\ dmaBehind \in Nat
      BY AudioTypes DEF AudioInv
    <3>2. r.d \in AIDmaState /\ r.h \in HandedOver
      BY <1>2 DEF TimeTaken
    <3> QED BY <3>1, <3>2 DEF AnyDma, AIDmaState, HandedOver, TimeOf, Consumed
  <2> QED BY <1>1, <2>1, <2>2, <2>3, <2>4
<1>4. DmaOf(r.d, r.h) /\ r.d.cursor = t
  BY <1>1, <1>2, <1>3 DEF TimeTaken, DmaOf, KeptTime
<1> QED BY <1>2, <1>4 DEF Looked, TimeTaken, NearTarget

\* The polls outside replays.
LEMMA PollLooks ==
  ASSUME AudioAssumption, AudioInv, aiService # "replay",
         NEW max \in Nat, NEW r \in Advances(audioClock, max)
  PROVE  Looked(r) /\ r.d.cursor = audioClock
<1>1. /\ audioClock \in 1 .. audioClock
      /\ dma.on => dma.cursor <= audioClock
  BY AudioTypes DEF AudioInv, CursorInv
<1>2. ASSUME NEW t \in 1 .. audioClock, t = audioClock
      PROVE  \A q \in Advances(t, max) : Looked(q) /\ q.d.cursor = t
  BY <1>1, <1>2, TakenIsLooked
<1> QED BY <1>1, <1>2

\* What the title asks of the DMA.
LEMMA TouchLooks ==
  ASSUME AudioAssumption, AudioInv, NEW r \in Touched
  PROVE  Looked(r)
<1>1. CASE aiService = "replay"
  <2>1. r.d = dma /\ r.h = audioHost
    BY <1>1 DEF Touched
  <2> QED BY <2>1, InvLooked DEF Looked, ReplayCursor
<1>2. CASE aiService # "replay"
  <2>1. r \in Advances(audioClock, Unbounded) /\ Unbounded \in Nat
    BY <1>2, AudioTypes DEF Touched, AudioInv
  <2> QED BY <1>2, <2>1, PollLooks
<1> QED BY <1>1, <1>2

\* A replay finds no time in a DMA that was started since: it looks at it at its target, and
\* the time from there to the start counts for the new run.
LEMMA StartIsLooked ==
  ASSUME AudioAssumption, AudioInv, aiService = "replay", dma.on,
         ~(dma.cursor <= replayTarget), NEW r \in Advances(replayTarget, 1)
  PROVE  Looked(r)
<1> DEFINE t == replayTarget
           a == Advanced(dma, t, 1)
<1>1. /\ dma \in AnyDma /\ dma \in AIDmaState /\ audioHost \in HandedOver
      /\ audioClock \in Nat /\ dmaStarted \in Nat /\ dmaBehind \in Nat
      /\ t \in Nat /\ t <= audioClock /\ t # 0 /\ MaxClock[Prompt] \in Nat
      /\ audioClock <= MaxClock[Prompt]
      /\ DmaOf(dma, audioHost)
  BY AudioTypes, InvLooked DEF AudioInv, ServiceInv
<1>2. dma.cursor \in Nat /\ dma.active.len \in Nat
  BY <1>1 DEF AnyDma, AnyBuffers
<1>3. /\ dma.acc = 0
      /\ Running(dma) => /\ TimeOf(audioHost) = 0
                         /\ dma.cursor = dmaStarted /\ dmaStarted = t + dmaBehind
  BY <1>1, <1>2 DEF AudioInv, CursorInv, ReplayCursor, NearTarget
<1>4. Elapsed(dma, t) = 0
  BY <1>1, <1>2, <1>3 DEF Elapsed, Since
<1>5. Boundaries(dma, t, 1) = 0
  BY <1>2, <1>4 DEF Boundaries, Running
<1>6. r.d = a /\ r.h = audioHost
  BY <1>5 DEF Advances
<1>7. a = [dma EXCEPT !.cursor = t]
  <2>1. a = IF Running(dma) THEN [dma EXCEPT !.cursor = t, !.acc = 0]
            ELSE [dma EXCEPT !.cursor = t]
    BY <1>4, <1>5 DEF Advanced
  <2> HIDE DEF a
  <2> QED BY <1>1, <1>3, <2>1 DEF AnyDma
<1> HIDE DEF a
<1>8. /\ a \in AIDmaState /\ a.cursor = t /\ a.acc = 0 /\ a.on = dma.on
      /\ a.active = dma.active /\ a.programmed = dma.programmed /\ a.last = dma.last
      /\ a.aid = dma.aid
  <2> DEFINE time == 0 .. MaxClock[Prompt]
  <2>1. AIDmaState = [on : BOOLEAN, active : DmaBlocks, programmed : DmaBlocks,
                      last : 0 .. MaxPrograms[Prompt], acc : time, cursor : time, aid : BOOLEAN]
    BY DEF AIDmaState
  <2>2. t \in time
    BY <1>1
  <2> HIDE DEF time, t
  <2> QED BY <1>1, <1>3, <1>7, <2>1, <2>2
<1>9. Running(a) <=> Running(dma)
  BY <1>8 DEF Running
<1>10. Running(a) => KeptTime(a, audioHost) = dmaBehind
  BY <1>1, <1>3, <1>8, <1>9 DEF KeptTime
<1>11. OnceOf(a, audioHost)
  BY <1>1, <1>8, <1>9 DEF DmaOf, OnceOf
<1>12. DmaOf(a, audioHost)
  BY <1>1, <1>8, <1>10, <1>11 DEF DmaOf
<1> QED BY <1>6, <1>8, <1>12 DEF Looked, NearTarget

\* What a step of the replay works on: the latched boundary, or one taken for it.
ReplayLook == IF dma.aid THEN {[d |-> dma, h |-> audioHost]} ELSE Advances(replayTarget, 1)

\* A step of the replay.
LEMMA ReplayLooks ==
  ASSUME AudioAssumption, AudioInv, dmaPhase = "loop", NEW r \in ReplayLook
  PROVE  Looked(r)
<1>1. CASE dma.aid
  <2>1. r.d = dma /\ r.h = audioHost
    BY <1>1 DEF ReplayLook
  <2> QED BY <2>1, InvLooked DEF Looked, ReplayCursor
<1>2. /\ replayTarget \in 1 .. audioClock /\ aiService = "replay"
      /\ replayTarget \in Nat /\ audioClock \in Nat
  BY AudioTypes DEF AudioInv, ServiceInv
<1>3. CASE ~dma.aid /\ (dma.on => dma.cursor <= replayTarget)
  <2>1. ASSUME NEW t \in 1 .. audioClock, t = replayTarget
        PROVE  \A q \in Advances(t, 1) : Looked(q)
    BY <1>2, <1>3, <2>1, TakenIsLooked
  <2> QED BY <1>2, <1>3, <2>1 DEF ReplayLook
<1>4. CASE ~dma.aid /\ dma.on /\ ~(dma.cursor <= replayTarget)
  BY <1>2, <1>4, StartIsLooked DEF ReplayLook
<1> QED BY <1>1, <1>3, <1>4

\* The same DMA after a step in which the clock stands still.
LEMMA DmaStands ==
  ASSUME NEW d, NEW h, DmaOf(d, h), dma' = d, audioHost' = h,
         UNCHANGED <<title, audioClock, startVars>>
  PROVE  DmaOf(dma, audioHost)'
BY DEF DmaOf, KeptTime, AIDmaState, HandedOver, DmaBlocks, OnceOf, Submissions, Prompt, TimeOf,
       Running, startVars

\* What the title makes of the DMA and the host's silence of what it was handed.
SystemStopped(d) == [Stopped(d) EXCEPT !.aid = FALSE,
                                       !.programmed = [n |-> d.programmed.n, len |-> 0]]
Submitted(d, len) == [d EXCEPT !.programmed = [n |-> d.programmed.n + 1, len |-> len]]
Credited(h, amount) == [h EXCEPT !.credit = amount]

\* An acknowledgement, a stop, a submission and the host's silence leave the rest as it is.
LEMMA DmaChanges ==
  ASSUME AudioAssumption, AudioTypeOK, NEW d, NEW h, DmaOf(d, h)
  PROVE  /\ DmaOf(Acked(d), h) /\ DmaOf(Stopped(d), h)
         /\ DmaOf(SystemStopped(d), h)
         /\ \A len \in Nat :
              d.programmed.n < MaxPrograms[Prompt] => DmaOf(Submitted(d, len), h)
         /\ \A amount \in 0 .. MaxCredit : DmaOf(d, Credited(h, amount))
<1> DEFINE bound == MaxPrograms[Prompt]
<1>1. /\ d \in AIDmaState /\ h \in HandedOver
      /\ d.cursor <= audioClock /\ (d.on => d.cursor # 0)
      /\ Running(d) => KeptTime(d, h) \in {0, dmaBehind}
      /\ OnceOf(d, h)
  BY DEF DmaOf
<1>2. /\ d.programmed \in [n : 0 .. bound, len : Nat] /\ d.active \in [n : 0 .. bound, len : Nat]
      /\ d.last \in 0 .. bound /\ d.cursor \in Nat
  BY <1>1 DEF AIDmaState, DmaBlocks
<1>3. DmaOf(Acked(d), h)
  <2>1. Acked(d) \in AIDmaState
    BY <1>1 DEF Acked, AIDmaState
  <2>2. /\ Acked(d).on = d.on /\ Acked(d).active = d.active /\ Acked(d).programmed = d.programmed
        /\ Acked(d).last = d.last /\ Acked(d).acc = d.acc /\ Acked(d).cursor = d.cursor
    BY <1>1 DEF Acked, AIDmaState
  <2> QED BY <1>1, <2>1, <2>2 DEF DmaOf, KeptTime, OnceOf, Running
<1>4. /\ audioClock \in Nat /\ bound \in Nat /\ MaxClock[Prompt] \in Nat /\ NoBuffer \in DmaBlocks
  <2>1. audioClock \in Nat /\ bound \in Nat /\ MaxClock[Prompt] \in Nat
    BY AudioTypes
  <2> QED BY <2>1 DEF NoBuffer, DmaBlocks
<1>5. ASSUME NEW s, s \in AIDmaState, ~s.on, s.cursor = 0, s.active = NoBuffer,
             s.programmed.n = d.programmed.n, s.programmed.n = 0 => s.programmed.len = 0
      PROVE  DmaOf(s, h)
  <2>1. 0 <= audioClock
    BY <1>4
  <2>2. s.active.n <= s.programmed.n /\ ~Running(s)
    BY <1>2, <1>5 DEF NoBuffer, Running
  <2> QED BY <1>1, <1>5, <2>1, <2>2 DEF DmaOf, OnceOf
<1>6. DmaOf(Stopped(d), h)
  <2>1. /\ Stopped(d) \in AIDmaState /\ ~Stopped(d).on /\ Stopped(d).cursor = 0
        /\ Stopped(d).active = NoBuffer /\ Stopped(d).programmed = d.programmed
    <3> DEFINE time == 0 .. MaxClock[Prompt]
               last == 0 .. MaxPrograms[Prompt]
    <3>1. d \in [on : BOOLEAN, active : DmaBlocks, programmed : DmaBlocks, last : last,
                 acc : time, cursor : time, aid : BOOLEAN]
      BY <1>1 DEF AIDmaState
    <3>2. AIDmaState = [on : BOOLEAN, active : DmaBlocks, programmed : DmaBlocks, last : last,
                        acc : time, cursor : time, aid : BOOLEAN]
      BY DEF AIDmaState
    <3>3. 0 \in time
      BY <1>4
    <3> HIDE DEF time, last
    <3> QED BY <1>4, <3>1, <3>2, <3>3 DEF Stopped
  <2> QED BY <1>1, <1>5, <2>1 DEF OnceOf
<1>7. DmaOf(SystemStopped(d), h)
  <2> DEFINE s == [Stopped(d) EXCEPT !.aid = FALSE,
                                     !.programmed = [n |-> d.programmed.n, len |-> 0]]
  <2>1. /\ s \in AIDmaState /\ ~s.on /\ s.cursor = 0 /\ s.active = NoBuffer
        /\ s.programmed = [n |-> d.programmed.n, len |-> 0]
    <3>1. Stopped(d) \in AIDmaState
      BY <1>6 DEF DmaOf
    <3>2. [n |-> d.programmed.n, len |-> 0] \in DmaBlocks
      BY <1>2 DEF DmaBlocks
    <3>3. /\ Stopped(d).on = FALSE /\ Stopped(d).active = NoBuffer /\ Stopped(d).cursor = 0
      BY <1>1 DEF Stopped, AIDmaState
    <3> QED BY <3>1, <3>2, <3>3 DEF AIDmaState
  <2>2. s.programmed.n = d.programmed.n /\ s.programmed.len = 0
    BY <2>1
  <2> HIDE DEF s
  <2>3. DmaOf(s, h)
    BY <1>5, <2>1, <2>2
  <2> QED BY <2>3 DEF s, SystemStopped
<1>8. ASSUME NEW len \in Nat, d.programmed.n < bound
      PROVE  DmaOf(Submitted(d, len), h)
  <2> DEFINE next == [n |-> d.programmed.n + 1, len |-> len]
             s == [d EXCEPT !.programmed = next]
  <2>1. next \in DmaBlocks /\ next.n = d.programmed.n + 1 /\ next.n # 0
        /\ d.active.n <= next.n
    BY <1>1, <1>2, <1>4, <1>8 DEF DmaBlocks, OnceOf
  <2> HIDE DEF next
  <2>2. /\ s \in AIDmaState /\ s.on = d.on /\ s.active = d.active /\ s.programmed = next
        /\ s.last = d.last /\ s.acc = d.acc /\ s.cursor = d.cursor
    BY <1>1, <2>1 DEF AIDmaState
  <2> HIDE DEF s
  <2>3. DmaOf(s, h)
    BY <1>1, <2>1, <2>2 DEF DmaOf, KeptTime, OnceOf, Running
  <2> QED BY <2>3 DEF s, next, Submitted
<1>9. ASSUME NEW amount \in 0 .. MaxCredit
      PROVE  DmaOf(d, Credited(h, amount))
  <2>1. /\ Credited(h, amount) \in HandedOver
        /\ Credited(h, amount).plays = h.plays
        /\ TimeOf(Credited(h, amount)) = TimeOf(h)
    BY <1>1 DEF HandedOver, TimeOf, Credited
  <2> HIDE DEF bound
  <2> QED BY <1>1, <2>1 DEF DmaOf, KeptTime, OnceOf
<1> QED BY <1>3, <1>6, <1>7, <1>8, <1>9

\* An interrupt goes to its callback, or is taken away, see HeardOrBusy.
HeardStep ==
  dma.aid /\ ~dma'.aid =>
    \/ dmaPhase' = "callback" \/ callbackBusy \/ ~dmaCallback
    \/ audioHost'.failed \/ dma'.programmed.len = 0

\* How far a DMA is from the target does not depend on the interrupt, on what is programmed or
\* on the host's silence.
LEMMA NearChanges ==
  ASSUME NEW d \in AIDmaState, NEW h \in HandedOver, NearTarget(d, h)
  PROVE  /\ NearTarget(Acked(d), h) /\ NearTarget(Stopped(d), h)
         /\ NearTarget(SystemStopped(d), h)
         /\ \A len \in Nat : NearTarget(Submitted(d, len), h)
         /\ \A amount \in Nat : NearTarget(d, Credited(h, amount))
<1>1. Acked(d).cursor = d.cursor /\ Acked(d).acc = d.acc /\ Acked(d).on = d.on
      /\ Acked(d).active = d.active
  BY DEF Acked, AIDmaState
<1>2. Stopped(d).cursor = 0 /\ SystemStopped(d).cursor = 0
  BY DEF Stopped, SystemStopped, AIDmaState
<1>3. ASSUME NEW len \in Nat
      PROVE  NearTarget(Submitted(d, len), h)
  <2>1. /\ Submitted(d, len).cursor = d.cursor /\ Submitted(d, len).acc = d.acc
        /\ Submitted(d, len).on = d.on /\ Submitted(d, len).active = d.active
    BY DEF Submitted, AIDmaState
  <2> QED BY <2>1 DEF NearTarget, Running
<1>4. ASSUME NEW amount \in Nat
      PROVE  NearTarget(d, Credited(h, amount))
  <2>1. TimeOf(Credited(h, amount)) = TimeOf(h)
    BY DEF Credited, TimeOf, HandedOver
  <2> QED BY <2>1 DEF NearTarget
<1>5. NearTarget(Acked(d), h)
  BY <1>1 DEF NearTarget, Running
<1>6. NearTarget(Stopped(d), h) /\ NearTarget(SystemStopped(d), h)
  BY <1>2 DEF NearTarget
<1> QED BY <1>3, <1>4, <1>5, <1>6

\* The same distance after a step.
LEMMA NearStands ==
  ASSUME NEW d, NEW h, dma' = d, audioHost' = h, UNCHANGED <<startVars, replayTarget>>,
         aiService' = "replay" => NearTarget(d, h)
  PROVE  ReplayCursor'
BY DEF ReplayCursor, NearTarget, Running, TimeOf, startVars

\* A step that looks at the clock and changes the DMA no more than a handler may.
LEMMA LookedKeeps ==
  ASSUME AudioAssumption, AudioTypeOK, NEW r, Looked(r), audioHost' = r.h,
         \/ dma' = r.d
         \/ dma' = Stopped(r.d)
         \/ \E len \in Nat : /\ dma.programmed.n < MaxPrograms[Prompt]
                             /\ dma' = Submitted(r.d, len),
         UNCHANGED <<title, audioClock, startVars, aiService, replayTarget>>
  PROVE  DmaOf(dma, audioHost)' /\ ReplayCursor' /\ HeardStep
<1>1. /\ DmaOf(r.d, r.h) /\ r.d.programmed = dma.programmed
      /\ dma.aid /\ ~r.d.aid => r.h.failed
      /\ aiService = "replay" => NearTarget(r.d, r.h)
      /\ r.d \in AIDmaState /\ r.h \in HandedOver
  BY DEF Looked, DmaOf
<1>2. CASE dma' = r.d
  <2>1. DmaOf(dma, audioHost)'
    BY <1>1, <1>2, DmaStands
  <2>2. ReplayCursor'
    BY <1>1, <1>2, NearStands
  <2> QED BY <1>1, <1>2, <2>1, <2>2 DEF HeardStep
<1>3. CASE dma' = Stopped(r.d)
  <2>1. DmaOf(dma, audioHost)'
    BY <1>1, <1>3, DmaChanges, DmaStands
  <2>2. ReplayCursor'
    BY <1>1, <1>3, NearChanges, NearStands
  <2>3. dma'.aid = r.d.aid
    BY <1>1, <1>3 DEF Stopped, AIDmaState
  <2> QED BY <1>1, <2>1, <2>2, <2>3 DEF HeardStep
<1>4. ASSUME NEW len \in Nat, dma.programmed.n < MaxPrograms[Prompt],
             dma' = Submitted(r.d, len)
      PROVE  DmaOf(dma, audioHost)' /\ ReplayCursor' /\ HeardStep
  <2>1. DmaOf(dma, audioHost)'
    BY <1>1, <1>4, DmaChanges, DmaStands
  <2>2. ReplayCursor'
    BY <1>1, <1>4, NearChanges, NearStands
  <2>3. dma'.aid = r.d.aid
    BY <1>1, <1>4 DEF AIDmaState, Submitted
  <2> QED BY <1>1, <2>1, <2>2, <2>3 DEF HeardStep
<1> QED BY <1>2, <1>3, <1>4

\* The same for a step that acknowledges the interrupt it found.
LEMMA AckedKeeps ==
  ASSUME AudioAssumption, AudioTypeOK, NEW r, Looked(r), audioHost' = r.h, dma' = Acked(r.d),
         UNCHANGED <<title, audioClock, startVars, replayTarget>>,
         aiService' = "replay" => aiService = "replay",
         r.d.aid => dmaPhase' = "callback" \/ callbackBusy \/ ~dmaCallback
  PROVE  DmaOf(dma, audioHost)' /\ ReplayCursor' /\ HeardStep
<1>1. /\ DmaOf(r.d, r.h) /\ (dma.aid /\ ~r.d.aid => r.h.failed)
      /\ aiService = "replay" => NearTarget(r.d, r.h)
      /\ r.d \in AIDmaState /\ r.h \in HandedOver
  BY DEF Looked, DmaOf
<1>2. DmaOf(dma, audioHost)'
  BY <1>1, DmaChanges, DmaStands
<1>3. ReplayCursor'
  BY <1>1, NearChanges, NearStands
<1> QED BY <1>1, <1>2, <1>3 DEF HeardStep

\* The DMA keeps its time, its interrupt and its order in every step.
LEMMA DmaKept ==
  ASSUME AudioAssumption, AudioInv, AudioNext
  PROVE  DmaOf(dma, audioHost)' /\ ReplayCursor' /\ HeardStep
<1> DEFINE Goal == DmaOf(dma, audioHost)' /\ ReplayCursor' /\ HeardStep
<1>1. AudioTypeOK /\ DmaOf(dma, audioHost) /\ ReplayCursor
  BY InvLooked DEF AudioInv
<1>2. ServiceInv /\ Unbounded \in Nat /\ PerService \in Nat
  BY AudioTypes DEF AudioInv
<1> HIDE DEF Goal
<1>3. ASSUME NEW len \in BlockLens, InitDMA(len)
      PROVE  Goal
  <2>1. len \in Nat
    BY DEF AudioAssumption
  <2>2. PICK r \in Touched :
          audioHost' = r.h /\ dma' = Submitted(r.d, len)
    BY <1>3 DEF InitDMA, Submitted
  <2>3. UNCHANGED <<title, audioClock, startVars, aiService, replayTarget>>
        /\ dma.programmed.n < MaxPrograms[Prompt]
    BY <1>3 DEF InitDMA, serviceVars
  <2> QED BY <1>1, <2>1, <2>2, <2>3, TouchLooks, LookedKeeps DEF Goal
<1>4. ASSUME BytesLeft \/ CallbackReturns
      PROVE  Goal
  <2>1. /\ \E r \in Touched : audioHost' = r.h /\ dma' = r.d
        /\ UNCHANGED <<title, audioClock, startVars, aiService, replayTarget>>
    BY <1>4 DEF BytesLeft, CallbackReturns, serviceVars
  <2> QED BY <1>1, <2>1, TouchLooks, LookedKeeps DEF Goal
<1>5. ASSUME StopDMA
      PROVE  Goal
  <2>1. /\ \E r \in Touched : audioHost' = r.h /\ dma' = Stopped(r.d)
        /\ UNCHANGED <<title, audioClock, startVars, aiService, replayTarget>>
    BY <1>5 DEF StopDMA, serviceVars
  <2> QED BY <1>1, <2>1, TouchLooks, LookedKeeps DEF Goal
<1>6. ASSUME StartDMA
      PROVE  Goal
  <2>1. /\ dma' = [dma EXCEPT !.on = TRUE, !.active = dma.programmed, !.last = 0, !.acc = 0,
                              !.cursor = audioClock, !.aid = TRUE]
        /\ audioHost' = [audioHost EXCEPT !.credit = 0, !.plays = [n \in Submissions |-> 0],
                                          !.real = 0, !.silent = 0, !.covered = 0,
                                          !.dropped = 0]
        /\ dmaStarted' = audioClock /\ UNCHANGED <<title, audioClock, aiService, replayTarget>>
        /\ dmaBehind' = IF aiService = "replay" THEN audioClock - replayTarget ELSE 0
    BY <1>6 DEF StartDMA, serviceVars
  <2>2. /\ audioClock \in Nat \ {0} /\ audioClock <= MaxClock[Prompt]
        /\ MaxClock[Prompt] \in Nat /\ MaxPrograms[Prompt] \in Nat /\ MaxCredit \in Nat
    BY <1>1, AudioTypes
  <2>3. dma \in AIDmaState /\ audioHost \in HandedOver /\ OnceOf(dma, audioHost)
    BY <1>1 DEF DmaOf
  <2>4. /\ dma' \in AIDmaState /\ dma'.active = dma.programmed
        /\ dma'.programmed = dma.programmed /\ dma'.last = 0 /\ dma'.acc = 0
        /\ dma'.cursor = audioClock /\ dma'.aid
    <3> DEFINE time == 0 .. MaxClock[Prompt]
               last == 0 .. MaxPrograms[Prompt]
    <3>1. AIDmaState = [on : BOOLEAN, active : DmaBlocks, programmed : DmaBlocks, last : last,
                        acc : time, cursor : time, aid : BOOLEAN]
      BY DEF AIDmaState
    <3>2. 0 \in time /\ 0 \in last /\ audioClock \in time
      BY <2>2
    <3> HIDE DEF time, last
    <3> QED BY <2>1, <2>3, <3>1, <3>2
  <2>5. /\ audioHost' \in HandedOver /\ TimeOf(audioHost') = 0
        /\ audioHost'.plays = [n \in Submissions |-> 0]
    <3> DEFINE none == [n \in Submissions |-> 0]
    <3>1. none \in [Submissions -> Nat] /\ 0 \in 0 .. MaxCredit
      BY <2>2
    <3> HIDE DEF none
    <3>2. audioHost' = [audioHost EXCEPT !.credit = 0, !.plays = none,
                                          !.real = 0, !.silent = 0, !.covered = 0,
                                          !.dropped = 0]
      BY <2>1 DEF none
    <3>3. audioHost' \in HandedOver /\ TimeOf(audioHost') = 0 /\ audioHost'.plays = none
      <4> DEFINE amounts == 0 .. MaxCredit
                 counts == [Submissions -> Nat]
      <4>1. HandedOver = [credit : amounts, plays : counts, real : Nat, silent : Nat,
                          covered : Nat, dropped : Nat, lost : Nat, failed : BOOLEAN]
        BY DEF HandedOver
      <4>2. none \in counts /\ 0 \in amounts
        BY <3>1
      <4> HIDE DEF amounts, counts
      <4>3. /\ audioHost'.plays = none /\ audioHost'.real = 0 /\ audioHost'.silent = 0
            /\ audioHost'.covered = 0 /\ audioHost'.dropped = 0
        BY <2>3, <3>2, <4>1
      <4>4. TimeOf(audioHost') = 0
        BY <4>3 DEF TimeOf
      <4>5. audioHost' \in HandedOver
        <5>1. [audioHost EXCEPT !.credit = 0, !.plays = none] \in HandedOver
          BY <2>3, <4>1, <4>2
        <5>2. PICK h \in HandedOver : h = [audioHost EXCEPT !.credit = 0, !.plays = none]
          BY <5>1
        <5>3. audioHost' = [h EXCEPT !.real = 0, !.silent = 0, !.covered = 0, !.dropped = 0]
          BY <3>2, <5>2
        <5> QED BY <4>1, <5>3
      <4> QED BY <4>3, <4>4, <4>5
    <3> QED BY <3>3 DEF none
  <2>6. dma.programmed.n \in Nat /\ dma.programmed.len \in Nat
    BY <2>3 DEF AIDmaState, DmaBlocks
  <2>7. OnceOf(dma', audioHost')
    BY <2>3, <2>4, <2>5, <2>6 DEF OnceOf, Running
  <2>8. DmaOf(dma, audioHost)'
    <3>1. dma' \in AIDmaState' /\ audioHost' \in HandedOver'
      BY <2>1, <2>4, <2>5 DEF AIDmaState, DmaBlocks, HandedOver, Submissions, Prompt
    <3>2. OnceOf(dma, audioHost)'
      BY <2>1, <2>7 DEF OnceOf, Submissions, Prompt, Running
    <3>3. /\ dma'.cursor <= audioClock' /\ dma'.cursor # 0
          /\ TimeOf(audioHost') + dma'.acc + (audioClock' - dma'.cursor)
               - (audioClock' - dmaStarted') = 0
      BY <2>1, <2>2, <2>4, <2>5
    <3> QED BY <3>1, <3>2, <3>3 DEF DmaOf, TimeOf, KeptTime
  <2>9. ReplayCursor'
    <3>1. ASSUME aiService = "replay"
          PROVE  dmaStarted' = replayTarget' + dmaBehind'
      <4>1. replayTarget \in Nat
        BY <1>1, AudioTypes
      <4> QED BY <2>1, <2>2, <3>1, <4>1
    <3>2. TimeOf(audioHost)' = 0 /\ dma'.acc = 0 /\ dma'.cursor = dmaStarted'
      BY <2>1, <2>4, <2>5 DEF TimeOf
    <3> QED BY <2>1, <3>1, <3>2 DEF ReplayCursor, NearTarget
  <2> QED BY <2>1, <2>4, <2>8, <2>9 DEF Goal, HeardStep
<1>7. ASSUME StopSystem
      PROVE  Goal
  <2>1. /\ dma' = SystemStopped(dma) /\ UNCHANGED <<title, audioClock, audioHost, startVars>>
        /\ UNCHANGED <<aiService, replayTarget>>
    BY <1>7 DEF StopSystem, SystemStopped, serviceVars
  <2>2. DmaOf(dma, audioHost)'
    BY <1>1, <2>1, DmaChanges, DmaStands
  <2>3. dma'.cursor = 0 /\ dma'.programmed.len = 0
    BY <1>1, <2>1 DEF Stopped, SystemStopped, AIDmaState, DmaOf
  <2> QED BY <2>2, <2>3 DEF Goal, ReplayCursor, NearTarget, HeardStep
<1>8. ASSUME RegisterCallback \/ MaskAudio \/ NextReplay \/ ReplayStops
      PROVE  Goal
  <2>1. UNCHANGED <<title, audioClock, dma, audioHost, startVars, aiService, replayTarget>>
    BY <1>8 DEF RegisterCallback, MaskAudio, NextReplay, ReplayStops, serviceVars
  <2>2. DmaOf(dma, audioHost)'
    BY <1>1, <2>1, DmaStands
  <2>3. ReplayCursor'
    BY <1>1, <2>1, NearStands DEF ReplayCursor
  <2> QED BY <2>1, <2>2, <2>3 DEF Goal, HeardStep
<1>9. ASSUME ClockTicks
      PROVE  Goal
  <2>1. /\ audioClock' = audioClock + 1
        /\ UNCHANGED <<title, dma, audioHost, startVars, aiService, replayTarget>>
    BY <1>9 DEF ClockTicks, serviceVars
  <2>2. /\ audioClock \in Nat /\ dmaStarted \in Nat /\ dmaBehind \in Nat
        /\ dma \in AnyDma /\ audioHost \in HandedOver
    BY <1>1, AudioTypes
  <2>3. dma.cursor \in Nat /\ dma.acc \in Nat /\ TimeOf(audioHost) \in Nat
    BY <2>2 DEF AnyDma, HandedOver, TimeOf
  <2>4. /\ dma \in AIDmaState /\ audioHost \in HandedOver
        /\ dma.cursor <= audioClock /\ (dma.on => dma.cursor # 0)
        /\ Running(dma) => TimeOf(audioHost) + dma.acc + (audioClock - dma.cursor)
                             - (audioClock - dmaStarted) \in {0, dmaBehind}
        /\ OnceOf(dma, audioHost)
    BY <1>1 DEF DmaOf, KeptTime
  <2>5. DmaOf(dma, audioHost)'
    <3>1. (dma \in AIDmaState /\ audioHost \in HandedOver /\ OnceOf(dma, audioHost))'
      BY <2>1, <2>4 DEF AIDmaState, DmaBlocks, HandedOver, OnceOf, Submissions, Prompt, Running
    <3>2. /\ dma'.cursor <= audioClock' /\ (dma'.on => dma'.cursor # 0)
          /\ Running(dma) => TimeOf(audioHost) + dma.acc + (audioClock' - dma.cursor)
                               - (audioClock' - dmaStarted) \in {0, dmaBehind}
      <4> DEFINE time == TimeOf(audioHost)
      <4>1. dma' = dma /\ audioClock' = audioClock + 1
        BY <2>1
      <4>2. dma.cursor <= audioClock + 1
        BY <2>2, <2>3, <2>4
      <4>3. ASSUME Running(dma)
            PROVE  time + dma.acc + ((audioClock + 1) - dma.cursor)
                     - ((audioClock + 1) - dmaStarted) \in {0, dmaBehind}
        <5>1. time + dma.acc + (audioClock - dma.cursor) - (audioClock - dmaStarted)
                \in {0, dmaBehind}
          BY <2>4, <4>3
        <5>2. time \in Nat
          BY <2>3
        <5> HIDE DEF time
        <5> QED BY <2>2, <2>3, <5>1, <5>2
      <4> QED BY <2>4, <4>1, <4>2, <4>3
    <3> QED BY <2>1, <3>1, <3>2 DEF DmaOf, KeptTime, TimeOf, Running, startVars
  <2>6. ReplayCursor'
    BY <1>1, <2>1, NearStands DEF ReplayCursor
  <2> QED BY <2>1, <2>5, <2>6 DEF Goal, HeardStep
<1>10. ASSUME HostSilence \/ EndReplay
       PROVE  Goal
  <2>1. /\ \E amount \in 0 .. MaxCredit : audioHost' = Credited(audioHost, amount)
        /\ UNCHANGED <<title, audioClock, dma, startVars, replayTarget>>
        /\ aiService' = "replay" => aiService = "replay"
    <3>1. MaxCredit \in Nat /\ audioHost.credit \in Nat
      BY <1>1, AudioTypes DEF HandedOver
    <3>2. CASE HostSilence
      <4>1. audioHost' = Credited(audioHost, audioHost.credit + 1)
        BY <3>2 DEF HostSilence, Credited
      <4>2. audioHost.credit + 1 \in 0 .. MaxCredit
        BY <3>1, <3>2 DEF HostSilence
      <4> QED BY <3>2, <4>1, <4>2 DEF HostSilence, serviceVars
    <3>3. CASE EndReplay
      <4>1. audioHost' = Credited(audioHost, 0) /\ 0 \in 0 .. MaxCredit
        BY <3>1, <3>3 DEF EndReplay, Credited
      <4> QED BY <3>3, <4>1 DEF EndReplay
    <3> QED BY <1>10, <3>2, <3>3
  <2>2. DmaOf(dma, audioHost)'
    BY <1>1, <2>1, DmaChanges, DmaStands
  <2>3. ReplayCursor'
    <3>1. PICK amount \in 0 .. MaxCredit : audioHost' = Credited(audioHost, amount)
      BY <2>1
    <3>2. amount \in Nat /\ dma \in AIDmaState /\ audioHost \in HandedOver
      BY <1>1 DEF DmaOf
    <3> QED BY <1>1, <2>1, <3>1, <3>2, NearChanges, NearStands DEF ReplayCursor
  <2> QED BY <2>1, <2>2, <2>3 DEF Goal, HeardStep
<1>11. ASSUME PollMasked
       PROVE  Goal
  <2>1. /\ \E r \in Advances(audioClock, Unbounded) : audioHost' = r.h /\ dma' = r.d
        /\ UNCHANGED <<title, audioClock, startVars, aiService, replayTarget>>
        /\ aiService # "replay"
    BY <1>11 DEF PollMasked, serviceVars
  <2> QED BY <1>1, <1>2, <2>1, PollLooks, LookedKeeps DEF Goal
<1>12. ASSUME PollNested
       PROVE  Goal
  <2>1. PICK r \in Advances(audioClock, Unbounded) : audioHost' = r.h /\ dma' = NestedAck(r.d)
    BY <1>12 DEF PollNested
  <2>2. /\ UNCHANGED <<title, audioClock, startVars, aiService, replayTarget>>
        /\ aiService # "replay"
    BY <1>12 DEF PollNested, serviceVars
  <2>3. Looked(r)
    BY <1>2, <2>2, PollLooks
  <2>4. CASE callbackBusy
    <3>1. dma' = Acked(r.d)
      BY <2>1, <2>4 DEF NestedAck
    <3> QED BY <1>1, <2>1, <2>2, <2>3, <2>4, <3>1, AckedKeeps DEF Goal
  <2>5. CASE ~callbackBusy
    <3>1. dma' = r.d
      BY <2>1, <2>5 DEF NestedAck
    <3> QED BY <1>1, <2>1, <2>2, <2>3, <3>1, LookedKeeps DEF Goal
  <2> QED BY <2>4, <2>5
<1>13. ASSUME StartReplay
       PROVE  Goal
  <2> DEFINE r == [d |-> Advanced(dma, audioClock, 0), h |-> audioHost]
  <2>1. /\ dma' = r.d /\ audioHost' = r.h /\ aiService # "replay" /\ replayTarget' = audioClock
        /\ UNCHANGED <<title, audioClock, startVars>>
    BY <1>13 DEF StartReplay
  <2>2. r \in Advances(audioClock, 0)
    <3>1. Boundaries(dma, audioClock, 0) = 0
      BY DEF Boundaries
    <3> QED BY <3>1 DEF Advances
  <2>3. Looked(r) /\ r.d.cursor = audioClock
    <3> HIDE DEF r
    <3> QED BY <2>1, <2>2, PollLooks
  <2> HIDE DEF r
  <2>4. DmaOf(dma, audioHost)'
    BY <2>1, <2>3, DmaStands DEF Looked
  <2> QED BY <2>1, <2>3, <2>4 DEF Goal, ReplayCursor, NearTarget, HeardStep, Looked
<1>14. ASSUME PollOuter
       PROVE  Goal
  <2>1. PICK r \in Advances(audioClock, PerService) :
          /\ audioHost' = r.h /\ dma' = Acked(r.d)
          /\ IF r.d.aid /\ dmaCallback /\ ~callbackBusy
             THEN dmaPhase' = "callback" /\ aiService' = "tick"
             ELSE aiService' = aiService
    BY <1>14 DEF PollOuter
  <2>2. /\ UNCHANGED <<title, audioClock, startVars, replayTarget>>
        /\ aiService # "replay"
    BY <1>14 DEF PollOuter
  <2>3. Looked(r)
    BY <1>2, <2>2, PollLooks
  <2>4. /\ r.d.aid => dmaPhase' = "callback" \/ callbackBusy \/ ~dmaCallback
        /\ aiService' = "replay" => aiService = "replay"
    BY <2>1
  <2> QED BY <1>1, <2>1, <2>2, <2>3, <2>4, AckedKeeps DEF Goal
<1>15. ASSUME ServiceEnds
       PROVE  Goal
  <2>1. PICK r \in Advances(audioClock, Unbounded) : audioHost' = r.h /\ dma' = r.d
    BY <1>15 DEF ServiceEnds
  <2>2. /\ UNCHANGED <<title, audioClock, startVars, replayTarget>>
        /\ aiService # "replay" /\ aiService' = "none"
    BY <1>15 DEF ServiceEnds
  <2>3. Looked(r)
    BY <1>2, <2>2, PollLooks
  <2>4. DmaOf(dma, audioHost)'
    BY <2>1, <2>2, <2>3, DmaStands DEF Looked
  <2> QED BY <2>1, <2>2, <2>3, <2>4 DEF Goal, ReplayCursor, HeardStep, Looked
<1>16. ASSUME ReplayStep
       PROVE  Goal
  <2>1. PICK r \in ReplayLook :
          /\ audioHost' = r.h /\ dma' = Acked(r.d)
          /\ IF r.d.aid /\ dmaCallback /\ ~callbackBusy
             THEN dmaPhase' = "callback"
             ELSE TRUE
    BY <1>16 DEF ReplayStep, ReplayLook
  <2>2. /\ UNCHANGED <<title, audioClock, startVars, aiService, replayTarget>>
        /\ dmaPhase = "loop"
    BY <1>16 DEF ReplayStep, serviceVars
  <2>3. Looked(r)
    BY <2>2, ReplayLooks
  <2>4. r.d.aid => dmaPhase' = "callback" \/ callbackBusy \/ ~dmaCallback
    BY <2>1
  <2> QED BY <1>1, <2>1, <2>2, <2>3, <2>4, AckedKeeps DEF Goal
<1>17. Goal
  BY <1>3, <1>4, <1>5, <1>6, <1>7, <1>8, <1>9, <1>10, <1>11, <1>12, <1>13, <1>14, <1>15, <1>16
  DEF AudioNext
<1> QED BY <1>17 DEF Goal

\* The types of what is not the DMA or the host.
OtherTypes ==
  /\ title \in Titles
  /\ audioClock \in 1 .. MaxClock[Prompt] /\ dmaStarted \in 1 .. MaxClock[Prompt]
  /\ dmaStarted <= audioClock /\ dmaBehind \in 0 .. MaxClock[Prompt] /\ dmaBehind < dmaStarted
  /\ {dmaCallback, callbackBusy, dmaLatch, fed} \subseteq BOOLEAN
  /\ dmaPhase \in {"guest", "callback", "dsp", "loop", "end"}
  /\ aiService \in {"none", "tick", "replay"} /\ servicesInside \in Nat
  /\ replayTarget \in 0 .. MaxClock[Prompt] /\ replayed \in 0 .. MaxReplay

\* Services follow one another.
LEMMA ServiceKept ==
  ASSUME AudioAssumption, AudioInv, AudioNext
  PROVE  OtherTypes' /\ ServiceInv'
<1> DEFINE Goal == OtherTypes' /\ ServiceInv'
<1>1. OtherTypes /\ ServiceInv /\ MaxReplay \in Nat /\ MaxClock[Prompt] \in Nat
  BY AudioTypes DEF AudioInv, AudioTypeOK, CursorInv, OtherTypes
<1> HIDE DEF Goal
<1> DEFINE Starts ==
             \/ UNCHANGED startVars
             \/ dmaStarted' = audioClock /\ dmaBehind' \in 0 .. audioClock - 1
<1>2. CASE /\ UNCHANGED <<title, audioClock, serviceVars, callbackBusy, dmaPhase>>
           /\ Starts
           /\ {dmaCallback', dmaLatch', fed'} \subseteq BOOLEAN
  <2>1. ServiceInv'
    BY <1>1, <1>2 DEF ServiceInv, serviceVars
  <2>2. /\ dmaStarted' \in 1 .. MaxClock[Prompt] /\ dmaStarted' <= audioClock
        /\ dmaBehind' \in 0 .. MaxClock[Prompt] /\ dmaBehind' < dmaStarted'
    BY <1>1, <1>2 DEF OtherTypes, startVars
  <2>3. OtherTypes'
    <3>1. /\ title' = title /\ audioClock' = audioClock /\ dmaPhase' = dmaPhase
          /\ callbackBusy' = callbackBusy /\ aiService' = aiService
          /\ servicesInside' = servicesInside /\ replayTarget' = replayTarget
          /\ replayed' = replayed
      BY <1>2 DEF serviceVars
    <3>2. MaxClock[Prompt'] = MaxClock[Prompt]
      BY <3>1 DEF Prompt
    <3>3. {dmaCallback', callbackBusy', dmaLatch', fed'} \subseteq BOOLEAN
      BY <1>1, <1>2, <3>1 DEF OtherTypes
    <3> QED BY <1>1, <2>2, <3>1, <3>2, <3>3, Zenon DEF OtherTypes
  <2> QED BY <2>1, <2>3 DEF Goal
<1>3. ASSUME /\ UNCHANGED <<title, audioClock, serviceVars, callbackBusy, dmaPhase>>
             /\ Starts
             /\ dmaCallback' \in {dmaCallback, ~dmaCallback}
             /\ dmaLatch' \in {dmaLatch, ~dmaLatch} /\ fed' \in {fed, TRUE}
      PROVE  Goal
  <2>1. {dmaCallback', dmaLatch', fed'} \subseteq BOOLEAN
    BY <1>1, <1>3, Zenon DEF OtherTypes
  <2> QED BY <1>2, <1>3, <2>1 DEF Goal
<1>4. ASSUME NEW len \in BlockLens, InitDMA(len)
       PROVE  Goal
  BY <1>3, <1>4 DEF InitDMA
<1>5. ASSUME BytesLeft \/ StopDMA \/ StopSystem \/ HostSilence \/ PollMasked \/ PollNested
       PROVE  Goal
  BY <1>3, <1>5 DEF BytesLeft, StopDMA, StopSystem, HostSilence, PollMasked, PollNested, titleVars
<1>6. ASSUME StartDMA \/ RegisterCallback \/ MaskAudio
       PROVE  Goal
  <2>1. CASE StartDMA
    <3>1. /\ dmaStarted' = audioClock
          /\ dmaBehind' = IF aiService = "replay" THEN audioClock - replayTarget ELSE 0
          /\ UNCHANGED <<title, audioClock, titleVars, serviceVars>>
      BY <2>1 DEF StartDMA
    <3>2. /\ audioClock \in Nat \ {0} /\ replayTarget \in Nat
          /\ aiService = "replay" => replayTarget # 0 /\ replayTarget <= audioClock
      BY <1>1 DEF OtherTypes, ServiceInv
    <3>3. dmaBehind' \in 0 .. audioClock - 1
      BY <3>1, <3>2
    <3> QED BY <1>3, <3>1, <3>3 DEF titleVars
  <2>2. CASE RegisterCallback \/ MaskAudio
    BY <1>3, <2>2 DEF RegisterCallback, MaskAudio
  <2> QED BY <1>6, <2>1, <2>2
<1>7. ASSUME ClockTicks
      PROVE  Goal
  <2>1. /\ audioClock' = audioClock + 1 /\ audioClock < MaxClock[Prompt]
        /\ UNCHANGED <<title, titleVars, serviceVars, startVars>>
    BY <1>7 DEF ClockTicks
  <2>2. OtherTypes'
    BY <1>1, <2>1 DEF OtherTypes, serviceVars, titleVars, startVars, Prompt
  <2>3. ServiceInv'
    <3>1. replayTarget <= audioClock => replayTarget <= audioClock + 1
      BY <1>1 DEF OtherTypes
    <3> QED BY <1>1, <2>1, <3>1 DEF ServiceInv, serviceVars, titleVars
  <2> QED BY <2>2, <2>3 DEF Goal
<1>8. ASSUME StartReplay
      PROVE  Goal
  <2>1. /\ aiService = "none" /\ ~callbackBusy
        /\ aiService' = "replay" /\ replayTarget' = audioClock /\ replayed' = 0
        /\ dmaPhase' = "loop" /\ servicesInside' = servicesInside + 1
        /\ UNCHANGED <<title, audioClock, dmaCallback, callbackBusy, dmaLatch, fed, startVars>>
    BY <1>8 DEF StartReplay
  <2> QED BY <1>1, <2>1 DEF Goal, OtherTypes, ServiceInv, startVars, Prompt
<1>9. ASSUME PollOuter
      PROVE  Goal
  <2>1. /\ aiService = "none"
        /\ \/ /\ dmaPhase' = "callback" /\ callbackBusy' = TRUE /\ fed' = FALSE
              /\ aiService' = "tick" /\ servicesInside' = servicesInside + 1
           \/ UNCHANGED <<dmaPhase, callbackBusy, fed, aiService, servicesInside>>
        /\ UNCHANGED <<title, audioClock, dmaCallback, dmaLatch, replayTarget, replayed,
                       startVars>>
    BY <1>9 DEF PollOuter
  <2>2. CASE UNCHANGED <<dmaPhase, callbackBusy, fed, aiService, servicesInside>>
    BY <1>1, <2>1, <2>2 DEF Goal, OtherTypes, ServiceInv, startVars, Prompt
  <2>3. CASE /\ dmaPhase' = "callback" /\ callbackBusy' = TRUE /\ fed' = FALSE
             /\ aiService' = "tick" /\ servicesInside' = servicesInside + 1
    <3>1. servicesInside' = 1
      BY <1>1, <2>1, <2>3 DEF ServiceInv
    <3>2. ServiceInv'
      BY <2>3, <3>1 DEF ServiceInv
    <3>3. OtherTypes'
      <4>1. {dmaCallback', callbackBusy', dmaLatch', fed'} \subseteq BOOLEAN
        BY <1>1, <2>1, <2>3 DEF OtherTypes
      <4>2. /\ title' = title /\ audioClock' = audioClock /\ dmaStarted' = dmaStarted
            /\ dmaBehind' = dmaBehind
            /\ replayTarget' = replayTarget /\ replayed' = replayed
        BY <2>1 DEF startVars
      <4>3. MaxClock[Prompt'] = MaxClock[Prompt]
        BY <4>2 DEF Prompt
      <4>4. servicesInside' \in Nat
        BY <3>1
      <4> QED BY <1>1, <2>3, <4>1, <4>2, <4>3, <4>4, Zenon DEF OtherTypes
    <3> QED BY <3>2, <3>3 DEF Goal
  <2> QED BY <2>1, <2>2, <2>3
<1>10. ASSUME CallbackReturns
      PROVE  Goal
  <2>1. /\ dmaPhase = "callback" /\ dmaPhase' = "dsp" /\ callbackBusy' = FALSE
        /\ UNCHANGED <<title, audioClock, dmaCallback, dmaLatch, fed, serviceVars, startVars>>
    BY <1>10 DEF CallbackReturns
  <2> QED BY <1>1, <2>1 DEF Goal, OtherTypes, ServiceInv, serviceVars, startVars, Prompt
<1>11. ASSUME ServiceEnds
      PROVE  Goal
  <2>1. /\ dmaPhase = "dsp" /\ aiService # "replay"
        /\ dmaPhase' = "guest" /\ aiService' = "none" /\ servicesInside' = servicesInside - 1
        /\ UNCHANGED <<title, audioClock, dmaCallback, callbackBusy, dmaLatch, fed, replayTarget,
                       replayed, startVars>>
    BY <1>11 DEF ServiceEnds
  <2> QED BY <1>1, <2>1 DEF Goal, OtherTypes, ServiceInv, startVars, Prompt
<1>12. ASSUME NextReplay
      PROVE  Goal
  <2>1. /\ dmaPhase = "dsp" /\ aiService = "replay" /\ dmaPhase' = "loop"
        /\ replayed' = replayed + 1
        /\ UNCHANGED <<title, audioClock, dmaCallback, callbackBusy, dmaLatch, fed,
                       aiService, replayTarget, servicesInside, startVars>>
    BY <1>12 DEF NextReplay
  <2>2. replayed + 1 \in 0 .. MaxReplay
    BY <1>1, <2>1 DEF ServiceInv, OtherTypes
  <2> QED BY <1>1, <2>1, <2>2 DEF Goal, OtherTypes, ServiceInv, startVars, Prompt
<1>13. ASSUME ReplayStep \/ ReplayStops
       PROVE  Goal
  <2>1. /\ dmaPhase = "loop"
        /\ \/ /\ dmaPhase' = "callback" /\ callbackBusy' = TRUE /\ fed' = FALSE
              /\ replayed < MaxReplay
           \/ dmaPhase' = "end" /\ UNCHANGED <<callbackBusy, fed>>
        /\ UNCHANGED <<title, audioClock, dmaCallback, dmaLatch, serviceVars, startVars>>
    BY <1>13 DEF ReplayStep, ReplayStops
  <2>2. CASE dmaPhase' = "end" /\ UNCHANGED <<callbackBusy, fed>>
    BY <1>1, <2>1, <2>2 DEF Goal, OtherTypes, ServiceInv, serviceVars, startVars, Prompt
  <2>3. CASE /\ dmaPhase' = "callback" /\ callbackBusy' = TRUE /\ fed' = FALSE
             /\ replayed < MaxReplay
    BY <1>1, <2>1, <2>3 DEF Goal, OtherTypes, ServiceInv, serviceVars, startVars, Prompt
  <2> QED BY <2>1, <2>2, <2>3
<1>14. ASSUME EndReplay
       PROVE  Goal
  <2>1. /\ dmaPhase = "end"
        /\ dmaPhase' = "guest" /\ aiService' = "none" /\ servicesInside' = servicesInside - 1
        /\ UNCHANGED <<title, audioClock, dmaCallback, callbackBusy, dmaLatch, fed, replayTarget,
                       replayed, startVars>>
    BY <1>14 DEF EndReplay
  <2> QED BY <1>1, <2>1 DEF Goal, OtherTypes, ServiceInv, startVars, Prompt
<1>15. Goal
  BY <1>7, <1>8, <1>9, <1>10, <1>11, <1>12, <1>13, <1>14, <1>4, <1>5, <1>6 DEF AudioNext
<1> QED BY <1>15 DEF Goal

\* The bounds of the run are bounds on naturals.
LEMMA BoundedDma ==
  ASSUME AudioAssumption, AudioTypeOK
  PROVE  AIDmaState \subseteq AnyDma
<1>1. MaxClock[Prompt] \in Nat /\ MaxPrograms[Prompt] \in Nat
  BY AudioTypes
<1> QED BY <1>1 DEF AIDmaState, DmaBlocks, AnyDma, AnyBuffers

\* What is known of a prompt title.
LEMMA PromptFacts ==
  ASSUME AudioAssumption, AudioInv, Prompt
  PROVE  /\ dmaLatch /\ dmaCallback /\ Suppresses
         /\ Turn(dma, audioHost, dmaPhase, fed, aiService, audioClock)
         /\ ServiceInv /\ dma \in AnyDma /\ audioHost \in HandedOver /\ audioClock \in Nat
         /\ dma.on <=> Running(dma)
<1>1. /\ dmaLatch /\ dmaCallback
      /\ Turn(dma, audioHost, dmaPhase, fed, aiService, audioClock)
      /\ ServiceInv
  BY DEF AudioInv, PromptInv
<1>2. dma \in AnyDma /\ audioHost \in HandedOver /\ audioClock \in Nat /\ Suppresses
  BY AudioTypes DEF AudioInv
<1>3. dma.on <=> Running(dma)
  BY <1>1 DEF Turn, PlayedInTurn, Running
<1> QED BY <1>1, <1>2, <1>3

\* The time of a DMA that has just been looked at is what it keeps.
LEMMA JustLooked ==
  ASSUME NEW d \in AnyDma, NEW t \in Nat, d.cursor = t
  PROVE  Elapsed(d, t) = d.acc
BY DEF AnyDma, Elapsed, Since

\* Whoever runs in a service of a prompt title finds no block ended.
LEMMA QuietTouch ==
  ASSUME AudioAssumption, AudioInv, Prompt, dma.on => dmaPhase \in {"callback", "dsp"},
         NEW r \in Touched
  PROVE  /\ r.d.on = dma.on /\ r.d.active = dma.active /\ r.d.aid = dma.aid
         /\ r.d.programmed = dma.programmed
         /\ r.d \in AnyDma /\ PlayedInTurn(r.d, r.h)
         /\ dma.on /\ aiService = "tick" => Elapsed(r.d, audioClock) < r.d.active.len
<1>1. /\ Turn(dma, audioHost, dmaPhase, fed, aiService, audioClock)
      /\ ServiceInv /\ dma \in AnyDma /\ audioClock \in Nat /\ (dma.on <=> Running(dma))
      /\ PlayedInTurn(dma, audioHost)
  BY PromptFacts DEF Turn
<1>2. CASE aiService = "replay"
  <2>1. r.d = dma /\ r.h = audioHost
    BY <1>2 DEF Touched
  <2> QED BY <1>1, <1>2, <2>1
<1>3. CASE aiService # "replay"
  <2> DEFINE k == Boundaries(dma, audioClock, Unbounded)
             e == Elapsed(dma, audioClock)
  <2>1. r \in Advances(audioClock, Unbounded) /\ Unbounded \in Nat \ {0}
    BY <1>3, AudioTypes DEF Touched, AudioInv
  <2>2. dma.on => aiService = "tick" /\ e < dma.active.len
    BY <1>1, <1>3 DEF ServiceInv, Turn, AudioInv, AudioTypeOK
  <2>3. k = 0
    <3>1. /\ k \in Nat /\ e \in Nat /\ dma.active.len \in Nat
          /\ k # 0 => Running(dma) /\ dma.active.len <= e
      BY <1>1, <2>1, BoundariesFit, ElapsedIsTime DEF AnyDma, AnyBuffers
    <3> HIDE DEF k, e
    <3> QED BY <1>1, <2>2, <3>1
  <2>4. TurnTaken(r, audioClock, k)
    <3>1. audioClock \in 0 .. audioClock
      BY <1>1
    <3>2. ASSUME NEW t \in 0 .. audioClock, t = audioClock
          PROVE  \A q \in Advances(t, Unbounded) : TurnTaken(q, t, Boundaries(dma, t, Unbounded))
      BY <2>1, <2>3, <3>2, AdvanceTakesTurn
    <3> QED BY <2>1, <3>1, <3>2
  <2>5. /\ r.d.on = dma.on /\ r.d.active = dma.active /\ r.d.aid = dma.aid
        /\ PlayedInTurn(r.d, r.h) /\ (dma.on => r.d.acc = e)
    BY <2>3, <2>4 DEF TurnTaken
  <2>6. Looked(r) /\ r.d.cursor = audioClock
    BY <1>3, <2>1, PollLooks
  <2>7. r.d \in AnyDma /\ r.d.programmed = dma.programmed
    BY <2>6, BoundedDma DEF Looked, DmaOf, AudioInv
  <2>8. dma.on => Elapsed(r.d, audioClock) < r.d.active.len
    BY <1>1, <2>2, <2>5, <2>6, <2>7, JustLooked
  <2> QED BY <2>5, <2>7, <2>8
<1> QED BY <1>2, <1>3

\* The fields of a DMA that took the time but no boundary.
LEMMA AdvancedOnly ==
  ASSUME NEW d \in AnyDma, NEW t \in Nat
  PROVE  LET a == Advanced(d, t, 0)
         IN  /\ a.on = d.on /\ a.programmed = d.programmed /\ a.active = d.active
             /\ a.last = d.last /\ a.aid = d.aid
             /\ Running(d) => a.acc = Elapsed(d, t)
<1>1. Boundaries(d, t, 0) = 0 /\ 0 \in Nat
  BY DEF Boundaries
<1>2. LET a == Advanced(d, t, 0)
      IN  /\ a.on = d.on /\ a.programmed = d.programmed
          /\ a.active = d.active /\ a.last = d.last /\ a.aid = d.aid
          /\ a.acc = IF Running(d) THEN Elapsed(d, t) ELSE d.acc
  BY <1>1, AdvancedFields
<1> QED BY <1>2

\* One boundary at the most is taken of a prompt title, and only where its callback has
\* answered the interrupt of the one before.
LEMMA OneBoundary ==
  ASSUME AudioAssumption, AudioInv, Prompt, NEW t \in 0 .. audioClock, NEW r \in Advances(t, 1),
         dmaPhase \in {"guest", "loop"},
         dma.on /\ dma.aid => Elapsed(dma, t) < dma.active.len,
         r.d.programmed = dma.programmed, r.d \in AnyDma
  PROVE  /\ r.d.aid => Turn(Acked(r.d), r.h, "callback", FALSE, "replay", audioClock)
         /\ \A stage \in {"guest", "end"}, service \in {"none", "replay"} :
              ~r.d.aid /\ (~dma.on => stage = "guest") =>
                Turn(Acked(r.d), r.h, stage, fed, service, audioClock)
         /\ r.d.on /\ r.d.aid =>
              \/ dma.aid /\ r.d.acc = Elapsed(dma, t) /\ r.d.active = dma.active
              \/ /\ ~dma.aid /\ r.d.acc = Elapsed(dma, t) - dma.active.len
                 /\ r.d.active = dma.programmed
         /\ r.d.on = dma.on
<1> DEFINE k == Boundaries(dma, t, 1)
           e == Elapsed(dma, t)
<1>1. /\ Turn(dma, audioHost, dmaPhase, fed, aiService, audioClock)
      /\ dma \in AnyDma /\ t \in Nat /\ (dma.on <=> Running(dma))
  BY PromptFacts
<1>2. /\ k \in Nat /\ k <= 1 /\ e \in Nat
      /\ k # 0 => Running(dma) /\ dma.active.len <= e
  BY <1>1, BoundariesFit, ElapsedIsTime
<1>3. dma.active.len \in Nat /\ dma.active.n \in Nat /\ dma.programmed.n \in Nat
  BY <1>1 DEF AnyDma, AnyBuffers
<1>4. k \in {0, 1} /\ (k = 1 => dma.on /\ ~dma.aid)
  <2> HIDE DEF k, e
  <2>1. k \in {0, 1} /\ (k = 1 => dma.active.len <= e /\ dma.on)
    BY <1>1, <1>2
  <2>2. ASSUME k = 1, dma.aid
        PROVE  FALSE
    BY <1>2, <1>3, <2>1, <2>2 DEF e
  <2> QED BY <2>1, <2>2
<1>5. k = 1 => dma.programmed.n = dma.active.n + 1
  BY <1>1, <1>3, <1>4 DEF Turn
<1>6. TurnTaken(r, t, k)
  BY <1>4, <1>5, AdvanceTakesTurn
<1>7. /\ r.d.on = dma.on /\ PlayedInTurn(r.d, r.h)
      /\ k = 0 => r.d.active = dma.active /\ r.d.aid = dma.aid /\ (dma.on => r.d.acc = e)
      /\ k = 1 => r.d.aid /\ r.d.active = dma.programmed /\ r.d.acc = e - dma.active.len
  BY <1>6 DEF TurnTaken
<1> HIDE DEF k, e
<1> DEFINE d == Acked(r.d)
<1>8. /\ d.on = r.d.on /\ d.active = r.d.active /\ d.programmed = r.d.programmed
      /\ d.last = r.d.last /\ ~d.aid
  BY DEF Acked, AnyDma
<1> HIDE DEF d
<1>9. PlayedInTurn(d, r.h)
  BY <1>7, <1>8 DEF PlayedInTurn
<1>10. ~dma.on => /\ k = 0 /\ ~dma.aid /\ dma.active = NoBuffer
                  /\ dma.programmed.n = IF dma.programmed.len = 0 THEN 0 ELSE 1
  BY <1>1, <1>4 DEF Turn
<1>11. ASSUME r.d.aid
       PROVE  Turn(d, r.h, "callback", FALSE, "replay", audioClock)
  <2>1. dma.on
    BY <1>7, <1>10, <1>11
  <2>2. d.programmed.n = d.active.n
    <3>1. ASSUME dma.aid
          PROVE  dma.programmed.n = dma.active.n
      <4>1. dma.programmed.n = dma.active.n + 0
        BY <1>1, <2>1, <3>1, Zenon DEF Turn
      <4> QED BY <1>3, <4>1
    <3>2. CASE k = 0
      <4>1. dma.aid /\ d.active = dma.active /\ d.programmed = dma.programmed
        BY <1>7, <1>8, <1>11, <3>2
      <4> QED BY <3>1, <4>1
    <3>3. CASE k = 1
      <4>1. d.active = dma.programmed /\ d.programmed = dma.programmed
        BY <1>7, <1>8, <3>3
      <4> QED BY <4>1
    <3> QED BY <1>4, <3>2, <3>3
  <2> QED BY <1>3, <1>7, <1>8, <1>9, <2>1, <2>2 DEF Turn
<1>12. ASSUME NEW stage \in {"guest", "end"}, NEW service \in {"none", "replay"},
              ~r.d.aid, ~dma.on => stage = "guest"
       PROVE  Turn(d, r.h, stage, fed, service, audioClock)
  <2>1. k = 0 /\ ~dma.aid /\ d.active = dma.active /\ d.programmed = dma.programmed
    BY <1>4, <1>7, <1>8, <1>12
  <2>2. dma.on => d.programmed.n = d.active.n + 1
    BY <1>1, <2>1 DEF Turn
  <2> QED BY <1>7, <1>8, <1>9, <1>10, <1>12, <2>1, <2>2 DEF Turn
<1>13. r.d.on /\ r.d.aid =>
         \/ dma.aid /\ r.d.acc = e /\ r.d.active = dma.active
         \/ ~dma.aid /\ r.d.acc = e - dma.active.len /\ r.d.active = dma.programmed
  BY <1>4, <1>7
<1> QED BY <1>7, <1>11, <1>12, <1>13 DEF d, e

\* What the next state of a prompt title must be shown to be.
TurnGoal ==
  /\ dmaLatch' /\ dmaCallback'
  /\ Turn(dma', audioHost', dmaPhase', fed', aiService', audioClock')

\* A prompt title stays prompt.
LEMMA PromptKept ==
  ASSUME AudioAssumption, AudioInv, AudioNext
  PROVE  PromptInv'
<1>1. title' = title
  BY DEF AudioNext, InitDMA, BytesLeft, StartDMA, StopDMA, StopSystem, RegisterCallback,
         MaskAudio, ClockTicks, HostSilence, PollMasked, PollNested, StartReplay, PollOuter,
         CallbackReturns, ServiceEnds, NextReplay, ReplayStep, ReplayStops, EndReplay
<1>2. SUFFICES ASSUME Prompt
               PROVE  TurnGoal
  BY <1>1 DEF PromptInv, TurnGoal, Turn, PlayedInTurn, Submissions, Prompt
<1>3. /\ dmaLatch /\ dmaCallback /\ Suppresses
      /\ Turn(dma, audioHost, dmaPhase, fed, aiService, audioClock)
      /\ ServiceInv /\ dma \in AnyDma /\ audioHost \in HandedOver /\ audioClock \in Nat
      /\ dma.on <=> Running(dma)
  BY <1>2, PromptFacts
<1>4. /\ dma.active \in AnyBuffers /\ dma.programmed \in AnyBuffers
      /\ dma.active.n \in Nat /\ dma.active.len \in Nat
      /\ dma.programmed.n \in Nat /\ dma.programmed.len \in Nat
      /\ aiService \in {"none", "tick", "replay"}
  BY <1>3 DEF AnyDma, AnyBuffers, AudioInv, AudioTypeOK
<1>5. dmaPhase = "guest" <=> aiService = "none"
  BY <1>3 DEF ServiceInv
<1>6. ASSUME NEW len \in BlockLens, InitDMA(len)
      PROVE  TurnGoal
  <2>1. PICK r \in Touched : audioHost' = r.h /\ dma' = Submitted(r.d, len)
    BY <1>6 DEF InitDMA, Submitted
  <2>2. /\ len # 0 /\ fed' = TRUE
        /\ IF dma.on THEN dmaPhase = "callback" /\ ~fed ELSE dma.programmed.len = 0
        /\ UNCHANGED <<audioClock, dmaCallback, dmaLatch, dmaPhase, aiService>>
    BY <1>2, <1>6 DEF InitDMA, serviceVars
  <2>3. /\ r.d.on = dma.on /\ r.d.active = dma.active /\ r.d.aid = dma.aid
        /\ r.d.programmed = dma.programmed
        /\ r.d \in AnyDma /\ PlayedInTurn(r.d, r.h)
        /\ dma.on /\ aiService = "tick" => Elapsed(r.d, audioClock) < r.d.active.len
    BY <1>2, <2>2, QuietTouch
  <2>4. /\ dma'.on = dma.on /\ dma'.active = dma.active /\ dma'.aid = dma.aid
        /\ dma'.programmed.n = dma.programmed.n + 1 /\ dma'.programmed.len = len
        /\ dma'.last = r.d.last /\ dma'.acc = r.d.acc /\ dma'.cursor = r.d.cursor
    BY <2>1, <2>3 DEF Submitted, AnyDma
  <2>5. PlayedInTurn(dma', audioHost')
    BY <2>1, <2>2, <2>3, <2>4 DEF PlayedInTurn
  <2>6. Elapsed(dma', audioClock) = Elapsed(r.d, audioClock)
    BY <2>4 DEF Elapsed, Since
  <2>7. CASE dma.on
    <3>1. ~dma.aid /\ dma.programmed.n = dma.active.n + 0
      BY <1>3, <2>2, <2>7 DEF Turn
    <3>2. dma'.programmed.n = dma'.active.n + 1
      BY <1>4, <2>4, <3>1
    <3> QED BY <1>3, <2>2, <2>3, <2>4, <2>5, <2>6, <2>7, <3>1, <3>2 DEF Turn, TurnGoal
  <2>8. CASE ~dma.on
    <3>1. dma.programmed.n = 0 /\ dmaPhase = "guest" /\ ~dma.aid /\ dma.active = NoBuffer
      BY <1>3, <2>2, <2>8 DEF Turn
    <3>2. dma'.programmed.n = 1
      BY <2>4, <3>1
    <3> QED BY <1>3, <2>2, <2>4, <2>5, <2>8, <3>1, <3>2 DEF Turn, TurnGoal
  <2> QED BY <2>7, <2>8
<1>7. ASSUME BytesLeft \/ StopDMA \/ StopSystem \/ RegisterCallback \/ MaskAudio \/ PollMasked
      PROVE  TurnGoal
  BY <1>2, <1>3, <1>7 DEF BytesLeft, StopDMA, StopSystem, RegisterCallback, MaskAudio, PollMasked
<1>8. ASSUME StartDMA
      PROVE  TurnGoal
  <2>1. /\ ~dma.on /\ dma.programmed.len # 0
        /\ dma' = [dma EXCEPT !.on = TRUE, !.active = dma.programmed, !.last = 0, !.acc = 0,
                              !.cursor = audioClock, !.aid = TRUE]
        /\ audioHost' = [audioHost EXCEPT !.credit = 0, !.plays = [n \in Submissions |-> 0],
                                          !.real = 0, !.silent = 0, !.covered = 0,
                                          !.dropped = 0]
        /\ UNCHANGED <<audioClock, dmaCallback, dmaLatch, dmaPhase, fed, aiService>>
    BY <1>2, <1>8 DEF StartDMA, titleVars, serviceVars
  <2>2. dma.programmed.n = 1 /\ dmaPhase = "guest" /\ aiService = "none"
    BY <1>3, <1>5, <2>1 DEF Turn
  <2>3. /\ dma'.on /\ dma'.aid /\ dma'.active = dma.programmed /\ dma'.last = 0
        /\ dma'.programmed = dma.programmed
    BY <1>3, <2>1 DEF AnyDma
  <2>4. /\ audioHost'.plays = [n \in Submissions |-> 0] /\ audioHost'.silent = 0
        /\ audioHost'.covered = 0 /\ audioHost'.failed = audioHost.failed
    BY <1>3, <2>1 DEF HandedOver
  <2>5. ASSUME NEW n \in Submissions
        PROVE  audioHost'.plays[n] = IF n < dma'.active.n THEN 1 ELSE 0
    BY <2>2, <2>3, <2>4 DEF Submissions
  <2>6. PlayedInTurn(dma', audioHost')
    BY <1>3, <2>1, <2>2, <2>3, <2>4, <2>5 DEF PlayedInTurn, Turn
  <2> QED BY <1>3, <2>1, <2>2, <2>3, <2>6 DEF Turn, TurnGoal
<1>9. ASSUME ClockTicks
      PROVE  TurnGoal
  <2>1. /\ dmaPhase = "guest"
        /\ UNCHANGED <<dma, audioHost, dmaCallback, dmaLatch, dmaPhase, fed, aiService>>
    BY <1>2, <1>9 DEF ClockTicks, titleVars, serviceVars
  <2> QED BY <1>3, <1>5, <2>1 DEF Turn, TurnGoal
<1>10. ASSUME HostSilence \/ EndReplay
       PROVE  TurnGoal
  <2>1. \E amount : audioHost' = [audioHost EXCEPT !.credit = amount]
    BY <1>10 DEF HostSilence, EndReplay
  <2>2. /\ audioHost'.plays = audioHost.plays /\ audioHost'.silent = audioHost.silent
        /\ audioHost'.covered = audioHost.covered /\ audioHost'.failed = audioHost.failed
    BY <1>3, <2>1 DEF HandedOver
  <2>3. PlayedInTurn(dma, audioHost')
    BY <1>3, <2>2 DEF PlayedInTurn, Turn
  <2>4. CASE HostSilence
    <3>1. UNCHANGED <<audioClock, dma, dmaCallback, dmaLatch, dmaPhase, fed, aiService>>
      BY <2>4 DEF HostSilence, titleVars, serviceVars
    <3> QED BY <1>3, <2>3, <3>1 DEF Turn, TurnGoal
  <2>5. CASE EndReplay
    <3>1. /\ dmaPhase = "end" /\ dmaPhase' = "guest" /\ aiService' = "none"
          /\ UNCHANGED <<audioClock, dma, dmaCallback, dmaLatch, fed>>
      BY <2>5 DEF EndReplay
    <3> QED BY <1>3, <2>3, <3>1 DEF Turn, TurnGoal
  <2> QED BY <1>10, <2>4, <2>5
<1>11. ASSUME PollNested \/ CallbackReturns \/ ServiceEnds
       PROVE  TurnGoal
  <2>1. /\ dmaPhase \in {"callback", "dsp"}
        /\ UNCHANGED <<audioClock, dmaCallback, dmaLatch, fed>>
        /\ \E r \in Touched : audioHost' = r.h /\ dma' \in {r.d, Acked(r.d)}
    <3>1. CASE PollNested
      <4>1. /\ aiService = "tick" /\ InTitle
            /\ dmaPhase \in {"guest", "callback", "dsp", "loop", "end"}
        BY <3>1 DEF PollNested, AudioInv, AudioTypeOK
      <4> QED BY <1>5, <3>1, <4>1 DEF PollNested, Touched, NestedAck, InTitle, titleVars
    <3>2. CASE CallbackReturns
      BY <3>2 DEF CallbackReturns
    <3>3. CASE ServiceEnds
      BY <3>3 DEF ServiceEnds, Touched
    <3> QED BY <1>11, <3>1, <3>2, <3>3
  <2>2. PICK r \in Touched : audioHost' = r.h /\ dma' \in {r.d, Acked(r.d)}
    BY <2>1
  <2>3. /\ r.d.on = dma.on /\ r.d.active = dma.active /\ r.d.aid = dma.aid
        /\ r.d.programmed = dma.programmed
        /\ r.d \in AnyDma /\ PlayedInTurn(r.d, r.h)
        /\ dma.on /\ aiService = "tick" => Elapsed(r.d, audioClock) < r.d.active.len
    BY <1>2, <2>1, QuietTouch
  <2>4. ~dma.aid /\ dma.on
    BY <1>3, <2>1 DEF Turn
  <2>5. dma' = r.d
    <3>1. CASE dma' = Acked(r.d)
      <4>1. r.d.aid = FALSE
        BY <2>3, <2>4 DEF AnyDma
      <4> QED BY <2>3, <3>1, <4>1 DEF Acked, AnyDma
    <3> QED BY <2>2, <3>1
  <2>6. CASE PollNested
    <3>1. UNCHANGED <<dmaPhase, aiService>>
      BY <2>6 DEF PollNested, titleVars, serviceVars
    <3> QED BY <1>3, <2>1, <2>2, <2>3, <2>4, <2>5, <3>1 DEF Turn, TurnGoal
  <2>7. CASE CallbackReturns
    <3>1. fed /\ dmaPhase' = "dsp" /\ UNCHANGED aiService
      BY <1>2, <2>7 DEF CallbackReturns, serviceVars
    <3> QED BY <1>3, <2>1, <2>2, <2>3, <2>4, <2>5, <3>1 DEF Turn, TurnGoal
  <2>8. CASE ServiceEnds
    <3>1. dmaPhase = "dsp" /\ dmaPhase' = "guest" /\ aiService' = "none"
      BY <2>8 DEF ServiceEnds
    <3> QED BY <1>3, <2>1, <2>2, <2>3, <2>4, <2>5, <3>1 DEF Turn, TurnGoal
  <2> QED BY <1>11, <2>6, <2>7, <2>8
<1>12. ASSUME StartReplay
       PROVE  TurnGoal
  <2>1. /\ aiService = "none" /\ dma' = Advanced(dma, audioClock, 0) /\ aiService' = "replay"
        /\ dmaPhase' = "loop" /\ ReplayRequired(dma')
        /\ UNCHANGED <<audioClock, audioHost, dmaCallback, dmaLatch, fed>>
    BY <1>12 DEF StartReplay
  <2>2. /\ dma'.on = dma.on /\ dma'.programmed = dma.programmed /\ dma'.active = dma.active
        /\ dma'.last = dma.last /\ dma'.aid = dma.aid
    BY <1>3, <2>1, AdvancedOnly
  <2>3. PlayedInTurn(dma', audioHost')
    BY <1>3, <2>1, <2>2 DEF PlayedInTurn, Turn
  <2>4. dma.on /\ dmaPhase = "guest"
    BY <1>5, <2>1, <2>2 DEF ReplayRequired, Running
  <2> QED BY <1>3, <2>1, <2>2, <2>3, <2>4 DEF Turn, TurnGoal
<1>13. ASSUME NextReplay \/ ReplayStops
       PROVE  TurnGoal
  <2>1. /\ UNCHANGED <<audioClock, dma, audioHost, dmaCallback, dmaLatch, fed, aiService>>
        /\ \/ dmaPhase = "dsp" /\ dmaPhase' = "loop"
           \/ dmaPhase = "loop" /\ dmaPhase' = "end"
    BY <1>13 DEF NextReplay, ReplayStops, serviceVars
  <2> QED BY <1>3, <2>1 DEF Turn, TurnGoal
<1>14. ASSUME PollOuter
       PROVE  TurnGoal
  <2>1. PICK r \in Advances(audioClock, 1) :
          /\ audioHost' = r.h /\ dma' = Acked(r.d)
          /\ IF r.d.aid /\ dmaCallback /\ ~callbackBusy
             THEN dmaPhase' = "callback" /\ fed' = FALSE /\ aiService' = "tick"
             ELSE UNCHANGED <<dmaPhase, fed, aiService>>
    BY <1>3, <1>14 DEF PollOuter, PerService
  <2>2. /\ aiService = "none" /\ ~ReplayRequired(Advanced(dma, audioClock, 0))
        /\ UNCHANGED <<audioClock, dmaCallback, dmaLatch>>
    BY <1>14 DEF PollOuter
  <2>3. dmaPhase = "guest" /\ ~callbackBusy
    BY <1>3, <1>5, <2>2 DEF ServiceInv
  <2> DEFINE e == Elapsed(dma, audioClock)
             a == Advanced(dma, audioClock, 0)
  <2>4. dma.on => IF dma.aid THEN e < dma.active.len
                  ELSE e < dma.active.len + dma.programmed.len
    <3>1. /\ a.on = dma.on /\ a.programmed = dma.programmed /\ a.active = dma.active
          /\ a.aid = dma.aid /\ (dma.on => a.acc = e)
      BY <1>3, AdvancedOnly
    <3>2. dma.on => dma.active.len # 0 /\ dma.programmed.len # 0
      BY <1>3 DEF Turn, PlayedInTurn
    <3>3. e \in Nat
      BY <1>3, ElapsedIsTime
    <3> HIDE DEF a, e
    <3>4. ~ReplayRequired(a)
      BY <2>2 DEF a
    <3> QED BY <1>3, <1>4, <3>1, <3>2, <3>3, <3>4 DEF ReplayRequired, Running
  <2>5. Looked(r) /\ r.d.cursor = audioClock /\ r.d \in AnyDma /\ r.d.programmed = dma.programmed
    <3>1. Looked(r) /\ r.d.cursor = audioClock
      BY <2>1, <2>2, PollLooks
    <3> QED BY <3>1, BoundedDma DEF Looked, DmaOf, AudioInv
  <2>6. /\ r.d.aid => Turn(dma', audioHost', "callback", FALSE, "replay", audioClock)
        /\ ~r.d.aid => Turn(dma', audioHost', "guest", fed, "none", audioClock)
        /\ r.d.on /\ r.d.aid =>
             \/ dma.aid /\ r.d.acc = e /\ r.d.active = dma.active
             \/ /\ ~dma.aid /\ r.d.acc = e - dma.active.len
                /\ r.d.active = dma.programmed
        /\ r.d.on = dma.on
    <3>1. audioClock \in 0 .. audioClock /\ (dma.on /\ dma.aid => e < dma.active.len)
      BY <1>3, <2>4
    <3>2. ASSUME NEW t \in 0 .. audioClock, t = audioClock, NEW q \in Advances(t, 1), q = r
          PROVE  /\ r.d.aid => Turn(Acked(r.d), r.h, "callback", FALSE, "replay", audioClock)
                 /\ ~r.d.aid => Turn(Acked(r.d), r.h, "guest", fed, "none", audioClock)
                 /\ r.d.on /\ r.d.aid =>
                      \/ dma.aid /\ r.d.acc = e /\ r.d.active = dma.active
                      \/ /\ ~dma.aid /\ r.d.acc = e - dma.active.len
                         /\ r.d.active = dma.programmed
                 /\ r.d.on = dma.on
      BY <1>2, <2>3, <2>5, <3>1, <3>2, OneBoundary
    <3> QED BY <2>1, <3>1, <3>2
  <2>7. CASE r.d.aid
    <3>1. dmaPhase' = "callback" /\ fed' = FALSE /\ aiService' = "tick"
      BY <1>3, <2>1, <2>3, <2>7
    <3>2. r.d.on => r.d.acc < r.d.active.len
      <4>1. e \in Nat
        BY <1>3, ElapsedIsTime
      <4> HIDE DEF e
      <4> QED BY <1>4, <2>4, <2>6, <2>7, <4>1
    <3>3. dma'.on => Elapsed(dma', audioClock) < dma'.active.len
      <4>1. /\ dma' \in AnyDma /\ dma'.on = r.d.on /\ dma'.acc = r.d.acc
            /\ dma'.active = r.d.active /\ dma'.cursor = audioClock
        BY <2>1, <2>5 DEF Acked, AnyDma
      <4>2. Elapsed(dma', audioClock) = dma'.acc
        BY <1>3, <4>1, JustLooked
      <4> QED BY <3>2, <4>1, <4>2
    <3> QED BY <1>3, <2>2, <2>6, <2>7, <3>1, <3>3 DEF Turn, TurnGoal
  <2>8. CASE ~r.d.aid
    <3>1. UNCHANGED <<dmaPhase, fed, aiService>>
      BY <2>1, <2>8
    <3> QED BY <1>3, <2>2, <2>3, <2>6, <2>8, <3>1 DEF TurnGoal
  <2> QED BY <2>7, <2>8
<1>15. ASSUME ReplayStep
       PROVE  TurnGoal
  <2>1. PICK r \in ReplayLook :
          /\ audioHost' = r.h /\ dma' = Acked(r.d)
          /\ IF r.d.aid /\ dmaCallback /\ ~callbackBusy
             THEN dmaPhase' = "callback" /\ fed' = FALSE
             ELSE dmaPhase' = "end" /\ UNCHANGED fed
    BY <1>15 DEF ReplayStep, ReplayLook
  <2>2. /\ dmaPhase = "loop" /\ UNCHANGED <<audioClock, dmaCallback, dmaLatch, aiService>>
    BY <1>15 DEF ReplayStep, serviceVars
  <2>3. aiService = "replay" /\ ~callbackBusy /\ dma.on /\ replayTarget \in 0 .. audioClock
    BY <1>3, <1>5, <2>2, AudioTypes DEF ServiceInv, Turn, AudioInv
  <2>4. /\ r.d.aid => Turn(dma', audioHost', "callback", FALSE, "replay", audioClock)
        /\ ~r.d.aid => Turn(dma', audioHost', "end", fed, "replay", audioClock)
    <3>1. CASE dma.aid
      <4>1. r.d = dma /\ r.h = audioHost
        BY <3>1 DEF ReplayLook
      <4>2. /\ dma'.on = dma.on /\ dma'.active = dma.active /\ dma'.programmed = dma.programmed
            /\ dma'.last = dma.last /\ ~dma'.aid
        BY <1>3, <2>1, <4>1 DEF Acked, AnyDma
      <4>3. PlayedInTurn(dma', audioHost')
        BY <1>3, <2>1, <4>1, <4>2 DEF PlayedInTurn, Turn
      <4> QED BY <1>3, <2>3, <3>1, <4>1, <4>2, <4>3 DEF Turn
    <3>2. CASE ~dma.aid
      <4>1. Looked(r)
        BY <2>1, <2>2, ReplayLooks
      <4>2. r.d \in AnyDma /\ r.d.programmed = dma.programmed
        BY <4>1, BoundedDma DEF Looked, DmaOf, AudioInv
      <4>3. ASSUME NEW t \in 0 .. audioClock, t = replayTarget, NEW q \in Advances(t, 1), q = r
            PROVE  /\ r.d.aid => Turn(Acked(r.d), r.h, "callback", FALSE, "replay", audioClock)
                   /\ ~r.d.aid => Turn(Acked(r.d), r.h, "end", fed, "replay", audioClock)
        BY <1>2, <2>2, <2>3, <3>2, <4>2, <4>3, OneBoundary
      <4> QED BY <2>1, <2>3, <3>2, <4>3 DEF ReplayLook
    <3> QED BY <3>1, <3>2
  <2>5. CASE r.d.aid
    BY <1>3, <2>1, <2>2, <2>3, <2>4, <2>5 DEF TurnGoal
  <2>6. CASE ~r.d.aid
    BY <1>3, <2>1, <2>2, <2>3, <2>4, <2>6 DEF TurnGoal
  <2> QED BY <2>5, <2>6
<1> QED BY <1>6, <1>7, <1>8, <1>9, <1>10, <1>11, <1>12, <1>13, <1>14, <1>15 DEF AudioNext

\* The invariant holds when the audio system starts.
LEMMA AudioInvInit ==
  ASSUME AudioAssumption, AudioInit
  PROVE  AudioInv
<1>1. /\ title \in Titles /\ audioClock = 1 /\ dmaStarted = 1 /\ dmaBehind = 0
      /\ dma = [on |-> FALSE, active |-> NoBuffer, programmed |-> NoBuffer, last |-> 0,
                acc |-> 0, cursor |-> 0, aid |-> FALSE]
      /\ audioHost = [credit |-> 0, plays |-> [n \in Submissions |-> 0], real |-> 0,
                      silent |-> 0, covered |-> 0, dropped |-> 0, lost |-> 0, failed |-> FALSE]
      /\ dmaCallback = TRUE /\ callbackBusy = FALSE /\ dmaLatch = TRUE
      /\ dmaPhase = "guest" /\ fed = FALSE
      /\ aiService = "none" /\ replayTarget = 0 /\ replayed = 0
      /\ servicesInside = 0
  BY DEF AudioInit
<1>2. /\ MaxClock[Prompt] \in Nat \ {0} /\ MaxPrograms[Prompt] \in Nat \ {0}
      /\ MaxCredit \in Nat /\ MaxReplay \in Nat
  <2>1. /\ MaxClock \in [BOOLEAN -> Nat \ {0}] /\ MaxPrograms \in [BOOLEAN -> Nat \ {0}]
        /\ Prompt \in BOOLEAN /\ MaxCredit \in Nat /\ MaxReplay \in Nat
    BY DEF AudioAssumption, Prompt
  <2> HIDE DEF Prompt
  <2> QED BY <2>1
<1>3. NoBuffer \in DmaBlocks /\ NoBuffer.n = 0 /\ NoBuffer.len = 0
  BY <1>2 DEF NoBuffer, DmaBlocks
<1>4. dma \in AIDmaState
  <2> DEFINE time == 0 .. MaxClock[Prompt]
             last == 0 .. MaxPrograms[Prompt]
  <2>1. AIDmaState = [on : BOOLEAN, active : DmaBlocks, programmed : DmaBlocks, last : last,
                      acc : time, cursor : time, aid : BOOLEAN]
    BY DEF AIDmaState
  <2>2. 0 \in time /\ 0 \in last
    BY <1>2
  <2> HIDE DEF time, last
  <2> QED BY <1>1, <1>3, <2>1, <2>2
<1>5. audioHost \in HandedOver
  <2> DEFINE amounts == 0 .. MaxCredit
             counts == [Submissions -> Nat]
             none == [n \in Submissions |-> 0]
  <2>1. HandedOver = [credit : amounts, plays : counts, real : Nat, silent : Nat,
                      covered : Nat, dropped : Nat, lost : Nat, failed : BOOLEAN]
    BY DEF HandedOver
  <2>2. none \in counts /\ 0 \in amounts
    BY <1>2
  <2>3. audioHost = [credit |-> 0, plays |-> none, real |-> 0,
                     silent |-> 0, covered |-> 0, dropped |-> 0, lost |-> 0, failed |-> FALSE]
    BY <1>1
  <2> HIDE DEF amounts, counts, none
  <2> QED BY <2>1, <2>2, <2>3
<1>6. /\ ~dma.on /\ dma.active = NoBuffer /\ dma.programmed = NoBuffer /\ dma.cursor = 0
      /\ ~dma.aid
      /\ audioHost.plays = [n \in Submissions |-> 0] /\ ~audioHost.failed
      /\ audioHost.silent = 0 /\ audioHost.covered = 0
  BY <1>1
<1>7. AudioTypeOK
  <2>1. audioClock \in 1 .. MaxClock[Prompt] /\ dmaStarted \in 1 .. MaxClock[Prompt]
        /\ replayTarget \in 0 .. MaxClock[Prompt] /\ replayed \in 0 .. MaxReplay
        /\ servicesInside \in Nat /\ dmaBehind \in 0 .. MaxClock[Prompt]
    BY <1>1, <1>2
  <2> QED BY <1>1, <1>4, <1>5, <2>1 DEF AudioTypeOK
<1>8. ServiceInv /\ CursorInv /\ ClockConserved
  BY <1>1, <1>6 DEF ServiceInv, CursorInv, ReplayCursor, ClockConserved, Running
<1>9. OnceOf(dma, audioHost)
  BY <1>3, <1>6 DEF OnceOf, Running
<1>10. PromptInv
  <2>1. \A n \in Submissions : audioHost.plays[n] = IF n < dma.active.n THEN 1 ELSE 0
    BY <1>2, <1>3, <1>6 DEF Submissions
  <2> QED BY <1>1, <1>3, <1>6, <2>1 DEF PromptInv, Turn, PlayedInTurn
<1> QED BY <1>7, <1>8, <1>9, <1>10 DEF AudioInv

\* Every step keeps the invariant, and hears the interrupt it takes away.
LEMMA AudioInvKept ==
  ASSUME AudioAssumption, AudioInv, [AudioNext]_dmaVars
  PROVE  AudioInv' /\ (dma.aid /\ ~dma'.aid => HeardStep)
<1>1. CASE AudioNext
  <2>1. DmaOf(dma, audioHost)' /\ ReplayCursor' /\ HeardStep
    BY <1>1, DmaKept
  <2>2. OtherTypes' /\ ServiceInv' /\ PromptInv'
    BY <1>1, ServiceKept, PromptKept
  <2>3. ClockConserved'
    <3>1. TimeOf(audioHost)' = Consumed'
      BY DEF TimeOf, Consumed
    <3>2. /\ Consumed' \in Nat /\ dma'.acc \in Nat /\ dma'.cursor \in Nat
          /\ audioClock' \in Nat /\ dmaStarted' \in Nat
      <4>1. dma' \in AIDmaState' /\ audioHost' \in HandedOver'
        BY <2>1 DEF DmaOf
      <4>2. /\ audioHost'.real \in Nat /\ audioHost'.silent \in Nat
            /\ audioHost'.covered \in Nat /\ audioHost'.dropped \in Nat
        BY <4>1 DEF HandedOver
      <4> QED BY <2>2, <4>1, <4>2 DEF AIDmaState, OtherTypes, Consumed
    <3>3. KeptTime(dma, audioHost)' = (TimeSeen - (audioClock - dmaStarted))'
      BY <3>1, <3>2 DEF KeptTime, TimeSeen
    <3> QED BY <2>1, <3>3, Zenon DEF DmaOf, ClockConserved
  <2>4. AudioTypeOK' /\ CursorInv' /\ OnceOf(dma, audioHost)'
    BY <2>1, <2>2 DEF OtherTypes, DmaOf, AudioTypeOK, CursorInv
  <2> QED BY <2>1, <2>2, <2>3, <2>4 DEF AudioInv
<1>2. CASE UNCHANGED dmaVars
  <2>1. /\ UNCHANGED <<title, audioClock, dma, audioHost>>
        /\ UNCHANGED <<dmaCallback, callbackBusy, dmaLatch, dmaPhase, fed>>
        /\ UNCHANGED <<aiService, replayTarget, replayed, servicesInside, startVars>>
    BY <1>2 DEF dmaVars
  <2>2. AudioTypeOK' /\ ServiceInv' /\ CursorInv' /\ ClockConserved'
    BY <2>1 DEF AudioInv, AudioTypeOK, ServiceInv, CursorInv, ReplayCursor, NearTarget, TimeOf,
                ClockConserved, TimeSeen, Prompt, AIDmaState, DmaBlocks, HandedOver, Submissions,
                Consumed, Running, startVars
  <2>3. OnceOf(dma, audioHost)' /\ PromptInv'
    BY <2>1 DEF AudioInv, OnceOf, PromptInv, Turn, PlayedInTurn, Prompt, Submissions, Running
  <2> QED BY <2>1, <2>2, <2>3 DEF AudioInv
<1> QED BY <1>1, <1>2

\* The types of the audio DMA, for blocks of every length, every number of submissions,
\* whatever the host answers, and callbacks of a replay that stop and start it.
THEOREM AudioTypesCorrect ==
  ASSUME AudioAssumption
  PROVE  AudioSpec => []AudioTypeOK
<1>1. AudioInit => AudioInv
  BY AudioInvInit
<1>2. AudioInv /\ [AudioNext]_dmaVars => AudioInv'
  BY AudioInvKept
<1>3. AudioInv => AudioTypeOK
  BY DEF AudioInv
<1> QED BY <1>1, <1>2, <1>3, PTL DEF AudioSpec

\* The audio DMA (audio.cpp) loses no time and counts none twice, but for the time a replay was
\* behind when its callback started the DMA anew, plays no submission twice
\* for a title that asks for that, leaves no silence to a prompt producer, does not enter a
\* service from a service, and takes an interrupt away only for its callback.
THEOREM AudioIsExact ==
  ASSUME AudioAssumption
  PROVE  AudioSpec => AudioExact
<1>1. AudioInit => AudioInv
  BY AudioInvInit
<1>2. AudioInv /\ [AudioNext]_dmaVars => AudioInv' /\ (dma.aid /\ ~dma'.aid => HeardStep)
  BY AudioInvKept
<1>3. AudioInv => ClockConserved /\ NoReentry /\ NoBuzz /\ LateButWhole
  <2>1. ASSUME AudioInv
        PROVE  NoReentry
    <3>1. servicesInside = IF aiService = "none" THEN 0 ELSE 1
      BY <2>1 DEF AudioInv, ServiceInv
    <3> QED BY <3>1 DEF NoReentry
  <2>2. ASSUME AudioInv
        PROVE  LateButWhole
    BY <2>2 DEF AudioInv, PromptInv, Turn, PlayedInTurn, LateButWhole
  <2> QED BY <2>1, <2>2 DEF AudioInv, OnceOf, NoBuzz
<1>4. AudioInv /\ [AudioNext]_dmaVars =>
        [dma.aid /\ ~dma'.aid =>
           \/ dmaPhase' = "callback" \/ callbackBusy \/ ~dmaCallback
           \/ audioHost'.failed \/ dma'.programmed.len = 0]_dmaVars
  BY <1>2 DEF HeardStep
<1> QED BY <1>1, <1>2, <1>3, <1>4, PTL DEF AudioSpec, AudioExact, HeardOrBusy
=============================================================================
