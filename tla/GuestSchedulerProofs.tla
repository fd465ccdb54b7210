------------------------- MODULE GuestSchedulerProofs -------------------------
(***************************************************************************)
(* Safety of the guest scheduler, for every set of threads, mutexes, wait  *)
(* queues and priorities: IInv of GuestSchedulerInv is inductive.  There   *)
(* is a lemma for each action, and in it a step for each part of IInv that *)
(* the action can disturb.                                                 *)
(***************************************************************************)
EXTENDS GuestLemmas

-----------------------------------------------------------------------------
(* Parts of IInv that a step leaves alone.                                 *)

LEMMA Basics ==
  ASSUME IInv
  PROVE  /\ TypeOK /\ ControlSound /\ FramesGood /\ QueuesSound /\ MutexesAgree
         /\ host \in Threads /\ OthersParked
  BY DEF IInv, ControlSound, TypeOK

\* The frame on top of the host fiber.
LEMMA TopFrame ==
  ASSUME IInv, NEW o, At(o)
  PROVE  stack[host] # <<>> /\ Top \in GoodFrame /\ Top.op = o
  BY Basics, TopIs DEF At, Top

\* The host thread runs under any call that is not safe.
LEMMA RunsUnder ==
  ASSUME IInv, NEW o \in FrameOps \ (SafeOps \cup {"idle", "enable"}), At(o)
  PROVE  /\ Running /\ stack[host] # <<>> /\ Top \in GoodFrame /\ Top.op = o
         /\ state[host] = "running" /\ suspend[host] = 0
         /\ running = host /\ disable = 0
<1>1. stack[host] # <<>> /\ Top \in GoodFrame /\ Top.op = o
  BY TopFrame
<1>2. Running
  BY <1>1, Basics, UnsafeRuns
<1> QED BY <1>1, <1>2 DEF Running, OnCPU

\* A step that leaves the queues, the suspend counts and the priorities alone.
LEMMA QueuesKept ==
  ASSUME QueuesSound, UNCHANGED <<state, suspend, prio, queue, link, pending>>
  PROVE  QueuesSound'
  BY DEF QueuesSound, LinkExact, InQueue, QueueFits, LinkDistinct, Distinct, PendingExact,
         PrioritySound, Terminated, Member

\* A step that leaves owners, counts and mutex lists alone.
LEMMA MutexesKept ==
  ASSUME MutexesAgree, UNCHANGED <<held, owner, count>>
  PROVE  MutexesAgree'
  BY DEF MutexesAgree

\* A step that only pushes and returns frames, or changes timers.
LEMMA OSKept ==
  ASSUME IInv, ControlSound', UNCHANGED osvars,
         disable' \in Nat, running' \in Threads \cup {NoThread}, host' \in Threads,
         timers' \in SUBSET Threads, parks' \in SUBSET Threads, strandSeen' \in SUBSET Threads
  PROVE  IInv'
<1>1. QueuesSound' /\ MutexesAgree'
  BY Basics, QueuesKept, MutexesKept DEF osvars, mutexVars, queueVars
<1>2. stack' \in [Threads -> Seq(Frame)]
  BY StackTyped DEF ControlSound
<1>3. TypeOK'
  BY <1>2, Basics DEF TypeOK, osvars, lifeVars, mutexVars, queueVars
<1> QED BY <1>1, <1>3 DEF IInv

\* A safe call that returns frames and changes at most timers.
LEMMA SafeCall ==
  ASSUME IInv, NEW o \in SafeOps, At(o), NEW fs, SafeFrames(fs), Return(fs),
         UNCHANGED <<osvars, cpuVars>>,
         timers' \in SUBSET Threads, parks' \in SUBSET Threads, strandSeen' \in SUBSET Threads,
         disable = 0 /\ running = host /\ state[host] # "running" /\ Selects(Top)
           => EndsInSelect(fs)
  PROVE  IInv'
<1>1. stack[host] # <<>> /\ Top.op \in SafeOps
  BY TopFrame
<1>2. NoneStarts /\ resched' = resched /\ state' = state
  BY DEF NoneStarts, osvars
<1>3. fs \in Seq(GoodFrame) /\ AllSafe(fs)
  BY DEF SafeFrames
<1>4. Returned(fs)
  BY <1>1, <1>3, Basics, ReturnIs
<1>5. ControlSound'
  BY <1>1, <1>2, <1>3, <1>4, Basics, SafeReturn, WillSelectIs
<1> QED BY <1>5, OSKept, Basics DEF TypeOK, cpuVars

\* A call of a running thread that does the same.
LEMMA RunningCall ==
  ASSUME IInv, NEW o \in FrameOps \ (SafeOps \cup {"idle", "enable"}), At(o),
         NEW fs, PlainFrames(fs), Return(fs), UNCHANGED <<osvars, cpuVars>>,
         timers' \in SUBSET Threads, parks' \in SUBSET Threads, strandSeen' \in SUBSET Threads
  PROVE  IInv'
<1>1. stack[host] # <<>> /\ Running /\ state[host] = "running"
  BY RunsUnder
<1>2. NoneStarts /\ state' = state
  BY DEF NoneStarts, osvars
<1>3. fs \in Seq(GoodFrame) /\ PlainFrom(fs, 1)
  BY DEF PlainFrames
<1>4. Returned(fs)
  BY <1>1, <1>3, Basics, ReturnIs
<1>5. ControlSound'
  BY <1>1, <1>2, <1>3, <1>4, Basics, UnsafeReturn
<1> QED BY <1>5, OSKept, Basics DEF TypeOK, cpuVars

-----------------------------------------------------------------------------
(* Steps that change no scheduling state.                                  *)

LEMMA SelectThreadReturnsStep ==
  ASSUME IInv, SelectThreadReturns
  PROVE  IInv'
<1>1. /\ timers' \in SUBSET Threads /\ parks' \in SUBSET Threads
      /\ strandSeen' \in SUBSET Threads
  BY Basics DEF SelectThreadReturns, timerVars, TypeOK
<1>2. CASE At("select")
  <2>1. ~(disable = 0 /\ running = host /\ state[host] # "running")
    BY Basics, ConstantsAssumption DEF SelectThreadReturns, CannotSelect, KeepsRunning, TypeOK
  <2> QED BY <1>1, <1>2, <2>1, NoFrames, SafeCall DEF SelectThreadReturns, SafeOps
<1>3. CASE At("yield")
  BY <1>1, <1>3, NoFrames, RunningCall DEF SelectThreadReturns, SafeOps, FrameOps
<1> QED BY <1>2, <1>3 DEF SelectThreadReturns, SelectFrame

\* The idle loop runs the sleep timers on top of its frame.
LEMMA IdlePollsStep ==
  ASSUME IInv, IdlePolls
  PROVE  IInv'
<1>1. F("timers") \in GoodFrame /\ F("timers").op \in SafeOps
  BY PlainFrameIs DEF SafeOps
<1>2. ControlSound'
  BY <1>1, Basics, IdlePush DEF IdlePolls, osvars
<1> QED BY <1>2, OSKept, Basics DEF TypeOK, IdlePolls, cpuVars, timerVars

\* A pending reschedule turns into a call of SelectThread on the same fiber.
LEMMA RescheduleIfRequestedStep ==
  ASSUME IInv, RescheduleIfRequested
  PROVE  IInv'
<1> PICK fs : fs = IF resched THEN SelectCall("select") ELSE <<>>
  OBVIOUS
<1>1. SafeFrames(fs) /\ (resched => EndsInSelect(fs))
  BY SelectCallIs, NoFrames
<1>2. Top.op = "resched"
  BY TopFrame DEF RescheduleIfRequested
<1>3. /\ timers' \in SUBSET Threads /\ parks' \in SUBSET Threads
      /\ strandSeen' \in SUBSET Threads
  BY Basics DEF RescheduleIfRequested, timerVars, TypeOK
<1>4. At("resched") /\ "resched" \in SafeOps /\ UNCHANGED <<osvars, cpuVars>>
  BY DEF RescheduleIfRequested, SafeOps
<1>5. Return(fs)
  BY DEF RescheduleIfRequested
<1> QED BY <1>1, <1>2, <1>3, <1>4, <1>5, SafeCall DEF Selects

\* A wake-up that woke somebody ends in SelectThread, in every mode.
LEMMA WakeupThreadQueueEndsStep ==
  ASSUME IInv, WakeupThreadQueueEnds
  PROVE  IInv'
<1> PICK fs : fs = IF At("woke") THEN SelectCall("select") ELSE <<>>
  OBVIOUS
<1> PICK o \in {"wake", "woke"} : At(o)
  BY DEF WakeupThreadQueueEnds
<1>1. SafeFrames(fs) /\ Return(fs) /\ o \in SafeOps /\ UNCHANGED <<osvars, cpuVars>>
  BY SelectCallIs, NoFrames DEF WakeupThreadQueueEnds, SafeOps
<1>2. ~Selects(Top)
  BY TopFrame DEF Selects
<1>3. /\ timers' \in SUBSET Threads /\ parks' \in SUBSET Threads
      /\ strandSeen' \in SUBSET Threads
  BY Basics DEF WakeupThreadQueueEnds, timerVars, TypeOK
<1> QED BY <1>1, <1>2, <1>3, SafeCall

\* Collecting the due timers only pushes the batch and the reconciler.
LEMMA CollectDueTimersStep ==
  ASSUME IInv, NEW due \in SUBSET timers, CollectDueTimers(due)
  PROVE  IInv'
<1> PICK fs : fs = (IF due = {} THEN <<>> ELSE <<FD("fire", due)>>) \o <<F("reconcile")>>
  OBVIOUS
<1>1. At("timers") /\ Top.op = "timers" /\ Return(fs) /\ UNCHANGED <<osvars, cpuVars>>
  BY TopFrame DEF CollectDueTimers
<1>2. /\ timers' \in SUBSET Threads /\ parks' \in SUBSET Threads
      /\ strandSeen' \in SUBSET Threads /\ due \in SUBSET Threads
  BY Basics DEF CollectDueTimers, TypeOK
<1>3. SafeFrames(fs)
  <2>1. SafeFrames(<<F("reconcile")>>)
    BY PlainFrameIs, OneFrame DEF SafeOps
  <2>2. SafeFrames(<<FD("fire", due)>>)
    BY <1>2, DueFrameIs, OneFrame DEF SafeOps
  <2>3. SafeFrames(IF due = {} THEN <<>> ELSE <<FD("fire", due)>>)
    BY <2>2, NoFrames
  <2> QED BY <2>1, <2>3, ConcatFrames DEF SafeFrames
<1> QED BY <1>1, <1>2, <1>3, SafeCall DEF SafeOps, Selects

\* One due timer: dropped, armed again, or the resume of its thread.
LEMMA FireDueTimerStep ==
  ASSUME IInv, FireDueTimer
  PROVE  IInv'
<1>1. At("fire") /\ Top.op = "fire" /\ Top \in GoodFrame /\ UNCHANGED <<osvars, cpuVars>>
  BY TopFrame DEF FireDueTimer
<1>2. Top.due \in SUBSET Threads
  BY <1>1 DEF GoodFrame, Frame
<1> PICK u \in Top.due :
      LET rest == IF Top.due = {u} THEN <<>> ELSE <<FD("fire", Top.due \ {u})>>
      IN  /\ timers' = IF state[u] = "running" THEN timers \cup {u} ELSE timers
          /\ parks' = IF state[u] = "running" THEN parks ELSE parks \ {u}
          /\ Return((IF ParkShaped(u) THEN <<FT("resume", u)>> ELSE <<>>) \o rest)
  BY DEF FireDueTimer
<1> PICK a, b, fs :
      /\ a = IF ParkShaped(u) THEN <<FT("resume", u)>> ELSE <<>>
      /\ b = IF Top.due = {u} THEN <<>> ELSE <<FD("fire", Top.due \ {u})>>
      /\ fs = a \o b
  OBVIOUS
<1>3. u \in Threads /\ Return(fs)
  BY <1>2
<1>4. SafeFrames(a)
  BY <1>3, ThreadFrameIs, OneFrame, NoFrames DEF SafeOps
<1>5. SafeFrames(b)
  BY <1>2, DueFrameIs, OneFrame, NoFrames DEF SafeOps
<1>6. SafeFrames(fs)
  BY <1>4, <1>5, ConcatFrames DEF SafeFrames
<1>7. /\ timers' \in SUBSET Threads /\ parks' \in SUBSET Threads
      /\ strandSeen' \in SUBSET Threads
  BY <1>3, Basics DEF FireDueTimer, TypeOK
<1> QED BY <1>1, <1>3, <1>6, <1>7, SafeCall DEF SafeOps, Selects

\* The reconciler's scan pushes the sleepers to be healed.
LEMMA ReconcileParksStep ==
  ASSUME IInv, ReconcileParks \/ ReconcilerNotDue
  PROVE  IInv'
<1>1. At("reconcile") /\ Top.op = "reconcile" /\ UNCHANGED <<osvars, cpuVars>>
  BY TopFrame DEF ReconcileParks, ReconcilerNotDue
<1>2. CASE ReconcilerNotDue
  <2>1. /\ timers' \in SUBSET Threads /\ parks' \in SUBSET Threads
        /\ strandSeen' \in SUBSET Threads
    BY <1>2, Basics DEF ReconcilerNotDue, timerVars, TypeOK
  <2> QED BY <1>1, <1>2, <2>1, NoFrames, SafeCall DEF SafeOps, Selects, ReconcilerNotDue
<1>3. CASE ReconcileParks
  <2> PICK lost : lost = {u \in parks \ timers : ParkShaped(u)}
    OBVIOUS
  <2> PICK heal \in SUBSET (lost \cap strandSeen) :
        /\ parks' = (parks \cap timers) \cup (lost \ heal)
        /\ strandSeen' = lost \ heal
        /\ Return(IF heal = {} THEN <<>> ELSE <<FD("heal", heal)>>)
    BY <1>3 DEF ReconcileParks
  <2> PICK fs : fs = IF heal = {} THEN <<>> ELSE <<FD("heal", heal)>>
    OBVIOUS
  <2>1. lost \in SUBSET Threads /\ heal \in SUBSET Threads /\ Return(fs)
    BY Basics DEF TypeOK
  <2>2. /\ timers' \in SUBSET Threads /\ parks' \in SUBSET Threads
        /\ strandSeen' \in SUBSET Threads
    BY <1>3, <2>1, Basics DEF ReconcileParks, TypeOK
  <2>3. SafeFrames(fs)
    BY <2>1, DueFrameIs, OneFrame, NoFrames DEF SafeOps
  <2> QED BY <1>1, <2>1, <2>2, <2>3, SafeCall DEF SafeOps, Selects
<1> QED BY <1>2, <1>3

\* One lost sleeper is resumed, or turns out not to be lost.
LEMMA HealLostSleeperStep ==
  ASSUME IInv, HealLostSleeper
  PROVE  IInv'
<1>1. At("heal") /\ Top.op = "heal" /\ Top \in GoodFrame /\ UNCHANGED <<osvars, cpuVars>>
  BY TopFrame DEF HealLostSleeper
<1>2. Top.due \in SUBSET Threads
  BY <1>1 DEF GoodFrame, Frame
<1> PICK u \in Top.due :
      Return(<<FT("resume", u)>> \o
             (IF Top.due = {u} THEN <<>> ELSE <<FD("heal", Top.due \ {u})>>))
  BY DEF HealLostSleeper
<1> PICK b, fs :
      /\ b = IF Top.due = {u} THEN <<>> ELSE <<FD("heal", Top.due \ {u})>>
      /\ fs = <<FT("resume", u)>> \o b
  OBVIOUS
<1>3. u \in Threads /\ Return(fs)
  BY <1>2
<1>4. SafeFrames(<<FT("resume", u)>>)
  BY <1>3, ThreadFrameIs, OneFrame DEF SafeOps
<1>5. SafeFrames(b)
  BY <1>2, DueFrameIs, OneFrame, NoFrames DEF SafeOps
<1>6. SafeFrames(fs)
  BY <1>4, <1>5, ConcatFrames DEF SafeFrames
<1>7. /\ timers' \in SUBSET Threads /\ parks' \in SUBSET Threads
      /\ strandSeen' \in SUBSET Threads
  BY Basics DEF HealLostSleeper, timerVars, TypeOK
<1> QED BY <1>1, <1>3, <1>6, <1>7, SafeCall DEF SafeOps, Selects

\* Loops that have ended, and a cancellation that is ignored.
LEMMA EmptyReturnStep ==
  ASSUME IInv, OSCancelThreadIgnored \/ UnlockAllThreadMutexesEnds
               \/ WakeGuestThreadsOnQueueNoSwitchEnds
  PROVE  IInv'
<1> USE DEF OSCancelThreadIgnored, UnlockAllThreadMutexesEnds,
            WakeGuestThreadsOnQueueNoSwitchEnds
<1> PICK o \in {"cancel", "unlockall", "drainjoin"} : At(o)
  OBVIOUS
<1>1. Top.op = o /\ UNCHANGED <<osvars, cpuVars>> /\ Return(<<>>) /\ o \in SafeOps
  BY TopFrame DEF SafeOps
<1>2. /\ timers' \in SUBSET Threads /\ parks' \in SUBSET Threads
      /\ strandSeen' \in SUBSET Threads
  BY Basics DEF timerVars, TypeOK
<1> QED BY <1>1, <1>2, NoFrames, SafeCall DEF Selects

\* A join that has to wait becomes a sleep in the join queue.
LEMMA OSJoinThreadSleepsStep ==
  ASSUME IInv, OSJoinThreadSleeps
  PROVE  IInv'
<1> PICK u : u = Top.thr
  OBVIOUS
<1> PICK fs : fs = <<FQ("sleep", JoinQueue(u)), FT("joined", u)>>
  OBVIOUS
<1>1. At("join") /\ Top.op = "join" /\ Top \in GoodFrame /\ Return(fs)
      /\ UNCHANGED <<osvars, cpuVars>>
  BY TopFrame DEF OSJoinThreadSleeps
<1>2. u \in Threads /\ JoinQueue(u) \in WaitQueue
  BY <1>1, ConstantsAssumption DEF GoodFrame, JoinQueue, WaitQueue, Queues
<1>3. PlainFrames(fs)
  BY <1>2, QueueFrameIs, ThreadFrameIs, TwoFrames
<1>4. /\ timers' \in SUBSET Threads /\ parks' \in SUBSET Threads
      /\ strandSeen' \in SUBSET Threads
  BY Basics DEF OSJoinThreadSleeps, timerVars, TypeOK
<1> QED BY <1>1, <1>3, <1>4, RunningCall DEF FrameOps, SafeOps

\* A sleeper arms its timer and suspends itself: the frames it leaves are plain.
LEMMA OSSleepTicksStep ==
  ASSUME IInv, OSSleepTicks
  PROVE  IInv'
<1>1. At("sleepTicks") /\ UNCHANGED <<osvars, cpuVars>>
  BY DEF OSSleepTicks
<1>2. /\ timers' \in SUBSET Threads /\ parks' \in SUBSET Threads
      /\ strandSeen' \in SUBSET Threads
  BY Basics DEF OSSleepTicks, TypeOK
<1>3. PlainFrames(<<FT("suspend", host), F("ticked")>>) /\ PlainFrames(<<>>)
  BY Basics, ThreadFrameIs, PlainFrameIs, TwoFrames, NoFrames
<1>4. Return(<<>>) \/ Return(<<FT("suspend", host), F("ticked")>>)
  BY DEF OSSleepTicks
<1> QED BY <1>1, <1>2, <1>3, <1>4, RunningCall DEF FrameOps, SafeOps

-----------------------------------------------------------------------------
(* Guest code and alarm handlers.                                          *)

LEMMA GuestCallsOSStep ==
  ASSUME IInv, GuestCallsOS
  PROVE  IInv'
<1>1. \A f \in GuestCalls : f \in GoodFrame /\ f.op \notin {"idle", "enable"}
  <2>1. \A o \in {"sleep", "wake"}, q \in WaitQueues :
          FQ(o, q) \in GoodFrame /\ FQ(o, q).op = o
    BY QueueFrameIs, ConstantsAssumption DEF WaitQueue, Queues
  <2>2. \A o \in {"lock", "unlock"}, m \in Mutexes :
          FQ(o, m) \in GoodFrame /\ FQ(o, m).op = o
    BY MutexFrameIs
  <2>3. \A o \in {"suspend", "resume", "cancel", "join", "detach"}, u \in Threads :
          FT(o, u) \in GoodFrame /\ FT(o, u).op = o
    BY ThreadFrameIs
  <2>4. F("sleepTicks") \in GoodFrame /\ F("sleepTicks").op = "sleepTicks"
    BY PlainFrameIs
  <2> QED BY <2>1, <2>2, <2>3, <2>4 DEF GuestCalls
<1> PICK fs : PlainFrames(fs) /\ Push(fs)
  <2>1. \A f \in GuestCalls : PlainFrames(<<f>>)
    BY <1>1, OneFrame
  <2>2. PlainFrames(<<F("exit")>>)
    BY PlainFrameIs, OneFrame
  <2> QED BY <2>1, <2>2, SelectCallIs DEF GuestCallsOS
<1>2. InGuestCode /\ UNCHANGED <<osvars, timerVars, cpuVars>>
  BY DEF GuestCallsOS
<1>3. NoneStarts /\ state' = state
  BY <1>2 DEF NoneStarts, osvars
<1>4. state[host] = "running"
  BY <1>2, Basics, GuestCodeRuns DEF Running, OnCPU
<1>5. ControlSound'
  BY <1>2, <1>3, <1>4, Basics, GuestPush DEF PlainFrames
<1> QED BY <1>2, <1>5, OSKept, Basics DEF TypeOK, cpuVars, timerVars

\* A handler starts, from guest code or from the idle loop: its call is a safe one.
LEMMA AlarmHandlerCalledStep ==
  ASSUME HandlersDontBlock, IInv, AlarmHandlerCalled
  PROVE  IInv'
<1> PICK f \in GuestCalls : f.op \in HandlerCalls /\ Push(<<f, F("enable")>>)
  BY DEF AlarmHandlerCalled
<1>1. f \in GoodFrame /\ f.op \in SafeOps
  <2>1. f.op \in {"suspend", "resume", "wake", "cancel", "detach"}
    BY DEF HandlersDontBlock
  <2>2. \A o, q : FQ(o, q).op = o /\ FT(o, q).op = o /\ F(o).op = o
    BY DEF FQ, FT, F
  <2>3. \/ f \in {FQ("wake", q) : q \in WaitQueues}
        \/ f \in {FT(o, u) : o \in {"suspend", "resume", "cancel", "detach"}, u \in Threads}
    BY <2>1, <2>2 DEF GuestCalls
  <2>4. \A q \in WaitQueues : FQ("wake", q) \in GoodFrame
    BY QueueFrameIs, ConstantsAssumption DEF WaitQueue, Queues
  <2>5. \A o \in {"suspend", "resume", "cancel", "detach"}, u \in Threads :
          FT(o, u) \in GoodFrame
    BY ThreadFrameIs
  <2> QED BY <2>1, <2>3, <2>4, <2>5 DEF SafeOps
<1>2. ControlSound'
  BY <1>1, Basics, HandlerPush, PlainFrameIs DEF AlarmHandlerCalled, osvars
<1> QED BY <1>2, OSKept, Basics DEF AlarmHandlerCalled, TypeOK, timerVars

\* A handler ends: a switch it asked for is still to come.
LEMMA AlarmHandlerReturnsStep ==
  ASSUME IInv, AlarmHandlerReturns
  PROVE  IInv'
<1>1. ControlSound' /\ disable = 1
  BY Basics, HandlerReturn, PlainFrameIs DEF AlarmHandlerReturns, osvars
<1> QED BY <1>1, OSKept, Basics DEF AlarmHandlerReturns, TypeOK, timerVars

-----------------------------------------------------------------------------
(* Switching to another fiber.                                             *)

\* A thread that is linked in a queue, given thread states st.
LinkedIn(st, t) == (st[t] = "ready" /\ suspend[t] = 0) \/ st[t] = "waiting"

\* MostUrgent picks the least number in a mask that is not empty.
LEMMA MostUrgentIs ==
  ASSUME NEW mask \in SUBSET Priorities, mask # {}
  PROVE  MostUrgent(mask) \in mask /\ \A r \in mask : MostUrgent(mask) <= r
<1>1. \E p \in mask : \A r \in mask : p <= r
  BY LeastNatural, ConstantsAssumption
<1> QED BY <1>1 DEF MostUrgent

\* Dispatch picks a thread that is on a run queue.
LEMMA DispatchStep ==
  ASSUME IInv, stack[host] # <<>>, PlainFrom(stack[host], 2), disable = 0,
         NEW st \in [Threads -> States], NEW qu \in [Threads -> Queues \cup {NoQueue}],
         NEW ln, NEW mask, Dispatch(st, qu, ln, mask),
         \A t \in Threads :
           /\ st[t] # "running"
           /\ st[t] \in {"dead", "moribund"} <=> Terminated(t)
           /\ st[t] = "ready" /\ suspend[t] = 0 => qu[t] = prio[t]
           /\ st[t] = "waiting" => qu[t] \in WaitQueue
           /\ \A q \in Queues : Member(ln[q], t) <=> LinkedIn(st, t) /\ qu[t] = q,
         LinksOK(ln), mask = Pend(ln), mask # {}
  PROVE  IInv'
<1> PICK p, next : p = MostUrgent(mask) /\ next = Head(ln[p])
  OBVIOUS
<1>1. p \in mask /\ p \in Priorities /\ p \in Queues /\ ln[p] # <<>>
  BY MostUrgentIs DEF Pend, Queues
<1>2. /\ next \in Threads /\ Member(ln[p], next)
      /\ Leaves([ln EXCEPT ![p] = Tail(@)], ln, p, next)
  BY <1>1, LinkTail
<1>3. st[next] = "ready" /\ suspend[next] = 0 /\ qu[next] = p
  BY <1>1, <1>2 DEF LinkedIn, WaitQueue
<1>4. /\ state' = [st EXCEPT ![next] = "running"]
      /\ queue' = [qu EXCEPT ![next] = NoQueue]
      /\ link' = [ln EXCEPT ![p] = Tail(@)]
      /\ pending' = IF Tail(ln[p]) = <<>> THEN mask \ {p} ELSE mask
      /\ resched' = FALSE /\ running' = next /\ host' = next
      /\ stack' = [stack EXCEPT ![host] = IF Terminated(host) THEN <<>> ELSE Tail(@)]
      /\ UNCHANGED <<suspend, prio, disable, lifeVars, mutexVars, timerVars>>
  BY DEF Dispatch
<1>5. ControlSound'
  BY <1>2, <1>3, <1>4, Basics, SwitchControl
<1>6. Leaves(link', ln, p, next) /\ link'[p] = Tail(ln[p])
  BY <1>1, <1>2, <1>4 DEF LinksOK
<1>7. QueuesSound'
  <2>1. LinksOK(link') /\ pending' = Pend(link')
    BY <1>1, <1>4, <1>6 DEF Leaves
  <2>2. LinkExact'
    <3> SUFFICES ASSUME NEW q \in Queues, NEW t \in Threads
                 PROVE  Member(link'[q], t) <=> InQueue(t)' /\ queue'[t] = q
      BY DEF LinkExact
    <3>1. Member(link'[q], t) <=> LinkedIn(st, t) /\ qu[t] = q /\ ~(q = p /\ t = next)
      BY <1>6 DEF Leaves
    <3>2. CASE t = next
      BY <1>3, <1>4, <3>1, <3>2 DEF InQueue, LinkedIn
    <3>3. CASE t # next
      BY <1>4, <3>1, <3>3 DEF InQueue, LinkedIn
    <3> QED BY <3>2, <3>3
  <2>3. QueueFits'
    BY <1>4 DEF QueueFits, WaitQueue, Queues
  <2>4. PrioritySound'
    BY <1>3, <1>4, Basics DEF PrioritySound, Terminated, QueuesSound
  <2> QED BY <2>1, <2>2, <2>3, <2>4
      DEF QueuesSound, LinksOK, LinkDistinct, PendingExact, Pend
<1>8. MutexesAgree'
  BY <1>4, Basics, MutexesKept DEF mutexVars
<1>9. TypeOK'
  <2>1. stack' \in [Threads -> Seq(Frame)]
    BY <1>5, StackTyped DEF ControlSound
  <2>2. link' \in [Queues -> Seq(Threads)] /\ pending' \in SUBSET Priorities
    BY <1>1, <1>4, <1>6 DEF Leaves, LinksOK, Pend
  <2>3. /\ state' \in [Threads -> States] /\ queue' \in [Threads -> Queues \cup {NoQueue}]
        /\ resched' \in BOOLEAN /\ running' \in Threads \cup {NoThread} /\ host' \in Threads
    BY <1>2, <1>4 DEF States
  <2> QED BY <1>4, <2>1, <2>2, <2>3, Basics DEF TypeOK, lifeVars, mutexVars, timerVars
<1> QED BY <1>5, <1>7, <1>8, <1>9 DEF IInv

\* SelectThread switches only in a mode without a handler and an idle loop.
LEMMA SelectMode ==
  ASSUME IInv, SelectFrame, ~CannotSelect
  PROVE  /\ stack[host] # <<>> /\ PlainFrom(stack[host], 2)
         /\ disable = 0 /\ running = host
<1>1. disable = 0 /\ running # NoThread
  BY Basics DEF CannotSelect, TypeOK
<1>2. PlainFrom(stack[host], 1) /\ running = host
  BY <1>1, Basics
  DEF ControlSound, HostControl, Running, Leaving, InHandler, Idling, IdleHandler, HostFrames
<1>3. PlainFrom(stack[host], 2)
  BY <1>2 DEF PlainFrom
<1> QED BY <1>1, <1>2, <1>3 DEF SelectFrame, At

\* No thread runs while the one on the host does not.
LEMMA NobodyRuns ==
  ASSUME IInv, state[host] # "running", NEW t \in Threads
  PROVE  state[t] # "running"
  BY Basics DEF OthersParked

\* QueuesSound, thread by thread, in the form DispatchStep takes.
LEMMA LinkedAsIs ==
  ASSUME IInv, NEW t \in Threads
  PROVE  /\ state[t] \in {"dead", "moribund"} <=> Terminated(t)
         /\ state[t] = "ready" /\ suspend[t] = 0 => queue[t] = prio[t]
         /\ state[t] = "waiting" => queue[t] \in WaitQueue
         /\ \A q \in Queues : Member(link[q], t) <=> LinkedIn(state, t) /\ queue[t] = q
  BY Basics DEF QueuesSound, LinkExact, QueueFits, InQueue, LinkedIn, Terminated

\* The thread of the host fiber does not run and another one takes over.
LEMMA TakeOver ==
  ASSUME IInv, stack[host] # <<>>, PlainFrom(stack[host], 2), disable = 0,
         state[host] # "running", pending # {},
         Dispatch(state, queue, link, pending)
  PROVE  IInv'
<1> PICK st, qu, ln, mask : st = state /\ qu = queue /\ ln = link /\ mask = pending
  OBVIOUS
<1>1. st \in [Threads -> States] /\ qu \in [Threads -> Queues \cup {NoQueue}]
  BY Basics DEF TypeOK
<1>2. LinksOK(ln) /\ mask = Pend(ln) /\ mask # {}
  BY Basics, LinkIsOK
<1>3. Dispatch(st, qu, ln, mask)
  BY DEF Dispatch
<1>4. \A t \in Threads :
        /\ st[t] # "running"
        /\ st[t] \in {"dead", "moribund"} <=> Terminated(t)
        /\ st[t] = "ready" /\ suspend[t] = 0 => qu[t] = prio[t]
        /\ st[t] = "waiting" => qu[t] \in WaitQueue
        /\ \A q \in Queues : Member(ln[q], t) <=> LinkedIn(st, t) /\ qu[t] = q
  BY NobodyRuns, LinkedAsIs
<1> QED BY <1>1, <1>2, <1>3, <1>4, DispatchStep

\* SelectThread leaves the fiber for the most urgent thread.
LEMMA SelectThreadSwitchesStep ==
  ASSUME IInv, SelectThreadSwitches
  PROVE  IInv'
<1>1. stack[host] # <<>> /\ PlainFrom(stack[host], 2) /\ disable = 0 /\ running = host
  BY SelectMode DEF SelectThreadSwitches
<1> QED BY <1>1, TakeOver DEF SelectThreadSwitches

\* The idle loop ends with the same dispatch as SelectThread.
LEMMA IdleEndsStep ==
  ASSUME IInv, IdleEnds
  PROVE  IInv'
<1>1. /\ stack[host] # <<>> /\ PlainFrom(stack[host], 2) /\ disable = 0
      /\ state[host] # "running"
  BY IdleOnTop, Basics DEF IdleEnds
<1> QED BY <1>1, TakeOver DEF IdleEnds

\* Nobody is pending: the fiber enters the idle loop.
LEMMA SelectThreadIdlesStep ==
  ASSUME IInv, SelectThreadIdles
  PROVE  IInv'
<1>1. stack[host] # <<>> /\ PlainFrom(stack[host], 2) /\ disable = 0 /\ running = host
  BY SelectMode DEF SelectThreadIdles
<1>2. ControlSound'
  BY <1>1, Basics, GoIdle, PlainFrameIs DEF SelectThreadIdles, osvars
<1> QED BY <1>2, OSKept, Basics DEF SelectThreadIdles, TypeOK, timerVars

\* The running thread is put at the tail of its run queue and another dispatched.
LEMMA SelectThreadPreemptsStep ==
  ASSUME IInv, SelectThreadPreempts
  PROVE  IInv'
<1>1. stack[host] # <<>> /\ PlainFrom(stack[host], 2) /\ disable = 0 /\ running = host
  BY SelectMode DEF SelectThreadPreempts
<1>2. state[host] = "running" /\ suspend[host] = 0 /\ prio[host] \in Priorities
  <2>1. state[host] = "running"
    BY <1>1 DEF SelectThreadPreempts
  <2>2. suspend[host] = 0
    BY <1>1, <2>1, Basics
    DEF ControlSound, HostControl, Running, Leaving, InHandler, Idling, IdleHandler, OnCPU
  <2> QED BY <2>1, <2>2, Basics DEF QueuesSound, PrioritySound, Terminated
<1>0. PICK st, qu, ln, mask, p0 :
      /\ st = [state EXCEPT ![host] = "ready"]
      /\ qu = [queue EXCEPT ![host] = prio[host]]
      /\ ln = [link EXCEPT ![prio[host]] = Append(@, host)]
      /\ mask = pending \cup {prio[host]}
      /\ p0 = prio[host]
  OBVIOUS
<1>3. Dispatch(st, qu, ln, mask)
  BY <1>0, <1>1 DEF SelectThreadPreempts, OnRunQueue, Dispatch
<1>4. st \in [Threads -> States] /\ qu \in [Threads -> Queues \cup {NoQueue}]
  BY <1>0, <1>2, Basics DEF TypeOK, States, Queues
<1>5. p0 \in Priorities /\ p0 \in Queues /\ LinksOK(link) /\ pending = Pend(link)
  BY <1>0, <1>2, Basics, LinkIsOK DEF Queues
<1>6. \A q \in Queues : ~Member(link[q], host)
  BY <1>2, Basics DEF QueuesSound, LinkExact, InQueue
<1>7. Joins(ln, link, p0, host)
  BY <1>0, <1>5, <1>6, Basics, LinkAppend
<1>8. LinksOK(ln) /\ mask = Pend(ln) /\ mask # {}
  BY ZenonT(60), <1>0, <1>5, <1>7 DEF Joins
<1>9. \A t \in Threads :
        /\ st[t] # "running"
        /\ st[t] \in {"dead", "moribund"} <=> Terminated(t)
        /\ st[t] = "ready" /\ suspend[t] = 0 => qu[t] = prio[t]
        /\ st[t] = "waiting" => qu[t] \in WaitQueue
        /\ \A q \in Queues : Member(ln[q], t) <=> LinkedIn(st, t) /\ qu[t] = q
  <2> SUFFICES ASSUME NEW t \in Threads
               PROVE  /\ st[t] # "running"
                      /\ st[t] \in {"dead", "moribund"} <=> Terminated(t)
                      /\ st[t] = "ready" /\ suspend[t] = 0 => qu[t] = prio[t]
                      /\ st[t] = "waiting" => qu[t] \in WaitQueue
                      /\ \A q \in Queues :
                           Member(ln[q], t) <=> LinkedIn(st, t) /\ qu[t] = q
    OBVIOUS
  <2>1. CASE t = host
    <3>1. st[t] = "ready" /\ qu[t] = p0 /\ ~Terminated(t)
      BY <1>0, <1>2, <2>1, Basics DEF TypeOK, Terminated
    <3>2. \A q \in Queues : Member(ln[q], t) <=> q = p0
      BY <1>6, <1>7, <2>1 DEF Joins
    <3> QED BY <1>0, <1>2, <2>1, <3>1, <3>2 DEF LinkedIn
  <2>2. CASE t # host
    <3>1. st[t] = state[t] /\ qu[t] = queue[t] /\ state[t] # "running"
      BY <1>0, <2>2, Basics DEF TypeOK, OthersParked
    <3>2. \A q \in Queues : Member(ln[q], t) <=> Member(link[q], t)
      BY <1>7, <2>2 DEF Joins
    <3> QED BY <3>1, <3>2, LinkedAsIs DEF LinkedIn
  <2> QED BY <2>1, <2>2
<1> QED BY <1>1, <1>3, <1>4, <1>8, <1>9, DispatchStep

-----------------------------------------------------------------------------
(* Wait queues.                                                            *)

\* The running thread is the one on the host, and it is not suspended.
LEMMA RunningIsOnHost ==
  ASSUME IInv, NEW t \in Threads, state[t] = "running"
  PROVE  t = host /\ suspend[t] = 0 /\ running = host /\ prio[t] \in Priorities
<1>1. t = host
  BY Basics DEF OthersParked
<1>2. suspend[host] = 0 /\ running = host
  BY <1>1, Basics
  DEF ControlSound, HostControl, Running, Leaving, InHandler, Idling, IdleHandler, OnCPU
<1> QED BY <1>1, <1>2, Basics DEF QueuesSound, PrioritySound, Terminated

\* A safe call that changes thread states.
LEMMA SafeStep ==
  ASSUME IInv, NEW o \in SafeOps, At(o), NEW fs, SafeFrames(fs), Returned(fs),
         UNCHANGED cpuVars, NoneStarts, resched => resched',
         state[host] = "running" /\ state'[host] # "running" =>
           resched' /\ EndsInResched(fs),
         Selects(Top) => EndsInSelect(fs)
  PROVE  ControlSound'
<1>1. stack[host] # <<>> /\ Top.op \in SafeOps
  BY TopFrame
<1>2. fs \in Seq(GoodFrame) /\ AllSafe(fs)
  BY DEF SafeFrames
<1> QED BY <1>1, <1>2, Basics, SafeReturn, WillSelectIs

\* A call of the running thread keeps control sound if the thread goes on running or
\* the call ends in SelectThread.
LEMMA RunningStep ==
  ASSUME IInv, NEW o \in FrameOps \ (SafeOps \cup {"idle", "enable"}), At(o),
         NEW fs, PlainFrames(fs), Return(fs), UNCHANGED cpuVars, NoneStarts,
         state'[host] = "running" \/ EndsInSelect(fs)
  PROVE  ControlSound'
<1>1. stack[host] # <<>> /\ Running
  BY RunsUnder
<1>2. fs \in Seq(GoodFrame) /\ PlainFrom(fs, 1)
  BY DEF PlainFrames
<1>3. Returned(fs)
  BY <1>1, <1>2, Basics, ReturnIs
<1> QED BY <1>1, <1>2, <1>3, Basics, UnsafeReturn, WillSelectIs

\* A frame returns to frames of good calls only.
LEMMA ReturnedIs ==
  ASSUME IInv, NEW o, At(o), NEW fs, SafeFrames(fs) \/ PlainFrames(fs), Return(fs)
  PROVE  Returned(fs)
  BY Basics, TopFrame, ReturnIs DEF SafeFrames, PlainFrames

\* The scheduling state is typed and sound again: what is left of IInv.
LEMMA Assembled ==
  ASSUME IInv, ControlSound', QueuesSound', MutexesAgree',
         state' \in [Threads -> States], suspend' \in [Threads -> Nat],
         prio' \in [Threads -> Priorities \cup {SuspendedWaitPriority}],
         queue' \in [Threads -> Queues \cup {NoQueue}],
         link' \in [Queues -> Seq(Threads)], pending' \in SUBSET Priorities,
         resched' \in BOOLEAN, UNCHANGED <<lifeVars, timerVars, cpuVars>>,
         blockedOn' \in [Threads -> Mutexes \cup {NoQueue}],
         held' \in [Threads -> SUBSET Mutexes],
         owner' \in [Mutexes -> Threads \cup {NoThread}], count' \in [Mutexes -> Nat]
  PROVE  IInv'
<1>1. stack' \in [Threads -> Seq(Frame)]
  BY StackTyped DEF ControlSound
<1> QED BY <1>1, Basics DEF IInv, TypeOK, lifeVars, timerVars, cpuVars

\* What taking the head off a wait queue does.
LEMMA WakeHeadIs ==
  ASSUME IInv, NEW q \in WaitQueue, link[q] # <<>>, NEW clears \in BOOLEAN,
         WakeHead(q, clears), UNCHANGED <<suspend, prio>>
  PROVE  /\ QueuesSound' /\ NoneStarts /\ (resched => resched')
         /\ (state[host] = "running" => state'[host] = "running")
         /\ state' \in [Threads -> States] /\ queue' \in [Threads -> Queues \cup {NoQueue}]
         /\ link' \in [Queues -> Seq(Threads)] /\ pending' \in SUBSET Priorities
         /\ resched' \in BOOLEAN
<1>0. PICK t, l : t = Head(link[q]) /\ l = [link EXCEPT ![q] = Tail(@)]
  OBVIOUS
<1>1. q \in Queues /\ q \notin Priorities /\ LinksOK(link) /\ pending = Pend(link)
  BY Basics, LinkIsOK DEF WaitQueue
<1>2. t \in Threads /\ Member(link[q], t) /\ Leaves(l, link, q, t)
  BY <1>0, <1>1, LinkTail
<1>3. state[t] = "waiting" /\ queue[t] = q
  BY <1>1, <1>2, Basics DEF QueuesSound, LinkExact, InQueue, QueueFits, PrioritySound, Terminated
<1>4. \A p \in Queues, u \in Threads : Member(l[p], u) <=> Member(link[p], u) /\ u # t
  BY <1>1, <1>2, <1>3, Basics DEF Leaves, QueuesSound, LinkExact
<1>5. LinksOK(l) /\ Pend(l) = pending
  BY <1>1, <1>2 DEF Leaves
<1>6. \A u \in Threads \ {t}, p \in Queues : Member(l[p], u) <=> Member(link[p], u)
  BY <1>4
<1>7. \A p \in Queues : ~Member(l[p], t)
  BY <1>2, <1>4
<1>8. CASE Runnable(t)
  <2>0. PICK p0 : p0 = prio[t]
    OBVIOUS
  <2>1. suspend[t] = 0 /\ p0 \in Priorities /\ p0 \in Queues
    BY <1>2, <1>8, <2>0, Basics DEF Runnable, QueuesSound, PrioritySound, TypeOK, Queues
  <2>2. /\ state' = [state EXCEPT ![t] = "ready"]
        /\ link' = [l EXCEPT ![p0] = Append(@, t)]
        /\ queue' = [queue EXCEPT ![t] = p0]
        /\ pending' = pending \cup {p0}
        /\ resched' = TRUE
    BY <1>0, <1>8, <2>0 DEF WakeHead, Runnable, OnRunQueue, Popped
  <2>3. Joins(link', l, p0, t)
    BY <1>2, <1>5, <1>7, <2>1, <2>2, LinkAppend
  <2>4. LinksOK(link') /\ pending' = Pend(link')
    BY <1>5, <2>1, <2>2, <2>3 DEF Joins
  <2>5. \A u \in Threads \ {t} :
          /\ state'[u] = state[u] /\ suspend'[u] = suspend[u]
          /\ prio'[u] = prio[u] /\ queue'[u] = queue[u]
          /\ \A p \in Queues : Member(link'[p], u) <=> Member(link[p], u)
    BY <1>6, <2>2, <2>3, Basics DEF Joins, TypeOK
  <2>6. state'[t] = "ready" /\ suspend'[t] = 0 /\ queue'[t] = p0 /\ prio'[t] = p0
    BY <1>2, <2>0, <2>1, <2>2, Basics DEF TypeOK
  <2>7. \A p \in Queues : Member(link'[p], t) <=> p = p0
    BY <1>2, <1>7, <2>3 DEF Joins
  <2>8. QueuesSound'
    BY <1>2, <2>1, <2>4, <2>5, <2>6, <2>7, Basics, ThreadMoves DEF InQueue
  <2>9. /\ state' \in [Threads -> States] /\ queue' \in [Threads -> Queues \cup {NoQueue}]
        /\ link' \in [Queues -> Seq(Threads)] /\ pending' \in SUBSET Priorities
    BY <2>1, <2>2, <2>4, Basics DEF TypeOK, States, LinksOK
  <2>10. NoneStarts /\ (state[host] = "running" => state'[host] = "running")
    BY <1>2, <1>3, <2>2, Basics DEF TypeOK, NoneStarts
  <2> QED BY <2>2, <2>8, <2>9, <2>10
<1>9. CASE ~Runnable(t)
  <2>1. suspend[t] # 0
    BY <1>2, <1>3, <1>9, Basics DEF Runnable, Terminated, TypeOK
  <2>2. /\ state' = [state EXCEPT ![t] = "ready"]
        /\ link' = l
        /\ queue' = IF clears THEN [queue EXCEPT ![t] = NoQueue] ELSE queue
        /\ UNCHANGED <<pending, resched>>
    BY <1>0, <1>3, <1>9 DEF WakeHead, Terminated, Popped
  <2>3. LinksOK(link') /\ pending' = Pend(link')
    BY <1>5, <2>2
  <2>4. \A u \in Threads \ {t} :
          /\ state'[u] = state[u] /\ suspend'[u] = suspend[u]
          /\ prio'[u] = prio[u] /\ queue'[u] = queue[u]
          /\ \A p \in Queues : Member(link'[p], u) <=> Member(link[p], u)
    BY <1>6, <2>2, Basics DEF TypeOK
  <2>5. state'[t] = "ready" /\ suspend'[t] # 0
    BY <1>2, <2>1, <2>2, Basics DEF TypeOK
  <2>6. QueuesSound'
    BY <1>2, <1>7, <2>2, <2>3, <2>4, <2>5, Basics, ThreadMoves DEF InQueue
  <2>7. /\ state' \in [Threads -> States] /\ queue' \in [Threads -> Queues \cup {NoQueue}]
        /\ link' \in [Queues -> Seq(Threads)] /\ pending' \in SUBSET Priorities
        /\ resched' \in BOOLEAN
    BY <2>2, <2>3, Basics DEF TypeOK, States, LinksOK
  <2>8. NoneStarts /\ (state[host] = "running" => state'[host] = "running")
    BY <1>2, <1>3, <2>2, Basics DEF TypeOK, NoneStarts
  <2> QED BY <2>2, <2>6, <2>7, <2>8
<1> QED BY <1>8, <1>9

\* One thread of a wait queue is woken.
LEMMA WakeupThreadQueueStep ==
  ASSUME IInv, WakeupThreadQueue
  PROVE  IInv'
<1>0. PICK o \in {"wake", "woke"} : At(o)
  BY DEF WakeupThreadQueue
<1>1. Top.op = o /\ Top \in GoodFrame /\ o \in SafeOps
  BY <1>0, TopFrame DEF SafeOps
<1>2. PICK q : q = Top.que
  OBVIOUS
<1>3. q \in WaitQueue /\ link[q] # <<>> /\ WakeHead(q, FALSE)
      /\ UNCHANGED <<suspend, prio, lifeVars, mutexVars, timerVars, cpuVars>>
  BY <1>1, <1>2 DEF WakeupThreadQueue, GoodFrame
<1>4. PICK fs, r : fs = <<FQ(r, q)>> /\ r \in {"wake", "woke"} /\ Return(fs)
  BY <1>1, <1>2 DEF WakeupThreadQueue
<1>5. SafeFrames(fs)
  BY <1>3, <1>4, QueueFrameIs, OneFrame DEF SafeOps
<1>6. /\ QueuesSound' /\ NoneStarts /\ (resched => resched')
      /\ (state[host] = "running" => state'[host] = "running")
      /\ state' \in [Threads -> States] /\ queue' \in [Threads -> Queues \cup {NoQueue}]
      /\ link' \in [Queues -> Seq(Threads)] /\ pending' \in SUBSET Priorities
      /\ resched' \in BOOLEAN
  BY <1>3, WakeHeadIs
<1>7. ControlSound'
  BY <1>0, <1>1, <1>3, <1>4, <1>5, <1>6, ReturnedIs, SafeStep DEF Selects
<1>8. MutexesAgree'
  BY <1>3, Basics, MutexesKept DEF mutexVars
<1> QED BY <1>3, <1>6, <1>7, <1>8, Basics, Assembled DEF TypeOK, mutexVars

\* One joiner of a dead thread is woken without a switch.
LEMMA WakeGuestThreadsStep ==
  ASSUME IInv, WakeGuestThreadsOnQueueNoSwitch
  PROVE  IInv'
<1>1. At("drainjoin") /\ Top.op = "drainjoin" /\ Top \in GoodFrame
  BY TopFrame DEF WakeGuestThreadsOnQueueNoSwitch
<1>2. PICK q, fs : q = Top.que /\ fs = <<Top>>
  OBVIOUS
<1>3. q \in WaitQueue /\ link[q] # <<>> /\ WakeHead(q, TRUE) /\ Return(fs)
      /\ UNCHANGED <<suspend, prio, lifeVars, mutexVars, timerVars, cpuVars>>
  BY <1>1, <1>2 DEF WakeGuestThreadsOnQueueNoSwitch, GoodFrame
<1>5. SafeFrames(fs)
  BY <1>1, <1>2, OneFrame DEF SafeOps
<1>6. /\ QueuesSound' /\ NoneStarts /\ (resched => resched')
      /\ (state[host] = "running" => state'[host] = "running")
      /\ state' \in [Threads -> States] /\ queue' \in [Threads -> Queues \cup {NoQueue}]
      /\ link' \in [Queues -> Seq(Threads)] /\ pending' \in SUBSET Priorities
      /\ resched' \in BOOLEAN
  BY <1>3, WakeHeadIs
<1>7. ControlSound'
  BY <1>1, <1>3, <1>5, <1>6, ReturnedIs, SafeStep DEF Selects, SafeOps
<1>8. MutexesAgree'
  BY <1>3, Basics, MutexesKept DEF mutexVars
<1> QED BY <1>3, <1>6, <1>7, <1>8, Basics, Assembled DEF TypeOK, mutexVars

\* The running thread joins a wait queue and SelectThread follows.
LEMMA OSSleepThreadStep ==
  ASSUME IInv, OSSleepThread
  PROVE  IInv'
<1>1. At("sleep") /\ Top.op = "sleep" /\ Top \in GoodFrame /\ host \in Threads
      /\ state[host] = "running" /\ suspend[host] = 0 /\ running = host /\ disable = 0
  BY Basics, RunsUnder DEF OSSleepThread, FrameOps, SafeOps
<1>2. PICK q : q = Top.que
  OBVIOUS
<1>3. q \in WaitQueue /\ q \in Queues
  BY <1>1, <1>2 DEF GoodFrame, WaitQueue
<1>4. /\ state' = [state EXCEPT ![host] = "waiting"]
      /\ queue' = [queue EXCEPT ![host] = q]
      /\ link' = [link EXCEPT ![q] = Enqueue(@, host, prio[host])]
      /\ resched' = TRUE
      /\ UNCHANGED <<suspend, prio, pending, lifeVars, mutexVars, timerVars, cpuVars>>
  BY <1>1, <1>2, ConstantsAssumption DEF OSSleepThread, cpuVars
<1>5. PICK fs : fs = SelectCall("select") \o <<FQ("parked", q)>> /\ Return(fs)
  BY <1>1, <1>2 DEF OSSleepThread
<1>6. PlainFrames(fs) /\ EndsInSelect(fs)
  <2>1. PlainFrames(<<FQ("parked", q)>>)
    BY <1>3, QueueFrameIs, OneFrame
  <2>2. PlainFrames(SelectCall("select")) /\ EndsInSelect(SelectCall("select"))
    BY SelectCallIs, SafeIsPlain
  <2> QED BY <1>5, <2>1, <2>2, ConcatFrames DEF PlainFrames
<1>7. NoneStarts
  BY <1>1, <1>4, Basics DEF NoneStarts, TypeOK
<1>8. ControlSound'
  BY <1>1, <1>4, <1>5, <1>6, <1>7, RunningStep DEF FrameOps, SafeOps
<1>9. LinksOK(link) /\ pending = Pend(link) /\ \A p \in Queues : ~Member(link[p], host)
  BY <1>1, Basics, LinkIsOK DEF QueuesSound, LinkExact, InQueue
<1>10. Joins(link', link, q, host)
  BY <1>1, <1>3, <1>4, <1>9, LinkEnqueue
<1>11. QueuesSound'
  <2>1. LinksOK(link') /\ pending' = Pend(link')
    BY <1>3, <1>4, <1>9, <1>10 DEF Joins, WaitQueue
  <2>2. \A t \in Threads \ {host} :
          /\ state'[t] = state[t] /\ suspend'[t] = suspend[t]
          /\ prio'[t] = prio[t] /\ queue'[t] = queue[t]
          /\ \A p \in Queues : Member(link'[p], t) <=> Member(link[p], t)
    BY <1>4, <1>10, Basics DEF Joins, TypeOK
  <2>3. state'[host] = "waiting" /\ queue'[host] = q /\ prio'[host] \in Priorities
    BY <1>1, <1>4, RunningIsOnHost, Basics DEF TypeOK
  <2>4. \A p \in Queues : Member(link'[p], host) <=> p = q
    BY <1>1, <1>9, <1>10 DEF Joins
  <2> QED BY <1>1, <1>3, <2>1, <2>2, <2>3, <2>4, Basics, ThreadMoves DEF InQueue
<1>12. MutexesAgree'
  BY <1>4, Basics, MutexesKept DEF mutexVars
<1>13. /\ state' \in [Threads -> States] /\ queue' \in [Threads -> Queues \cup {NoQueue}]
       /\ link' \in [Queues -> Seq(Threads)] /\ resched' \in BOOLEAN
  BY <1>1, <1>3, <1>4, <1>10, Basics DEF TypeOK, States, Joins, LinksOK
<1> QED BY <1>4, <1>8, <1>11, <1>12, <1>13, Basics, Assembled DEF TypeOK, mutexVars

\* The thread runs again, so the defence of OSSleepThread has nothing to do.
LEMMA OSSleepThreadReturnsStep ==
  ASSUME IInv, OSSleepThreadReturns
  PROVE  IInv'
<1>1. At("parked") /\ state[host] = "running"
  BY RunsUnder DEF OSSleepThreadReturns, FrameOps, SafeOps
<1>2. Return(<<>>) /\ UNCHANGED <<osvars, timerVars, cpuVars>>
  BY <1>1 DEF OSSleepThreadReturns, osvars, queueVars
<1>3. /\ timers' \in SUBSET Threads /\ parks' \in SUBSET Threads
      /\ strandSeen' \in SUBSET Threads
  BY <1>2, Basics DEF timerVars, TypeOK
<1> QED BY <1>1, <1>2, <1>3, NoFrames, RunningCall DEF FrameOps, SafeOps

-----------------------------------------------------------------------------
(* Mutexes.                                                                *)

LEMMA OSLockMutexTakesStep ==
  ASSUME IInv, OSLockMutexTakes
  PROVE  IInv'
<1>0. PICK o \in {"lock", "relock"} : At(o)
  BY DEF OSLockMutexTakes
<1>1. Top.op = o /\ Top \in GoodFrame /\ host \in Threads /\ state[host] = "running"
  BY <1>0, Basics, RunsUnder DEF FrameOps, SafeOps
<1>2. PICK m : m = Top.que
  OBVIOUS
<1>3. m \in Mutexes
  BY <1>1, <1>2 DEF GoodFrame
<1>4. /\ owner[m] \in {NoThread, host}
      /\ owner' = [owner EXCEPT ![m] = host]
      /\ count' = [count EXCEPT ![m] = @ + 1]
      /\ held' = [held EXCEPT ![host] = @ \cup {m}]
      /\ blockedOn' \in {blockedOn, [blockedOn EXCEPT ![host] = NoQueue]}
      /\ Return(<<>>)
      /\ UNCHANGED <<state, suspend, prio, resched, lifeVars, queueVars, timerVars, cpuVars>>
  BY <1>2 DEF OSLockMutexTakes
<1>5. ControlSound'
  <2>1. NoneStarts /\ state'[host] = "running"
    BY <1>1, <1>4 DEF NoneStarts
  <2> QED BY <1>0, <1>4, <2>1, NoFrames, RunningStep DEF FrameOps, SafeOps
<1>6. QueuesSound'
  BY <1>4, Basics, QueuesKept DEF queueVars
<1>7. /\ owner' \in [Mutexes -> Threads \cup {NoThread}] /\ count' \in [Mutexes -> Nat]
      /\ held' \in [Threads -> SUBSET Mutexes]
      /\ blockedOn' \in [Threads -> Mutexes \cup {NoQueue}]
  <2>1. /\ owner \in [Mutexes -> Threads \cup {NoThread}] /\ count \in [Mutexes -> Nat]
        /\ held \in [Threads -> SUBSET Mutexes]
        /\ blockedOn \in [Threads -> Mutexes \cup {NoQueue}]
    BY Basics DEF TypeOK
  <2>2. owner' \in [Mutexes -> Threads \cup {NoThread}]
    BY <1>1, <1>4, <2>1
  <2>3. count' \in [Mutexes -> Nat]
    BY <1>3, <1>4, <2>1
  <2>4. held' \in [Threads -> SUBSET Mutexes]
    BY <1>1, <1>3, <1>4, <2>1
  <2>5. blockedOn' \in [Threads -> Mutexes \cup {NoQueue}]
    BY <1>4, <2>1
  <2> QED BY <2>2, <2>3, <2>4, <2>5
<1>8. MutexesAgree'
  BY <1>1, <1>3, <1>4, Basics, ConstantsAssumption DEF MutexesAgree, TypeOK
<1> QED BY <1>4, <1>5, <1>6, <1>7, <1>8, Basics, Assembled DEF TypeOK, queueVars

\* A thread that has to wait for a mutex promotes its owner first.
LEMMA OSLockMutexBlocksStep ==
  ASSUME IInv, OSLockMutexBlocks
  PROVE  IInv'
<1>0. PICK o \in {"lock", "relock"} : At(o)
  BY DEF OSLockMutexBlocks
<1>1. Top.op = o /\ Top \in GoodFrame /\ host \in Threads /\ state[host] = "running"
  BY <1>0, Basics, RunsUnder DEF FrameOps, SafeOps
<1>2. PICK m, u : m = Top.que /\ u = owner[m]
  OBVIOUS
<1>3. m \in Mutexes /\ m \in WaitQueue /\ u \in Threads
  <2>1. m \in Mutexes
    BY <1>1, <1>2 DEF GoodFrame
  <2> QED BY <2>1, <1>2, Basics, ConstantsAssumption
      DEF OSLockMutexBlocks, TypeOK, WaitQueue, Queues
<1>4. PICK fs : fs = <<FT("promote", u), FQ("sleep", m), FQ("relock", m)>> /\ Return(fs)
  BY <1>2 DEF OSLockMutexBlocks
<1>5. /\ blockedOn' = [blockedOn EXCEPT ![host] = m]
      /\ UNCHANGED <<state, suspend, prio, held, owner, count, resched, lifeVars,
                     queueVars, timerVars, cpuVars>>
  BY <1>2 DEF OSLockMutexBlocks
<1>6. PlainFrames(fs)
  <2>1. /\ FT("promote", u) \in GoodFrame /\ FT("promote", u).op = "promote"
        /\ FQ("sleep", m) \in GoodFrame /\ FQ("sleep", m).op = "sleep"
        /\ FQ("relock", m) \in GoodFrame /\ FQ("relock", m).op = "relock"
    BY <1>3, ThreadFrameIs, QueueFrameIs, MutexFrameIs
  <2> QED BY <1>4, <2>1, ThreeFrames
<1>7. ControlSound'
  <2>1. NoneStarts /\ state'[host] = "running"
    BY <1>1, <1>5 DEF NoneStarts
  <2> QED BY <1>0, <1>4, <1>5, <1>6, <2>1, RunningStep DEF FrameOps, SafeOps
<1>8. QueuesSound' /\ MutexesAgree'
  BY <1>5, Basics, QueuesKept, MutexesKept DEF queueVars
<1>9. blockedOn' \in [Threads -> Mutexes \cup {NoQueue}]
  BY <1>1, <1>3, <1>5, Basics DEF TypeOK
<1> QED BY <1>5, <1>7, <1>8, <1>9, Basics, Assembled DEF TypeOK, queueVars

\* An unlock that only counts down.
LEMMA OSUnlockMutexKeepsStep ==
  ASSUME IInv, OSUnlockMutexKeeps
  PROVE  IInv'
<1>1. At("unlock") /\ Top \in GoodFrame /\ host \in Threads /\ state[host] = "running"
      /\ Top.op = "unlock"
  BY Basics, RunsUnder DEF OSUnlockMutexKeeps, FrameOps, SafeOps
<1>2. PICK m : m = Top.que
  OBVIOUS
<1>3. m \in Mutexes
  BY <1>1, <1>2 DEF GoodFrame
<1>4. /\ owner[m] # host \/ count[m] > 1
      /\ count' = IF owner[m] = host THEN [count EXCEPT ![m] = @ - 1] ELSE count
      /\ Return(<<>>)
      /\ UNCHANGED <<state, suspend, prio, blockedOn, held, owner, resched,
                     lifeVars, queueVars, timerVars, cpuVars>>
  BY <1>2 DEF OSUnlockMutexKeeps
<1>5. ControlSound'
  <2>1. NoneStarts /\ state'[host] = "running"
    BY <1>1, <1>4 DEF NoneStarts
  <2> QED BY <1>1, <1>4, <2>1, NoFrames, RunningStep DEF FrameOps, SafeOps
<1>6. QueuesSound'
  BY <1>4, Basics, QueuesKept DEF queueVars
<1>7. count' \in [Mutexes -> Nat]
  BY <1>3, <1>4, Basics DEF TypeOK
<1>8. MutexesAgree'
  BY <1>3, <1>4, Basics DEF MutexesAgree, TypeOK
<1> QED BY <1>4, <1>5, <1>6, <1>7, <1>8, Basics, Assembled DEF TypeOK, queueVars

\* An unlock that gives the mutex and the inherited priority up.
LEMMA OSUnlockMutexReleasesStep ==
  ASSUME IInv, OSUnlockMutexReleases
  PROVE  IInv'
<1>1. At("unlock") /\ Top \in GoodFrame /\ host \in Threads /\ state[host] = "running"
      /\ Top.op = "unlock"
  BY Basics, RunsUnder DEF OSUnlockMutexReleases, FrameOps, SafeOps
<1>2. PICK m : m = Top.que
  OBVIOUS
<1>3. m \in Mutexes /\ m \in WaitQueue
  BY <1>1, <1>2, ConstantsAssumption DEF GoodFrame, WaitQueue, Queues
<1>4. /\ owner[m] = host /\ count[m] = 1
      /\ owner' = [owner EXCEPT ![m] = NoThread]
      /\ count' = [count EXCEPT ![m] = 0]
      /\ held' = [held EXCEPT ![host] = @ \ {m}]
      /\ UNCHANGED <<state, suspend, blockedOn, resched, lifeVars, queueVars,
                     timerVars, cpuVars>>
  BY <1>2 DEF OSUnlockMutexReleases
<1>5. PICK fs : fs = <<FQ("wake", m)>> /\ Return(fs)
  BY <1>2 DEF OSUnlockMutexReleases
<1>6. PlainFrames(fs)
  BY <1>3, <1>5, QueueFrameIs, OneFrame
<1>7. ControlSound'
  <2>1. NoneStarts /\ state'[host] = "running"
    BY <1>1, <1>4 DEF NoneStarts
  <2> QED BY <1>1, <1>4, <1>5, <1>6, <2>1, RunningStep DEF FrameOps, SafeOps
<1>8. PICK p \in Priorities : prio' \in {prio, [prio EXCEPT ![host] = p]}
  <2>1. EffectivePriority(host, held[host] \ {m}) \in Priorities
    BY <1>1, Basics, EffectiveInRange DEF TypeOK
  <2>2. prio' \in {prio, [prio EXCEPT ![host] = EffectivePriority(host, held[host] \ {m})]}
    BY <1>2 DEF OSUnlockMutexReleases
  <2> QED BY <2>1, <2>2
<1>9. QueuesSound'
  <2>1. \A q \in Queues : ~Member(link[q], host)
    BY <1>1, Basics DEF QueuesSound, LinkExact, InQueue
  <2>2. LinksOK(link') /\ pending' = Pend(link')
    BY <1>4, Basics, LinkIsOK DEF queueVars
  <2>3. \A t \in Threads \ {host} :
          /\ state'[t] = state[t] /\ suspend'[t] = suspend[t]
          /\ prio'[t] = prio[t] /\ queue'[t] = queue[t]
          /\ \A q \in Queues : Member(link'[q], t) <=> Member(link[q], t)
    BY <1>4, <1>8, Basics DEF TypeOK, queueVars
  <2>4. state'[host] = "running" /\ prio'[host] \in Priorities
    BY <1>1, <1>4, <1>8, RunningIsOnHost, Basics DEF TypeOK
  <2>5. \A q \in Queues : ~Member(link'[q], host)
    BY <1>4, <2>1 DEF queueVars
  <2> QED BY <1>1, <2>2, <2>3, <2>4, <2>5, Basics, ThreadMoves DEF InQueue
<1>10. /\ owner' \in [Mutexes -> Threads \cup {NoThread}] /\ count' \in [Mutexes -> Nat]
       /\ held' \in [Threads -> SUBSET Mutexes]
       /\ prio' \in [Threads -> Priorities \cup {SuspendedWaitPriority}]
  <2>1. /\ owner \in [Mutexes -> Threads \cup {NoThread}] /\ count \in [Mutexes -> Nat]
        /\ held \in [Threads -> SUBSET Mutexes]
        /\ prio \in [Threads -> Priorities \cup {SuspendedWaitPriority}]
    BY Basics DEF TypeOK
  <2>2. owner' \in [Mutexes -> Threads \cup {NoThread}] /\ count' \in [Mutexes -> Nat]
    BY <1>4, <2>1
  <2>3. held' \in [Threads -> SUBSET Mutexes]
    BY <1>4, <2>1
  <2>4. prio' \in [Threads -> Priorities \cup {SuspendedWaitPriority}]
    BY <1>8, <2>1
  <2> QED BY <2>2, <2>3, <2>4
<1>11. MutexesAgree'
  BY <1>1, <1>3, <1>4, Basics, ConstantsAssumption DEF MutexesAgree, TypeOK
<1> QED BY <1>4, <1>7, <1>9, <1>10, <1>11, Basics, Assembled DEF TypeOK, queueVars

\* A thread that is not suspended gets another priority.
LEMMA SetPriorityIs ==
  ASSUME IInv, NEW u \in Threads, NEW p \in Priorities, suspend[u] = 0,
         SetPriority(u, p), UNCHANGED <<state, suspend>>
  PROVE  /\ QueuesSound' /\ (resched => resched') /\ resched' \in BOOLEAN
         /\ prio' \in [Threads -> Priorities \cup {SuspendedWaitPriority}]
         /\ queue' \in [Threads -> Queues \cup {NoQueue}]
         /\ link' \in [Queues -> Seq(Threads)] /\ pending' \in SUBSET Priorities
<1>1. LinksOK(link) /\ pending = Pend(link) /\ p \in Queues
  BY Basics, LinkIsOK DEF Queues
<1>2. /\ prio' \in {prio, [prio EXCEPT ![u] = p]}
      /\ ~Terminated(u) => prio'[u] = p
  BY Basics DEF SetPriority, TypeOK
<1>3. /\ prio' \in [Threads -> Priorities \cup {SuspendedWaitPriority}]
      /\ \A t \in Threads \ {u} : prio'[t] = prio[t]
  BY ZenonT(60), <1>2, Basics DEF TypeOK
<1>4. CASE state[u] = "ready"
  <2>1. /\ link' = [Removed(u) EXCEPT ![p] = Enqueue(@, u, p)]
        /\ queue' = [queue EXCEPT ![u] = p]
        /\ pending' = PendingAfterRemoval(u) \cup {p}
        /\ resched' = TRUE
    BY <1>4 DEF SetPriority
  <2>2. PICK r : r = Removed(u)
    OBVIOUS
  <2>3. /\ LinksOK(r) /\ Pend(r) = PendingAfterRemoval(u)
        /\ \A q \in Queues, t \in Threads : Member(r[q], t) <=> Member(link[q], t) /\ t # u
    BY <2>2, RemovedIs, Basics
  <2>4. ~Member(r[p], u)
    BY <1>1, <2>3
  <2>5. Joins(link', r, p, u)
    BY <1>1, <2>1, <2>2, <2>3, <2>4, LinkEnqueue
  <2>6. LinksOK(link') /\ pending' = Pend(link')
    BY <2>1, <2>3, <2>5 DEF Joins
  <2>7. \A t \in Threads \ {u} :
          /\ state'[t] = state[t] /\ suspend'[t] = suspend[t]
          /\ prio'[t] = prio[t] /\ queue'[t] = queue[t]
          /\ \A q \in Queues : Member(link'[q], t) <=> Member(link[q], t)
    BY <1>3, <2>1, <2>3, <2>5, Basics DEF Joins, TypeOK
  <2>8. /\ state'[u] = "ready" /\ suspend'[u] = 0
        /\ queue'[u] = p /\ prio'[u] = p
    BY <1>2, <1>4, <2>1, Basics DEF TypeOK, Terminated
  <2>9. \A q \in Queues : Member(link'[q], u) <=> q = p
    BY <2>3, <2>5 DEF Joins
  <2>10. QueuesSound'
    BY <2>6, <2>7, <2>8, <2>9, Basics, ThreadMoves DEF InQueue
  <2>11. queue' \in [Threads -> Queues \cup {NoQueue}]
    BY <1>1, <2>1, Basics DEF TypeOK
  <2> QED BY <1>3, <2>1, <2>6, <2>10, <2>11 DEF LinksOK, Pend
<1>5. CASE state[u] = "waiting"
  <2>1. link' = Requeued(u, p) /\ UNCHANGED <<queue, pending, resched>>
    BY <1>5 DEF SetPriority
  <2>2. /\ LinksOK(link') /\ pending' = Pend(link')
        /\ \A q \in Queues, t \in Threads : Member(link'[q], t) <=> Member(link[q], t)
    BY <1>5, <2>1, RequeuedIs, Basics
  <2>3. prio'[u] = p
    BY <1>2, <1>5 DEF Terminated
  <2>4. /\ \A q \in Queues : Member(link'[q], u) <=> InQueue(u)' /\ queue'[u] = q
        /\ queue'[u] \in WaitQueue
    BY <1>5, <2>1, <2>2, Basics DEF QueuesSound, LinkExact, InQueue, QueueFits
  <2>5. \A t \in Threads \ {u} :
          /\ state'[t] = state[t] /\ suspend'[t] = suspend[t]
          /\ prio'[t] = prio[t] /\ queue'[t] = queue[t]
          /\ \A q \in Queues : Member(link'[q], t) <=> Member(link[q], t)
    BY <1>3, <2>1, <2>2
  <2>6. state'[u] = "waiting"
    BY <1>5
  <2>7. QueuesSound'
    BY <2>2, <2>3, <2>4, <2>5, <2>6, Basics, ThreadMoves
  <2> QED BY <1>3, <2>1, <2>2, <2>7, Basics DEF TypeOK, LinksOK
<1>6. CASE state[u] \notin {"ready", "waiting"}
  <2>1. UNCHANGED queueVars /\ (resched => resched') /\ resched' \in BOOLEAN
    BY <1>6, Basics DEF SetPriority, TypeOK
  <2>2. LinksOK(link') /\ pending' = Pend(link')
    BY <1>1, <2>1 DEF queueVars
  <2>3. \A q \in Queues : Member(link'[q], u) <=> InQueue(u)' /\ queue'[u] = q
    BY <1>6, <2>1, Basics DEF QueuesSound, LinkExact, InQueue, queueVars
  <2>4. \A t \in Threads \ {u} :
          /\ state'[t] = state[t] /\ suspend'[t] = suspend[t]
          /\ prio'[t] = prio[t] /\ queue'[t] = queue[t]
          /\ \A q \in Queues : Member(link'[q], t) <=> Member(link[q], t)
    BY <1>3, <2>1 DEF queueVars
  <2>5. suspend'[u] = 0 /\ state'[u] \notin {"dead", "moribund"} => prio'[u] \in Priorities
    BY <1>2 DEF Terminated
  <2>6. state'[u] # "ready" /\ state'[u] # "waiting"
    BY <1>6
  <2>7. QueuesSound'
    BY <2>2, <2>3, <2>4, <2>5, <2>6, Basics, ThreadMoves
  <2> QED BY <1>3, <2>1, <2>7, Basics DEF TypeOK, queueVars
<1> QED BY <1>4, <1>5, <1>6

\* The next thread of a chain is a thread, or there is none.
LEMMA NextInChainIs ==
  ASSUME IInv, NEW u \in Threads
  PROVE  /\ NextInChain(u) \in Threads \cup {NoThread}
         /\ OwnerOf(blockedOn[u]) \in Threads \cup {NoThread}
  BY Basics DEF NextInChain, OwnerOf, TypeOK

\* One step of the promotion along a chain of owners.
LEMMA PromoteThreadPriorityStep ==
  ASSUME IInv, PromoteThreadPriority
  PROVE  IInv'
<1>1. At("promote") /\ Top \in GoodFrame /\ host \in Threads /\ state[host] = "running"
  BY Basics, RunsUnder DEF PromoteThreadPriority, FrameOps, SafeOps
<1>2. PICK u, p : u = Top.thr /\ p = prio[host]
  OBVIOUS
<1>3. u \in Threads \cup {NoThread} /\ p \in Priorities
  BY <1>1, <1>2, RunningIsOnHost DEF GoodFrame, Frame
<1>4. UNCHANGED <<state, suspend, lifeVars, mutexVars, timerVars, cpuVars>>
  BY DEF PromoteThreadPriority
<1>5. NoneStarts /\ state'[host] = "running"
  BY <1>1, <1>4 DEF NoneStarts
<1>6. CASE u = NoThread \/ suspend[u] > 0 \/ prio[u] <= p
  <2>1. Return(<<>>) /\ UNCHANGED <<osvars, timerVars, cpuVars>>
    BY <1>2, <1>4, <1>6 DEF PromoteThreadPriority, osvars
  <2>2. /\ timers' \in SUBSET Threads /\ parks' \in SUBSET Threads
        /\ strandSeen' \in SUBSET Threads
    BY <1>4, Basics DEF timerVars, TypeOK
  <2> QED BY <1>1, <2>1, <2>2, NoFrames, RunningCall DEF FrameOps, SafeOps
<1>7. CASE ~(u = NoThread \/ suspend[u] > 0 \/ prio[u] <= p)
  <2>1. SetPriority(u, p) /\ Return(<<FT("promote", NextInChain(u))>>)
    BY <1>2, <1>7 DEF PromoteThreadPriority
  <2>2. u \in Threads /\ suspend[u] = 0
    BY <1>3, <1>7, Basics DEF TypeOK
  <2>3. PICK fs : fs = <<FT("promote", NextInChain(u))>> /\ Return(fs)
    BY <2>1
  <2>4. PlainFrames(fs)
    BY <2>2, <2>3, NextInChainIs, ChainFrameIs, OneFrame
  <2>5. ControlSound'
    BY <1>1, <1>4, <1>5, <2>3, <2>4, RunningStep DEF FrameOps, SafeOps
  <2>6. MutexesAgree'
    BY <1>4, Basics, MutexesKept DEF mutexVars
  <2>7. /\ QueuesSound' /\ resched' \in BOOLEAN
        /\ prio' \in [Threads -> Priorities \cup {SuspendedWaitPriority}]
        /\ queue' \in [Threads -> Queues \cup {NoQueue}]
        /\ link' \in [Queues -> Seq(Threads)] /\ pending' \in SUBSET Priorities
    BY <1>3, <1>4, <2>1, <2>2, SetPriorityIs
  <2> QED BY <1>4, <2>5, <2>6, <2>7, Basics, Assembled DEF TypeOK, mutexVars
<1> QED BY <1>6, <1>7

\* One step of the recomputation along a chain of owners.
LEMMA PropagateMutexOwnerPriorityStep ==
  ASSUME IInv, PropagateMutexOwnerPriority
  PROVE  IInv'
<1>1. At("propagate") /\ Top \in GoodFrame /\ Top.op = "propagate"
  BY TopFrame DEF PropagateMutexOwnerPriority
<1>2. PICK u, p : u = Top.thr /\ p = EffectivePriority(u, held[u])
  OBVIOUS
<1>3. u \in Threads \cup {NoThread}
  BY <1>1, <1>2 DEF GoodFrame, Frame
<1>4. UNCHANGED <<state, suspend, lifeVars, mutexVars, timerVars, cpuVars>>
  BY DEF PropagateMutexOwnerPriority
<1>5. NoneStarts /\ state' = state /\ ~Selects(Top)
  BY <1>1, <1>4 DEF NoneStarts, Selects
<1>6. CASE u = NoThread \/ suspend[u] > 0 \/ prio[u] = p
  <2>1. Return(<<>>) /\ UNCHANGED <<osvars, timerVars, cpuVars>>
    BY <1>2, <1>4, <1>6 DEF PropagateMutexOwnerPriority, osvars
  <2>2. /\ timers' \in SUBSET Threads /\ parks' \in SUBSET Threads
        /\ strandSeen' \in SUBSET Threads
    BY <1>4, Basics DEF timerVars, TypeOK
  <2> QED BY <1>1, <1>5, <2>1, <2>2, NoFrames, SafeCall DEF SafeOps
<1>7. CASE ~(u = NoThread \/ suspend[u] > 0 \/ prio[u] = p)
  <2>1. SetPriority(u, p) /\ Return(<<FT("propagate", NextInChain(u))>>)
    BY <1>2, <1>7 DEF PropagateMutexOwnerPriority
  <2>2. u \in Threads /\ suspend[u] = 0 /\ p \in Priorities
    BY <1>2, <1>3, <1>7, Basics, EffectiveInRange DEF TypeOK
  <2>3. PICK fs : fs = <<FT("propagate", NextInChain(u))>> /\ Return(fs)
    BY <2>1
  <2>4. SafeFrames(fs)
    BY <2>2, <2>3, NextInChainIs, ChainFrameIs, OneFrame DEF SafeOps
  <2>5. /\ QueuesSound' /\ resched' \in BOOLEAN /\ (resched => resched')
        /\ prio' \in [Threads -> Priorities \cup {SuspendedWaitPriority}]
        /\ queue' \in [Threads -> Queues \cup {NoQueue}]
        /\ link' \in [Queues -> Seq(Threads)] /\ pending' \in SUBSET Priorities
    BY <1>4, <2>1, <2>2, SetPriorityIs
  <2>6. ControlSound'
    BY <1>1, <1>4, <1>5, <2>3, <2>4, <2>5, ReturnedIs, SafeStep DEF SafeOps
  <2>7. MutexesAgree'
    BY <1>4, Basics, MutexesKept DEF mutexVars
  <2> QED BY <1>4, <2>5, <2>6, <2>7, Basics, Assembled DEF TypeOK, mutexVars
<1> QED BY <1>6, <1>7

-----------------------------------------------------------------------------
(* Suspension.                                                             *)

\* The suspend count of a thread that stays suspended, or stays as it is.
LEMMA CountStep ==
  ASSUME IInv, NEW o \in {"suspend", "resume"}, At(o), NEW u \in Threads, NEW n \in Nat,
         suspend[u] = 0 <=> n = 0, suspend' = [suspend EXCEPT ![u] = n], Return(<<>>),
         UNCHANGED <<state, prio, resched, lifeVars, mutexVars, queueVars, timerVars, cpuVars>>
  PROVE  IInv'
<1>1. Top.op = o /\ o \in SafeOps
  BY TopFrame DEF SafeOps
<1>2. NoneStarts
  BY Basics DEF NoneStarts, TypeOK
<1>3. ControlSound'
  BY <1>1, <1>2, NoFrames, ReturnedIs, SafeStep DEF Selects
<1>4. QueuesSound'
  <2>1. LinksOK(link') /\ pending' = Pend(link')
    BY Basics, LinkIsOK DEF queueVars
  <2>2. \A t \in Threads \ {u} :
          /\ state'[t] = state[t] /\ suspend'[t] = suspend[t]
          /\ prio'[t] = prio[t] /\ queue'[t] = queue[t]
          /\ \A q \in Queues : Member(link'[q], t) <=> Member(link[q], t)
    BY Basics DEF TypeOK, queueVars
  <2>3. /\ suspend'[u] = 0 <=> suspend[u] = 0
        /\ state'[u] = state[u] /\ prio'[u] = prio[u] /\ queue'[u] = queue[u]
    BY Basics DEF TypeOK, queueVars
  <2>4. \A q \in Queues : Member(link'[q], u) <=> InQueue(u)' /\ queue'[u] = q
    BY <2>3, Basics DEF QueuesSound, LinkExact, InQueue, queueVars
  <2>5. /\ state'[u] = "ready" /\ suspend'[u] = 0 => queue'[u] = prio'[u]
        /\ state'[u] = "waiting" => queue'[u] \in WaitQueue
        /\ suspend'[u] = 0 /\ state'[u] \notin {"dead", "moribund"} => prio'[u] \in Priorities
    BY <2>3, Basics DEF QueuesSound, QueueFits, PrioritySound, Terminated
  <2> QED BY <2>1, <2>2, <2>4, <2>5, Basics, ThreadMoves
<1>5. MutexesAgree'
  BY Basics, MutexesKept DEF mutexVars
<1>6. suspend' \in [Threads -> Nat]
  BY Basics DEF TypeOK
<1> QED BY <1>3, <1>4, <1>5, <1>6, Basics, Assembled DEF TypeOK, mutexVars, queueVars

\* A suspension that only counts.
LEMMA OSSuspendThreadAgainStep ==
  ASSUME IInv, OSSuspendThreadAgain
  PROVE  IInv'
<1>1. At("suspend") /\ Top.op = "suspend" /\ Top \in GoodFrame
  BY TopFrame DEF OSSuspendThreadAgain
<1>2. PICK u, n : u = Top.thr /\ n = suspend[u] + 1
  OBVIOUS
<1>3. u \in Threads /\ suspend[u] > 0 /\ suspend[u] \in Nat
  BY <1>1, <1>2, Basics DEF OSSuspendThreadAgain, GoodFrame, TypeOK
<1>4. n \in Nat /\ (suspend[u] = 0 <=> n = 0)
  BY <1>2, <1>3
<1>5. suspend' = [suspend EXCEPT ![u] = n]
  BY <1>2 DEF OSSuspendThreadAgain
<1> QED BY <1>1, <1>3, <1>4, <1>5, CountStep DEF OSSuspendThreadAgain

\* A resumption that only counts, or finds nothing to do.
LEMMA OSResumeThreadCountsStep ==
  ASSUME IInv, OSResumeThreadCounts
  PROVE  IInv'
<1>1. At("resume") /\ Top.op = "resume" /\ Top \in GoodFrame
  BY TopFrame DEF OSResumeThreadCounts
<1>2. PICK u, n : u = Top.thr /\ n = IF suspend[u] = 0 THEN 0 ELSE suspend[u] - 1
  OBVIOUS
<1>3. u \in Threads /\ suspend[u] # 1 /\ suspend[u] \in Nat
  BY <1>1, <1>2, Basics DEF OSResumeThreadCounts, GoodFrame, TypeOK
<1>4. n \in Nat /\ (suspend[u] = 0 <=> n = 0)
  BY <1>2, <1>3
<1>5. suspend' = [suspend EXCEPT ![u] = n]
  BY <1>2 DEF OSResumeThreadCounts
<1> QED BY <1>1, <1>3, <1>4, <1>5, CountStep DEF OSResumeThreadCounts

\* The frames left after a suspension or a resumption of u.
LEMMA ChainAndResched ==
  ASSUME IInv, NEW u \in Threads, NEW w, NEW fs,
         fs = (IF w THEN <<FT("propagate", OwnerOf(blockedOn[u]))>> ELSE <<>>)
              \o <<F("resched")>>
  PROVE  SafeFrames(fs) /\ EndsInResched(fs)
<1>1. SafeFrames(<<FT("propagate", OwnerOf(blockedOn[u]))>>)
  BY NextInChainIs, ChainFrameIs, OneFrame DEF SafeOps
<1>2. SafeFrames(IF w THEN <<FT("propagate", OwnerOf(blockedOn[u]))>> ELSE <<>>)
  BY <1>1, NoFrames
<1>3. SafeFrames(<<F("resched")>>) /\ EndsInResched(<<F("resched")>>)
  BY PlainFrameIs, OneFrame DEF SafeOps
<1> QED BY <1>2, <1>3, ConcatFrames DEF SafeFrames

\* The suspension that takes a thread off its run queue, or asks the running one to
\* leave.
LEMMA OSSuspendThreadStep ==
  ASSUME IInv, OSSuspendThread
  PROVE  IInv'
<1>1. At("suspend") /\ Top.op = "suspend" /\ Top \in GoodFrame /\ "suspend" \in SafeOps
  BY TopFrame DEF OSSuspendThread, SafeOps
<1>2. PICK u : u = Top.thr
  OBVIOUS
<1>3. u \in Threads
  BY <1>1, <1>2 DEF GoodFrame
<1>4. /\ suspend[u] = 0 /\ suspend' = [suspend EXCEPT ![u] = 1]
      /\ state' = IF state[u] = "running" THEN [state EXCEPT ![u] = "ready"] ELSE state
      /\ resched' = (resched \/ state[u] = "running")
      /\ prio' = IF state[u] = "waiting"
                 THEN [prio EXCEPT ![u] = SuspendedWaitPriority] ELSE prio
      /\ pending' = IF state[u] = "ready" THEN PendingAfterRemoval(u) ELSE pending
      /\ queue' = IF state[u] = "ready" THEN [queue EXCEPT ![u] = NoQueue] ELSE queue
      /\ link' = CASE state[u] = "ready" -> Removed(u)
                   [] state[u] = "waiting" -> Requeued(u, SuspendedWaitPriority)
                   [] OTHER -> link
      /\ UNCHANGED <<lifeVars, mutexVars, timerVars, cpuVars>>
  BY <1>2 DEF OSSuspendThread
<1>5. PICK w, fs :
        /\ w = (state[u] = "waiting")
        /\ fs = (IF w THEN <<FT("propagate", OwnerOf(blockedOn[u]))>> ELSE <<>>)
                \o <<F("resched")>>
        /\ Return(fs)
  BY <1>2 DEF OSSuspendThread
<1>6. SafeFrames(fs) /\ EndsInResched(fs) /\ Returned(fs)
  BY <1>1, <1>3, <1>5, ChainAndResched, ReturnedIs
<1>7. NoneStarts /\ (resched => resched')
  BY <1>3, <1>4, Basics DEF NoneStarts, TypeOK
<1>8. ControlSound'
  <2>1. state[host] = "running" /\ state'[host] # "running" => resched'
    BY <1>3, <1>4, Basics DEF TypeOK
  <2> QED BY <1>1, <1>4, <1>6, <1>7, <2>1, SafeStep DEF Selects
<1>9. /\ LinksOK(link') /\ pending' = Pend(link')
      /\ \A t \in Threads \ {u}, q \in Queues : Member(link'[q], t) <=> Member(link[q], t)
      /\ \A q \in Queues : Member(link'[q], u) <=> state[u] = "waiting" /\ queue[u] = q
  <2>1. CASE state[u] = "ready"
    <3>1. link' = Removed(u) /\ pending' = PendingAfterRemoval(u)
      BY <1>4, <2>1
    <3> QED BY <1>3, <2>1, <3>1, Basics, RemovedIs
  <2>2. CASE state[u] = "waiting"
    <3>1. link' = Requeued(u, SuspendedWaitPriority) /\ pending' = pending
      BY <1>4, <2>2
    <3>2. /\ LinksOK(link') /\ pending' = Pend(link')
          /\ \A q \in Queues, t \in Threads : Member(link'[q], t) <=> Member(link[q], t)
      BY <1>3, <2>2, <3>1, Basics, RequeuedIs
    <3> QED BY <1>3, <2>2, <3>2, Basics DEF QueuesSound, LinkExact, InQueue
  <2>3. CASE state[u] \notin {"ready", "waiting"}
    <3>1. link' = link /\ pending' = pending
      BY <1>4, <2>3
    <3> QED BY <1>3, <2>3, <3>1, Basics, LinkIsOK DEF QueuesSound, LinkExact, InQueue
  <2> QED BY <2>1, <2>2, <2>3
<1>10. QueuesSound'
  <2>1. \A t \in Threads \ {u} :
          /\ state'[t] = state[t] /\ suspend'[t] = suspend[t]
          /\ prio'[t] = prio[t] /\ queue'[t] = queue[t]
          /\ \A q \in Queues : Member(link'[q], t) <=> Member(link[q], t)
    BY <1>4, <1>9, Basics DEF TypeOK
  <2>2. /\ suspend'[u] = 1 /\ (state'[u] = "waiting" <=> state[u] = "waiting")
        /\ state[u] = "waiting" => queue'[u] = queue[u] /\ queue[u] \in WaitQueue
    BY <1>3, <1>4, Basics DEF TypeOK, QueuesSound, QueueFits
  <2>3. \A q \in Queues : Member(link'[q], u) <=> InQueue(u)' /\ queue'[u] = q
    BY <1>9, <2>2 DEF InQueue
  <2> QED BY <1>3, <1>9, <2>1, <2>2, <2>3, Basics, ThreadMoves
<1>11. MutexesAgree'
  BY <1>4, Basics, MutexesKept DEF mutexVars
<1>12. /\ state' \in [Threads -> States] /\ suspend' \in [Threads -> Nat]
       /\ prio' \in [Threads -> Priorities \cup {SuspendedWaitPriority}]
       /\ queue' \in [Threads -> Queues \cup {NoQueue}] /\ resched' \in BOOLEAN
  BY <1>3, <1>4, Basics DEF TypeOK, States
<1>13. link' \in [Queues -> Seq(Threads)] /\ pending' \in SUBSET Priorities
  BY <1>9 DEF LinksOK, Pend
<1> QED BY <1>4, <1>8, <1>10, <1>11, <1>12, <1>13, Basics, Assembled DEF TypeOK, mutexVars

\* The resumption that puts a thread back, with its priority recomputed.
LEMMA OSResumeThreadStep ==
  ASSUME IInv, OSResumeThread
  PROVE  IInv'
<1>1. At("resume") /\ Top.op = "resume" /\ Top \in GoodFrame /\ "resume" \in SafeOps
  BY TopFrame DEF OSResumeThread, SafeOps
<1>2. PICK u, p : u = Top.thr /\ p = EffectivePriority(u, held[u])
  OBVIOUS
<1>3. u \in Threads /\ p \in Priorities /\ p \in Queues
  <2>1. u \in Threads
    BY <1>1, <1>2 DEF GoodFrame
  <2> QED BY <2>1, <1>2, Basics, EffectiveInRange DEF TypeOK, Queues
<1>4. /\ suspend[u] = 1 /\ suspend' = [suspend EXCEPT ![u] = 0]
      /\ timers' = timers \ {u} /\ parks' = parks \ {u}
      /\ prio' = IF Terminated(u) THEN prio ELSE [prio EXCEPT ![u] = p]
      /\ UNCHANGED <<strandSeen, lifeVars, mutexVars, cpuVars>>
  BY <1>2 DEF OSResumeThread
<1>5. PICK w, fs :
        /\ w = (state[u] = "waiting")
        /\ fs = (IF w THEN <<FT("propagate", OwnerOf(blockedOn[u]))>> ELSE <<>>)
                \o <<F("resched")>>
        /\ Return(fs)
  BY <1>2 DEF OSResumeThread
<1>6. SafeFrames(fs) /\ Returned(fs)
  BY <1>1, <1>3, <1>5, ChainAndResched, ReturnedIs
<1>7. state[u] # "running"
  BY <1>3, <1>4, RunningIsOnHost
<1>8. CASE state[u] = "ready"
  <2>1. /\ state' = [state EXCEPT ![u] = "ready"]
        /\ link' = [link EXCEPT ![p] = Enqueue(@, u, p)]
        /\ queue' = [queue EXCEPT ![u] = p]
        /\ pending' = pending \cup {p}
        /\ resched' = TRUE
    BY <1>2, <1>8 DEF OSResumeThread
  <2>2. LinksOK(link) /\ pending = Pend(link) /\ ~Member(link[p], u)
    BY <1>3, <1>4, <1>8, Basics, LinkIsOK DEF QueuesSound, LinkExact, InQueue
  <2>3. Joins(link', link, p, u)
    BY <1>3, <2>1, <2>2, LinkEnqueue
  <2>4. LinksOK(link') /\ pending' = Pend(link')
    BY <1>3, <2>1, <2>2, <2>3 DEF Joins
  <2>5. \A t \in Threads \ {u} :
          /\ state'[t] = state[t] /\ suspend'[t] = suspend[t]
          /\ prio'[t] = prio[t] /\ queue'[t] = queue[t]
          /\ \A q \in Queues : Member(link'[q], t) <=> Member(link[q], t)
    BY <1>4, <2>1, <2>3, Basics DEF Joins, TypeOK
  <2>6. /\ state'[u] = "ready" /\ suspend'[u] = 0
        /\ queue'[u] = p /\ prio'[u] = p
    BY <1>3, <1>4, <1>8, <2>1, Basics DEF TypeOK, Terminated
  <2>7. \A q \in Queues : Member(link'[q], u) <=> q = p
    BY <1>3, <1>4, <1>8, <2>3, Basics DEF Joins, QueuesSound, LinkExact, InQueue
  <2>8. QueuesSound'
    BY <1>3, <2>4, <2>5, <2>6, <2>7, Basics, ThreadMoves DEF InQueue
  <2>9. NoneStarts /\ state'[host] = state[host] /\ (resched => resched')
    BY <1>3, <1>4, <1>8, <2>1, Basics DEF NoneStarts, TypeOK
  <2>10. ControlSound'
    BY <1>1, <1>4, <1>6, <2>9, SafeStep DEF Selects
  <2>11. MutexesAgree'
    BY <1>4, Basics, MutexesKept DEF mutexVars
  <2>12. /\ state' \in [Threads -> States] /\ suspend' \in [Threads -> Nat]
         /\ prio' \in [Threads -> Priorities \cup {SuspendedWaitPriority}]
         /\ queue' \in [Threads -> Queues \cup {NoQueue}] /\ resched' \in BOOLEAN
         /\ timers' \in SUBSET Threads /\ parks' \in SUBSET Threads
    BY <1>3, <1>4, <2>1, Basics DEF TypeOK, States
  <2>13. link' \in [Queues -> Seq(Threads)] /\ pending' \in SUBSET Priorities
    BY <2>4 DEF LinksOK, Pend
  <2>14. stack' \in [Threads -> Seq(Frame)]
    BY <2>10, StackTyped DEF ControlSound
  <2> QED BY <1>4, <2>8, <2>10, <2>11, <2>12, <2>13, <2>14, Basics
      DEF IInv, TypeOK, mutexVars, lifeVars, cpuVars
<1>9. CASE state[u] # "ready"
  <2>1. /\ UNCHANGED <<state, queue, pending, resched>>
        /\ link' = IF state[u] = "waiting" THEN Requeued(u, p) ELSE link
    BY <1>2, <1>7, <1>9 DEF OSResumeThread, queueVars
  <2>2. /\ LinksOK(link') /\ pending' = Pend(link')
        /\ \A q \in Queues, t \in Threads : Member(link'[q], t) <=> Member(link[q], t)
    <3>1. CASE state[u] = "waiting"
      BY <1>3, <2>1, <3>1, Basics, RequeuedIs
    <3>2. CASE state[u] # "waiting"
      BY <2>1, <3>2, Basics, LinkIsOK
    <3> QED BY <3>1, <3>2
  <2>3. \A t \in Threads \ {u} :
          /\ state'[t] = state[t] /\ suspend'[t] = suspend[t]
          /\ prio'[t] = prio[t] /\ queue'[t] = queue[t]
          /\ \A q \in Queues : Member(link'[q], t) <=> Member(link[q], t)
    BY <1>4, <2>1, <2>2, Basics DEF TypeOK
  <2>4. \A q \in Queues : Member(link'[q], u) <=> InQueue(u)' /\ queue'[u] = q
    BY <1>3, <1>9, <2>1, <2>2, Basics DEF QueuesSound, LinkExact, InQueue
  <2>5. /\ state'[u] # "ready"
        /\ state'[u] = "waiting" => queue'[u] \in WaitQueue
        /\ state'[u] \notin {"dead", "moribund"} => prio'[u] \in Priorities
    BY <1>3, <1>4, <1>9, <2>1, Basics DEF QueuesSound, QueueFits, Terminated, TypeOK
  <2>6. QueuesSound'
    BY <1>3, <2>2, <2>3, <2>4, <2>5, Basics, ThreadMoves
  <2>7. NoneStarts
    BY <1>3, <1>4, <1>7, <2>1, Basics DEF NoneStarts, TypeOK
  <2>8. ControlSound'
    BY <1>1, <1>4, <1>6, <2>1, <2>7, SafeStep DEF Selects
  <2>9. MutexesAgree'
    BY <1>4, Basics, MutexesKept DEF mutexVars
  <2>10. /\ suspend' \in [Threads -> Nat]
         /\ prio' \in [Threads -> Priorities \cup {SuspendedWaitPriority}]
         /\ timers' \in SUBSET Threads /\ parks' \in SUBSET Threads
    BY <1>3, <1>4, Basics DEF TypeOK
  <2>11. link' \in [Queues -> Seq(Threads)]
    BY <2>2 DEF LinksOK
  <2>12. stack' \in [Threads -> Seq(Frame)]
    BY <2>8, StackTyped DEF ControlSound
  <2> QED BY <1>4, <2>1, <2>6, <2>8, <2>9, <2>10, <2>11, <2>12, Basics
      DEF IInv, TypeOK, mutexVars, lifeVars, cpuVars
<1> QED BY <1>8, <1>9

\* The thread was resumed, so the defence of OSSleepTicks has nothing to do.
LEMMA OSSleepTicksReturnsStep ==
  ASSUME IInv, OSSleepTicksReturns
  PROVE  IInv'
<1>1. At("ticked") /\ suspend[host] = 0
  BY RunsUnder DEF OSSleepTicksReturns, FrameOps, SafeOps
<1>2. Return(<<>>) /\ UNCHANGED <<osvars, timerVars, cpuVars>>
  BY <1>1 DEF OSSleepTicksReturns, osvars, timerVars
<1>3. /\ timers' \in SUBSET Threads /\ parks' \in SUBSET Threads
      /\ strandSeen' \in SUBSET Threads
  BY <1>2, Basics DEF timerVars, TypeOK
<1> QED BY <1>1, <1>2, <1>3, NoFrames, RunningCall DEF FrameOps, SafeOps

-----------------------------------------------------------------------------
(* The life of a thread.                                                   *)

\* What is left to do after a termination.
LEMMA AfterTerminationIs ==
  ASSUME NEW u \in Threads
  PROVE  SafeFrames(AfterTermination(u))
<1>1. JoinQueue(u) \in WaitQueue
  BY ConstantsAssumption DEF JoinQueue, WaitQueue, Queues
<1> QED BY <1>1, ThreadFrameIs, QueueFrameIs, TwoFrames DEF AfterTermination, SafeOps

\* Threads that are not linked in a queue, and change to a state in which they are
\* not, do not disturb the queues.
LEMMA UnlinkedMoves ==
  ASSUME IInv, NEW u \in Threads, ~InQueue(u),
         state'[u] \in {"dead", "moribund", "running"} \/ (state'[u] = "ready" /\ suspend'[u] # 0),
         state'[u] = "running" => prio'[u] \in Priorities,
         \A t \in Threads \ {u} : state'[t] = state[t] /\ suspend'[t] = suspend[t]
                                  /\ prio'[t] = prio[t],
         UNCHANGED queueVars
  PROVE  QueuesSound'
<1>1. LinksOK(link') /\ pending' = Pend(link')
  BY Basics, LinkIsOK DEF queueVars
<1>2. \A t \in Threads \ {u} :
        /\ state'[t] = state[t] /\ suspend'[t] = suspend[t]
        /\ prio'[t] = prio[t] /\ queue'[t] = queue[t]
        /\ \A q \in Queues : Member(link'[q], t) <=> Member(link[q], t)
  BY DEF queueVars
<1>3. ~InQueue(u)' /\ state'[u] # "waiting"
  BY DEF InQueue
<1>4. \A q \in Queues : ~Member(link'[q], u)
  BY Basics DEF QueuesSound, LinkExact, queueVars
<1>5. /\ ~(state'[u] = "ready" /\ suspend'[u] = 0)
      /\ suspend'[u] = 0 /\ state'[u] \notin {"dead", "moribund"} => prio'[u] \in Priorities
  OBVIOUS
<1> QED BY <1>1, <1>2, <1>3, <1>4, <1>5, Basics, ThreadMoves

\* The running thread ends: it is on no queue and SelectThread is still to come.
LEMMA OSExitThreadStep ==
  ASSUME IInv, OSExitThread
  PROVE  IInv'
<1>1. At("exit") /\ host \in Threads /\ state[host] = "running"
  BY Basics, RunsUnder DEF OSExitThread, FrameOps, SafeOps
<1>2. /\ state' = [state EXCEPT ![host] = IF detached[host] THEN "dead" ELSE "moribund"]
      /\ threadList' \in {threadList, threadList \ {host}}
      /\ UNCHANGED <<suspend, prio, base, detached, resched, mutexVars, queueVars,
                     timerVars, cpuVars>>
  BY DEF OSExitThread, TerminateThreadCommon
<1>3. PICK fs : fs = AfterTermination(host) \o <<F("finish")>> /\ Return(fs)
  BY DEF OSExitThread
<1>4. PlainFrames(fs) /\ EndsInSelect(fs)
  <2>1. SafeFrames(AfterTermination(host))
    BY <1>1, AfterTerminationIs
  <2>2. SafeFrames(<<F("finish")>>) /\ EndsInSelect(<<F("finish")>>)
    BY PlainFrameIs, OneFrame DEF SafeOps
  <2>3. SafeFrames(fs) /\ EndsInSelect(fs)
    BY <1>3, <2>1, <2>2, ConcatFrames DEF SafeFrames
  <2> QED BY <2>3, SafeIsPlain
<1>5. NoneStarts /\ state'[host] \in {"dead", "moribund"}
  BY <1>1, <1>2, Basics DEF NoneStarts, TypeOK
<1>6. ControlSound'
  BY <1>1, <1>2, <1>3, <1>4, <1>5, RunningStep DEF FrameOps, SafeOps
<1>7. QueuesSound'
  <2>1. ~InQueue(host)
    BY <1>1 DEF InQueue
  <2>2. \A t \in Threads \ {host} :
          state'[t] = state[t] /\ suspend'[t] = suspend[t] /\ prio'[t] = prio[t]
    BY <1>2, Basics DEF TypeOK
  <2> QED BY <1>1, <1>2, <1>5, <2>1, <2>2, UnlinkedMoves
<1>8. MutexesAgree'
  BY <1>2, Basics, MutexesKept DEF mutexVars
<1>9. TypeOK'
  <2>1. stack' \in [Threads -> Seq(Frame)]
    BY <1>6, StackTyped DEF ControlSound
  <2>2. state' \in [Threads -> States] /\ threadList' \in SUBSET Threads
    BY <1>1, <1>2, Basics DEF TypeOK, States
  <2> QED BY <1>2, <2>1, <2>2, Basics DEF TypeOK, mutexVars, queueVars, timerVars, cpuVars
<1> QED BY <1>6, <1>7, <1>8, <1>9 DEF IInv

\* A thread is ended by another or by itself: it leaves its run queue or its wait queue.
LEMMA OSCancelThreadStep ==
  ASSUME IInv, OSCancelThread
  PROVE  IInv'
<1>1. At("cancel") /\ Top.op = "cancel" /\ Top \in GoodFrame /\ stack[host] # <<>>
      /\ "cancel" \in SafeOps /\ host \in Threads
  BY TopFrame, Basics DEF OSCancelThread, SafeOps
<1>2. PICK u : u = Top.thr
  OBVIOUS
<1>3. u \in Threads
  BY <1>1, <1>2 DEF GoodFrame
<1>4. PICK fs : fs = AfterTermination(u) \o <<F("resched")>>
  OBVIOUS
<1>5. /\ ~Terminated(u)
      /\ link' = IF Linked(u) THEN Removed(u) ELSE link
      /\ pending' = IF Linked(u) THEN PendingAfterRemoval(u) ELSE pending
      /\ queue' = IF Linked(u) THEN [queue EXCEPT ![u] = NoQueue] ELSE queue
      /\ resched' = (resched \/ state[u] = "running")
      /\ state' = [state EXCEPT ![u] = IF detached[u] THEN "dead" ELSE "moribund"]
      /\ threadList' \in {threadList, threadList \ {u}}
      /\ stack' = [stack EXCEPT ![u] = <<>>, ![host] = fs \o Tail(stack[host])]
      /\ UNCHANGED <<suspend, prio, base, detached, mutexVars, timerVars, cpuVars>>
  BY <1>2, <1>4 DEF OSCancelThread, TerminateThreadCommon
<1>6. SafeFrames(fs) /\ EndsInResched(fs)
  <2>1. SafeFrames(AfterTermination(u))
    BY <1>3, AfterTerminationIs
  <2>2. SafeFrames(<<F("resched")>>) /\ EndsInResched(<<F("resched")>>)
    BY PlainFrameIs, OneFrame DEF SafeOps
  <2> QED BY <1>4, <2>1, <2>2, ConcatFrames DEF SafeFrames
<1>7. Returned(fs)
  <2>1. stack \in [Threads -> Seq(GoodFrame)] /\ stack[host] \in Seq(GoodFrame)
    BY <1>1, Basics DEF FramesGood
  <2>2. fs \o Tail(stack[host]) \in Seq(GoodFrame)
    BY <1>1, <1>6, <2>1, ReplaceHead DEF SafeFrames
  <2>3. <<>> \in Seq(GoodFrame)
    OBVIOUS
  <2>4. stack' \in [Threads -> Seq(GoodFrame)]
    BY <1>1, <1>3, <1>5, <2>1, <2>2, <2>3
  <2>5. stack'[host] = fs \o Tail(stack[host])
    BY <1>1, <1>3, <1>5, <2>1
  <2>6. \A t \in Threads \ {host} : stack'[t] \in {stack[t], <<>>}
    BY <1>3, <1>5, <2>1
  <2> QED BY <2>4, <2>5, <2>6 DEF Returned
<1>8. NoneStarts /\ (resched => resched')
  BY <1>3, <1>5, Basics DEF NoneStarts, TypeOK
<1>9. ControlSound'
  <2>1. state[host] = "running" /\ state'[host] # "running" => resched'
    BY <1>1, <1>3, <1>5, Basics DEF TypeOK
  <2> QED BY <1>1, <1>5, <1>6, <1>7, <1>8, <2>1, SafeStep DEF Selects
<1>10. Linked(u) <=> InQueue(u)
  BY <1>3, Basics DEF Linked, InQueue, TypeOK
<1>11. /\ LinksOK(link') /\ pending' = Pend(link')
       /\ \A t \in Threads \ {u}, q \in Queues : Member(link'[q], t) <=> Member(link[q], t)
       /\ \A q \in Queues : ~Member(link'[q], u)
  <2>1. CASE Linked(u)
    BY <1>3, <1>5, <2>1, Basics, RemovedIs
  <2>2. CASE ~Linked(u)
    BY <1>3, <1>5, <1>10, <2>2, Basics, LinkIsOK DEF QueuesSound, LinkExact
  <2> QED BY <2>1, <2>2
<1>12. QueuesSound'
  <2>1. \A t \in Threads \ {u} :
          /\ state'[t] = state[t] /\ suspend'[t] = suspend[t]
          /\ prio'[t] = prio[t] /\ queue'[t] = queue[t]
          /\ \A q \in Queues : Member(link'[q], t) <=> Member(link[q], t)
    BY <1>5, <1>11, Basics DEF TypeOK
  <2>2. state'[u] \in {"dead", "moribund"}
    BY <1>3, <1>5, Basics DEF TypeOK
  <2>3. ~InQueue(u)' /\ state'[u] # "ready" /\ state'[u] # "waiting"
    BY <2>2 DEF InQueue
  <2> QED BY <1>3, <1>11, <2>1, <2>2, <2>3, Basics, ThreadMoves
<1>13. MutexesAgree'
  BY <1>5, Basics, MutexesKept DEF mutexVars
<1>14. TypeOK'
  <2>1. stack' \in [Threads -> Seq(Frame)]
    BY <1>9, StackTyped DEF ControlSound
  <2>2. /\ state' \in [Threads -> States] /\ queue' \in [Threads -> Queues \cup {NoQueue}]
        /\ threadList' \in SUBSET Threads /\ resched' \in BOOLEAN
    BY <1>3, <1>5, Basics DEF TypeOK, States
  <2>3. link' \in [Queues -> Seq(Threads)] /\ pending' \in SUBSET Priorities
    BY <1>11 DEF LinksOK, Pend
  <2> QED BY <1>5, <2>1, <2>2, <2>3, Basics DEF TypeOK, mutexVars, timerVars, cpuVars
<1> QED BY <1>9, <1>12, <1>13, <1>14 DEF IInv

\* A mutex of an ended thread is released.
LEMMA UnlockAllThreadMutexesStep ==
  ASSUME IInv, UnlockAllThreadMutexes
  PROVE  IInv'
<1>1. At("unlockall") /\ Top.op = "unlockall" /\ Top \in GoodFrame /\ "unlockall" \in SafeOps
  BY TopFrame DEF UnlockAllThreadMutexes, SafeOps
<1>2. PICK u : u = Top.thr
  OBVIOUS
<1>3. u \in Threads
  BY <1>1, <1>2 DEF GoodFrame
<1>4. PICK m \in held[u] :
        /\ owner' = [owner EXCEPT ![m] = NoThread]
        /\ count' = [count EXCEPT ![m] = 0]
        /\ held' = [held EXCEPT ![u] = @ \ {m}]
        /\ Return(<<FQ("wake", m), Top>>)
  BY <1>2 DEF UnlockAllThreadMutexes
<1>5. m \in Mutexes /\ m \in WaitQueue
  BY <1>3, Basics, ConstantsAssumption DEF TypeOK, WaitQueue, Queues
<1>6. UNCHANGED <<state, suspend, prio, blockedOn, resched, lifeVars, queueVars,
                  timerVars, cpuVars>>
  BY DEF UnlockAllThreadMutexes
<1>7. PICK fs : fs = <<FQ("wake", m), Top>> /\ Return(fs)
  BY <1>4
<1>8. SafeFrames(fs)
  BY <1>1, <1>5, <1>7, QueueFrameIs, TwoFrames DEF SafeOps
<1>9. NoneStarts
  BY <1>6 DEF NoneStarts
<1>10. ControlSound'
  BY <1>1, <1>6, <1>7, <1>8, <1>9, ReturnedIs, SafeStep DEF Selects
<1>11. QueuesSound'
  BY <1>6, Basics, QueuesKept DEF queueVars
<1>12. /\ owner' \in [Mutexes -> Threads \cup {NoThread}] /\ count' \in [Mutexes -> Nat]
       /\ held' \in [Threads -> SUBSET Mutexes]
  <2>1. /\ owner \in [Mutexes -> Threads \cup {NoThread}] /\ count \in [Mutexes -> Nat]
        /\ held \in [Threads -> SUBSET Mutexes]
    BY Basics DEF TypeOK
  <2>2. owner' \in [Mutexes -> Threads \cup {NoThread}] /\ count' \in [Mutexes -> Nat]
    BY <1>4, <2>1
  <2>3. held' \in [Threads -> SUBSET Mutexes]
    BY <1>4, <2>1
  <2> QED BY <2>2, <2>3
<1>13. MutexesAgree'
  BY <1>3, <1>4, <1>5, Basics, ConstantsAssumption DEF MutexesAgree, TypeOK
<1> QED BY <1>6, <1>10, <1>11, <1>12, <1>13, Basics, Assembled DEF TypeOK, queueVars

\* The end of a thread whose fiber is on the host becomes a call of SelectThread.
LEMMA FinishTerminatedStep ==
  ASSUME IInv, FinishTerminated
  PROVE  IInv'
<1>1. At("finish") /\ "finish" \in SafeOps
  BY DEF FinishTerminated, SafeOps
<1>2. PICK fs : fs = SelectCall("select") /\ Return(fs)
  BY DEF FinishTerminated
<1>3. resched' = TRUE
      /\ UNCHANGED <<state, suspend, prio, lifeVars, mutexVars, queueVars, timerVars, cpuVars>>
  BY DEF FinishTerminated
<1>4. SafeFrames(fs) /\ EndsInSelect(fs)
  BY <1>2, SelectCallIs
<1>5. NoneStarts
  BY <1>3 DEF NoneStarts
<1>6. ControlSound'
  BY <1>1, <1>2, <1>3, <1>4, <1>5, ReturnedIs, SafeStep
<1>7. QueuesSound' /\ MutexesAgree'
  BY <1>3, Basics, QueuesKept, MutexesKept DEF queueVars, mutexVars
<1> QED BY <1>3, <1>6, <1>7, Basics, Assembled DEF TypeOK, queueVars, mutexVars

\* A joiner takes a moribund thread off the list.
LEMMA OSJoinThreadReapsStep ==
  ASSUME IInv, OSJoinThreadReaps
  PROVE  IInv'
<1>0. PICK o \in {"join", "joined"} : At(o)
  BY DEF OSJoinThreadReaps
<1>1. Top.op = o /\ Top \in GoodFrame /\ host \in Threads /\ state[host] = "running"
  BY <1>0, Basics, RunsUnder DEF FrameOps, SafeOps
<1>2. PICK u : u = Top.thr
  OBVIOUS
<1>3. u \in Threads
  BY <1>1, <1>2 DEF GoodFrame
<1>4. /\ state' = IF state[u] = "moribund" THEN [state EXCEPT ![u] = "dead"] ELSE state
      /\ threadList' \in {threadList, threadList \ {u}}
      /\ Return(<<>>)
      /\ UNCHANGED <<suspend, prio, base, detached, resched, mutexVars, queueVars,
                     timerVars, cpuVars>>
  BY <1>2 DEF OSJoinThreadReaps
<1>5. NoneStarts /\ state'[host] = "running"
  BY <1>1, <1>3, <1>4, Basics DEF NoneStarts, TypeOK
<1>6. ControlSound'
  BY <1>0, <1>4, <1>5, NoFrames, RunningStep DEF FrameOps, SafeOps
<1>7. QueuesSound'
  <2>1. CASE state[u] = "moribund"
    <3>1. ~InQueue(u) /\ state'[u] = "dead"
      BY <1>3, <1>4, <2>1, Basics DEF InQueue, TypeOK
    <3>2. \A t \in Threads \ {u} :
            state'[t] = state[t] /\ suspend'[t] = suspend[t] /\ prio'[t] = prio[t]
      BY <1>4, Basics DEF TypeOK
    <3> QED BY <1>3, <1>4, <3>1, <3>2, UnlinkedMoves
  <2>2. CASE state[u] # "moribund"
    BY <1>4, <2>2, Basics, QueuesKept DEF queueVars
  <2> QED BY <2>1, <2>2
<1>8. MutexesAgree'
  BY <1>4, Basics, MutexesKept DEF mutexVars
<1>9. TypeOK'
  <2>1. stack' \in [Threads -> Seq(Frame)]
    BY <1>6, StackTyped DEF ControlSound
  <2>2. state' \in [Threads -> States] /\ threadList' \in SUBSET Threads
    BY <1>3, <1>4, Basics DEF TypeOK, States
  <2> QED BY <1>4, <2>1, <2>2, Basics DEF TypeOK, mutexVars, queueVars, timerVars, cpuVars
<1> QED BY <1>6, <1>7, <1>8, <1>9 DEF IInv

\* Detaching a moribund thread takes it off the list.
LEMMA OSDetachThreadStep ==
  ASSUME IInv, OSDetachThread
  PROVE  IInv'
<1>1. At("detach") /\ Top.op = "detach" /\ Top \in GoodFrame /\ "detach" \in SafeOps
  BY TopFrame DEF OSDetachThread, SafeOps
<1>2. PICK u : u = Top.thr
  OBVIOUS
<1>3. u \in Threads /\ JoinQueue(u) \in WaitQueue
  BY <1>1, <1>2, ConstantsAssumption DEF GoodFrame, JoinQueue, WaitQueue, Queues
<1>4. /\ state' = IF state[u] = "moribund" THEN [state EXCEPT ![u] = "dead"] ELSE state
      /\ threadList' \in {threadList, threadList \ {u}}
      /\ detached' = [detached EXCEPT ![u] = TRUE]
      /\ UNCHANGED <<suspend, prio, base, resched, mutexVars, queueVars, timerVars, cpuVars>>
  BY <1>2 DEF OSDetachThread
<1>5. PICK fs : fs = <<FQ("wake", JoinQueue(u))>> /\ Return(fs)
  BY <1>2 DEF OSDetachThread
<1>6. SafeFrames(fs)
  BY <1>3, <1>5, QueueFrameIs, OneFrame DEF SafeOps
<1>7. NoneStarts /\ (state[host] = "running" => state'[host] = "running")
  BY <1>3, <1>4, Basics DEF NoneStarts, TypeOK
<1>8. ControlSound'
  BY <1>1, <1>4, <1>5, <1>6, <1>7, ReturnedIs, SafeStep DEF Selects
<1>9. QueuesSound'
  <2>1. CASE state[u] = "moribund"
    <3>1. ~InQueue(u) /\ state'[u] = "dead"
      BY <1>3, <1>4, <2>1, Basics DEF InQueue, TypeOK
    <3>2. \A t \in Threads \ {u} :
            state'[t] = state[t] /\ suspend'[t] = suspend[t] /\ prio'[t] = prio[t]
      BY <1>4, Basics DEF TypeOK
    <3> QED BY <1>3, <1>4, <3>1, <3>2, UnlinkedMoves
  <2>2. CASE state[u] # "moribund"
    BY <1>4, <2>2, Basics, QueuesKept DEF queueVars
  <2> QED BY <2>1, <2>2
<1>10. MutexesAgree'
  BY <1>4, Basics, MutexesKept DEF mutexVars
<1>11. TypeOK'
  <2>1. stack' \in [Threads -> Seq(Frame)]
    BY <1>8, StackTyped DEF ControlSound
  <2>2. /\ state' \in [Threads -> States] /\ threadList' \in SUBSET Threads
        /\ detached' \in [Threads -> BOOLEAN]
    BY <1>3, <1>4, Basics DEF TypeOK, States
  <2> QED BY <1>4, <2>1, <2>2, Basics DEF TypeOK, mutexVars, queueVars, timerVars, cpuVars
<1> QED BY <1>8, <1>9, <1>10, <1>11 DEF IInv

\* A new thread is suspended and in no queue.
LEMMA GuestCreatesThreadStep ==
  ASSUME IInv, GuestCreatesThread
  PROVE  IInv'
<1>1. InGuestCode /\ host \in Threads /\ Running
  BY Basics, GuestCodeRuns DEF GuestCreatesThread
<1>2. PICK u \in Threads \ {Main}, p \in Priorities, d \in BOOLEAN :
        held[u] = {} /\ link[JoinQueue(u)] = <<>> /\ OSCreateThread(u, p, d)
  <2>1. {FALSE, "detach" \in Calls} \subseteq BOOLEAN
    OBVIOUS
  <2> QED BY <2>1 DEF GuestCreatesThread
<1>3. /\ state[u] = "dead" /\ u # host
      /\ state' = [state EXCEPT ![u] = "ready"]
      /\ suspend' = [suspend EXCEPT ![u] = 1]
      /\ prio' = [prio EXCEPT ![u] = p]
      /\ base' = [base EXCEPT ![u] = p]
      /\ detached' = [detached EXCEPT ![u] = d]
      /\ blockedOn' = [blockedOn EXCEPT ![u] = NoQueue]
      /\ held' = [held EXCEPT ![u] = {}]
      /\ threadList' = threadList \cup {u}
      /\ link' = [link EXCEPT ![JoinQueue(u)] = <<>>]
      /\ stack' = [stack EXCEPT ![u] = <<>>]
      /\ UNCHANGED <<queue, owner, count, pending, resched, timerVars, cpuVars>>
  BY <1>2 DEF OSCreateThread
<1>4. link' = link /\ held' = held
  <2>1. link \in [Queues -> Seq(Threads)] /\ held \in [Threads -> SUBSET Mutexes]
    BY Basics DEF TypeOK
  <2> QED BY <1>2, <1>3, <2>1
<1>5. ControlSound'
  <2>1. stack' \in [Threads -> Seq(GoodFrame)] /\ stack'[host] = stack[host]
        /\ \A t \in Threads \ {host} : stack'[t] \in {stack[t], <<>>}
    BY <1>1, <1>3, Basics DEF FramesGood
  <2>2. NoneStarts /\ state'[host] = "running" /\ suspend'[host] = 0
    BY <1>1, <1>3, Basics DEF NoneStarts, TypeOK, Running, OnCPU
  <2>3. OthersParked'
    BY <1>3, <2>1, <2>2, Basics, OthersStayParked DEF cpuVars
  <2>4. Running'
    BY <1>1, <1>3, <2>1, <2>2 DEF Running, OnCPU, HostFrames, PlainFrom, cpuVars
  <2> QED BY <2>1, <2>3, <2>4 DEF ControlSound, FramesGood, HostControl
<1>6. QueuesSound'
  <2>1. ~InQueue(u)
    BY <1>3 DEF InQueue
  <2>2. state'[u] = "ready" /\ suspend'[u] # 0
    BY <1>3, Basics DEF TypeOK
  <2>3. \A t \in Threads \ {u} :
          state'[t] = state[t] /\ suspend'[t] = suspend[t] /\ prio'[t] = prio[t]
    BY <1>3, Basics DEF TypeOK
  <2> QED BY <1>3, <1>4, <2>1, <2>2, <2>3, UnlinkedMoves DEF queueVars
<1>7. MutexesAgree'
  BY <1>3, <1>4, Basics, MutexesKept
<1>8. TypeOK'
  <2>1. stack' \in [Threads -> Seq(Frame)]
    BY <1>5, StackTyped DEF ControlSound
  <2>2. /\ state' \in [Threads -> States] /\ suspend' \in [Threads -> Nat]
        /\ threadList' \in SUBSET Threads
    BY <1>3, Basics DEF TypeOK, States
  <2>3. /\ prio' \in [Threads -> Priorities \cup {SuspendedWaitPriority}]
        /\ base' \in [Threads -> Priorities] /\ detached' \in [Threads -> BOOLEAN]
        /\ blockedOn' \in [Threads -> Mutexes \cup {NoQueue}]
    BY <1>3, Basics DEF TypeOK
  <2> QED BY <1>3, <1>4, <2>1, <2>2, <2>3, Basics DEF TypeOK, timerVars, cpuVars
<1> QED BY <1>5, <1>6, <1>7, <1>8 DEF IInv

\* A thread whose entry function returns ends on its own fiber.
LEMMA GuestReturnsFromEntryStep ==
  ASSUME IInv, GuestReturnsFromEntry
  PROVE  IInv'
<1>1. InGuestCode /\ host \in Threads /\ state[host] = "running"
  BY Basics, GuestCodeRuns DEF GuestReturnsFromEntry, Running, OnCPU
<1>2. /\ state' = [state EXCEPT ![host] = IF detached[host] THEN "dead" ELSE "moribund"]
      /\ UNCHANGED <<suspend, prio, resched, lifeVars, mutexVars, queueVars, timerVars, cpuVars>>
  BY DEF GuestReturnsFromEntry, ReturnFromEntry
<1>3. PICK fs : fs = <<FQ("drainjoin", JoinQueue(host)), F("finish")>> /\ Push(fs)
  BY DEF GuestReturnsFromEntry, ReturnFromEntry
<1>4. PlainFrames(fs) /\ EndsInSelect(fs)
  <2>1. JoinQueue(host) \in WaitQueue
    BY <1>1, ConstantsAssumption DEF JoinQueue, WaitQueue, Queues
  <2> QED BY <1>3, <2>1, QueueFrameIs, PlainFrameIs, TwoFrames DEF SafeOps
<1>5. NoneStarts /\ state'[host] \in {"dead", "moribund"}
  BY <1>1, <1>2, Basics DEF NoneStarts, TypeOK
<1>6. ControlSound'
  BY <1>1, <1>2, <1>3, <1>4, <1>5, Basics, GuestPush, WillSelectIs DEF PlainFrames
<1>7. QueuesSound'
  <2>1. ~InQueue(host)
    BY <1>1 DEF InQueue
  <2>2. \A t \in Threads \ {host} :
          state'[t] = state[t] /\ suspend'[t] = suspend[t] /\ prio'[t] = prio[t]
    BY <1>2, Basics DEF TypeOK
  <2> QED BY <1>1, <1>2, <1>5, <2>1, <2>2, UnlinkedMoves
<1>8. MutexesAgree'
  BY <1>2, Basics, MutexesKept DEF mutexVars
<1>9. state' \in [Threads -> States]
  BY <1>1, <1>2, Basics DEF TypeOK, States
<1> QED BY <1>2, <1>6, <1>7, <1>8, <1>9, Basics, Assembled DEF TypeOK, mutexVars, queueVars

-----------------------------------------------------------------------------
(* The invariant and what follows from it.                                 *)

LEMMA InitStep ==
  ASSUME Init
  PROVE  IInv
<1>1. Main \in Threads
  BY ConstantsAssumption
<1>2. PICK p \in Priorities : prio = [t \in Threads |-> p]
  BY DEF Init
<1>3. TypeOK
  <2>1. /\ state \in [Threads -> States] /\ suspend \in [Threads -> Nat]
        /\ queue \in [Threads -> Queues \cup {NoQueue}]
        /\ blockedOn \in [Threads -> Mutexes \cup {NoQueue}]
        /\ held \in [Threads -> SUBSET Mutexes] /\ detached \in [Threads -> BOOLEAN]
    BY DEF Init, States
  <2>2. /\ prio \in [Threads -> Priorities \cup {SuspendedWaitPriority}]
        /\ base \in [Threads -> Priorities]
    BY <1>2 DEF Init
  <2>3. link \in [Queues -> Seq(Threads)] /\ stack \in [Threads -> Seq(Frame)]
    BY DEF Init
  <2>4. /\ owner \in [Mutexes -> Threads \cup {NoThread}] /\ count \in [Mutexes -> Nat]
    BY DEF Init
  <2>5. /\ threadList \in SUBSET Threads /\ pending \in SUBSET Priorities
        /\ resched \in BOOLEAN /\ disable \in Nat /\ running \in Threads \cup {NoThread}
        /\ timers \in SUBSET Threads /\ parks \in SUBSET Threads
        /\ strandSeen \in SUBSET Threads /\ host \in Threads
    BY <1>1 DEF Init
  <2> QED BY <2>1, <2>2, <2>3, <2>4, <2>5 DEF TypeOK
<1>4. ControlSound
  <2>1. FramesGood
    BY DEF Init, FramesGood
  <2>2. Running
    BY <1>1 DEF Init, Running, OnCPU, HostFrames, PlainFrom
  <2>3. OthersParked
    BY DEF Init, OthersParked, PlainFrom
  <2> QED BY <2>1, <2>2, <2>3 DEF ControlSound, HostControl
<1>5. QueuesSound
  <2>1. \A q \in Queues : link[q] = <<>>
    BY DEF Init
  <2>2. \A t \in Threads : state[t] \in {"running", "dead"} /\ ~InQueue(t)
    BY DEF Init, InQueue
  <2>3. LinkExact /\ LinkDistinct
    BY <2>1, <2>2 DEF LinkExact, LinkDistinct, Distinct, Member
  <2>4. QueueFits
    BY <2>2 DEF QueueFits
  <2>5. PendingExact
    BY <2>1 DEF PendingExact, Init, Queues
  <2>6. PrioritySound
    BY <1>2 DEF PrioritySound
  <2> QED BY <2>3, <2>4, <2>5, <2>6 DEF QueuesSound
<1>6. MutexesAgree
  BY ConstantsAssumption DEF Init, MutexesAgree
<1> QED BY <1>3, <1>4, <1>5, <1>6 DEF IInv

\* Nothing changes.
LEMMA StutterStep ==
  ASSUME IInv, UNCHANGED vars
  PROVE  IInv'
<1>1. UNCHANGED <<osvars, timerVars, cpuVars, stack>>
  BY DEF vars
<1>2. ControlSound'
  <2>1. /\ stack' = stack /\ host' = host /\ state' = state /\ suspend' = suspend
        /\ disable' = disable /\ running' = running /\ resched' = resched
    BY <1>1 DEF osvars, cpuVars
  <2> QED BY <2>1, Basics
      DEF ControlSound, FramesGood, HostControl, OthersParked, Running, Leaving, InHandler,
          Idling, IdleHandler, HostFrames, OnCPU, PlainFrom, SafeAbove, Selects
<1> QED BY <1>1, <1>2, OSKept, Basics DEF TypeOK, timerVars, cpuVars

\* Every step keeps IInv.
LEMMA NextStep ==
  ASSUME HandlersDontBlock, IInv, [Next]_vars
  PROVE  IInv'
<1>1. CASE SchedulerStep
  BY <1>1, SelectThreadReturnsStep, SelectThreadPreemptsStep, SelectThreadSwitchesStep,
     SelectThreadIdlesStep, IdlePollsStep, IdleEndsStep, RescheduleIfRequestedStep
  DEF SchedulerStep
<1>2. CASE QueueStep
  BY <1>2, WakeupThreadQueueStep, WakeupThreadQueueEndsStep, OSSleepThreadStep,
     OSSleepThreadReturnsStep DEF QueueStep
<1>3. CASE MutexStep
  BY <1>3, OSLockMutexTakesStep, OSLockMutexBlocksStep, OSUnlockMutexKeepsStep,
     OSUnlockMutexReleasesStep, PromoteThreadPriorityStep, PropagateMutexOwnerPriorityStep
  DEF MutexStep
<1>4. CASE SuspendStep
  BY <1>4, OSSuspendThreadAgainStep, OSSuspendThreadStep, OSResumeThreadCountsStep,
     OSResumeThreadStep DEF SuspendStep
<1>5. CASE TimerStep
  BY <1>5, OSSleepTicksStep, OSSleepTicksReturnsStep, CollectDueTimersStep,
     FireDueTimerStep, ReconcileParksStep, HealLostSleeperStep DEF TimerStep
<1>6. CASE LifecycleStep
  BY <1>6, OSExitThreadStep, OSCancelThreadStep, UnlockAllThreadMutexesStep,
     FinishTerminatedStep, WakeGuestThreadsStep, EmptyReturnStep, OSJoinThreadSleepsStep,
     OSJoinThreadReapsStep, OSDetachThreadStep DEF LifecycleStep
<1>7. CASE GuestStep
  BY <1>7, GuestCallsOSStep, GuestCreatesThreadStep, GuestReturnsFromEntryStep,
     AlarmHandlerCalledStep DEF GuestStep
<1>8. CASE AlarmHandlerReturns
  BY <1>8, AlarmHandlerReturnsStep
<1>9. CASE UNCHANGED vars
  BY <1>9, StutterStep
<1> QED BY <1>1, <1>2, <1>3, <1>4, <1>5, <1>6, <1>7, <1>8, <1>9 DEF Next, HostStep

\* IInv holds in every reachable state.
LEMMA Invariance ==
  ASSUME HandlersDontBlock
  PROVE  Spec => []IInv
<1>1. Init => IInv
  BY InitStep
<1>2. IInv /\ [Next]_vars => IInv'
  BY NextStep
<1> QED BY <1>1, <1>2, PTL DEF Spec

\* Every variable of the scheduler holds what the guest structures can hold, in
\* particular a thread is only ever linked in, or blocked on, an object of the right
\* kind, and the frames on a fiber are those of calls of the OS.
THEOREM TypesCorrect ==
  ASSUME HandlersDontBlock
  PROVE  Spec => []TypeOK
<1>1. IInv => TypeOK
  BY DEF IInv
<1> QED BY <1>1, Invariance, PTL

\* SelectThread can trust the pending bitmap: it names exactly the run queues with a
\* thread in them, whatever removed or queued threads before (os_scheduler.cpp).
THEOREM PendingIsExact ==
  ASSUME HandlersDontBlock
  PROVE  Spec => []PendingExact
<1>1. IInv => PendingExact
  BY DEF IInv, QueuesSound
<1> QED BY <1>1, Invariance, PTL

\* Whatever SelectThread finds on a run queue may run: no suspension, termination or
\* change of priority leaves a thread behind there.
THEOREM RunQueuesSound ==
  ASSUME HandlersDontBlock
  PROVE  Spec => []RunQueueSound
<1>1. IInv => RunQueueSound
  <2> SUFFICES ASSUME IInv, NEW p \in Priorities, NEW i \in 1..Len(link[p]),
                      NEW t, t = link[p][i]
               PROVE  state[t] = "ready" /\ suspend[t] = 0 /\ prio[t] = p
    BY DEF RunQueueSound
  <2>1. p \in Queues /\ link[p] \in Seq(Threads) /\ Member(link[p], t)
    BY Basics DEF TypeOK, Queues, Member
  <2>2. t \in Threads
    BY <2>1, MembersAreThreads
  <2>3. InQueue(t) /\ queue[t] = p
    BY <2>1, <2>2, Basics DEF QueuesSound, LinkExact
  <2> QED BY <2>2, <2>3, Basics DEF InQueue, QueuesSound, QueueFits, WaitQueue
<1> QED BY <1>1, Invariance, PTL

\* A thread is in at most one thread queue, once, and its queue field names it: the one
\* pair of link fields of an OSThread is never used by two lists.
THEOREM LinkedAtMostOnce ==
  ASSUME HandlersDontBlock
  PROVE  Spec => []LinkedOnce
<1>1. IInv => LinkedOnce
  <2> SUFFICES ASSUME IInv, NEW q \in Queues, NEW i \in 1..Len(link[q])
               PROVE  /\ queue[link[q][i]] = q
                      /\ \A j \in 1..Len(link[q]) : link[q][i] = link[q][j] => i = j
    BY DEF LinkedOnce
  <2>1. link[q] \in Seq(Threads) /\ Member(link[q], link[q][i])
    BY Basics DEF TypeOK, Member
  <2>2. link[q][i] \in Threads
    BY <2>1, MembersAreThreads
  <2> QED BY <2>1, <2>2, Basics DEF QueuesSound, LinkExact, LinkDistinct, Distinct
<1> QED BY <1>1, Invariance, PTL

\* No thread is lost: a runnable thread is always on a run queue, a waiting one in the
\* wait queue its field names, through every interleaving of suspensions, priority
\* changes, wake-ups, timers and handlers; and only the fiber on the host runs.
THEOREM ThreadsAreKept ==
  ASSUME HandlersDontBlock
  PROVE  Spec => []NoLostThread
<1>1. IInv => NoLostThread
  <2> SUFFICES ASSUME IInv, NEW t \in Threads
               PROVE  /\ state[t] = "ready" /\ suspend[t] = 0 =>
                           queue[t] \in Priorities /\ Member(link[queue[t]], t)
                      /\ state[t] = "waiting" =>
                           queue[t] \in Queues \ Priorities /\ Member(link[queue[t]], t)
                      /\ state[t] = "running" => t = running /\ t = host
    BY DEF NoLostThread
  <2>1. CASE state[t] = "ready" /\ suspend[t] = 0
    <3>1. queue[t] \in Priorities /\ queue[t] \in Queues
      BY <2>1, Basics DEF QueuesSound, QueueFits, PrioritySound, Terminated, Queues
    <3> QED BY <2>1, <3>1, Basics DEF QueuesSound, LinkExact, InQueue
  <2>2. CASE state[t] = "waiting"
    <3>1. queue[t] \in Queues \ Priorities
      BY <2>2, Basics DEF QueuesSound, QueueFits, WaitQueue
    <3> QED BY <2>2, <3>1, Basics DEF QueuesSound, LinkExact, InQueue
  <2>3. state[t] = "running" => t = running /\ t = host
    BY RunningIsOnHost
  <2> QED BY <2>1, <2>2, <2>3
<1> QED BY <1>1, Invariance, PTL

\* Guest code only runs on the fiber of the thread the scheduler calls running, which
\* is not suspended, with the scheduler enabled: what OSSuspendThread, handlers and
\* sleep timers do to a thread is followed by a switch before guest code goes on.
THEOREM SuspendedThreadsDoNotRun ==
  ASSUME HandlersDontBlock
  PROVE  Spec => []SuspendedNeverRuns
<1>1. IInv => SuspendedNeverRuns
  BY Basics, GuestCodeRuns DEF SuspendedNeverRuns, Running, OnCPU
<1> QED BY <1>1, Invariance, PTL

\* The calls in progress on every fiber fit what the scheduler says of its threads: no
\* call goes on as if its thread ran when a suspension, a termination or a handler
\* stopped it, before SelectThread was called.
THEOREM CallsFitTheScheduler ==
  ASSUME HandlersDontBlock
  PROVE  Spec => []ControlSound
<1>1. IInv => ControlSound
  BY DEF IInv
<1> QED BY <1>1, Invariance, PTL

\* The owner fields, the recursion counts and the mutex lists of the threads agree,
\* through recursive locking, unlocking, and the exit and cancellation of owners.
THEOREM MutexRecordsAgree ==
  ASSUME HandlersDontBlock
  PROVE  Spec => []MutexesAgree
<1>1. IInv => MutexesAgree
  BY DEF IInv
<1> QED BY <1>1, Invariance, PTL
=============================================================================
