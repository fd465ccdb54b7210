----------------------------- MODULE AlarmQueue -----------------------------
(***************************************************************************)
(* OSAlarm (runtime/src/hle/os/os_alarm.cpp): the queue of alarms in guest *)
(* memory and the pump that dispatches the due ones. The pump runs on the  *)
(* stack of whoever calls it: the idle loop, a thread that touches the     *)
(* decrementer, or a host wait inside a guest thread (the deferred pump).  *)
(* One guard for the whole host thread, g_alarmProcessDepth, keeps it from *)
(* being entered twice.                                                    *)
(*                                                                         *)
(* Of the scheduler it keeps which threads can run, their urgency, and     *)
(* that SelectThread leaves the host alone while the disable count is not  *)
(* zero or the idle loop has it. A handler may do to the thread it         *)
(* interrupts whatever a thread may do to another: wake, suspend or cancel *)
(* it.                                                                     *)
(***************************************************************************)
EXTENDS Integers, SequencesExt

CONSTANTS
  AlarmThreads, \* guest threads
  Urgency,      \* how urgent each is (higher runs first)
  Alarms,       \* OSAlarm structures
  Offsets,      \* offsets of OSSetAlarm, periods of OSSetPeriodicAlarm
  AlarmBatch,   \* alarms one pump dispatches at most
  MaxTime,      \* bound: the clock stops here
  NoThread,     \* the idle loop has the host
  NoAlarm,      \* no handler is running
  NoFrame,      \* nobody is in the pump
  Gone          \* the fiber that held the pump has been destroyed

ThreadsAssumption ==
  /\ {NoThread, Gone} \cap AlarmThreads = {} /\ Gone # NoThread
  /\ Urgency \in [AlarmThreads -> Nat]
AlarmsAssumption ==
  /\ NoAlarm \notin Alarms
  /\ Offsets \subseteq Nat
  /\ AlarmBatch \in Nat \ {0}
  /\ MaxTime \in Nat

VARIABLES
  now,        \* ReadSystemTime
  alarmQueue, \* the alarms linked, head first
  fire,       \* fire time of each alarm
  period,     \* period of each alarm, 0 for none
  alarmReady, \* threads that can run
  alarmHost,  \* the thread whose fiber is on the host
  alarmFrame, \* the pump that holds g_alarmProcessDepth
  disabled    \* the scheduler disable count

queueVars == <<alarmQueue, fire, period>>
alarmVars == <<now, queueVars, alarmReady, alarmHost, alarmFrame, disabled>>

AlarmFrames ==
  [thread : AlarmThreads \cup {NoThread, Gone}, left : 0 .. AlarmBatch,
   deferred : BOOLEAN, handler : Alarms \cup {NoAlarm},
   dying : BOOLEAN]  \* the thread was cancelled by a handler of its own pump

NoFrameAssumption == NoFrame \notin AlarmFrames

-----------------------------------------------------------------------------
(* The queue.                                                              *)

Queued(a) == \E i \in 1 .. Len(alarmQueue) : alarmQueue[i] = a
AlarmDue == alarmQueue # <<>> /\ fire[Head(alarmQueue)] <= now

\* Before the first alarm that fires later.
AlarmInserted(q, a, time) ==
  LET later == {i \in 1 .. Len(q) : fire[q[i]] > time}
  IN  IF later = {} THEN Append(q, a)
      ELSE InsertAt(q, CHOOSE i \in later : \A j \in later : i <= j, a)

\* An alarm that is linked is taken out.
AlarmRemoved(q, a) == RemoveAt(q, CHOOSE i \in 1 .. Len(q) : q[i] = a)

\* InsertAlarm of the guest: a period moves the fire time past the clock.
NextFire(start, p) ==
  IF p = 0 \/ start > now THEN start ELSE start + p * ((now - start) \div p + 1)

\* Link a to fire at the time given.
LinkAlarm(q, a, time, p) ==
  /\ alarmQueue' = AlarmInserted(q, a, time)
  /\ fire' = [fire EXCEPT ![a] = time]
  /\ period' = [period EXCEPT ![a] = p]

-----------------------------------------------------------------------------
(* The scheduler, as the pump sees it.                                     *)

\* Whom SelectThread gives the host while S can run: the idle loop, or a thread nobody
\* in S is more urgent than. (The order of equally urgent ones is not kept.)
Chosen(S) == IF S = {} THEN {NoThread} ELSE {u \in S : \A v \in S : Urgency[v] <= Urgency[u]}

\* SelectThread with the disable count d while S can run. Without a request to
\* reschedule it is not called: then the host is among the chosen.
AlarmSelectThread(S, d) ==
  alarmHost' \in IF d > 0 \/ alarmHost = NoThread THEN {alarmHost} ELSE Chosen(S)

\* Mutant: a thread may block inside a handler it carries.
OnGuestStackAlways(t) == alarmHost = t

\* The pump that holds the guard is on the stack of t.
HoldsGuard(t) == alarmFrame # NoFrame /\ alarmFrame.thread = t

\* t runs its own code: no pump is on top of it.
OnGuestStack(t) == alarmHost = t /\ ~HoldsGuard(t)

\* OSSleepThread of t, for whatever it waits for.
AlarmThreadSleeps(t) ==
  /\ OnGuestStack(t)
  /\ alarmReady' = alarmReady \ {t}
  /\ alarmHost' \in Chosen(alarmReady')
  /\ UNCHANGED <<now, queueVars, alarmFrame, disabled>>

\* The idle loop ends once a thread can run and its pump is over.
IdleEnds ==
  /\ alarmHost = NoThread /\ ~HoldsGuard(NoThread)
  /\ alarmReady # {}
  /\ alarmHost' \in Chosen(alarmReady)
  /\ UNCHANGED <<now, queueVars, alarmReady, alarmFrame, disabled>>

-----------------------------------------------------------------------------
(* Calls of the guest: from a thread, or from the handler that runs.       *)

InHandler == HoldsGuard(alarmHost) /\ alarmFrame.handler # NoAlarm
CallsAlarms == InHandler \/ \E t \in AlarmThreads : OnGuestStack(t)

\* OSSetAlarm: the guest cancels an alarm before it sets it again.
OSSetAlarm(a, offset) ==
  /\ CallsAlarms /\ ~Queued(a)
  /\ LinkAlarm(alarmQueue, a, now + offset, 0)
  /\ UNCHANGED <<now, alarmReady, alarmHost, alarmFrame, disabled>>

OSSetPeriodicAlarm(a, p) ==
  /\ CallsAlarms /\ ~Queued(a) /\ p > 0
  /\ LinkAlarm(alarmQueue, a, NextFire(now, p), p)
  /\ UNCHANGED <<now, alarmReady, alarmHost, alarmFrame, disabled>>

\* OSCancelAlarm, which the guest keeps.
OSCancelAlarm(a) ==
  /\ CallsAlarms /\ Queued(a)
  /\ alarmQueue' = AlarmRemoved(alarmQueue, a)
  /\ UNCHANGED <<now, fire, period, alarmReady, alarmHost, alarmFrame, disabled>>

\* A thread is woken or resumed: by the guest, or by another service of the idle loop.
AlarmWakesThread(t) ==
  /\ \/ CallsAlarms
     \/ alarmHost = NoThread /\ ~HoldsGuard(NoThread)
  /\ t \notin alarmReady
  /\ alarmReady' = alarmReady \cup {t}
  /\ AlarmSelectThread(alarmReady', disabled)
  /\ UNCHANGED <<now, queueVars, alarmFrame, disabled>>

\* OSSuspendThread, also of a thread that is in the middle of its pump, and by a
\* handler of the thread it interrupts.
AlarmSuspendsThread(t) ==
  /\ CallsAlarms /\ t \in alarmReady
  /\ alarmReady' = alarmReady \ {t}
  /\ AlarmSelectThread(alarmReady', disabled)
  /\ UNCHANGED <<now, queueVars, alarmFrame, disabled>>

\* OSCancelThread: the fiber is destroyed, or, when it is the one on the host, once
\* SelectThread has left it. A guard it holds is held for ever.
AlarmCancelsThread(t) ==
  /\ CallsAlarms /\ (t \in alarmReady \/ HoldsGuard(t))
  /\ alarmReady' = alarmReady \ {t}
  /\ alarmFrame' = CASE ~HoldsGuard(t) -> alarmFrame
                     [] HoldsGuard(t) /\ t = alarmHost -> [alarmFrame EXCEPT !.dying = TRUE]
                     [] OTHER -> [alarmFrame EXCEPT !.thread = Gone]
  /\ AlarmSelectThread(alarmReady', disabled)
  /\ UNCHANGED <<now, queueVars, disabled>>

-----------------------------------------------------------------------------
(* ProcessAlarmQueue.                                                      *)

\* Enters on the stack of the host, unless some pump holds the guard.
\* From the idle loop, PPCMtdec or RFLiIsWorking (not deferred), or from a host
\* wait in a thread (deferred).
AlarmPumpBegins(deferred) ==
  /\ alarmFrame = NoFrame
  /\ deferred => alarmHost # NoThread
  /\ alarmFrame' = [thread |-> alarmHost, left |-> AlarmBatch, deferred |-> deferred,
                    handler |-> NoAlarm, dying |-> FALSE]
  /\ disabled' = IF deferred THEN disabled + 1 ELSE disabled
  /\ UNCHANGED <<now, queueVars, alarmReady, alarmHost>>

AlarmPumping == HoldsGuard(alarmHost)

\* Mutant: the alarm is still linked while its handler runs.
DequeueLinked == alarmQueue

AlarmDequeue == Tail(alarmQueue)

\* Unlinks the first due alarm, links it again if it is periodic, enters its handler.
HandlerBegins ==
  /\ AlarmPumping /\ alarmFrame.handler = NoAlarm /\ alarmFrame.left > 0 /\ AlarmDue
  /\ LET a == Head(alarmQueue)
     IN  /\ IF period[a] = 0
            THEN alarmQueue' = AlarmDequeue /\ UNCHANGED <<fire, period>>
            ELSE LinkAlarm(AlarmDequeue, a, NextFire(fire[a], period[a]), period[a])
         /\ alarmFrame' = [alarmFrame EXCEPT !.left = @ - 1, !.handler = a]
  /\ disabled' = disabled + 1
  /\ UNCHANGED <<now, alarmReady, alarmHost>>

\* The handler returns; the reschedule it asked for may take the host away here, with
\* the guard, and takes it from a thread that the handler suspended or cancelled.
HandlerReturns ==
  /\ InHandler
  /\ disabled' = disabled - 1
  /\ AlarmSelectThread(alarmReady, disabled')
  /\ alarmFrame' =
       [alarmFrame EXCEPT !.handler = NoAlarm,
          !.thread = IF alarmFrame.dying /\ disabled' = 0 THEN Gone ELSE @]
  /\ UNCHANGED <<now, queueVars, alarmReady>>

ReleaseGuard == alarmFrame' = NoFrame

\* Nothing is due or the batch is used up: the guard is given back, the other
\* services complete (their callbacks wake and stop threads), and the host may go.
AlarmPumpEnds ==
  /\ AlarmPumping /\ alarmFrame.handler = NoAlarm
  /\ ~AlarmDue \/ alarmFrame.left = 0
  /\ ReleaseGuard
  /\ alarmReady' \in SUBSET AlarmThreads
  /\ AlarmSelectThread(alarmReady', disabled)
  /\ disabled' = IF alarmFrame.deferred THEN disabled - 1 ELSE disabled
  /\ UNCHANGED <<now, queueVars>>

-----------------------------------------------------------------------------
AlarmTick ==
  /\ now < MaxTime
  /\ now' = now + 1
  /\ UNCHANGED <<queueVars, alarmReady, alarmHost, alarmFrame, disabled>>

AlarmInit ==
  /\ now = 0
  /\ alarmQueue = <<>>
  /\ fire = [a \in Alarms |-> 0]
  /\ period = [a \in Alarms |-> 0]
  /\ alarmReady = AlarmThreads
  /\ alarmHost \in Chosen(AlarmThreads)
  /\ alarmFrame = NoFrame
  /\ disabled = 0

AlarmNext ==
  \/ \E t \in AlarmThreads : AlarmThreadSleeps(t)
  \/ \E t \in AlarmThreads : AlarmWakesThread(t)
  \/ \E t \in AlarmThreads : AlarmSuspendsThread(t)
  \/ \E t \in AlarmThreads : AlarmCancelsThread(t)
  \/ \E a \in Alarms, d \in Offsets : OSSetAlarm(a, d)
  \/ \E a \in Alarms, p \in Offsets : OSSetPeriodicAlarm(a, p)
  \/ \E a \in Alarms : OSCancelAlarm(a)
  \/ \E deferred \in BOOLEAN : AlarmPumpBegins(deferred)
  \/ IdleEnds \/ HandlerBegins \/ HandlerReturns \/ AlarmPumpEnds
  \/ AlarmTick

AlarmSpec == AlarmInit /\ [][AlarmNext]_alarmVars

\* The last thread that can run blocks: the idle loop gets the host.
AllSleep == alarmHost # NoThread /\ AlarmThreadSleeps(alarmHost) /\ alarmHost' = NoThread
IdlePumps == alarmHost = NoThread /\ AlarmPumpBegins(FALSE)

\* The host runs whatever has it; a thread blocks in the end, a handler returns. The
\* threads of a frame all block in the end, and the idle loop, come to again and
\* again, pumps: not each time, as it ends at once when another service wakes a
\* thread (os_scheduler.cpp:347-364).
AlarmFairness ==
  /\ \A t \in AlarmThreads : WF_alarmVars(AlarmThreadSleeps(t))
  /\ WF_alarmVars(HandlerBegins) /\ WF_alarmVars(HandlerReturns)
  /\ WF_alarmVars(AlarmPumpEnds) /\ WF_alarmVars(IdleEnds)
  /\ SF_alarmVars(AllSleep) /\ SF_alarmVars(IdlePumps)

FairAlarmSpec == AlarmSpec /\ AlarmFairness

-----------------------------------------------------------------------------
(* Properties.                                                             *)

\* Types; no alarm is linked twice.
AlarmTypeOK ==
  /\ now \in 0 .. MaxTime
  /\ alarmQueue \in Seq(Alarms)
  /\ \A i, j \in 1 .. Len(alarmQueue) : alarmQueue[i] = alarmQueue[j] => i = j
  /\ fire \in [Alarms -> Nat]
  /\ period \in [Alarms -> Offsets \cup {0}]
  /\ alarmReady \subseteq AlarmThreads
  /\ alarmHost \in AlarmThreads \cup {NoThread}
  /\ alarmFrame \in AlarmFrames \cup {NoFrame}
  /\ disabled \in 0 .. 2

\* A guard is carried away from the host only between two handlers of a thread's own
\* pump (os_alarm.cpp:225): never out of a handler, out of the pump of a host wait, or
\* out of the idle loop's, from where nobody could bring it back.
GuardCarriedBetween ==
  alarmFrame # NoFrame /\ alarmFrame.thread # alarmHost =>
    alarmFrame.thread # NoThread /\ ~alarmFrame.deferred /\ alarmFrame.handler = NoAlarm

\* The scheduler is disabled only by the pump that has the host: a count left
\* above zero, or carried to another fiber, would stop every reschedule.
DisabledByPump ==
  disabled > 0 => AlarmPumping /\ (alarmFrame.deferred \/ alarmFrame.handler # NoAlarm)

\* A host wait inside a renderer call never loses the host to another thread.
DeferredKeepsHost ==
  [][/\ alarmFrame # NoFrame /\ alarmFrame.deferred /\ alarmFrame.thread = alarmHost
     /\ alarmFrame' # NoFrame
     => alarmHost' = alarmHost]_alarmVars

\* Alarms are dispatched in the order of their fire times, whoever set, cancelled
\* or re-linked others in between.
EarliestFirst ==
  [][HandlerBegins =>
       \A i \in 1 .. Len(alarmQueue) : fire[Head(alarmQueue)] <= fire[alarmQueue[i]]]_alarmVars

\* The guard is held by a thread that cannot run: suspended or cancelled in its pump.
\* No alarm is dispatched until it is resumed, if ever.
GuardStuck ==
  alarmFrame # NoFrame /\ alarmFrame.thread \notin alarmReady \cup {NoThread, alarmHost}

\* A due alarm does not stay in the queue while the guard can be given back: it is
\* dispatched or cancelled.
Overdue(a) == Queued(a) /\ fire[a] <= now
DueIsServed == \A a \in Alarms : Overdue(a) ~> (~Overdue(a) \/ GuardStuck)

\* What the code does not promise: the guard can always be given back.
GuardHasOwner == ~GuardStuck

\* os_alarm.cpp:164-167: the guard is kept to the dispatch itself, not carried to
\* another fiber that would then skip all pumping.
GuardStaysHome == alarmFrame # NoFrame => alarmFrame.thread = alarmHost

\* What the alarm queue promises: alarms are dispatched in order, under a scheduler
\* disabled by nobody but the pump that has the host, by pumps that lose the host only
\* between two handlers; whichever threads are woken, suspended or cancelled meanwhile.
AlarmsInOrder == [](GuardCarriedBetween /\ DisabledByPump) /\ DeferredKeepsHost /\ EarliestFirst
=============================================================================
