--------------------------- MODULE VideoInterface ---------------------------
(***************************************************************************)
(* The video interface (runtime/src/hle/vi.cpp). A retrace is made by      *)
(* whoever looks at the clock: a guest thread that polls, the idle loop, a *)
(* native call that serves retraces deferred, a frame that is held to its  *)
(* boundary. It commits what VIFlush armed, wakes the waiting threads and  *)
(* calls the title back, once per deadline, behind one guard. A callback   *)
(* that resumes a thread from an undeferred poll may lose the processor.   *)
(***************************************************************************)
EXTENDS Naturals

CONSTANTS
  VideoThreads, \* guest threads
  Pictures,     \* what the display may show: frame buffer, black, geometry
  Wrap,         \* values the retrace counter is told apart in
  MaxDue,       \* bound: deadlines that may have passed unserved
  CatchUp,      \* retraces one poll makes at most
  IdleLoop      \* nobody runs

Nobody == "nobody"

VideoAssumption ==
  /\ IdleLoop \notin VideoThreads /\ Nobody \notin VideoThreads \cup {IdleLoop}
  /\ Wrap \in Nat \ {0, 1} /\ {MaxDue, CatchUp} \subseteq Nat \ {0}

VARIABLES
  viCur, viPc,        \* running thread; threads: run, going, wait, ready
  moved,              \* the counter is not what the thread read in VIWaitForRetrace
  due,                \* deadlines passed since the last retrace
  by, left, deferred, \* the pass that makes retraces: whose, how many more, whether deferred
  phase,              \* free, or the point inside AdvanceRetrace
  count,              \* retraceCount
  viPending, active, armed,
  calledPre, calledPost, \* history: callbacks made
  meant, meantAt,     \* history: what the armed flush is to show; the counter when it was armed
  flushed,            \* history: what VIFlush itself found pending
  vain                \* history: a poll of another thread found the guard held

threads == <<viCur, viPc, moved>>
pass == <<by, left, deferred>>
picture == <<viPending, active, armed, meant, meantAt, flushed>>
retraceCalls == <<calledPre, calledPost>>
videoVars == <<threads, due, pass, phase, count, picture, retraceCalls, vain>>

Later(n) == (n + 1) % Wrap

\* Thread t runs translated code: no pass, a callback of its own, or a pass that another left.
Runs(t) == viCur = t /\ (by = t => phase \in {"pre", "post"})

Tick ==
  /\ due < MaxDue /\ due' = due + 1
  /\ UNCHANGED <<threads, pass, phase, count, picture, retraceCalls, vain>>

-----------------------------------------------------------------------------
(* Settings.                                                               *)

\* VISetNextFrameBuffer, VISetBlack, VIConfigure.
Set(p) ==
  /\ \E t \in VideoThreads : Runs(t) /\ viPc[t] = "run"
  /\ viPending' = p
  /\ meant' = IF armed THEN p ELSE meant
  /\ UNCHANGED <<threads, due, pass, phase, count, active, armed, meantAt, flushed, retraceCalls, vain>>

Flush ==
  /\ \E t \in VideoThreads : Runs(t) /\ viPc[t] = "run"
  /\ armed' = TRUE
  /\ meant' = viPending /\ flushed' = viPending
  /\ meantAt' = IF armed THEN meantAt ELSE count
  /\ UNCHANGED <<threads, due, pass, phase, count, viPending, active, retraceCalls, vain>>

-----------------------------------------------------------------------------
(* Who makes retraces.                                                     *)

Begin(who, n, isDeferred) ==
  /\ by' = who /\ left' = n /\ deferred' = isDeferred
  /\ UNCHANGED <<threads, due, phase, count, picture, retraceCalls, vain>>

\* VI_HLE_PollRetrace: VIGetRetraceCount and its like. Inside the guard it does nothing.
Poll(t) ==
  /\ Runs(t) /\ viPc[t] = "run"
  /\ \/ by = Nobody /\ due > 0 /\ Begin(t, CatchUp, FALSE)
     \/ /\ by \notin {Nobody, t} /\ due > 0
        /\ vain' = TRUE
        /\ UNCHANGED <<threads, due, pass, phase, count, picture, retraceCalls>>

IdlePoll == viCur = IdleLoop /\ by = Nobody /\ due > 0 /\ Begin(IdleLoop, CatchUp, FALSE)

Latch(t) == viPc[t] = "run"

\* VI_HLE_ProcessRetracesDeferred, from the middle of a translated function.
PollDeferred(t) ==
  /\ Runs(t) /\ Latch(t) /\ by = Nobody /\ due > 0
  /\ Begin(t, CatchUp, TRUE)

\* GXCopyDisp: the copied buffer is next; the frame is held to its boundary, where
\* one retrace is made deferred.
CopyDisp(t, p) ==
  /\ Runs(t) /\ viPc[t] = "run" /\ by = Nobody
  /\ viPending' = p /\ active' = p /\ meant' = p /\ flushed' = p
  /\ by' = t /\ left' = 1 /\ deferred' = TRUE
  /\ UNCHANGED <<threads, due, phase, count, armed, meantAt, retraceCalls, vain>>

\* Nothing (more) is due, or enough was made.
EndPass ==
  /\ by # Nobody /\ viCur = by /\ phase = "free"
  /\ due = 0 \/ left = 0
  /\ by' = Nobody
  /\ UNCHANGED <<threads, due, left, deferred, phase, count, picture, retraceCalls, vain>>

-----------------------------------------------------------------------------
(* AdvanceRetrace.                                                         *)

\* Mutant: what was armed is dropped.
CommitDrops == active' = active /\ armed' = FALSE /\ UNCHANGED <<viPending, meant, meantAt, flushed>>

Commit ==
  /\ active' = IF armed THEN viPending ELSE active
  /\ armed' = FALSE
  /\ UNCHANGED <<viPending, meant, meantAt, flushed>>

Retrace ==
  /\ by # Nobody /\ viCur = by /\ phase = "free" /\ due > 0 /\ left > 0
  /\ due' = due - 1 /\ left' = left - 1
  /\ Commit
  /\ count' = Later(count)
  /\ moved' = [t \in VideoThreads |-> TRUE]
  /\ phase' = "wake"
  /\ UNCHANGED <<viCur, viPc, by, deferred, retraceCalls, vain>>

WokenByRetrace(c) == [t \in VideoThreads |-> IF c[t] = "wait" THEN "ready" ELSE c[t]]

\* Woken threads run when the pass is over: no reschedule inside the guard.
Wake ==
  /\ viCur = by /\ phase = "wake" /\ phase' = "pre"
  /\ viPc' = WokenByRetrace(viPc)
  /\ UNCHANGED <<viCur, moved, due, pass, count, picture, retraceCalls, vain>>

PreCallback ==
  /\ viCur = by /\ phase = "pre" /\ phase' = "post"
  /\ calledPre' = Later(calledPre)
  /\ UNCHANGED <<threads, due, pass, count, picture, calledPost, vain>>

PostReturns == phase' = "free" /\ calledPost' = Later(calledPost)

PostCallback ==
  /\ viCur = by /\ phase = "post"
  /\ PostReturns
  /\ UNCHANGED <<threads, due, pass, count, picture, calledPre, vain>>

\* A callback resumes a thread that runs at once. A deferred pass does not switch, and the
\* idle loop does not either.
Resume(t) ==
  /\ phase \in {"pre", "post"} /\ viCur = by /\ by \in VideoThreads /\ ~deferred
  /\ t # viCur /\ viPc[t] = "run"
  /\ viCur' = t
  /\ UNCHANGED <<viPc, moved, due, pass, phase, count, picture, retraceCalls, vain>>

-----------------------------------------------------------------------------
(* VIWaitForRetrace.                                                       *)

\* Interrupts are disabled from here to the sleep.
WaitBegin(t) ==
  /\ Runs(t) /\ viPc[t] = "run" /\ by # t
  /\ moved' = [moved EXCEPT ![t] = FALSE]
  /\ viPc' = [viPc EXCEPT ![t] = "going"]
  /\ UNCHANGED <<viCur, due, pass, phase, count, picture, retraceCalls, vain>>

SleepForRetrace(t) ==
  /\ Runs(t) /\ viPc[t] = "going"
  /\ viPc' = [viPc EXCEPT ![t] = "wait"]
  /\ \E n \in VideoThreads \cup {IdleLoop} :
       /\ IF n = IdleLoop THEN \A s \in VideoThreads : viPc'[s] = "wait" ELSE viPc'[n] # "wait"
       /\ viCur' = n
  /\ UNCHANGED <<moved, due, pass, phase, count, picture, retraceCalls, vain>>

Pick(t) ==
  /\ viCur = IdleLoop /\ by = Nobody /\ viPc[t] # "wait"
  /\ viCur' = t
  /\ UNCHANGED <<viPc, moved, due, pass, phase, count, picture, retraceCalls, vain>>

\* Back from the sleep: the counter moved, or sleep again.
WaitEnd(t) ==
  /\ Runs(t) /\ viPc[t] = "ready"
  /\ viPc' = [viPc EXCEPT ![t] = IF moved[t] THEN "run" ELSE "going"]
  /\ UNCHANGED <<viCur, moved, due, pass, phase, count, picture, retraceCalls, vain>>

-----------------------------------------------------------------------------
VideoInit ==
  /\ viCur \in VideoThreads
  /\ viPc = [t \in VideoThreads |-> "run"] /\ moved = [t \in VideoThreads |-> FALSE]
  /\ due = 0 /\ by = Nobody /\ left = 0 /\ deferred = FALSE /\ phase = "free"
  /\ count = 0 /\ calledPre = 0 /\ calledPost = 0
  /\ viPending \in Pictures /\ active = viPending /\ armed = FALSE
  /\ meant = viPending /\ meantAt = 0 /\ flushed = viPending
  /\ vain = FALSE

Thread(t) ==
  \/ Poll(t) \/ PollDeferred(t)
  \/ WaitBegin(t) \/ SleepForRetrace(t) \/ WaitEnd(t) \/ Pick(t) \/ Resume(t)
  \/ \E p \in Pictures : CopyDisp(t, p)

Host == IdlePoll \/ EndPass \/ Retrace \/ Wake \/ PreCallback \/ PostCallback

VideoNext ==
  \/ Tick \/ Host \/ Flush
  \/ \E p \in Pictures : Set(p)
  \/ \E t \in VideoThreads : Thread(t)

VideoSpec == VideoInit /\ [][VideoNext]_videoVars

\* Time passes; the idle loop and a pass go on; a thread of the title comes back to
\* VIWaitForRetrace, and a callback returns.
FairVideoSpec ==
  /\ VideoSpec /\ WF_videoVars(Tick) /\ WF_videoVars(Host)
  /\ \A t \in VideoThreads :
       /\ SF_videoVars(WaitBegin(t)) /\ SF_videoVars(Pick(t))
       /\ WF_videoVars(SleepForRetrace(t)) /\ WF_videoVars(WaitEnd(t))

-----------------------------------------------------------------------------
VideoTypeOK ==
  /\ viCur \in VideoThreads \cup {IdleLoop}
  /\ viPc \in [VideoThreads -> {"run", "going", "wait", "ready"}]
  /\ moved \in [VideoThreads -> BOOLEAN]
  /\ due \in 0 .. MaxDue
  /\ by \in VideoThreads \cup {IdleLoop, Nobody} /\ left \in 0 .. CatchUp
  /\ phase \in {"free", "wake", "pre", "post"}
  /\ {deferred, armed, vain} \subseteq BOOLEAN
  /\ {count, calledPre, calledPost, meantAt} \subseteq 0 .. Wrap - 1
  /\ {viPending, active, meant, flushed} \subseteq Pictures

(* VIFlush takes effect at the very next retrace, also when a callback of  *)
(* the present one called it: nothing stays armed across a retrace.        *)
FlushLandsNextRetrace == armed => meantAt = count

(* No flush is lost: once nothing is armed, the display shows it.          *)
FlushNotLost == ~armed => active = meant

(* The title is called back once before and once after per retrace,        *)
(* however passes nest.                                                    *)
CalledOncePerRetrace ==
  /\ phase = "free" => calledPre = count /\ calledPost = count
  /\ phase = "pre" => count = Later(calledPre)

(* A thread never sleeps over a retrace: what it waits on is the present   *)
(* counter, from the moment it sleeps until it is woken.                   *)
SleeperWaitsForNext == \A t \in VideoThreads : viPc[t] = "wait" /\ phase # "wake" => ~moved[t]

(* VIWaitForRetrace returns.                                               *)
WaitsIn(t, place) == viPc[t] = place
WaitersReturn == \A t \in VideoThreads : WaitsIn(t, "wait") ~> WaitsIn(t, "run")

(* vi.cpp: "VIFlush arms them": what the display shows was pending when    *)
(* VIFlush was called. A setting made later, and never flushed, is shown   *)
(* with it.                                                                *)
OnlyFlushedShown == ~armed => active = flushed

(* vi.cpp: "Safe to call from busy loops ... to keep VBlank ticking": a    *)
(* poll outside a callback makes the retraces that are due.                *)
PollsAdvance == ~vain

\* What the video interface promises: each retrace shows the last flush, calls back once
\* before and once after, and wakes those who wait for it.
RetracesExact ==
  FlushLandsNextRetrace /\ FlushNotLost /\ CalledOncePerRetrace /\ SleeperWaitsForNext
=============================================================================
