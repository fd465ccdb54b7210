------------------------------ MODULE AudioDma ------------------------------
(***************************************************************************)
(* The audio interface DMA (runtime/src/hle/audio/audio.cpp): a physical   *)
(* clock that plays the active block, reloads what the title programmed    *)
(* and latches AIDINT, and the service that hears AIDINT at polls. Title   *)
(* code runs outside any service, in the DMA callback and in the DSP work  *)
(* after it, and may poll from there. A service that comes more than one   *)
(* block late replays the boundaries one by one. Time is in units that     *)
(* divide every block; the host ring is reduced to what it was handed      *)
(* (HostPlayback has the ring).                                            *)
(***************************************************************************)
EXTENDS Integers, FiniteSets

CONSTANTS
  BlockLens,   \* lengths of blocks
  Titles,      \* which titles may be running, see title
  MaxClock,    \* bound: time, for a prompt title and for others
  MaxPrograms, \* bound: submissions, for a prompt title and for others
  MaxCredit,   \* silence the host remembers
  MaxReplay,   \* boundaries one service replays (1024 in the code)
  HostAnswers  \* what the host may answer: subset of {"ok", "absent", "fails"}

AudioAssumption ==
  /\ BlockLens \subseteq Nat
  /\ Titles \subseteq {{}, {"suppresses"}, {"suppresses", "prompt"}}
  /\ {MaxClock, MaxPrograms} \subseteq [BOOLEAN -> Nat \ {0}]
  /\ {MaxCredit, MaxReplay} \subseteq Nat
  /\ HostAnswers \subseteq {"ok", "absent", "fails"}

VARIABLES
  title,          \* its policy: "suppresses" plays a submission once; a "prompt" one submits
                  \* one block in every callback, at once, neither masks nor stops, and
                  \* its host answers
  audioClock,     \* the steady clock
  dma,            \* AIDmaState: on, active and programmed blocks, the submission played last,
                  \* unspent time, the moment time was last taken up to (0: none), AIDINT
  audioHost,      \* what was handed to the host: silence credit, plays under the policy, time
                  \* played, left silent, covered, not taken; credit forgotten; a failed push
  dmaCallback,    \* a callback is registered
  callbackBusy,   \* callbackBusy of the title
  dmaLatch,       \* interrupts are open
  dmaPhase,       \* title code: "guest", "callback", "dsp"; the replay: "loop", "end"
  fed,            \* this callback has submitted a block
  aiService,      \* "none", "tick" or "replay": who holds tickActive
  replayTarget,   \* the moment a replay catches up with
  replayed,       \* boundaries of this replay
  servicesInside, \* services that have not ended
  dmaStarted,     \* when the DMA was started
  dmaBehind       \* how far a replay was behind when its callback started the DMA, else 0

titleVars == <<dmaCallback, callbackBusy, dmaLatch, dmaPhase, fed>>
serviceVars == <<aiService, replayTarget, replayed, servicesInside>>
startVars == <<dmaStarted, dmaBehind>>
dmaVars ==
  <<title, audioClock, dma, audioHost, dmaCallback, callbackBusy, dmaLatch, dmaPhase, fed,
    aiService, replayTarget, replayed, servicesInside, startVars>>

Suppresses == "suppresses" \in title
Prompt == "prompt" \in title
Submissions == 1 .. MaxPrograms[Prompt]

NoBuffer == [n |-> 0, len |-> 0]
Lesser(a, b) == IF a < b THEN a ELSE b
InTitle == dmaPhase \notin {"loop", "end"}

\* Time of the blocks completed since the DMA was started.
Consumed == audioHost.real + audioHost.silent + audioHost.covered + audioHost.dropped

-----------------------------------------------------------------------------
(* The physical clock.                                                     *)

Running(d) == d.on /\ d.active.len # 0

Since(d, t) == IF d.cursor = 0 \/ t < d.cursor THEN 0 ELSE t - d.cursor

\* Mutant: time that is not enough for a block is dropped.
ElapsedFresh(d, t) == Since(d, t)

Elapsed(d, t) == d.acc + Since(d, t)

\* Boundaries up to t: the active block, then the programmed one over and over.
Boundaries(d, t, max) ==
  IF ~Running(d) \/ Elapsed(d, t) < d.active.len \/ max = 0 THEN 0
  ELSE IF d.programmed.len = 0 THEN 1
  ELSE Lesser(max, 1 + (Elapsed(d, t) - d.active.len) \div d.programmed.len)

Spent(d, k) == IF k = 0 THEN 0 ELSE d.active.len + (k - 1) * d.programmed.len

Advanced(d, t, max) ==
  LET k == Boundaries(d, t, max) IN
  IF ~Running(d) THEN [d EXCEPT !.cursor = t]
  ELSE IF k = 0 THEN [d EXCEPT !.cursor = t, !.acc = Elapsed(d, t)]
  ELSE [d EXCEPT !.cursor = t, !.aid = TRUE, !.active = d.programmed,
                 !.last = IF k = 1 THEN d.active.n ELSE d.programmed.n,
                 !.acc = IF d.programmed.len = 0 THEN 0 ELSE Elapsed(d, t) - Spent(d, k)]

\* Submissions among the first k boundaries that were not played before.
FreshBlocks(d, k) ==
  (IF d.active.n # d.last THEN {d.active.n} ELSE {})
  \cup (IF k > 1 /\ d.programmed.n # d.active.n THEN {d.programmed.n} ELSE {})

FreshTime(d, k) ==
  (IF d.active.n \in FreshBlocks(d, k) THEN d.active.len ELSE 0)
  + (IF d.programmed.n \in FreshBlocks(d, k) \ {d.active.n} THEN d.programmed.len ELSE 0)

\* k blocks handed to the host: silence it already made covers stale time first.
Published(h, d, k, replay) ==
  LET policy == Suppresses /\ dmaCallback
      real == IF policy THEN FreshTime(d, k) ELSE Spent(d, k)
      stale == Spent(d, k) - real
      covered == Lesser(stale, h.credit)
      resolve == stale # 0 \/ ~replay
  IN [h EXCEPT !.real = @ + real, !.silent = @ + stale - covered, !.covered = @ + covered,
               !.plays = [n \in Submissions |->
                  @[n] + IF policy /\ n \in FreshBlocks(d, k) THEN 1 ELSE 0],
               !.credit = IF resolve THEN 0 ELSE @,
               !.lost = IF replay /\ resolve THEN @ + h.credit - covered ELSE @]

\* AdvanceAiPhysicalTo: the host may be absent, or a push may fail.
Answers == IF Prompt THEN {"ok"} ELSE HostAnswers
Advances(t, max) ==
  LET k == Boundaries(dma, t, max)
      d == Advanced(dma, t, max)
      dropped == [audioHost EXCEPT !.dropped = @ + Spent(dma, k)]
  IN IF k = 0 THEN {[d |-> d, h |-> audioHost]}
     ELSE {[d |-> IF how = "fails" THEN [d EXCEPT !.on = FALSE, !.aid = FALSE] ELSE d,
            h |-> CASE how = "ok" -> Published(audioHost, dma, k, aiService = "replay")
                    [] how = "absent" -> dropped
                    [] how = "fails" -> [dropped EXCEPT !.failed = TRUE]] : how \in Answers}

Unbounded == MaxClock[Prompt] + 1

\* What the title asks advances the clock first, but not in a replay.
Touched ==
  IF aiService = "replay" THEN {[d |-> dma, h |-> audioHost]} ELSE Advances(audioClock, Unbounded)

-----------------------------------------------------------------------------
(* Title code.                                                             *)

InitDMA(len) ==
  /\ InTitle /\ dma.programmed.n < MaxPrograms[Prompt]
  /\ Prompt => /\ len # 0
               /\ IF dma.on THEN dmaPhase = "callback" /\ ~fed ELSE dma.programmed.len = 0
  /\ \E r \in Touched :
       /\ audioHost' = r.h
       /\ dma' = [r.d EXCEPT !.programmed = [n |-> r.d.programmed.n + 1, len |-> len]]
  /\ fed' = TRUE
  /\ UNCHANGED <<title, audioClock, dmaCallback, callbackBusy, dmaLatch, dmaPhase, serviceVars,
                 startVars>>

\* AIGetDMABytesLeft.
BytesLeft ==
  /\ InTitle /\ ~Prompt
  /\ \E r \in Touched : audioHost' = r.h /\ dma' = r.d
  /\ UNCHANGED <<title, audioClock, titleVars, serviceVars, startVars>>

StartDMA ==
  /\ InTitle /\ ~dma.on /\ (Prompt => dma.programmed.len # 0)
  /\ dma' = [dma EXCEPT !.on = TRUE, !.active = dma.programmed, !.last = 0, !.acc = 0,
                        !.cursor = audioClock, !.aid = TRUE]
  /\ audioHost' = [audioHost EXCEPT !.credit = 0, !.plays = [n \in Submissions |-> 0],
                                    !.real = 0, !.silent = 0, !.covered = 0, !.dropped = 0]
  /\ dmaStarted' = audioClock
  /\ dmaBehind' = IF aiService = "replay" THEN audioClock - replayTarget ELSE 0
  /\ UNCHANGED <<title, audioClock, titleVars, serviceVars>>

Stopped(d) == [d EXCEPT !.on = FALSE, !.active = NoBuffer, !.acc = 0, !.cursor = 0]

StopDMA ==
  /\ InTitle /\ ~Prompt /\ dma.on
  /\ \E r \in Touched : audioHost' = r.h /\ dma' = Stopped(r.d)
  /\ UNCHANGED <<title, audioClock, titleVars, serviceVars, startVars>>

StopSystem ==
  /\ InTitle /\ ~Prompt /\ dma.on
  /\ dma' = [Stopped(dma) EXCEPT !.aid = FALSE,
                                 !.programmed = [n |-> dma.programmed.n, len |-> 0]]
  /\ UNCHANGED <<title, audioClock, audioHost, titleVars, serviceVars, startVars>>

RegisterCallback ==
  /\ InTitle /\ ~Prompt /\ dmaCallback' = ~dmaCallback
  /\ UNCHANGED <<title, audioClock, dma, audioHost, callbackBusy, dmaLatch, dmaPhase, fed,
                 serviceVars, startVars>>

MaskAudio ==
  /\ InTitle /\ ~Prompt /\ dmaLatch' = ~dmaLatch
  /\ UNCHANGED <<title, audioClock, dma, audioHost, dmaCallback, callbackBusy, dmaPhase, fed,
                 serviceVars, startVars>>

ClockTicks ==
  /\ audioClock < MaxClock[Prompt] /\ (Prompt => dmaPhase = "guest")
  /\ audioClock' = audioClock + 1
  /\ UNCHANGED <<title, dma, audioHost, titleVars, serviceVars, startVars>>

\* The playback thread ran dry for a while.
HostSilence ==
  /\ audioHost.credit < MaxCredit
  /\ audioHost' = [audioHost EXCEPT !.credit = @ + 1]
  /\ UNCHANGED <<title, audioClock, dma, titleVars, serviceVars, startVars>>

-----------------------------------------------------------------------------
(* The service.                                                            *)

\* AiHistoricalReplayRequired: d has been brought up to now, with no boundary taken.
ReplayRequired(d) ==
  /\ Suppresses /\ dmaCallback /\ Running(d)
  /\ IF d.aid THEN d.acc >= d.active.len
     ELSE d.programmed.len # 0 /\ d.acc >= d.active.len + d.programmed.len

PollMasked ==
  /\ InTitle /\ aiService # "replay" /\ ~dmaLatch
  /\ \E r \in Advances(audioClock, Unbounded) : audioHost' = r.h /\ dma' = r.d
  /\ UNCHANGED <<title, audioClock, titleVars, serviceVars, startVars>>

Acked(d) == [d EXCEPT !.aid = FALSE]
NestedAck(d) == IF callbackBusy THEN Acked(d) ELSE d

PollNested ==
  /\ InTitle /\ aiService = "tick" /\ dmaLatch
  /\ \E r \in Advances(audioClock, Unbounded) : audioHost' = r.h /\ dma' = NestedAck(r.d)
  /\ UNCHANGED <<title, audioClock, titleVars, serviceVars, startVars>>

StartReplay ==
  /\ InTitle /\ aiService = "none" /\ dmaLatch /\ ~callbackBusy
  /\ ReplayRequired(Advanced(dma, audioClock, 0))
  /\ dma' = Advanced(dma, audioClock, 0)
  /\ aiService' = "replay" /\ replayTarget' = audioClock /\ replayed' = 0
  /\ dmaPhase' = "loop" /\ servicesInside' = servicesInside + 1
  /\ UNCHANGED <<title, audioClock, audioHost, dmaCallback, callbackBusy, dmaLatch, fed,
                 startVars>>

PerService == IF Suppresses THEN 1 ELSE Unbounded

\* The outermost service: time is taken, AIDINT acknowledged, the callback entered.
PollOuter ==
  /\ InTitle /\ aiService = "none" /\ dmaLatch
  /\ ~ReplayRequired(Advanced(dma, audioClock, 0))
  /\ \E r \in Advances(audioClock, PerService) :
       /\ audioHost' = r.h /\ dma' = Acked(r.d)
       /\ IF r.d.aid /\ dmaCallback /\ ~callbackBusy
          THEN /\ dmaPhase' = "callback" /\ callbackBusy' = TRUE /\ fed' = FALSE
               /\ aiService' = "tick" /\ servicesInside' = servicesInside + 1
          ELSE UNCHANGED <<dmaPhase, callbackBusy, fed, aiService, servicesInside>>
  /\ UNCHANGED <<title, audioClock, dmaCallback, dmaLatch, replayTarget, replayed, startVars>>

CallbackReturns ==
  /\ dmaPhase = "callback" /\ (Prompt => fed)
  /\ \E r \in Touched : audioHost' = r.h /\ dma' = r.d
  /\ dmaPhase' = "dsp" /\ callbackBusy' = FALSE
  /\ UNCHANGED <<title, audioClock, dmaCallback, dmaLatch, fed, serviceVars, startVars>>

ServiceEnds ==
  /\ dmaPhase = "dsp" /\ aiService # "replay"
  /\ \E r \in Advances(audioClock, Unbounded) : audioHost' = r.h /\ dma' = r.d
  /\ dmaPhase' = "guest" /\ aiService' = "none" /\ servicesInside' = servicesInside - 1
  /\ UNCHANGED <<title, audioClock, dmaCallback, callbackBusy, dmaLatch, fed, replayTarget,
                 replayed, startVars>>

NextReplay ==
  /\ dmaPhase = "dsp" /\ aiService = "replay" /\ dmaPhase' = "loop" /\ replayed' = replayed + 1
  /\ UNCHANGED <<title, audioClock, dma, audioHost, dmaCallback, callbackBusy, dmaLatch, fed,
                 aiService, replayTarget, servicesInside, startVars>>

\* One boundary is taken, if none is latched, acknowledged, and its callback entered.
ReplayStep ==
  /\ dmaPhase = "loop" /\ replayed < MaxReplay /\ dmaLatch
  /\ \E r \in IF dma.aid THEN {[d |-> dma, h |-> audioHost]} ELSE Advances(replayTarget, 1) :
       /\ audioHost' = r.h /\ dma' = Acked(r.d)
       /\ IF r.d.aid /\ dmaCallback /\ ~callbackBusy
          THEN dmaPhase' = "callback" /\ callbackBusy' = TRUE /\ fed' = FALSE
          ELSE dmaPhase' = "end" /\ UNCHANGED <<callbackBusy, fed>>
  /\ UNCHANGED <<title, audioClock, dmaCallback, dmaLatch, serviceVars, startVars>>

ReplayStops ==
  /\ dmaPhase = "loop" /\ ~(replayed < MaxReplay /\ dmaLatch)
  /\ dmaPhase' = "end"
  /\ UNCHANGED <<title, audioClock, dma, audioHost, dmaCallback, callbackBusy, dmaLatch, fed,
                 serviceVars, startVars>>

EndReplay ==
  /\ dmaPhase = "end"
  /\ audioHost' = [audioHost EXCEPT !.credit = 0]
  /\ dmaPhase' = "guest" /\ aiService' = "none" /\ servicesInside' = servicesInside - 1
  /\ UNCHANGED <<title, audioClock, dma, dmaCallback, callbackBusy, dmaLatch, fed, replayTarget,
                 replayed, startVars>>

-----------------------------------------------------------------------------
AudioInit ==
  /\ title \in Titles
  /\ audioClock = 1
  /\ dma = [on |-> FALSE, active |-> NoBuffer, programmed |-> NoBuffer, last |-> 0,
            acc |-> 0, cursor |-> 0, aid |-> FALSE]
  /\ audioHost = [credit |-> 0, plays |-> [n \in Submissions |-> 0], real |-> 0, silent |-> 0,
                  covered |-> 0, dropped |-> 0, lost |-> 0, failed |-> FALSE]
  /\ dmaCallback = TRUE /\ callbackBusy = FALSE /\ dmaLatch = TRUE
  /\ dmaPhase = "guest" /\ fed = FALSE
  /\ aiService = "none" /\ replayTarget = 0 /\ replayed = 0
  /\ servicesInside = 0 /\ dmaStarted = 1 /\ dmaBehind = 0

AudioNext ==
  \/ \E len \in BlockLens : InitDMA(len)
  \/ BytesLeft \/ StartDMA \/ StopDMA \/ StopSystem \/ RegisterCallback \/ MaskAudio
  \/ ClockTicks \/ HostSilence
  \/ PollMasked \/ PollNested \/ StartReplay \/ PollOuter
  \/ CallbackReturns \/ ServiceEnds \/ NextReplay \/ ReplayStep \/ ReplayStops \/ EndReplay

AudioSpec == AudioInit /\ [][AudioNext]_dmaVars

-----------------------------------------------------------------------------
DmaBlocks == [n : 0 .. MaxPrograms[Prompt], len : Nat]
AIDmaState ==
  [on : BOOLEAN, active : DmaBlocks, programmed : DmaBlocks, last : 0 .. MaxPrograms[Prompt],
   acc : 0 .. MaxClock[Prompt], cursor : 0 .. MaxClock[Prompt], aid : BOOLEAN]
HandedOver ==
  [credit : 0 .. MaxCredit, plays : [Submissions -> Nat], real : Nat, silent : Nat,
   covered : Nat, dropped : Nat, lost : Nat, failed : BOOLEAN]
AudioTypeOK ==
  /\ title \in Titles
  /\ audioClock \in 1 .. MaxClock[Prompt] /\ dmaStarted \in 1 .. MaxClock[Prompt]
  /\ dmaBehind \in 0 .. MaxClock[Prompt]
  /\ dma \in AIDmaState /\ audioHost \in HandedOver
  /\ {dmaCallback, callbackBusy, dmaLatch, fed} \subseteq BOOLEAN
  /\ dmaPhase \in {"guest", "callback", "dsp", "loop", "end"}
  /\ aiService \in {"none", "tick", "replay"} /\ servicesInside \in Nat
  /\ replayTarget \in 0 .. MaxClock[Prompt] /\ replayed \in 0 .. MaxReplay

\* The time of the finished blocks of this run, the time kept and the time not yet looked at.
TimeSeen == Consumed + dma.acc + (audioClock - dma.cursor)

\* While the DMA runs, that is the time since it was started: no poll, mask, replay or
\* callback loses time or counts it twice. Only when a callback of a replay started it, the
\* time by which the replay was behind may count once more, as time of the new run.
ClockConserved ==
  Running(dma) => TimeSeen - (audioClock - dmaStarted) \in {0, dmaBehind}

\* What the code does not promise: that a start in a replay makes no difference.
ClockExact == Running(dma) => TimeSeen = audioClock - dmaStarted

\* Under the policy no submission is played twice in a run of the DMA: a late producer is
\* silence, not a buzz.
NoBuzz == \A n \in Submissions : audioHost.plays[n] <= 1

\* No poll, from a callback or from the DSP work after it, starts a service in a service.
NoReentry == servicesInside <= 1

\* If every callback submits the next block at once, a service may be as late as it likes:
\* all submissions are played, in their turn, with no silence between them.
LateButWhole ==
  Prompt => /\ audioHost.silent + audioHost.covered = 0
            /\ \A n \in Submissions : n < dma.active.n => audioHost.plays[n] = 1

\* The interrupt is only acknowledged to run its callback, or while the title says that
\* the callback is busy; else it stays latched for the next service, unless the title has
\* taken its callback away or stopped the system, or the host has failed.
HeardOrBusy ==
  [][dma.aid /\ ~dma'.aid =>
       \/ dmaPhase' = "callback" \/ callbackBusy \/ ~dmaCallback
       \/ audioHost'.failed \/ dma'.programmed.len = 0]_dmaVars

\* A latched interrupt gets its callback.
Heard == dmaPhase = "callback" \/ ~dmaCallback \/ audioHost.failed \/ dma.programmed.len = 0

\* The silence of a batch covers its stale blocks until it is used up, also when the batch
\* is replayed in pieces (violated).
CreditKeptInReplay == audioHost.lost = 0

\* What the DMA promises: no time is lost or counted twice (but for a start in a replay),
\* no submission is heard twice where the title asks for that, no delay silences a prompt
\* producer, and interrupts are heard.
AudioExact ==
  /\ []/\ ClockConserved /\ NoReentry
       /\ NoBuzz /\ LateButWhole
  /\ HeardOrBusy
=============================================================================
