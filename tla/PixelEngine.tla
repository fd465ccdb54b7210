----------------------------- MODULE PixelEngine ----------------------------
(***************************************************************************)
(* The two interrupt conditions of the pixel engine                        *)
(* (runtime/src/hle/gx/gx_fifo.cpp), the register through which the guest  *)
(* acknowledges them, the delivery of a GameCube title                     *)
(* (gamecube_external_interrupts.cpp) and the delivery this title's loop   *)
(* makes (projects/meteor/runtime_native/scheduler_wait.cpp). A draw token *)
(* and FINISH become visible where they stand in the command stream.       *)
(***************************************************************************)
EXTENDS Naturals, Sequences

CONSTANTS
  DrawThreads,  \* guest threads that call GXDrawDone
  MaxDraws,     \* bound: draws put in the stream
  MaxTokens,    \* bound: draw tokens
  MaxFinishes   \* bound: calls of GXDrawDone

PixelAssumption == {MaxDraws, MaxTokens, MaxFinishes} \subseteq Nat

VARIABLES
  external,            \* the external interrupts of a GameCube title are compiled in
  issued, rendered,    \* draws in the stream, draws the host renderer has taken
  tokens,              \* tokens whose interrupt was not acknowledged
  tokenDispatched,     \* the first of them was delivered
  finishPending, finishDispatched,
  handler,             \* guest handler that runs: none, token, finish
  flag,                \* the draw-done byte of the title
  drawPc, mark,        \* threads: run, sleep, ready; draws before the FINISH they wait for
  emitted, finishes,   \* tokens emitted, FINISH conditions raised
  drawDones,           \* calls of GXDrawDone
  delivered, served,   \* history: tokens delivered, FINISH interrupts delivered
  unheard              \* history: a FINISH was cleared that was not delivered

stream == <<external, issued, rendered>>
tokenVars == <<tokens, tokenDispatched, emitted, delivered>>
finishVars == <<finishPending, finishDispatched, finishes, served, unheard>>
guest == <<flag, drawPc, mark, drawDones>>
pixelVars == <<stream, tokenVars, finishVars, handler, guest>>

-----------------------------------------------------------------------------
(* The command stream.                                                     *)

Draw ==
  /\ issued < MaxDraws /\ issued' = issued + 1
  /\ UNCHANGED <<external, rendered, tokenVars, finishVars, handler, guest>>

\* The renderer takes what stands in the stream when its buffer is full, or sooner.
Drain ==
  /\ rendered' = issued
  /\ UNCHANGED <<external, issued, tokenVars, finishVars, handler, guest>>

\* GXSetDrawSync: PETOKENINT raises the condition, PETOKEN is a plain update.
\* A handler's callback may call it too.
SetDrawSync ==
  /\ emitted < MaxTokens
  /\ emitted' = emitted + 1
  /\ tokens' = Append(tokens, emitted + 1)
  /\ UNCHANGED <<stream, tokenDispatched, delivered, finishVars, handler, guest>>

\* Mutant: a FINISH that is pending already drains nothing.
FinishDrainsNew == rendered' = IF finishPending THEN rendered ELSE issued

FinishDrains == rendered' = issued

\* BP 0x45: drained before it is visible; a pending condition is not raised twice.
FinishCommand ==
  /\ FinishDrains
  /\ finishPending' = TRUE
  /\ finishDispatched' = (finishPending /\ finishDispatched)
  /\ finishes' = finishes + (IF finishPending THEN 0 ELSE 1)
  /\ UNCHANGED <<external, issued, served, unheard>>

\* GXDrawDone of the title, with interrupts disabled: FINISH, clear the byte, sleep.
DrawDone(t) ==
  /\ drawPc[t] = "run" /\ handler = "none" /\ drawDones < MaxFinishes
  /\ drawDones' = drawDones + 1
  /\ FinishCommand
  /\ flag' = FALSE
  /\ drawPc' = [drawPc EXCEPT ![t] = "sleep"]
  /\ mark' = [mark EXCEPT ![t] = issued]
  /\ UNCHANGED <<tokenVars, handler>>

\* The thread was woken and looks at the byte again.
Recheck(t) ==
  /\ drawPc[t] = "ready" /\ handler = "none"
  /\ drawPc' = [drawPc EXCEPT ![t] = IF flag THEN "run" ELSE "sleep"]
  /\ UNCHANGED <<stream, tokenVars, finishVars, handler, flag, mark, drawDones>>

-----------------------------------------------------------------------------
(* The control register: a read shows the conditions, a one clears.        *)

Shows == (IF tokens # <<>> THEN {"token"} ELSE {}) \cup (IF finishPending THEN {"finish"} ELSE {})

WriteKeepsFinish(ones) ==
  /\ tokens' = IF "token" \in ones /\ tokens # <<>> THEN Tail(tokens) ELSE tokens
  /\ tokenDispatched' = (tokenDispatched /\ "token" \notin ones)
  /\ finishPending' = finishPending
  /\ finishDispatched' = (finishDispatched /\ "finish" \notin ones)

Write(ones) ==
  /\ tokens' = IF "token" \in ones /\ tokens # <<>> THEN Tail(tokens) ELSE tokens
  /\ tokenDispatched' = (tokenDispatched /\ "token" \notin ones)
  /\ finishPending' = (finishPending /\ "finish" \notin ones)
  /\ finishDispatched' = (finishDispatched /\ "finish" \notin ones)

\* What a handler does: read, set its own bit, write.
Acknowledge(condition) ==
  /\ Write(Shows \cup {condition})
  /\ unheard' = (unheard \/ (finishPending /\ condition # "finish"))
  /\ UNCHANGED <<emitted, finishes>>

\* Mutant: the byte is set, and the sleepers sleep on.
WokenNone == drawPc

Woken == [t \in DrawThreads |-> IF drawPc[t] = "sleep" THEN "ready" ELSE drawPc[t]]

-----------------------------------------------------------------------------
(* Delivery, at a boundary of translated code with interrupts enabled. The *)
(* enables of both conditions stay set: an acknowledgement writes them     *)
(* back as it read them.                                                   *)

\* DeliverMeteorPeFinishInterrupt, no draw-done callback installed.
DeliverDirect ==
  /\ ~external /\ handler = "none"
  /\ finishPending /\ ~finishDispatched
  /\ Acknowledge("finish")
  /\ served' = served + 1
  /\ flag' = TRUE /\ drawPc' = Woken
  /\ UNCHANGED <<stream, delivered, handler, mark, drawDones>>

\* GX_HLE_ClaimPeTokenInterrupt; the handler calls back before it acknowledges.
DeliverToken ==
  /\ external /\ handler = "none"
  /\ tokens # <<>> /\ ~tokenDispatched
  /\ tokenDispatched' = TRUE
  /\ delivered' = Append(delivered, Head(tokens))
  /\ handler' = "token"
  /\ UNCHANGED <<stream, tokens, emitted, finishVars, guest>>

TokenHandler ==
  /\ handler = "token" /\ handler' = "none"
  /\ Acknowledge("token")
  /\ UNCHANGED <<stream, delivered, served, guest>>

\* FINISH stands last in the order of the sources.
DeliverFinish ==
  /\ external /\ handler = "none"
  /\ tokens = <<>> \/ tokenDispatched
  /\ finishPending /\ ~finishDispatched
  /\ finishDispatched' = TRUE /\ served' = served + 1
  /\ handler' = "finish"
  /\ UNCHANGED <<stream, tokenVars, finishPending, finishes, unheard, guest>>

\* Acknowledges first, then sets the byte and wakes.
FinishHandler ==
  /\ handler = "finish" /\ handler' = "none"
  /\ Acknowledge("finish")
  /\ flag' = TRUE /\ drawPc' = Woken
  /\ UNCHANGED <<stream, delivered, served, mark, drawDones>>

-----------------------------------------------------------------------------
PixelInit ==
  /\ external \in BOOLEAN
  /\ issued = 0 /\ rendered = 0
  /\ tokens = <<>> /\ tokenDispatched = FALSE /\ emitted = 0 /\ delivered = <<>>
  /\ finishPending = FALSE /\ finishDispatched = FALSE
  /\ finishes = 0 /\ served = 0 /\ unheard = FALSE
  /\ handler = "none" /\ flag = FALSE /\ drawDones = 0
  /\ drawPc = [t \in DrawThreads |-> "run"] /\ mark = [t \in DrawThreads |-> 0]

Deliver == DeliverDirect \/ DeliverToken \/ TokenHandler \/ DeliverFinish \/ FinishHandler

PixelNext ==
  \/ Draw \/ Drain \/ SetDrawSync \/ Deliver
  \/ \E t \in DrawThreads : DrawDone(t) \/ Recheck(t)

PixelSpec == PixelInit /\ [][PixelNext]_pixelVars

\* The boundaries keep coming (the idle loop is one), and a ready thread runs.
FairPixelSpec ==
  PixelSpec /\ WF_pixelVars(Deliver) /\ \A t \in DrawThreads : WF_pixelVars(Recheck(t))

-----------------------------------------------------------------------------
PixelTypeOK ==
  /\ external \in BOOLEAN /\ {issued, rendered} \subseteq 0 .. MaxDraws
  /\ tokens \in Seq(1 .. MaxTokens) /\ delivered \in Seq(1 .. MaxTokens)
  /\ emitted \in 0 .. MaxTokens
  /\ {tokenDispatched, finishPending, finishDispatched, flag, unheard} \subseteq BOOLEAN
  /\ {finishes, served, drawDones} \subseteq 0 .. MaxFinishes
  /\ handler \in {"none", "token", "finish"}
  /\ drawPc \in [DrawThreads -> {"run", "sleep", "ready"}]
  /\ mark \in [DrawThreads -> 0 .. MaxDraws]

(* A token interrupts at most once, and tokens interrupt in the order of   *)
(* the stream.                                                             *)
TokensInOrder == \A i, j \in DOMAIN delivered : i < j => delivered[i] < delivered[j]

(* A FINISH condition, of however many GXDrawDone calls, interrupts at most *)
(* once (not at least: see FinishDelivered).                                *)
FinishOncePerCondition == served <= finishes

(* When the title is told that drawing is done, every draw before the      *)
(* GXDrawDone of each waiting thread was taken by the renderer.            *)
DrawnBeforeDone == \A t \in DrawThreads : drawPc[t] \in {"sleep", "ready"} => mark[t] <= rendered

(* A thread in GXDrawDone returns (this title's delivery).                 *)
DrawsIn(t, place) == drawPc[t] = place
DrawDoneReturns == \A t \in DrawThreads : DrawsIn(t, "sleep") ~> DrawsIn(t, "run")

(* gx_fifo.cpp: "The actual interrupt is delivered later at an             *)
(* interrupt-safe guest boundary". A token handler's acknowledgement       *)
(* writes back the FINISH bit it read, so that interrupt never comes.      *)
FinishDelivered == ~unheard

\* What the pixel engine promises: each signal at most once, in the order of the stream, and "done"
\* only after what was drawn before.
SignalsInOrder == TokensInOrder /\ FinishOncePerCondition /\ DrawnBeforeDone
=============================================================================
