---------------------------- MODULE DeviceProofs -----------------------------
(***************************************************************************)
(* Proofs about the devices, for any threads, pictures, sizes, credits and *)
(* bounds: the interrupts of the pixel engine and the retraces of the      *)
(* video interface, the ring of sound to the host, the remote that the     *)
(* host plays, the checkpoint of the loops that serves the devices, what   *)
(* the guest reads back of the frame buffer, the command lists mixed       *)
(* beside the title, the saves on a memory card and the files of the NAND. *)
(***************************************************************************)
EXTENDS PixelEngine, VideoInterface, HostPlayback, VirtualRemote, LoopServices, GpuReadback,
  AxMixer, CardFlash, NandFiles, SequenceTheorems, FiniteSetTheorems, WellFoundedInduction, TLAPS

-----------------------------------------------------------------------------
(* The pixel engine.                                                       *)

\* Waiting tokens stand in the order of the stream and after every token that was
\* delivered, but for the first while its handler has not acknowledged it.
TokenInv ==
  /\ tokens \in Seq(1 .. MaxTokens) /\ delivered \in Seq(1 .. MaxTokens)
  /\ emitted \in 0 .. MaxTokens
  /\ tokenDispatched \in BOOLEAN
  /\ \A i \in 1 .. Len(tokens) : tokens[i] <= emitted
  /\ \A i \in 1 .. Len(delivered) : delivered[i] <= emitted
  /\ \A i, j \in 1 .. Len(tokens) : i < j => tokens[i] < tokens[j]
  /\ \A i, j \in 1 .. Len(delivered) : i < j => delivered[i] < delivered[j]
  /\ \A i \in 1 .. Len(delivered), j \in 1 .. Len(tokens) :
       (tokenDispatched /\ j = 1) \/ delivered[i] < tokens[j]

\* Every interrupt of a FINISH has a condition of its own, and so has the one to come;
\* no condition is raised but by a call.
FinishInv ==
  /\ finishPending \in BOOLEAN /\ finishDispatched \in BOOLEAN
  /\ unheard \in BOOLEAN /\ flag \in BOOLEAN
  /\ finishes \in Nat /\ served \in Nat /\ drawDones \in 0 .. MaxFinishes
  /\ finishes <= drawDones
  /\ served <= finishes
  /\ finishPending /\ ~finishDispatched => served < finishes

\* No thread has asked for more than the renderer has taken.
DrawInv ==
  /\ external \in BOOLEAN
  /\ issued \in 0 .. MaxDraws /\ rendered \in 0 .. MaxDraws
  /\ rendered <= issued
  /\ handler \in {"none", "token", "finish"}
  /\ drawPc \in [DrawThreads -> {"run", "sleep", "ready"}]
  /\ mark \in [DrawThreads -> 0 .. MaxDraws]
  /\ \A t \in DrawThreads : mark[t] <= rendered

PixelInv == TokenInv /\ FinishInv /\ DrawInv

\* A token that is appended comes after all others.
LEMMA TokenAppended ==
  ASSUME PixelAssumption, TokenInv, SetDrawSync
  PROVE  TokenInv'
<1> DEFINE n == Len(tokens)
<1>1. /\ emitted' = emitted + 1 /\ emitted' \in 1 .. MaxTokens
      /\ tokens' = Append(tokens, emitted')
      /\ UNCHANGED <<delivered, tokenDispatched>>
  BY DEF PixelAssumption, TokenInv, SetDrawSync
<1>2. /\ tokens' \in Seq(1 .. MaxTokens) /\ Len(tokens') = n + 1 /\ n \in Nat
      /\ \A i \in 1 .. n : tokens'[i] = tokens[i]
      /\ tokens'[n + 1] = emitted'
  BY <1>1, AppendProperties, LenProperties DEF TokenInv
<1>3. \A i \in 1 .. n : tokens[i] \in 1 .. MaxTokens /\ tokens[i] <= emitted
  BY ElementOfSeq DEF TokenInv
<1>4. \A i \in 1 .. Len(delivered) : delivered[i] \in 1 .. MaxTokens /\ delivered[i] <= emitted
  BY ElementOfSeq DEF TokenInv
<1>5. emitted \in Nat /\ MaxTokens \in Nat
  BY DEF TokenInv, PixelAssumption
<1>6. \A i \in 1 .. Len(tokens') : tokens'[i] <= emitted'
  BY <1>1, <1>2, <1>3, <1>5
<1>7. \A i, j \in 1 .. Len(tokens') : i < j => tokens'[i] < tokens'[j]
  <2> SUFFICES ASSUME NEW i \in 1 .. n + 1, NEW j \in 1 .. n + 1, i < j
               PROVE  tokens'[i] < tokens'[j]
    BY <1>2
  <2>1. i \in 1 .. n
    BY <1>2
  <2>2. CASE j = n + 1
    BY <2>1, <2>2, <1>1, <1>2, <1>3, <1>5
  <2>3. CASE j # n + 1
    <3>1. j \in 1 .. n
      BY <2>3, <1>2
    <3> QED BY <2>1, <3>1, <1>2 DEF TokenInv
  <2> QED BY <2>2, <2>3
<1>8. \A i \in 1 .. Len(delivered), j \in 1 .. Len(tokens') :
        (tokenDispatched /\ j = 1) \/ delivered[i] < tokens'[j]
  <2> TAKE i \in 1 .. Len(delivered), j \in 1 .. Len(tokens')
  <2>1. CASE j = n + 1
    BY <2>1, <1>1, <1>2, <1>4, <1>5
  <2>2. CASE j # n + 1
    <3>1. j \in 1 .. n
      BY <2>2, <1>2
    <3> QED BY <3>1, <1>2 DEF TokenInv
  <2> QED BY <2>1, <2>2
<1>9. \A i \in 1 .. Len(delivered) : delivered[i] <= emitted'
  BY <1>1, <1>4, <1>5
<1> QED BY <1>1, <1>2, <1>6, <1>7, <1>8, <1>9 DEF TokenInv

\* A write to the control register that acknowledges the token drops the first of them.
LEMMA TokenWritten ==
  ASSUME TokenInv, NEW ones, Write(ones), UNCHANGED <<delivered, emitted>>
  PROVE  TokenInv'
<1>1. CASE "token" \in ones /\ tokens # <<>>
  <2> DEFINE n == Len(tokens)
  <2>1. tokens' = Tail(tokens) /\ tokenDispatched' = FALSE
    BY <1>1 DEF Write
  <2>2. /\ tokens' \in Seq(1 .. MaxTokens) /\ Len(tokens') = n - 1 /\ n \in Nat \ {0}
        /\ \A i \in 1 .. n - 1 : tokens'[i] = tokens[i + 1]
    BY <1>1, <2>1, HeadTailProperties, EmptySeq, LenProperties DEF TokenInv
  <2>3. \A i \in 1 .. Len(tokens') : i + 1 \in 2 .. n /\ i + 1 # 1 /\ tokens'[i] = tokens[i + 1]
    BY <2>2
  <2>4. \A i, j \in 1 .. Len(tokens') : i < j => i + 1 < j + 1
    BY <2>2
  <2>5. \A i \in 1 .. Len(tokens') : i + 1 \in 1 .. n
    BY <2>2
  <2>6. \A i \in 1 .. Len(tokens') : tokens'[i] <= emitted
    BY <2>3, <2>5 DEF TokenInv
  <2>7. \A i, j \in 1 .. Len(tokens') : i < j => tokens'[i] < tokens'[j]
    BY <2>3, <2>4, <2>5 DEF TokenInv
  <2>8. \A i \in 1 .. Len(delivered), j \in 1 .. Len(tokens') : delivered[i] < tokens'[j]
    BY <2>3, <2>5 DEF TokenInv
  <2> QED BY <2>1, <2>2, <2>6, <2>7, <2>8 DEF TokenInv
<1>2. CASE tokens = <<>>
  <2>1. tokens' = <<>> /\ tokenDispatched' \in BOOLEAN
    BY <1>2 DEF Write, TokenInv
  <2>2. Len(tokens') = 0 /\ Len(tokens) = 0
    BY <2>1, <1>2
  <2> QED BY <1>2, <2>1, <2>2 DEF TokenInv
<1>3. CASE "token" \notin ones
  BY <1>3 DEF Write, TokenInv
<1> QED BY <1>1, <1>2, <1>3

\* The token that is delivered comes after those that were.
LEMMA TokenDelivered ==
  ASSUME TokenInv, DeliverToken
  PROVE  TokenInv'
<1> DEFINE m == Len(delivered)
<1>1. /\ tokens # <<>> /\ tokenDispatched = FALSE /\ tokenDispatched' = TRUE
      /\ delivered' = Append(delivered, Head(tokens))
      /\ UNCHANGED <<tokens, emitted>>
  BY DEF DeliverToken, TokenInv
<1>2. 1 \in 1 .. Len(tokens) /\ Head(tokens) = tokens[1] /\ tokens[1] \in 1 .. MaxTokens
  <2>1. tokens \in Seq(1 .. MaxTokens) /\ tokens # <<>>
    BY <1>1 DEF TokenInv
  <2>2. Len(tokens) \in Nat /\ Len(tokens) # 0
    BY <2>1, EmptySeq, LenProperties
  <2>3. 1 \in 1 .. Len(tokens)
    BY <2>2
  <2>4. tokens[1] \in 1 .. MaxTokens
    BY <2>1, <2>3, ElementOfSeq
  <2> QED BY <2>1, <2>3, <2>4, HeadTailProperties
<1>3. /\ delivered' \in Seq(1 .. MaxTokens) /\ Len(delivered') = m + 1 /\ m \in Nat
      /\ \A i \in 1 .. m : delivered'[i] = delivered[i]
      /\ delivered'[m + 1] = tokens[1]
  BY <1>1, <1>2, AppendProperties, LenProperties DEF TokenInv
<1>4. \A i \in 1 .. m : delivered[i] < tokens[1]
  BY <1>1, <1>2 DEF TokenInv
<1>5. \A i \in 1 .. Len(delivered') : delivered'[i] <= emitted
  <2> SUFFICES ASSUME NEW i \in 1 .. m + 1 PROVE delivered'[i] <= emitted
    BY <1>3
  <2>1. CASE i = m + 1
    BY <2>1, <1>2, <1>3 DEF TokenInv
  <2>2. CASE i # m + 1
    BY <2>2, <1>3 DEF TokenInv
  <2> QED BY <2>1, <2>2
<1>6. \A i, j \in 1 .. Len(delivered') : i < j => delivered'[i] < delivered'[j]
  <2> SUFFICES ASSUME NEW i \in 1 .. m + 1, NEW j \in 1 .. m + 1, i < j
               PROVE  delivered'[i] < delivered'[j]
    BY <1>3
  <2>1. i \in 1 .. m
    BY <1>3
  <2>2. CASE j = m + 1
    BY <2>1, <2>2, <1>3, <1>4
  <2>3. CASE j # m + 1
    <3>1. j \in 1 .. m
      BY <2>3, <1>3
    <3> QED BY <2>1, <3>1, <1>3 DEF TokenInv
  <2> QED BY <2>2, <2>3
<1>7. \A i \in 1 .. Len(delivered'), j \in 1 .. Len(tokens) : j = 1 \/ delivered'[i] < tokens[j]
  <2> SUFFICES ASSUME NEW i \in 1 .. m + 1, NEW j \in 1 .. Len(tokens), j # 1
               PROVE  delivered'[i] < tokens[j]
    BY <1>3
  <2>1. CASE i = m + 1
    <3>1. 1 < j
      OBVIOUS
    <3> QED BY <2>1, <3>1, <1>2, <1>3 DEF TokenInv
  <2>2. CASE i # m + 1
    <3>1. i \in 1 .. m
      BY <2>2, <1>3
    <3> QED BY <3>1, <1>1, <1>3 DEF TokenInv
  <2> QED BY <2>1, <2>2
<1> QED BY <1>1, <1>3, <1>5, <1>6, <1>7 DEF TokenInv

\* An acknowledgement leaves no condition of a FINISH: a handler's mask shows it too.
LEMMA Acknowledged ==
  ASSUME FinishInv, NEW condition, Acknowledge(condition)
  PROVE  /\ finishPending' = FALSE /\ finishDispatched' \in BOOLEAN /\ unheard' \in BOOLEAN
         /\ UNCHANGED <<finishes, emitted>>
<1>1. finishPending => "finish" \in Shows \cup {condition}
  BY DEF Shows
<1> QED BY <1>1 DEF Acknowledge, Write, FinishInv

LEMMA AcknowledgedTokens ==
  ASSUME TokenInv, NEW condition, Acknowledge(condition), UNCHANGED delivered
  PROVE  TokenInv'
BY TokenWritten DEF Acknowledge

\* Woken threads are threads.
LEMMA WokenIs ==
  ASSUME DrawInv
  PROVE  Woken \in [DrawThreads -> {"run", "sleep", "ready"}]
BY DEF Woken, DrawInv

LEMMA MaximaAreNat ==
  ASSUME PixelAssumption
  PROVE  MaxDraws \in Nat /\ MaxTokens \in Nat /\ MaxFinishes \in Nat
BY DEF PixelAssumption

LEMMA PixelTypes == ASSUME PixelAssumption, PixelInv PROVE PixelTypeOK
<1>1. {finishes, served} \subseteq 0 .. MaxFinishes
  BY DEF PixelAssumption, PixelInv, FinishInv
<1> QED BY <1>1 DEF PixelInv, TokenInv, FinishInv, DrawInv, PixelTypeOK

LEMMA PixelInvIsEnough == ASSUME PixelAssumption, PixelInv PROVE SignalsInOrder
<1>1. DOMAIN delivered = 1 .. Len(delivered)
  BY DEF PixelInv, TokenInv
<1> QED BY <1>1 DEF PixelInv, TokenInv, FinishInv, DrawInv, SignalsInOrder, TokensInOrder,
                    FinishOncePerCondition, DrawnBeforeDone

LEMMA PixelInitHolds == ASSUME PixelAssumption, PixelInit PROVE PixelInv
<1>1. TokenInv
  <2>1. Len(tokens) = 0 /\ Len(delivered) = 0 /\ tokens = <<>> /\ delivered = <<>>
    BY DEF PixelInit
  <2>2. <<>> \in Seq(1 .. MaxTokens)
    BY EmptySeq
  <2>3. emitted = 0 /\ tokenDispatched = FALSE
    BY DEF PixelInit
  <2>4. emitted \in 0 .. MaxTokens
    BY <2>3, MaximaAreNat
  <2>5. tokenDispatched \in BOOLEAN
    BY <2>3
  <2> QED BY <2>1, <2>2, <2>4, <2>5 DEF TokenInv
<1>2. FinishInv
  <2>1. finishPending = FALSE /\ finishDispatched = FALSE /\ unheard = FALSE /\ flag = FALSE
    BY DEF PixelInit
  <2>2. finishes = 0 /\ served = 0 /\ drawDones = 0
    BY DEF PixelInit
  <2>3. /\ finishPending \in BOOLEAN /\ finishDispatched \in BOOLEAN
        /\ unheard \in BOOLEAN /\ flag \in BOOLEAN
    BY <2>1
  <2>4. /\ finishes \in Nat /\ served \in Nat /\ drawDones \in 0 .. MaxFinishes
        /\ finishes <= drawDones /\ served <= finishes
    BY <2>2, MaximaAreNat
  <2> QED BY <2>1, <2>3, <2>4 DEF FinishInv
<1>3. DrawInv
  BY MaximaAreNat DEF PixelInit, DrawInv
<1> QED BY <1>1, <1>2, <1>3 DEF PixelInv

LEMMA TokenSame ==
  ASSUME TokenInv, UNCHANGED tokenVars
  PROVE  TokenInv'
BY DEF TokenInv, tokenVars

LEMMA PixelStep ==
  ASSUME PixelAssumption, PixelInv, [PixelNext]_pixelVars
  PROVE  PixelInv'
<1> USE DEF PixelInv
<1>1. CASE Draw
  <2>1. UNCHANGED tokenVars
    BY <1>1 DEF Draw
  <2>2. FinishInv'
    BY <1>1 DEF Draw, finishVars, guest, FinishInv
  <2>3. DrawInv'
    BY <1>1 DEF Draw, guest, DrawInv, PixelAssumption
  <2> QED BY <2>1, <2>2, <2>3, TokenSame
<1>2. CASE Drain
  <2>1. UNCHANGED tokenVars
    BY <1>2 DEF Drain
  <2>2. FinishInv'
    BY <1>2 DEF Drain, finishVars, guest, FinishInv
  <2>3. DrawInv'
    BY <1>2 DEF Drain, guest, DrawInv
  <2> QED BY <2>1, <2>2, <2>3, TokenSame
<1>3. CASE SetDrawSync
  <2>1. FinishInv'
    BY <1>3 DEF SetDrawSync, finishVars, guest, FinishInv
  <2>2. DrawInv'
    BY <1>3 DEF SetDrawSync, stream, guest, DrawInv
  <2> QED BY <1>3, <2>1, <2>2, TokenAppended
<1>4. CASE DeliverDirect
  <2>1. Acknowledge("finish") /\ finishPending /\ ~finishDispatched
        /\ served' = served + 1 /\ flag' = TRUE /\ drawPc' = Woken
        /\ UNCHANGED <<stream, delivered, handler, mark, drawDones>>
    BY <1>4 DEF DeliverDirect
  <2>2. finishPending' = FALSE /\ finishDispatched' \in BOOLEAN /\ unheard' \in BOOLEAN
    BY <2>1, Acknowledged
  <2>3. finishes' = finishes
    BY <2>1, Acknowledged
  <2>4. served' \in Nat /\ served' <= finishes
    BY <2>1 DEF FinishInv
  <2>5. FinishInv'
    BY <2>1, <2>2, <2>3, <2>4 DEF FinishInv
  <2>6. DrawInv'
    BY <2>1, WokenIs DEF DrawInv, stream
  <2> QED BY <2>1, <2>5, <2>6, AcknowledgedTokens
<1>5. CASE DeliverToken
  <2>1. FinishInv'
    BY <1>5 DEF DeliverToken, finishVars, guest, FinishInv
  <2>2. DrawInv'
    BY <1>5 DEF DeliverToken, stream, guest, DrawInv
  <2> QED BY <1>5, <2>1, <2>2, TokenDelivered
<1>6. CASE TokenHandler
  <2>1. Acknowledge("token") /\ handler' = "none"
        /\ UNCHANGED <<stream, delivered, served, guest>>
    BY <1>6 DEF TokenHandler
  <2>2. FinishInv'
    BY <2>1, Acknowledged DEF FinishInv, guest
  <2>3. DrawInv'
    BY <2>1 DEF DrawInv, stream, guest
  <2> QED BY <2>1, <2>2, <2>3, AcknowledgedTokens
<1>7. CASE DeliverFinish
  <2>1. UNCHANGED tokenVars
    BY <1>7 DEF DeliverFinish
  <2>2. FinishInv'
    BY <1>7 DEF DeliverFinish, guest, FinishInv
  <2>3. DrawInv'
    BY <1>7 DEF DeliverFinish, stream, guest, DrawInv
  <2> QED BY <2>1, <2>2, <2>3, TokenSame
<1>8. CASE FinishHandler
  <2>1. Acknowledge("finish") /\ handler' = "none" /\ flag' = TRUE /\ drawPc' = Woken
        /\ UNCHANGED <<stream, delivered, served, mark, drawDones>>
    BY <1>8 DEF FinishHandler
  <2>2. finishPending' = FALSE /\ finishDispatched' \in BOOLEAN /\ unheard' \in BOOLEAN
    BY <2>1, Acknowledged
  <2>3. finishes' = finishes
    BY <2>1, Acknowledged
  <2>4. served' \in Nat /\ served' <= finishes
    BY <2>1 DEF FinishInv
  <2>5. FinishInv'
    BY <2>1, <2>2, <2>3, <2>4 DEF FinishInv
  <2>6. DrawInv'
    BY <2>1, WokenIs DEF DrawInv, stream
  <2> QED BY <2>1, <2>5, <2>6, AcknowledgedTokens
<1>9. ASSUME NEW t \in DrawThreads, DrawDone(t)
      PROVE  PixelInv'
  <2>1. UNCHANGED tokenVars
    BY <1>9 DEF DrawDone
  <2>2. /\ drawDones < MaxFinishes /\ drawDones' = drawDones + 1 /\ flag' = FALSE
        /\ finishPending' = TRUE /\ finishDispatched' = (finishPending /\ finishDispatched)
        /\ finishes' = finishes + (IF finishPending THEN 0 ELSE 1)
        /\ UNCHANGED <<served, unheard>>
    BY <1>9 DEF DrawDone, FinishCommand
  <2>3. FinishInv'
    <3>1. drawDones' \in 0 .. MaxFinishes /\ finishes' \in Nat /\ finishes' <= drawDones'
      BY <2>2, MaximaAreNat DEF FinishInv
    <3>2. served' = served /\ served \in Nat /\ served <= finishes'
      BY <2>2 DEF FinishInv
    <3>3. finishPending' /\ ~finishDispatched' => served < finishes'
      <4>1. CASE finishPending /\ ~finishDispatched
        BY <4>1, <2>2 DEF FinishInv
      <4>2. CASE finishPending /\ finishDispatched
        BY <4>2, <2>2
      <4>3. CASE ~finishPending
        BY <4>3, <2>2 DEF FinishInv
      <4> QED BY <4>1, <4>2, <4>3
    <3>4. /\ finishPending' \in BOOLEAN /\ finishDispatched' \in BOOLEAN
          /\ unheard' \in BOOLEAN /\ flag' \in BOOLEAN
      BY <2>2 DEF FinishInv
    <3> QED BY <3>1, <3>2, <3>3, <3>4 DEF FinishInv
  <2>4. /\ rendered' = issued /\ mark' = [mark EXCEPT ![t] = issued]
        /\ drawPc' = [drawPc EXCEPT ![t] = "sleep"]
        /\ UNCHANGED <<external, issued, handler>>
    BY <1>9 DEF DrawDone, FinishCommand, FinishDrains
  <2>5. DrawInv'
    BY <2>4 DEF DrawInv
  <2> QED BY <2>1, <2>3, <2>5, TokenSame
<1>10. ASSUME NEW t \in DrawThreads, Recheck(t)
       PROVE  PixelInv'
  <2>1. UNCHANGED tokenVars
    BY <1>10 DEF Recheck
  <2>2. FinishInv'
    BY <1>10 DEF Recheck, finishVars, FinishInv
  <2>3. DrawInv'
    BY <1>10 DEF Recheck, stream, DrawInv
  <2> QED BY <2>1, <2>2, <2>3, TokenSame
<1>11. CASE UNCHANGED pixelVars
  <2>1. FinishInv'
    BY <1>11 DEF pixelVars, finishVars, guest, FinishInv
  <2>2. DrawInv'
    BY <1>11 DEF pixelVars, stream, guest, DrawInv
  <2>3. UNCHANGED tokenVars
    BY <1>11 DEF pixelVars
  <2> QED BY <2>1, <2>2, <2>3, TokenSame
<1> QED BY <1>1, <1>2, <1>3, <1>4, <1>5, <1>6, <1>7, <1>8, <1>9, <1>10, <1>11
        DEF PixelNext, Deliver

LEMMA PixelInvariance == ASSUME PixelAssumption PROVE PixelSpec => []PixelInv
<1>1. PixelInit => PixelInv
  BY PixelInitHolds
<1>2. PixelInv /\ [PixelNext]_pixelVars => PixelInv'
  BY PixelStep
<1> QED BY <1>1, <1>2, PTL DEF PixelSpec

\* Every variable of the pixel engine keeps its type: no interrupt is delivered more often
\* than GXDrawDone was called.
THEOREM PixelTypesCorrect == ASSUME PixelAssumption PROVE PixelSpec => []PixelTypeOK
<1>1. PixelInv => PixelTypeOK
  BY PixelTypes
<1> QED BY <1>1, PixelInvariance, PTL

\* Tokens interrupt at most once each in the order of the stream, a FINISH condition at most
\* once, and a
\* thread is told that drawing is done after the renderer took what it waited for.
THEOREM SignalsStayInOrder == ASSUME PixelAssumption PROVE PixelSpec => []SignalsInOrder
<1>1. PixelInv => SignalsInOrder
  BY PixelInvIsEnough
<1> QED BY <1>1, PixelInvariance, PTL

-----------------------------------------------------------------------------
(* The video interface.                                                    *)

\* The retrace counter and the callbacks: which of them is behind shows in the phase.
CountInv ==
  /\ count \in 0 .. Wrap - 1 /\ calledPre \in 0 .. Wrap - 1 /\ calledPost \in 0 .. Wrap - 1
  /\ due \in 0 .. MaxDue /\ left \in 0 .. CatchUp
  /\ phase \in {"free", "wake", "pre", "post"}
  /\ phase = "free" => calledPre = count /\ calledPost = count
  /\ phase \in {"wake", "pre"} => count = Later(calledPre) /\ calledPost = calledPre
  /\ phase = "post" => calledPre = count /\ count = Later(calledPost)

\* What a flush armed is what is pending; with nothing armed the display shows the last flush.
PictureInv ==
  /\ viPending \in Pictures /\ active \in Pictures /\ meant \in Pictures /\ flushed \in Pictures
  /\ meantAt \in 0 .. Wrap - 1
  /\ armed \in BOOLEAN
  /\ armed => meant = viPending /\ meantAt = count
  /\ ~armed => active = meant

\* A thread makes a pass as running thread; a thread on its way to sleep has the processor,
\* and no pass, so that no retrace comes between its last look and its sleep.
WaitInv ==
  /\ viCur \in VideoThreads \cup {IdleLoop}
  /\ by \in VideoThreads \cup {IdleLoop, Nobody}
  /\ viPc \in [VideoThreads -> {"run", "going", "wait", "ready"}]
  /\ moved \in [VideoThreads -> BOOLEAN]
  /\ deferred \in BOOLEAN /\ vain \in BOOLEAN
  /\ \A t \in VideoThreads : by = t => viPc[t] = "run"
  /\ \A t \in VideoThreads : viPc[t] = "going" => viCur = t /\ ~moved[t]
  /\ \A t \in VideoThreads : viPc[t] = "wait" /\ phase # "wake" => ~moved[t]

VideoInv == CountInv /\ PictureInv /\ WaitInv

\* The counter wraps.
LEMMA LaterInRange ==
  ASSUME VideoAssumption, NEW n \in 0 .. Wrap - 1
  PROVE  Later(n) \in 0 .. Wrap - 1
<1>1. Wrap \in Nat \ {0}
  BY DEF VideoAssumption
<1>2. CASE n = Wrap - 1
  <2>1. (n + 1) % Wrap = 0
    BY <1>1, <1>2
  <2> QED BY <2>1, <1>1 DEF Later
<1>3. CASE n # Wrap - 1
  <2>1. (n + 1) % Wrap = n + 1
    BY <1>1, <1>3
  <2> QED BY <2>1, <1>1, <1>3 DEF Later
<1> QED BY <1>2, <1>3

LEMMA VideoTypes == ASSUME VideoInv PROVE VideoTypeOK
BY DEF VideoInv, CountInv, PictureInv, WaitInv, VideoTypeOK

LEMMA VideoInvIsEnough == ASSUME VideoInv PROVE RetracesExact
BY DEF VideoInv, CountInv, PictureInv, WaitInv, RetracesExact, FlushLandsNextRetrace,
       FlushNotLost, CalledOncePerRetrace, SleeperWaitsForNext

LEMMA VideoInitHolds == ASSUME VideoAssumption, VideoInit PROVE VideoInv
<1>1. Wrap - 1 \in Nat /\ 0 \in 0 .. Wrap - 1 /\ 0 \in 0 .. MaxDue /\ 0 \in 0 .. CatchUp
  BY DEF VideoAssumption
<1>2. CountInv
  BY <1>1 DEF VideoInit, CountInv
<1>3. PictureInv
  BY <1>1 DEF VideoInit, PictureInv
<1>4. WaitInv
  BY DEF VideoInit, VideoAssumption, WaitInv
<1> QED BY <1>2, <1>3, <1>4 DEF VideoInv

\* A pass begins on the running thread, or in the idle loop.
LEMMA PassBegins ==
  ASSUME VideoInv, NEW who \in VideoThreads \cup {IdleLoop}, NEW n \in 0 .. CatchUp,
         who \in VideoThreads => viPc[who] = "run", NEW d \in BOOLEAN, Begin(who, n, d)
  PROVE  VideoInv'
<1> USE DEF VideoInv
<1>1. UNCHANGED <<viCur, viPc, moved, due, phase, count, vain>> /\ UNCHANGED <<picture, retraceCalls>>
  BY DEF Begin, threads
<1>2. CountInv'
  BY <1>1 DEF Begin, CountInv, Later, retraceCalls
<1>3. PictureInv'
  BY <1>1 DEF PictureInv, picture
<1>4. WaitInv'
  BY <1>1 DEF Begin, WaitInv
<1> QED BY <1>2, <1>3, <1>4

\* A step that leaves the counter and its callbacks, or the picture, alone.
LEMMA CountSame ==
  ASSUME CountInv, UNCHANGED <<phase, count, calledPre, calledPost>>,
         due' \in 0 .. MaxDue, left' \in 0 .. CatchUp
  PROVE  CountInv'
BY DEF CountInv, Later

LEMMA PictureSame ==
  ASSUME PictureInv, UNCHANGED <<picture, count>>
  PROVE  PictureInv'
BY DEF PictureInv, picture

LEMMA WaitSame ==
  ASSUME WaitInv, UNCHANGED <<threads, by, phase>>, deferred' \in BOOLEAN, vain' \in BOOLEAN
  PROVE  WaitInv'
BY DEF WaitInv, threads

\* One thread moves along its wait, on the processor.
LEMMA ThreadMoves ==
  ASSUME VideoInv, NEW t \in VideoThreads,
         UNCHANGED <<due, pass, phase, count, picture, retraceCalls, vain>>,
         WaitInv'
  PROVE  VideoInv'
<1>1. CountInv'
  BY CountSame DEF VideoInv, CountInv, pass, retraceCalls
<1> QED BY <1>1, PictureSame DEF VideoInv

LEMMA VideoHostStep ==
  ASSUME VideoAssumption, VideoInv, Host
  PROVE  VideoInv'
<1> USE DEF VideoInv
<1>a. CatchUp \in Nat /\ CatchUp \in 0 .. CatchUp
  BY DEF VideoAssumption
<1>1. CASE IdlePoll
  BY <1>1, <1>a, PassBegins DEF IdlePoll, VideoAssumption
<1>2. CASE EndPass
  <2>1. /\ by' = Nobody /\ UNCHANGED <<threads, due, left, deferred, phase, count, vain>>
        /\ UNCHANGED <<picture, retraceCalls>>
    BY <1>2 DEF EndPass
  <2>2. CountInv'
    BY <2>1, CountSame DEF CountInv, retraceCalls
  <2>3. WaitInv'
    BY <2>1 DEF WaitInv, threads, VideoAssumption
  <2> QED BY <2>1, <2>2, <2>3, PictureSame
<1>3. CASE Retrace
  <2>1. /\ viCur = by /\ phase = "free" /\ due > 0 /\ left > 0
        /\ due' = due - 1 /\ left' = left - 1
        /\ count' = Later(count) /\ phase' = "wake"
        /\ moved' = [t \in VideoThreads |-> TRUE]
        /\ UNCHANGED <<viCur, viPc, by, deferred, calledPre, calledPost, vain>>
    BY <1>3 DEF Retrace, retraceCalls
  <2>2. CountInv'
    <3>1. count' \in 0 .. Wrap - 1
      BY <2>1, LaterInRange DEF CountInv
    <3>2. due' \in 0 .. MaxDue /\ left' \in 0 .. CatchUp
      BY <2>1, <1>a DEF CountInv, VideoAssumption
    <3>3. calledPre = count /\ calledPost = count
      BY <2>1 DEF CountInv
    <3> QED BY <2>1, <3>1, <3>2, <3>3 DEF CountInv, Later
  <2>3. PictureInv'
    <3>1. /\ active' = IF armed THEN viPending ELSE active
          /\ armed' = FALSE
          /\ UNCHANGED <<viPending, meant, meantAt, flushed>>
      BY <1>3 DEF Retrace, Commit
    <3> QED BY <3>1 DEF PictureInv
  <2>4. \A t \in VideoThreads : viPc[t] # "going"
    BY <2>1 DEF WaitInv
  <2>5. WaitInv'
    BY <2>1, <2>4 DEF WaitInv
  <2> QED BY <2>2, <2>3, <2>5
<1>4. CASE Wake
  <2>1. /\ phase = "wake" /\ phase' = "pre" /\ viPc' = WokenByRetrace(viPc)
        /\ UNCHANGED <<viCur, moved, due, left, by, deferred, count, vain>>
        /\ UNCHANGED <<picture, calledPre, calledPost>>
    BY <1>4 DEF Wake, pass, retraceCalls
  <2>2. CountInv'
    BY <2>1 DEF CountInv, Later
  <2>3. WaitInv'
    BY <2>1 DEF WaitInv, WokenByRetrace
  <2> QED BY <2>1, <2>2, <2>3, PictureSame
<1>5. CASE PreCallback
  <2>1. /\ phase = "pre" /\ phase' = "post" /\ calledPre' = Later(calledPre)
        /\ UNCHANGED <<threads, due, left, by, deferred, count, vain>>
        /\ UNCHANGED <<picture, calledPost>>
    BY <1>5 DEF PreCallback, pass
  <2>2. CountInv'
    BY <2>1 DEF CountInv, Later
  <2>3. WaitInv'
    BY <2>1 DEF WaitInv, threads
  <2> QED BY <2>1, <2>2, <2>3, PictureSame
<1>6. CASE PostCallback
  <2>1. /\ phase = "post" /\ phase' = "free" /\ calledPost' = Later(calledPost)
        /\ UNCHANGED <<threads, due, left, by, deferred, count, vain>>
        /\ UNCHANGED <<picture, calledPre>>
    BY <1>6 DEF PostCallback, PostReturns, pass
  <2>2. CountInv'
    BY <2>1 DEF CountInv, Later
  <2>3. WaitInv'
    BY <2>1 DEF WaitInv, threads
  <2> QED BY <2>1, <2>2, <2>3, PictureSame
<1> QED BY <1>1, <1>2, <1>3, <1>4, <1>5, <1>6 DEF Host

LEMMA VideoThreadStep ==
  ASSUME VideoAssumption, VideoInv, NEW t \in VideoThreads, Thread(t)
  PROVE  VideoInv'
<1> USE DEF VideoInv
<1>a. CatchUp \in Nat /\ CatchUp \in 0 .. CatchUp /\ 1 \in 0 .. CatchUp
  BY DEF VideoAssumption
<1>1. CASE Poll(t)
  <2>1. CASE Begin(t, CatchUp, FALSE)
    BY <1>1, <2>1, <1>a, PassBegins DEF Poll
  <2>2. CASE vain' = TRUE /\ UNCHANGED <<threads, due, pass, phase, count, picture, retraceCalls>>
    <3>1. WaitInv'
      BY <2>2, WaitSame DEF WaitInv, pass
    <3>2. CountInv'
      BY <2>2, CountSame DEF CountInv, pass, retraceCalls
    <3> QED BY <2>2, <3>1, <3>2, PictureSame
  <2> QED BY <1>1, <2>1, <2>2 DEF Poll
<1>2. CASE PollDeferred(t)
  BY <1>2, <1>a, PassBegins DEF PollDeferred, Latch
<1>3. CASE WaitBegin(t)
  <2>1. /\ viCur = t /\ by # t
        /\ moved' = [moved EXCEPT ![t] = FALSE] /\ viPc' = [viPc EXCEPT ![t] = "going"]
        /\ UNCHANGED <<viCur, due, pass, phase, count, picture, retraceCalls, vain>>
    BY <1>3 DEF WaitBegin, Runs
  <2>2. WaitInv'
    BY <2>1 DEF WaitInv, pass
  <2> QED BY <2>1, <2>2, ThreadMoves
<1>4. CASE SleepForRetrace(t)
  <2>1. /\ viCur = t /\ viPc[t] = "going" /\ viPc' = [viPc EXCEPT ![t] = "wait"]
        /\ viCur' \in VideoThreads \cup {IdleLoop}
        /\ UNCHANGED <<moved, due, pass, phase, count, picture, retraceCalls, vain>>
    BY <1>4 DEF SleepForRetrace, Runs
  <2>2. WaitInv'
    BY <2>1 DEF WaitInv, pass
  <2> QED BY <2>1, <2>2, ThreadMoves
<1>5. CASE WaitEnd(t)
  <2>1. /\ viCur = t /\ viPc[t] = "ready"
        /\ viPc' = [viPc EXCEPT ![t] = IF moved[t] THEN "run" ELSE "going"]
        /\ UNCHANGED <<viCur, moved, due, pass, phase, count, picture, retraceCalls, vain>>
    BY <1>5 DEF WaitEnd, Runs
  <2>2. WaitInv'
    BY <2>1 DEF WaitInv, pass
  <2> QED BY <2>1, <2>2, ThreadMoves
<1>6. CASE Pick(t)
  <2>1. /\ viCur = IdleLoop /\ viCur' = t
        /\ UNCHANGED <<viPc, moved, due, pass, phase, count, picture, retraceCalls, vain>>
    BY <1>6 DEF Pick
  <2>2. WaitInv'
    BY <2>1 DEF WaitInv, pass, VideoAssumption
  <2> QED BY <2>1, <2>2, ThreadMoves
<1>7. CASE Resume(t)
  <2>1. /\ viCur = by /\ by \in VideoThreads /\ viCur' = t
        /\ UNCHANGED <<viPc, moved, due, pass, phase, count, picture, retraceCalls, vain>>
    BY <1>7 DEF Resume
  <2>2. \A u \in VideoThreads : viPc[u] # "going"
    BY <2>1 DEF WaitInv
  <2>3. WaitInv'
    BY <2>1, <2>2 DEF WaitInv, pass
  <2> QED BY <2>1, <2>3, ThreadMoves
<1>8. ASSUME NEW p \in Pictures, CopyDisp(t, p)
      PROVE  VideoInv'
  <2>1. /\ viPc[t] = "run"
        /\ viPending' = p /\ active' = p /\ meant' = p /\ flushed' = p
        /\ by' = t /\ left' = 1 /\ deferred' = TRUE
        /\ UNCHANGED <<viCur, viPc, moved, due, phase, count, armed, meantAt, vain>>
        /\ UNCHANGED <<calledPre, calledPost>>
    BY <1>8 DEF CopyDisp, threads, retraceCalls
  <2>2. CountInv'
    BY <2>1, <1>a, CountSame DEF CountInv
  <2>3. PictureInv'
    BY <2>1 DEF PictureInv
  <2>4. WaitInv'
    BY <2>1 DEF WaitInv
  <2> QED BY <2>2, <2>3, <2>4
<1> QED BY <1>1, <1>2, <1>3, <1>4, <1>5, <1>6, <1>7, <1>8 DEF Thread

LEMMA VideoStep ==
  ASSUME VideoAssumption, VideoInv, [VideoNext]_videoVars
  PROVE  VideoInv'
<1> USE DEF VideoInv
<1>1. CASE Tick
  <2>1. /\ due' = due + 1 /\ due < MaxDue
        /\ UNCHANGED <<threads, by, left, deferred, phase, count, picture, vain>>
        /\ UNCHANGED <<calledPre, calledPost>>
    BY <1>1 DEF Tick, pass, retraceCalls
  <2>2. CountInv'
    BY <2>1, CountSame DEF CountInv, VideoAssumption
  <2>3. WaitInv'
    BY <2>1, WaitSame DEF WaitInv
  <2> QED BY <2>1, <2>2, <2>3, PictureSame
<1>2. ASSUME NEW p \in Pictures, Set(p)
      PROVE  VideoInv'
  <2>1. /\ viPending' = p /\ meant' = (IF armed THEN p ELSE meant)
        /\ UNCHANGED <<threads, due, by, left, deferred, phase, count>>
        /\ UNCHANGED <<active, armed, meantAt, flushed, calledPre, calledPost, vain>>
    BY <1>2 DEF Set, pass, retraceCalls
  <2>2. CountInv'
    BY <2>1, CountSame DEF CountInv
  <2>3. PictureInv'
    BY <2>1 DEF PictureInv
  <2>4. WaitInv'
    BY <2>1, WaitSame DEF WaitInv
  <2> QED BY <2>2, <2>3, <2>4
<1>3. CASE Flush
  <2>1. /\ armed' = TRUE /\ meant' = viPending /\ flushed' = viPending
        /\ meantAt' = (IF armed THEN meantAt ELSE count)
        /\ UNCHANGED <<threads, due, by, left, deferred, phase, count, viPending, active>>
        /\ UNCHANGED <<calledPre, calledPost, vain>>
    BY <1>3 DEF Flush, pass, retraceCalls
  <2>2. CountInv'
    BY <2>1, CountSame DEF CountInv
  <2>3. PictureInv'
    BY <2>1 DEF PictureInv, CountInv
  <2>4. WaitInv'
    BY <2>1, WaitSame DEF WaitInv
  <2> QED BY <2>2, <2>3, <2>4
<1>4. CASE UNCHANGED videoVars
  <2>1. UNCHANGED <<threads, due, by, left, deferred, phase, count, picture, vain>>
        /\ UNCHANGED <<calledPre, calledPost>>
    BY <1>4 DEF videoVars, pass, retraceCalls
  <2>2. CountInv'
    BY <2>1, CountSame DEF CountInv
  <2>3. WaitInv'
    BY <2>1, WaitSame DEF WaitInv
  <2> QED BY <2>1, <2>2, <2>3, PictureSame
<1> QED BY <1>1, <1>2, <1>3, <1>4, VideoHostStep, VideoThreadStep DEF VideoNext

LEMMA VideoInvariance == ASSUME VideoAssumption PROVE VideoSpec => []VideoInv
<1>1. VideoInit => VideoInv
  BY VideoInitHolds
<1>2. VideoInv /\ [VideoNext]_videoVars => VideoInv'
  BY VideoStep
<1> QED BY <1>1, <1>2, PTL DEF VideoSpec

\* Every variable of the video interface keeps its type.
THEOREM VideoTypesCorrect == ASSUME VideoAssumption PROVE VideoSpec => []VideoTypeOK
<1>1. VideoInv => VideoTypeOK
  BY VideoTypes
<1> QED BY <1>1, VideoInvariance, PTL

\* A flush takes effect at the very next retrace and is not lost, the title is called back
\* once before and once after each retrace, and no thread sleeps over one.
THEOREM RetracesStayExact == ASSUME VideoAssumption PROVE VideoSpec => []RetracesExact
<1>1. VideoInv => RetracesExact
  BY VideoInvIsEnough
<1> QED BY <1>1, VideoInvariance, PTL

-----------------------------------------------------------------------------
(* The ring of the host's playback.                                        *)

PlaybackInv == PlaybackTypeOK /\ PlayedInOrder /\ CreditAnnounced

\* A step from a number to the next one, counted modulo n.
LEMMA NextNumber ==
  ASSUME NEW n \in Nat, NEW a \in 0 .. n - 1, NEW k \in 0 .. n - 1
  PROVE  /\ (a + k) % n \in 0 .. n - 1
         /\ (((a + k) % n) + 1) % n = (a + (k + 1)) % n
         /\ (a + 0) % n = a
<1>1. CASE a + k < n - 1
  <2>1. (a + k) % n = a + k /\ (a + k + 1) % n = a + k + 1
    BY <1>1
  <2> QED BY <2>1, <1>1
<1>2. CASE a + k = n - 1
  <2>1. (a + k) % n = n - 1 /\ n % n = 0
    BY <1>2
  <2>2. ((a + k) % n) + 1 = n /\ a + (k + 1) = n
    BY <2>1, <1>2
  <2> QED BY <2>1, <2>2
<1>3. CASE a + k > n - 1
  <2>1. (a + k) % n = a + k - n
    BY <1>3
  <2>2. CASE a + (k + 1) < 2 * n
    BY <2>1, <2>2, <1>3
  <2> QED BY <2>1, <2>2, <1>3
<1>4. a + 0 = a /\ a % n = a
  OBVIOUS
<1> QED BY <1>1, <1>2, <1>3, <1>4

\* The types as facts about single places.
LEMMA RingIs ==
  ASSUME PlaybackAssumption, PlaybackTypeOK
  PROVE  /\ Limit \in Nat /\ Cushion \in Nat /\ Request \in Nat /\ Numbers \in Nat /\ Failures \in Nat
         /\ Limit < Numbers /\ Gap = Numbers
         /\ Len(ring) \in Nat /\ Len(ring) <= Limit
         /\ accepted \in 0 .. Numbers - 1 /\ taken \in 0 .. Numbers - 1
         /\ \A i \in 1 .. Len(ring) : ring[i] \in 0 .. Gap
<1>1. /\ Limit \in Nat /\ Cushion \in Nat /\ Request \in Nat /\ Numbers \in Nat
      /\ Failures \in Nat /\ Limit < Numbers
  BY SMTT(30) DEF PlaybackAssumption
<1>2. /\ ring \in Seq(0 .. Gap) /\ Len(ring) <= Limit
      /\ accepted \in 0 .. Numbers - 1 /\ taken \in 0 .. Numbers - 1
  BY DEF PlaybackTypeOK
<1>3. Len(ring) \in Nat /\ \A i \in 1 .. Len(ring) : ring[i] \in 0 .. Gap
  BY <1>2, LenProperties, ElementOfSeq
<1> QED BY <1>1, <1>2, <1>3 DEF Gap

\* Units that were appended stand behind those that were there.
LEMMA AppendedIs ==
  ASSUME PlaybackAssumption, PlaybackTypeOK, NEW len \in Lens, NEW gap \in BOOLEAN,
         Len(ring) + len <= Limit
  PROVE  LET new == Appended(Units(len, gap)) IN
         /\ new \in Seq(0 .. Gap) /\ Len(new) = Len(ring) + len
         /\ \A i \in 1 .. Len(ring) : new[i] = ring[i]
         /\ \A k \in 1 .. len :
              new[Len(ring) + k] = IF gap THEN Gap ELSE (accepted + k) % Numbers
<1> DEFINE units == Units(len, gap)
<1>1. len \in 1 .. Limit /\ len \in Nat
  BY DEF PlaybackAssumption
<1>2. \A k \in 1 .. len : (accepted + k) % Numbers \in 0 .. Numbers - 1
  <2>1. ASSUME NEW k \in 1 .. len PROVE k \in 0 .. Numbers - 1
    BY <1>1, RingIs
  <2> QED BY <2>1, RingIs, NextNumber
<1>3. units \in Seq(0 .. Gap) /\ Len(units) = len
  <2>1. \A k \in 1 .. len : (IF gap THEN Gap ELSE (accepted + k) % Numbers) \in 0 .. Gap
    BY <1>2, RingIs
  <2>2. units \in [1 .. len -> 0 .. Gap]
    BY <2>1 DEF Units
  <2> HIDE DEF units
  <2>3. units \in Seq(0 .. Gap)
    BY <2>2, <1>1, SeqDef
  <2>4. Len(units) = len
    BY <2>2, <2>3, <1>1, LenProperties
  <2> QED BY <2>3, <2>4
<1>4. \A k \in 1 .. len : units[k] = IF gap THEN Gap ELSE (accepted + k) % Numbers
  BY DEF Units
<1>5. ring \in Seq(0 .. Gap)
  BY DEF PlaybackTypeOK
<1> HIDE DEF units
<1>6. /\ ring \o units \in Seq(0 .. Gap)
      /\ Len(ring \o units) = Len(ring) + len
      /\ \A i \in 1 .. Len(ring) + len :
           (ring \o units)[i] = IF i <= Len(ring) THEN ring[i] ELSE units[i - Len(ring)]
  BY <1>3, <1>5, ConcatProperties
<1>7. \A k \in 1 .. len : (ring \o units)[Len(ring) + k] = units[k]
  BY <1>1, <1>6, RingIs, SMTT(30)
<1>8. \A i \in 1 .. Len(ring) : (ring \o units)[i] = ring[i]
  BY <1>1, <1>6, RingIs
<1> QED BY <1>4, <1>6, <1>7, <1>8 DEF Appended, units

\* A block that is accepted continues the numbers.
LEMMA PushKeepsOrder ==
  ASSUME PlaybackAssumption, PlaybackTypeOK, PlayedInOrder, NEW len \in Lens, NEW gap \in BOOLEAN,
         Len(ring) + len <= Limit, ring' = Appended(Units(len, gap)),
         accepted' = IF gap THEN accepted ELSE (accepted + len) % Numbers,
         UNCHANGED taken
  PROVE  PlayedInOrder'
<1>0. PICK L \in Nat : L = Len(ring)
  BY RingIs
<1>1. /\ len \in Nat \ {0} /\ len < Numbers /\ Numbers \in Nat /\ accepted \in 0 .. Numbers - 1
      /\ L \in Nat /\ Len(ring) = L /\ Len(ring') = L + len
      /\ \A i \in 1 .. L : ring'[i] = ring[i]
      /\ \A k \in 1 .. len : ring'[L + k] = IF gap THEN Gap ELSE (accepted + k) % Numbers
  <2>1. len \in 1 .. Limit
    BY DEF PlaybackAssumption
  <2>2. len \in Nat \ {0} /\ len < Numbers /\ Numbers \in Nat /\ accepted \in 0 .. Numbers - 1
    BY <2>1, RingIs
  <2>3. LET new == Appended(Units(len, gap)) IN
        /\ Len(new) = L + len
        /\ \A i \in 1 .. L : new[i] = ring[i]
        /\ \A k \in 1 .. len : new[L + k] = IF gap THEN Gap ELSE (accepted + k) % Numbers
    BY <1>0, AppendedIs
  <2> QED BY <2>2, <2>3, <1>0
<1>2. \A i \in 0 .. L : NumberAt(i)' = NumberAt(i)
  BY <1>1 DEF NumberAt
<1>3. \A i \in 0 .. L, j \in 1 .. L + 1 : i < j => (LastBefore(i, j)' <=> LastBefore(i, j))
  BY <1>1 DEF LastBefore, Gap
<1>4. ASSUME NEW i \in 0 .. L + len, NEW j \in L + 1 .. L + len + 1, i < j, LastBefore(i, j)'
      PROVE  (i <= L /\ LastBefore(i, L + 1)) \/ (~gap /\ i > L)
  <2>1. CASE i <= L
    <3>1. LastBefore(i, L + 1)'
      BY <1>1, <1>4, <2>1 DEF LastBefore, Gap
    <3> QED BY <3>1, <1>1, <1>3, <2>1
  <2>2. CASE i > L
    <3>1. i = L + (i - L) /\ i - L \in 1 .. len
      BY <1>1, <2>2
    <3> QED BY <3>1, <1>1, <1>4, <2>2 DEF LastBefore, Gap
  <2> QED BY <2>1, <2>2, <1>1
<1>5. CASE gap
  <2>1. ASSUME NEW j \in 1 .. L + len, NEW i \in 0 .. L + len, i < j, ring'[j] # Gap, LastBefore(i, j)'
        PROVE  ring'[j] = (NumberAt(i)' + 1) % Numbers
    <3>1. j \in 1 .. L
      <4>1. SUFFICES ASSUME j > L PROVE FALSE
        BY <1>1
      <4>2. j = L + (j - L) /\ j - L \in 1 .. len
        BY <1>1, <4>1
      <4> QED BY <4>2, <1>1, <1>5, <2>1
    <3>2. i \in 0 .. L /\ LastBefore(i, j) /\ ring[j] # Gap
      BY <3>1, <2>1, <1>1, <1>3
    <3> QED BY <3>1, <3>2, <2>1, <1>1, <1>2 DEF PlayedInOrder
  <2>2. ASSUME NEW i \in 0 .. L + len, LastBefore(i, L + len + 1)'
        PROVE  NumberAt(i)' = accepted'
    <3>1. i \in 0 .. L /\ LastBefore(i, L + 1)
      BY <1>1, <1>4, <1>5, <2>2
    <3> QED BY <3>1, <1>1, <1>2, <1>5 DEF PlayedInOrder
  <2> QED BY <2>1, <2>2, <1>1 DEF PlayedInOrder, Gap
<1>6. CASE ~gap
  <2>1. \A k \in 1 .. len : /\ ring'[L + k] = (accepted + k) % Numbers
                            /\ ring'[L + k] # Gap /\ k \in 0 .. Numbers - 1
    <3>1. \A k \in 1 .. len : k \in 0 .. Numbers - 1
      BY <1>1
    <3>2. \A k \in 1 .. len : (accepted + k) % Numbers \in 0 .. Numbers - 1
      BY <3>1, <1>1, NextNumber
    <3> QED BY <3>1, <3>2, <1>1, <1>6 DEF Gap
  <2>2. ASSUME NEW i \in 0 .. L + len, NEW k \in 1 .. len + 1, i < L + k, LastBefore(i, L + k)'
        PROVE  NumberAt(i)' = (accepted + (k - 1)) % Numbers
    <3>1. CASE k = 1
      <4>1. i \in 0 .. L /\ LastBefore(i, L + 1)
        BY <3>1, <2>2, <1>1, <1>3
      <4>2. NumberAt(i)' = accepted
        BY <4>1, <1>1, <1>2 DEF PlayedInOrder
      <4>3. (accepted + 0) % Numbers = accepted
        BY <1>1, NextNumber
      <4> QED BY <4>2, <4>3, <3>1
    <3>2. CASE k > 1
      <4>1. k - 1 \in 1 .. len /\ L + (k - 1) < L + k
        BY <3>2, <1>1
      <4>2. i = L + (k - 1)
        <5>1. SUFFICES ASSUME i < L + (k - 1) PROVE FALSE
          BY <2>2, <1>1
        <5>2. L + (k - 1) \in i + 1 .. (L + k) - 1
          BY <5>1, <4>1, <1>1
        <5> QED BY <5>2, <4>1, <2>1, <2>2 DEF LastBefore, Gap
      <4>3. i # 0
        BY <4>1, <4>2, <1>1
      <4> QED BY <4>1, <4>2, <4>3, <2>1 DEF NumberAt
    <3> QED BY <3>1, <3>2, <1>1
  <2>3. ASSUME NEW j \in 1 .. L + len, NEW i \in 0 .. L + len, i < j, ring'[j] # Gap, LastBefore(i, j)'
        PROVE  ring'[j] = (NumberAt(i)' + 1) % Numbers
    <3>1. CASE j <= L
      <4>1. i \in 0 .. L /\ j \in 1 .. L /\ LastBefore(i, j) /\ ring[j] # Gap
        BY <3>1, <2>3, <1>1, <1>3
      <4> QED BY <4>1, <2>3, <1>1, <1>2 DEF PlayedInOrder
    <3>2. CASE j > L
      <4>1. PICK k \in 1 .. len : j = L + k
        <5>1. j - L \in 1 .. len /\ j = L + (j - L)
          BY <3>2, <1>1
        <5> QED BY <5>1
      <4>2. NumberAt(i)' = (accepted + (k - 1)) % Numbers
        <5>1. LastBefore(i, L + k)' /\ i < L + k /\ k \in 1 .. len + 1
          BY <4>1, <2>3, <1>1
        <5> QED BY <5>1, <2>2
      <4>3. k - 1 \in 0 .. Numbers - 1 /\ (k - 1) + 1 = k
        BY <2>1, <1>1
      <4>4. (((accepted + (k - 1)) % Numbers) + 1) % Numbers = (accepted + ((k - 1) + 1)) % Numbers
        BY <4>3, <1>1, NextNumber
      <4>5. (NumberAt(i)' + 1) % Numbers = (accepted + k) % Numbers
        BY <4>2, <4>3, <4>4
      <4> QED BY <4>1, <4>5, <2>1
    <3> QED BY <3>1, <3>2, <1>1
  <2>4. ASSUME NEW i \in 0 .. L + len, LastBefore(i, L + len + 1)'
        PROVE  NumberAt(i)' = accepted'
    <3>1. len + 1 \in 1 .. len + 1 /\ L + (len + 1) = L + len + 1 /\ (len + 1) - 1 = len
          /\ i < L + (len + 1)
      BY <1>1
    <3> QED BY <3>1, <2>2, <2>4, <1>6
  <2> QED BY <2>3, <2>4, <1>1 DEF PlayedInOrder, Gap
<1> QED BY <1>5, <1>6

\* What is taken out leaves the rest in order, after the number taken last.
LEMMA PullKeepsOrder ==
  ASSUME PlaybackAssumption, PlaybackTypeOK, PlayedInOrder, NEW n \in 1 .. Len(ring),
         Takes(n), ring' = SubSeq(ring, n + 1, Len(ring)), UNCHANGED accepted
  PROVE  PlayedInOrder' /\ ring' \in Seq(0 .. Gap) /\ Len(ring') = Len(ring) - n
<1>0. PICK L \in Nat : L = Len(ring)
  BY RingIs
<1>1. ring \in Seq(0 .. Gap) /\ L \in Nat /\ Len(ring) = L /\ n \in Nat \ {0} /\ n <= L
  BY <1>0, RingIs DEF PlaybackTypeOK
<1>2. /\ ring' \in Seq(0 .. Gap) /\ Len(ring') = L - n
      /\ \A i \in 1 .. L - n : ring'[i] = ring[n + i]
  <2>2. \A i \in n + 1 .. L : ring[i] \in 0 .. Gap
    <3>1. \A i \in n + 1 .. L : i \in 1 .. Len(ring)
      BY <1>1
    <3> QED BY <3>1, RingIs
  <2>3. \A i \in 1 .. L - n : (n + 1) + i - 1 = n + i /\ i \in 1 .. L - (n + 1) + 1
    BY <1>1
  <2>4. ring' = SubSeq(ring, n + 1, L) /\ n + 1 \in Int /\ L \in Int
    BY <1>1
  <2>5. /\ ring' \in Seq(0 .. Gap)
        /\ Len(ring') = IF n + 1 <= L THEN L - (n + 1) + 1 ELSE 0
        /\ \A i \in 1 .. L - (n + 1) + 1 : ring'[i] = ring[(n + 1) + i - 1]
    BY <2>2, <2>4, SubSeqProperties
  <2> QED BY <1>1, <2>3, <2>5
<1>3. PICK p \in 0 .. n : LastBefore(p, n + 1) /\ taken' = NumberAt(p)
  BY DEF Takes
<1>4. ASSUME NEW i \in 0 .. L - n, NEW j \in 1 .. L - n + 1, i < j, LastBefore(i, j)'
      PROVE  \E q \in 0 .. L : q < n + j /\ LastBefore(q, n + j) /\ NumberAt(i)' = NumberAt(q)
  <2>1. \A k \in (i + 1) .. (j - 1) : ring[n + k] = Gap
    <3>1. \A k \in (i + 1) .. (j - 1) : ring'[k] = Gap
      BY <1>4 DEF LastBefore, Gap
    <3>2. \A k \in (i + 1) .. (j - 1) : k \in 1 .. L - n
      BY <1>1
    <3> QED BY <3>1, <3>2, <1>2
  <2>2. \A k \in (n + i + 1) .. (n + j - 1) : ring[k] = Gap
    <3>1. ASSUME NEW k \in (n + i + 1) .. (n + j - 1) PROVE ring[k] = Gap
      <4>1. k - n \in (i + 1) .. (j - 1) /\ n + (k - n) = k
        BY <1>1
      <4> QED BY <4>1, <2>1
    <3> QED BY <3>1
  <2>3. CASE i = 0
    <3>1. LastBefore(p, n + j)
      <4>1. ASSUME NEW k \in (p + 1) .. (n + j - 1) PROVE ring[k] = Gap
        <5>1. CASE k <= n
          BY <5>1, <1>1, <1>3 DEF LastBefore, Gap
        <5>2. CASE k > n
          BY <5>2, <1>1, <2>2, <2>3
        <5> QED BY <5>1, <5>2, <1>1
      <4> QED BY <4>1, <1>3 DEF LastBefore, Gap
    <3>2. NumberAt(i)' = NumberAt(p)
      BY <2>3, <1>3 DEF NumberAt
    <3>3. p \in 0 .. L /\ p < n + j
      BY <1>1
    <3> QED BY <3>1, <3>2, <3>3
  <2>4. CASE i # 0
    <3>1. n + i \in 0 .. L /\ n + i < n + j /\ n + i # 0 /\ i \in 1 .. L - n
      BY <2>4, <1>1, <1>4
    <3>2. ring'[i] = ring[n + i] /\ ring[n + i] # Gap
      BY <3>1, <2>4, <1>2, <1>4 DEF LastBefore, Gap
    <3>3. LastBefore(n + i, n + j)
      BY <3>2, <2>2 DEF LastBefore
    <3>4. NumberAt(i)' = NumberAt(n + i)
      BY <3>1, <3>2, <2>4 DEF NumberAt
    <3> QED BY <3>1, <3>3, <3>4
  <2> QED BY <2>3, <2>4
<1>5. ASSUME NEW j \in 1 .. L - n, NEW i \in 0 .. L - n, i < j, ring'[j] # Gap, LastBefore(i, j)'
      PROVE  ring'[j] = (NumberAt(i)' + 1) % Numbers
  <2>1. PICK q \in 0 .. L : q < n + j /\ LastBefore(q, n + j) /\ NumberAt(i)' = NumberAt(q)
    BY <1>1, <1>4, <1>5
  <2>2. n + j \in 1 .. L /\ ring[n + j] = ring'[j]
    BY <1>1, <1>2
  <2> QED BY <2>1, <2>2, <1>1, <1>5, SMTT(30) DEF PlayedInOrder
<1>6. ASSUME NEW i \in 0 .. L - n, LastBefore(i, L - n + 1)'
      PROVE  NumberAt(i)' = accepted'
  <2>1. n + (L - n + 1) = L + 1 /\ L - n + 1 \in 1 .. L - n + 1 /\ i < L - n + 1
    BY <1>1
  <2>2. PICK q \in 0 .. L : LastBefore(q, L + 1) /\ NumberAt(i)' = NumberAt(q)
    BY <2>1, <1>4, <1>6
  <2> QED BY <2>2, <1>1 DEF PlayedInOrder
<1> QED BY <1>2, <1>5, <1>6 DEF PlayedInOrder, Gap

\* What concerns neither the ring nor its numbers keeps the order.
LEMMA OrderSame ==
  ASSUME PlayedInOrder, UNCHANGED <<ring, accepted, taken>>
  PROVE  PlayedInOrder'
BY DEF PlayedInOrder, LastBefore, NumberAt, Gap

\* The unit taken last has a number.
LEMMA TakenIsNumber ==
  ASSUME PlaybackAssumption, PlaybackTypeOK, NEW n \in 0 .. Len(ring), Takes(n)
  PROVE  taken' \in 0 .. Numbers - 1
<1>1. PICK i \in 0 .. n : LastBefore(i, n + 1) /\ taken' = NumberAt(i)
  BY DEF Takes
<1>2. CASE i = 0
  BY <1>1, <1>2, RingIs DEF NumberAt
<1>3. CASE i # 0
  <2>1. i \in 1 .. Len(ring) /\ ring[i] # Gap /\ taken' = ring[i]
    BY <1>1, <1>3, RingIs DEF LastBefore, NumberAt
  <2>2. ring[i] \in 0 .. Numbers
    BY <2>1, RingIs
  <2> QED BY <2>1, <2>2, RingIs
<1> QED BY <1>2, <1>3

LEMMA PlaybackInitHolds == ASSUME PlaybackAssumption, PlaybackInit PROVE PlaybackInv
<1>1. /\ Limit \in Nat /\ Failures \in Nat /\ Numbers \in Nat \ {0}
  BY DEF PlaybackAssumption
<1>2. PlaybackTypeOK
  <2>1. ring \in Seq(0 .. Gap) /\ Len(ring) = 0
    BY EmptySeq DEF PlaybackInit
  <2>2. 0 \in 0 .. Numbers - 1 /\ 0 \in 0 .. Limit /\ 0 \in 0 .. Failures /\ 0 <= Limit
    BY <1>1
  <2> QED BY <2>1, <2>2 DEF PlaybackInit, PlaybackTypeOK
<1>3. PlayedInOrder
  BY DEF PlaybackInit, PlayedInOrder, NumberAt
<1> QED BY <1>2, <1>3 DEF PlaybackInit, PlaybackInv, CreditAnnounced

LEMMA PlaybackStep ==
  ASSUME PlaybackAssumption, PlaybackInv, [PlaybackNext]_ringVars
  PROVE  PlaybackInv'
<1>0. PlaybackTypeOK /\ PlayedInOrder /\ CreditAnnounced
  BY DEF PlaybackInv
<1>1. ASSUME NEW len \in Lens, NEW gap \in BOOLEAN, Push(len, gap)
      PROVE  PlaybackInv'
  <2>1. UNCHANGED <<taken, credit, creditFlag, started, rebuffering, player, failures>>
    BY <1>1 DEF Push
  <2>2. CASE Len(ring) + len > Limit
    <3>1. UNCHANGED <<ring, accepted, producer, pushed>>
      BY <2>2, <1>1 DEF Push
    <3>2. PlayedInOrder'
      BY <3>1, <2>1, <1>0, OrderSame
    <3> QED BY <3>1, <3>2, <2>1, <1>0 DEF PlaybackInv, PlaybackTypeOK, CreditAnnounced, Gap
  <2>3. CASE ~(Len(ring) + len > Limit)
    <3>1. /\ ring' = Appended(Units(len, gap))
          /\ accepted' = IF gap THEN accepted ELSE (accepted + len) % Numbers
          /\ producer' = "check" /\ pushed' = Len(ring')
      BY <2>3, <1>1 DEF Push
    <3>2. len \in 1 .. Limit /\ Len(ring) + len <= Limit
      BY <2>3, RingIs, <1>0 DEF PlaybackAssumption
    <3>3. PlayedInOrder'
      BY <3>1, <3>2, <2>1, <1>0, PushKeepsOrder
    <3>4. ring' \in Seq(0 .. Gap) /\ Len(ring') = Len(ring) + len
      BY <3>1, <3>2, <1>0, AppendedIs
    <3>5. accepted' \in 0 .. Numbers - 1
      <4>1. len \in 0 .. Numbers - 1
        BY <3>2, <1>0, RingIs
      <4> QED BY <4>1, <3>1, <1>0, RingIs, NextNumber
    <3>6. Len(ring') \in 0 .. Limit
      BY <3>2, <3>4, <1>0, RingIs
    <3>7. PlaybackTypeOK'
      BY <3>1, <3>4, <3>5, <3>6, <2>1, <1>0 DEF PlaybackTypeOK, Gap
    <3> QED BY <3>3, <3>7, <2>1, <1>0 DEF PlaybackInv, CreditAnnounced
  <2> QED BY <2>2, <2>3
<1>2. CASE StartCheck
  <2>1. /\ UNCHANGED <<ring, accepted, taken, credit, creditFlag, rebuffering, player>>
        /\ producer' = "idle" /\ pushed' = 0
        /\ \/ UNCHANGED <<started, failures>>
           \/ started' = TRUE /\ UNCHANGED failures
           \/ failures < Failures /\ failures' = failures + 1 /\ UNCHANGED started
    BY <1>2 DEF StartCheck
  <2>2. started' \in BOOLEAN
    BY <2>1, <1>0 DEF PlaybackTypeOK
  <2>3. failures' \in 0 .. Failures /\ pushed' \in 0 .. Limit
    BY <2>1, <1>0, RingIs, SMTT(30) DEF PlaybackTypeOK
  <2>4. PlaybackTypeOK'
    BY <2>1, <2>2, <2>3, <1>0 DEF PlaybackTypeOK, Gap
  <2> QED BY <2>1, <2>4, <1>0, OrderSame DEF PlaybackInv, CreditAnnounced
<1>3. CASE ResolveBegin \/ ResolveEnd \/ ResetGapAccounting
  <2>1. /\ UNCHANGED <<ring, accepted, taken, started, pushed, player, failures>>
        /\ producer' = producer \/ producer' = "idle" \/ producer' = "resolve"
        /\ rebuffering' = rebuffering \/ rebuffering' = FALSE
        /\ UNCHANGED <<credit, creditFlag>> \/ (credit' = 0 /\ creditFlag' = FALSE)
    BY <1>3 DEF ResolveBegin, ResolveEnd, ResetGapAccounting
  <2>2. producer' \in {"idle", "check", "resolve"} /\ credit' \in 0 .. Limit
    BY <2>1, <1>0, RingIs DEF PlaybackTypeOK
  <2>3. rebuffering' \in BOOLEAN /\ creditFlag' \in BOOLEAN
    BY <2>1, <1>0 DEF PlaybackTypeOK
  <2>4. PlaybackTypeOK'
    BY <2>1, <2>2, <2>3, <1>0 DEF PlaybackTypeOK, Gap
  <2>5. CreditAnnounced'
    BY <2>1, <1>0 DEF CreditAnnounced
  <2> QED BY <2>1, <2>4, <2>5, <1>0, OrderSame DEF PlaybackInv
<1>4. CASE Pull
  <2>1. /\ UNCHANGED <<accepted, started, producer, pushed, failures>>
        /\ rebuffering' \in BOOLEAN
    BY <1>4 DEF Pull, Hold
  <2>2. CASE Hold \/ ring = <<>>
    <3>1. /\ UNCHANGED <<ring, taken>> /\ player' = "silent" /\ creditFlag' = TRUE
          /\ credit' = Smaller(credit + Request, Limit)
      BY <2>2, <1>4 DEF Pull, Credit
    <3>2. credit' \in 0 .. Limit
      BY <3>1, <1>0, RingIs, SMTT(30) DEF PlaybackTypeOK, Smaller
    <3>3. PlaybackTypeOK'
      BY <3>1, <3>2, <2>1, <1>0 DEF PlaybackTypeOK, Gap
    <3> QED BY <3>1, <3>3, <2>1, <1>0, OrderSame DEF PlaybackInv, CreditAnnounced
  <2>3. CASE ~(Hold \/ ring = <<>>)
    <3>1. PICK n : /\ n = Smaller(Request, Len(ring))
                   /\ Takes(n) /\ ring' = SubSeq(ring, n + 1, Len(ring))
                   /\ player' = "copied" /\ UNCHANGED <<credit, creditFlag>>
      BY <2>3, <1>4 DEF Pull
    <3>2. n \in 1 .. Len(ring)
      <4>1. Len(ring) # 0
        BY <2>3, <1>0, EmptySeq DEF PlaybackTypeOK
      <4> QED BY <4>1, <3>1, <1>0, RingIs, SMTT(30) DEF PlaybackAssumption, Smaller
    <3>3. PlayedInOrder' /\ ring' \in Seq(0 .. Gap) /\ Len(ring') = Len(ring) - n
      BY <3>1, <3>2, <2>1, <1>0, PullKeepsOrder
    <3>4. taken' \in 0 .. Numbers - 1
      <4>1. n \in 0 .. Len(ring)
        BY <3>2
      <4> QED BY <4>1, <3>1, <1>0, TakenIsNumber
    <3>5. Len(ring') <= Limit
      BY <3>2, <3>3, <1>0, RingIs
    <3>6. PlaybackTypeOK'
      BY <3>1, <3>3, <3>4, <3>5, <2>1, <1>0 DEF PlaybackTypeOK, Gap
    <3> QED BY <3>1, <3>3, <3>6, <2>1, <1>0 DEF PlaybackInv, CreditAnnounced
  <2> QED BY <2>2, <2>3
<1>5. CASE Supply
  <2>1. /\ UNCHANGED <<ring, accepted, taken, credit, creditFlag, started, producer, pushed, failures>>
        /\ player' = "idle" /\ rebuffering' \in BOOLEAN
    BY <1>5, <1>0 DEF Supply, PlaybackTypeOK
  <2>2. PlaybackTypeOK'
    BY <2>1, <1>0 DEF PlaybackTypeOK, Gap
  <2> QED BY <2>1, <2>2, <1>0, OrderSame DEF PlaybackInv, CreditAnnounced
<1>6. CASE UNCHANGED ringVars
  <2>1. UNCHANGED <<ring, accepted, taken>> /\ PlaybackTypeOK' /\ CreditAnnounced'
    BY <1>6, <1>0 DEF ringVars, PlaybackTypeOK, CreditAnnounced, Gap
  <2> QED BY <2>1, <1>0, OrderSame DEF PlaybackInv
<1> QED BY <1>1, <1>2, <1>3, <1>4, <1>5, <1>6 DEF PlaybackNext

LEMMA PlaybackInvariance == ASSUME PlaybackAssumption PROVE PlaybackSpec => []PlaybackInv
<1>1. PlaybackInit => PlaybackInv
  BY PlaybackInitHolds
<1>2. PlaybackInv /\ [PlaybackNext]_ringVars => PlaybackInv'
  BY PlaybackStep
<1> QED BY <1>1, <1>2, PTL DEF PlaybackSpec

\* The ring never holds more than its limit, and every variable keeps its type.
THEOREM PlaybackTypesCorrect == ASSUME PlaybackAssumption PROVE PlaybackSpec => []PlaybackTypeOK
<1>1. PlaybackInv => PlaybackTypeOK
  BY DEF PlaybackInv
<1> QED BY <1>1, PlaybackInvariance, PTL

\* What is taken out of the ring, and what is left in it, are the units that were accepted,
\* each once and in order, across gaps and drops; the guest never misses a credit.
THEOREM PlaybackStaysInOrder == ASSUME PlaybackAssumption PROVE PlaybackSpec => []PlaybackInOrder
<1>1. PlaybackInv => PlaybackInOrder
  BY DEF PlaybackInv, PlaybackInOrder
<1> QED BY <1>1, PlaybackInvariance, PTL

-----------------------------------------------------------------------------
(* The virtual remote: how often something is in a queue.                  *)

Places(s, v) == {i \in 1 .. Len(s) : s[i] = v}

LEMMA CountIs ==
  ASSUME NEW S, NEW s \in Seq(S), NEW v
  PROVE  /\ IsFiniteSet(Places(s, v)) /\ Count(s, v) = Cardinality(Places(s, v))
         /\ Count(s, v) \in Nat
         /\ Count(s, v) = 0 <=> \A i \in 1 .. Len(s) : s[i] # v
<1>1. Len(s) \in Nat
  OBVIOUS
<1>2. IsFiniteSet(1 .. Len(s))
  BY <1>1, FS_Interval
<1>3. Places(s, v) \in SUBSET (1 .. Len(s))
  BY DEF Places
<1>4. IsFiniteSet(Places(s, v)) /\ Cardinality(Places(s, v)) \in Nat
  BY <1>2, <1>3, FS_Subset, FS_CardinalityType
<1>5. Cardinality(Places(s, v)) = 0 <=> Places(s, v) = {}
  BY <1>4, FS_EmptySet
<1>6. Count(s, v) = Cardinality(Places(s, v))
  BY DEF Count, Places
<1>7. Places(s, v) = {} <=> \A i \in 1 .. Len(s) : s[i] # v
  BY DEF Places
<1> QED BY <1>4, <1>5, <1>6, <1>7

LEMMA CountEmpty ==
  ASSUME NEW v
  PROVE  Count(<<>>, v) = 0
<1>1. Places(<<>>, v) = {}
  BY DEF Places
<1> QED BY <1>1, FS_EmptySet DEF Count, Places

LEMMA CountAppend ==
  ASSUME NEW S, NEW s \in Seq(S), NEW y \in S, NEW v
  PROVE  /\ Append(s, y) \in Seq(S)
         /\ Count(Append(s, y), v) = Count(s, v) + (IF y = v THEN 1 ELSE 0)
<1> DEFINE n == Len(s)
           t == Append(s, y)
<1>1. /\ n \in Nat /\ t \in Seq(S) /\ Len(t) = n + 1
      /\ \A i \in 1 .. n : t[i] = s[i]
      /\ t[n + 1] = y
  OBVIOUS
<1> HIDE DEF n, t
<1>2. 1 .. Len(t) = (1 .. n) \cup {n + 1} /\ n + 1 \notin 1 .. n
  BY <1>1
<1>3. /\ Places(s, v) = {i \in 1 .. n : s[i] = v} /\ n + 1 \notin Places(s, v)
      /\ IsFiniteSet(Places(s, v)) /\ Count(s, v) = Cardinality(Places(s, v))
      /\ Count(s, v) \in Nat
  BY <1>2, CountIs DEF Places, n
<1>4. CASE y = v
  <2>1. Places(t, v) = Places(s, v) \cup {n + 1}
    BY <1>1, <1>2, <1>3, <1>4 DEF Places
  <2>2. Cardinality(Places(t, v)) = Cardinality(Places(s, v)) + 1
    BY <1>3, <2>1, FS_AddElement
  <2> QED BY <1>1, <1>3, <1>4, <2>2, CountIs DEF t
<1>5. CASE y # v
  <2>1. Places(t, v) = Places(s, v)
    BY <1>1, <1>2, <1>3, <1>5 DEF Places
  <2>2. Count(t, v) = Cardinality(Places(t, v))
    BY <1>1, CountIs
  <2>3. Count(t, v) = Count(s, v)
    BY <1>3, <2>1, <2>2
  <2> QED BY <1>1, <1>3, <1>5, <2>3 DEF t
<1> QED BY <1>4, <1>5

LEMMA CountTail ==
  ASSUME NEW S, NEW s \in Seq(S), s # <<>>, NEW v
  PROVE  /\ Tail(s) \in Seq(S) /\ Head(s) \in S /\ Head(s) = s[1] /\ Len(s) \in Nat \ {0}
         /\ Len(Tail(s)) = Len(s) - 1
         /\ \A i \in 1 .. Len(Tail(s)) : Tail(s)[i] = s[i + 1]
         /\ Count(s, v) = Count(Tail(s), v) + (IF Head(s) = v THEN 1 ELSE 0)
<1> DEFINE t == Tail(s)
           A == Places(s, v)
           B == Places(t, v)
           f == [i \in B |-> i + 1]
<1>1. /\ t \in Seq(S) /\ Head(s) \in S /\ Head(s) = s[1] /\ Len(s) \in Nat \ {0}
      /\ Len(t) = Len(s) - 1
      /\ \A i \in 1 .. Len(t) : t[i] = s[i + 1]
  OBVIOUS
<1> HIDE DEF t
<1>2. /\ IsFiniteSet(A) /\ Count(s, v) = Cardinality(A)
      /\ IsFiniteSet(B) /\ Count(t, v) = Cardinality(B) /\ Count(t, v) \in Nat
  BY <1>1, CountIs
<1>3. \A i \in B : i + 1 \in A \ {1}
  BY <1>1 DEF Places
<1>4. \A j \in A \ {1} : j - 1 \in B /\ (j - 1) + 1 = j
  BY <1>1 DEF Places
<1>5. f \in Bijection(B, A \ {1})
  <2>1. f \in [B -> A \ {1}]
    BY <1>3
  <2>2. \A i, j \in B : f[i] = f[j] => i = j
    BY DEF Places
  <2>3. \A j \in A \ {1} : \E i \in B : f[i] = j
    BY <1>4
  <2> QED BY <2>1, <2>2, <2>3 DEF Bijection, Injection, Surjection, IsInjective
<1>6. Cardinality(A \ {1}) = Cardinality(B)
  BY <1>2, <1>5, FS_Bijection DEF ExistsBijection
<1>7. Cardinality(A \ {1}) = IF 1 \in A THEN Cardinality(A) - 1 ELSE Cardinality(A)
  BY <1>2, FS_RemoveElement
<1>8. 1 \in A <=> Head(s) = v
  BY <1>1 DEF Places
<1>9. Cardinality(A) \in Nat
  BY <1>2, FS_CardinalityType
<1>10. Count(s, v) = Count(t, v) + (IF Head(s) = v THEN 1 ELSE 0)
  BY <1>2, <1>6, <1>7, <1>8, <1>9
<1> QED BY <1>1, <1>10 DEF t

LEMMA CountTwo ==
  ASSUME NEW S, NEW s \in Seq(S), NEW y \in S, NEW z \in S, NEW v
  PROVE  /\ s \o <<y, z>> \in Seq(S) /\ s \o <<y>> = Append(s, y) /\ s \o <<>> = s
         /\ s \o <<y, z>> = Append(Append(s, y), z)
         /\ Count(s \o <<y, z>>, v) =
              Count(s, v) + (IF y = v THEN 1 ELSE 0) + (IF z = v THEN 1 ELSE 0)
<1>1. Append(s, y) \in Seq(S) /\ Append(Append(s, y), z) \in Seq(S)
  OBVIOUS
<1>2. s \o <<y, z>> = Append(Append(s, y), z)
  OBVIOUS
<1>3. s \o <<y>> = Append(s, y) /\ s \o <<>> = s
  OBVIOUS
<1>4. Count(s, v) \in Nat
  BY CountIs
<1>5. Count(Append(s, y), v) = Count(s, v) + (IF y = v THEN 1 ELSE 0)
  BY CountAppend
<1>6. Count(Append(Append(s, y), z), v) = Count(Append(s, y), v) + (IF z = v THEN 1 ELSE 0)
  <2> DEFINE t == Append(s, y)
  <2>1. t \in Seq(S)
    BY <1>1
  <2> HIDE DEF t
  <2>2. Count(Append(t, z), v) = Count(t, v) + (IF z = v THEN 1 ELSE 0)
    BY <2>1, CountAppend
  <2> QED BY <2>2 DEF t
<1> QED BY <1>1, <1>2, <1>3, <1>5, <1>6

-----------------------------------------------------------------------------
(* The virtual remote: the invariant.                                      *)

\* A disconnection is told before the remote asks again.
Ordered(s) == \A i, j \in 1 .. Len(s) : s[i] = "disconnected" /\ s[j] = "connectionRequest" => i < j

\* The state of the link says which of its events are still to come.
LinkInv ==
  /\ Ordered(events)
  /\ Count(events, "connectionRequest") = IF link \in {"down", "ending"} /\ asked THEN 1 ELSE 0
  /\ Count(events, "connected") = IF link = "asked" /\ owes = <<>> THEN 1 ELSE 0
  /\ Count(events, "disconnected") = IF link = "ending" THEN 1 ELSE 0
  /\ link \in {"asked", "up"} => asked
  /\ link \in {"down", "ending"} => owes = <<>>
  /\ link = "asked" => owes \in {<<>>, <<P("accept", "control")>>}
  /\ link # "up" => links < MaxLinks

\* A channel is asked for, answered or known only if the remote has begun with it.
Begun(c) == IF c = "control" THEN began ELSE extended
AskInv ==
  \A c \in Channels :
    Count(packets, P("connect", c)) + Count(owes, P("connectRsp", c)) + (IF c \in cid THEN 1 ELSE 0)
      <= IF Begun(c) THEN 1 ELSE 0

RemoteInv ==
  RemoteTypeOK /\ LinkInv /\ PacketsOfThisLink /\ AskInv /\ ReportsBounded /\ CreditsConserved

LEMMA OrderedAppend ==
  ASSUME NEW s \in Seq(Event), Ordered(s), NEW y \in Event,
         y = "disconnected" => Count(s, "connectionRequest") = 0
  PROVE  Ordered(Append(s, y))
<1>1. /\ Len(s) \in Nat /\ Len(Append(s, y)) = Len(s) + 1
      /\ \A i \in 1 .. Len(s) : Append(s, y)[i] = s[i]
      /\ Append(s, y)[Len(s) + 1] = y
  OBVIOUS
<1>2. SUFFICES ASSUME NEW i \in 1 .. Len(s) + 1, NEW j \in 1 .. Len(s) + 1,
                      Append(s, y)[i] = "disconnected", Append(s, y)[j] = "connectionRequest"
               PROVE  i < j
  BY <1>1 DEF Ordered
<1>3. CASE i = Len(s) + 1
  <2>1. Count(s, "connectionRequest") = 0 /\ j \in 1 .. Len(s) /\ s[j] = "connectionRequest"
    BY <1>1, <1>2, <1>3
  <2> QED BY <2>1, CountIs
<1>4. CASE i # Len(s) + 1 /\ j # Len(s) + 1
  <2>1. i \in 1 .. Len(s) /\ j \in 1 .. Len(s) /\ s[i] = "disconnected" /\ s[j] = "connectionRequest"
    BY <1>1, <1>2, <1>4
  <2> QED BY <2>1 DEF Ordered
<1>5. CASE i # Len(s) + 1 /\ j = Len(s) + 1
  BY <1>1, <1>5
<1> QED BY <1>3, <1>4, <1>5

LEMMA OrderedTail ==
  ASSUME NEW s \in Seq(Event), s # <<>>, Ordered(s)
  PROVE  Ordered(Tail(s))
<1>1. /\ Len(s) \in Nat \ {0} /\ Len(Tail(s)) = Len(s) - 1
      /\ \A i \in 1 .. Len(Tail(s)) : Tail(s)[i] = s[i + 1]
  BY CountTail
<1>2. SUFFICES ASSUME NEW i \in 1 .. Len(Tail(s)), NEW j \in 1 .. Len(Tail(s)),
                      Tail(s)[i] = "disconnected", Tail(s)[j] = "connectionRequest"
               PROVE  i < j
  BY DEF Ordered
<1>3. i + 1 \in 1 .. Len(s) /\ j + 1 \in 1 .. Len(s) /\ s[i + 1] = "disconnected"
      /\ s[j + 1] = "connectionRequest"
  BY <1>1, <1>2
<1>4. i + 1 < j + 1
  BY <1>3 DEF Ordered
<1> QED BY <1>4

\* What an event at the end of the queue adds.
LEMMA Queued ==
  ASSUME RemoteInv, NEW y \in Event, events' = Append(events, y),
         y = "disconnected" => Count(events, "connectionRequest") = 0
  PROVE  /\ events' \in Seq(Event) /\ Ordered(events')
         /\ \A v : Count(events', v) = Count(events, v) + (IF y = v THEN 1 ELSE 0)
<1>1. events \in Seq(Event) /\ Ordered(events)
  BY DEF RemoteInv, RemoteTypeOK, LinkInv
<1>2. Ordered(Append(events, y))
  BY <1>1, OrderedAppend
<1>3. Append(events, y) \in Seq(Event)
  BY <1>1
<1>4. \A v : Count(Append(events, y), v) = Count(events, v) + (IF y = v THEN 1 ELSE 0)
  BY <1>1, CountAppend
<1> QED BY <1>2, <1>3, <1>4

\* How the status and then the outcome of a command is queued.
LEMMA QueuedTwo ==
  ASSUME RemoteInv, NEW y \in Event, events' = events \o <<"status", y>>,
         y = "disconnected" => Count(events, "connectionRequest") = 0
  PROVE  /\ events' \in Seq(Event) /\ Ordered(events')
         /\ \A v : Count(events', v) =
              Count(events, v) + (IF "status" = v THEN 1 ELSE 0) + (IF y = v THEN 1 ELSE 0)
<1> DEFINE t == Append(events, "status")
<1>1. events \in Seq(Event) /\ Ordered(events) /\ "status" \in Event
  BY DEF RemoteInv, RemoteTypeOK, LinkInv, Event
<1>2. t \in Seq(Event)
  BY <1>1
<1>3. events' = Append(t, y)
  BY <1>1, CountTwo
<1>4. Ordered(t)
  BY <1>1, OrderedAppend
<1>5. \A v : Count(t, v) = Count(events, v) + (IF "status" = v THEN 1 ELSE 0)
  BY <1>1, CountAppend
<1>6. Count(events, "connectionRequest") \in Nat
  BY <1>1, CountIs
<1>7. y = "disconnected" => Count(t, "connectionRequest") = 0
  BY <1>5, <1>6
<1> HIDE DEF t
<1>8. Ordered(events') /\ events' \in Seq(Event)
  BY <1>2, <1>3, <1>4, <1>7, OrderedAppend, CountAppend
<1>9. \A v : Count(Append(t, y), v) = Count(t, v) + (IF y = v THEN 1 ELSE 0)
  BY <1>2, CountAppend
<1> QED BY <1>3, <1>5, <1>8, <1>9

\* The parts that a step leaves alone.
LEMMA AskKept ==
  ASSUME AskInv, UNCHANGED <<packets, owes, cid, began, extended>>
  PROVE  AskInv'
BY DEF AskInv, Begun

LEMMA WriteScanEnableStep ==
  ASSUME RemoteAssumption, RemoteInv, NEW on \in BOOLEAN, WriteScanEnable(on)
  PROVE  RemoteInv'
<1>1. /\ scan' \in BOOLEAN /\ events' = Append(events, "complete") /\ "complete" \in Event
      /\ UNCHANGED <<asked, began, cid, configured, extended, continuous, packets, stackVars>>
  BY DEF WriteScanEnable, Event
<1>2. /\ events' \in Seq(Event) /\ Ordered(events')
      /\ \A v : Count(events', v) = Count(events, v) + (IF "complete" = v THEN 1 ELSE 0)
  BY <1>1, Queued
<1>3. Count(events, "connectionRequest") \in Nat /\ Count(events, "connected") \in Nat
      /\ Count(events, "disconnected") \in Nat /\ Count(events, "credit") \in Nat
  BY CountIs DEF RemoteInv, RemoteTypeOK
<1>4. RemoteTypeOK'
  BY <1>1, <1>2 DEF RemoteInv, RemoteTypeOK, stackVars
<1>5. LinkInv'
  BY <1>1, <1>2, <1>3 DEF RemoteInv, LinkInv, stackVars
<1>6. PacketsOfThisLink' /\ ReportsBounded'
  BY <1>1 DEF RemoteInv, PacketsOfThisLink, ReportsBounded, stackVars
<1>7. AskInv'
  BY <1>1, AskKept DEF RemoteInv, stackVars
<1>8. CreditsConserved'
  BY <1>1, <1>2, <1>3 DEF RemoteInv, CreditsConserved, stackVars
<1> QED BY <1>4, <1>5, <1>6, <1>7, <1>8 DEF RemoteInv

LEMMA AcceptConnectionStep ==
  ASSUME RemoteAssumption, RemoteInv, AcceptConnection
  PROVE  RemoteInv'
<1>1. /\ link = "asked" /\ owes # <<>> /\ owes' = Tail(owes)
      /\ events' = events \o <<"status", "connected">> /\ "connected" \in Event
      /\ UNCHANGED <<hidVars, packets, link, links, timeouts, credits, opened, modes>>
  BY DEF AcceptConnection, Event
<1>2. owes = <<P("accept", "control")>> /\ owes' = <<>>
  <2>1. owes = <<P("accept", "control")>>
    BY <1>1 DEF RemoteInv, LinkInv
  <2>2. \A v : Tail(<<v>>) = <<>>
    OBVIOUS
  <2> QED BY <1>1, <2>1, <2>2
<1>3. /\ events' \in Seq(Event) /\ Ordered(events')
      /\ \A v : Count(events', v) =
           Count(events, v) + (IF "status" = v THEN 1 ELSE 0) + (IF "connected" = v THEN 1 ELSE 0)
  BY <1>1, QueuedTwo
<1>4. Count(events, "connectionRequest") \in Nat /\ Count(events, "connected") \in Nat
      /\ Count(events, "disconnected") \in Nat /\ Count(events, "credit") \in Nat
  BY CountIs DEF RemoteInv, RemoteTypeOK
<1>5. RemoteTypeOK'
  BY <1>1, <1>2, <1>3 DEF RemoteInv, RemoteTypeOK, hidVars
<1>6. LinkInv'
  BY <1>1, <1>2, <1>3, <1>4 DEF RemoteInv, LinkInv, hidVars
<1>7. PacketsOfThisLink' /\ ReportsBounded'
  BY <1>1 DEF RemoteInv, PacketsOfThisLink, ReportsBounded, hidVars
<1>8. AskInv'
  <2>1. /\ packets = <<>> /\ cid = {} /\ UNCHANGED <<packets, cid, began, extended>>
    BY <1>1 DEF RemoteInv, PacketsOfThisLink, hidVars
  <2> QED BY <1>2, <2>1, CountEmpty DEF AskInv, Begun
<1>9. CreditsConserved'
  BY <1>1, <1>3, <1>4 DEF RemoteInv, CreditsConserved
<1> QED BY <1>5, <1>6, <1>7, <1>8, <1>9 DEF RemoteInv

LEMMA SupervisionStep ==
  ASSUME RemoteAssumption, RemoteInv, WriteSupervisionTimeout
  PROVE  RemoteInv'
<1>1. /\ link = "up" /\ timeouts < MaxTimeouts /\ timeouts' = timeouts + 1
      /\ events' = Append(events, "complete") /\ "complete" \in Event
      /\ UNCHANGED <<scan, asked, cid, configured, extended, continuous, link, links, credits, owes,
                     opened, modes>>
  BY DEF WriteSupervisionTimeout, Event
<1>2. /\ events' \in Seq(Event) /\ Ordered(events')
      /\ \A v : Count(events', v) = Count(events, v) + (IF "complete" = v THEN 1 ELSE 0)
  BY <1>1, Queued
<1>3. Count(events, "connectionRequest") \in Nat /\ Count(events, "connected") \in Nat
      /\ Count(events, "disconnected") \in Nat /\ Count(events, "credit") \in Nat
  BY CountIs DEF RemoteInv, RemoteTypeOK
<1>4. packets \in Seq(Packet) /\ owes \in Seq(Owed) /\ P("connect", "control") \in Packet
  BY DEF RemoteInv, RemoteTypeOK, Packet, P, Channels
<1>5. \/ began /\ UNCHANGED <<packets, began>>
      \/ ~began /\ packets' = Append(packets, P("connect", "control")) /\ began' = TRUE
  BY DEF WriteSupervisionTimeout, BeginHid
<1>6. /\ packets' \in Seq(Packet) /\ began' \in BOOLEAN
      /\ \A v : Count(packets', v) = Count(packets, v)
                  + (IF ~began /\ P("connect", "control") = v THEN 1 ELSE 0)
  <2>1. CASE began
    <3>1. \A v : Count(packets, v) \in Nat
      BY <1>4, CountIs
    <3> QED BY <1>4, <1>5, <2>1, <3>1 DEF RemoteInv, RemoteTypeOK
  <2>2. CASE ~began
    <3>1. \A v : Count(Append(packets, P("connect", "control")), v) =
                   Count(packets, v) + (IF P("connect", "control") = v THEN 1 ELSE 0)
      BY <1>4, CountAppend
    <3>2. Append(packets, P("connect", "control")) \in Seq(Packet)
      BY <1>4
    <3> QED BY <1>5, <2>2, <3>1, <3>2
  <2> QED BY <2>1, <2>2
<1>7. RemoteTypeOK'
  BY <1>1, <1>2, <1>6 DEF RemoteInv, RemoteTypeOK, RemoteAssumption
<1>8. LinkInv'
  BY <1>1, <1>2, <1>3 DEF RemoteInv, LinkInv
<1>9. PacketsOfThisLink'
  BY <1>1 DEF PacketsOfThisLink
<1>10. AskInv'
  <2>1. SUFFICES ASSUME NEW c \in Channels
                 PROVE  Count(packets', P("connect", c)) + Count(owes, P("connectRsp", c))
                          + (IF c \in cid THEN 1 ELSE 0) <= IF Begun(c)' THEN 1 ELSE 0
    BY <1>1 DEF AskInv
  <2>2. Count(packets, P("connect", c)) \in Nat /\ Count(owes, P("connectRsp", c)) \in Nat
    BY <1>4, CountIs
  <2>3. Count(packets, P("connect", c)) + Count(owes, P("connectRsp", c))
          + (IF c \in cid THEN 1 ELSE 0) <= IF Begun(c) THEN 1 ELSE 0
    BY DEF RemoteInv, AskInv
  <2>4. CASE c = "control"
    BY <1>5, <1>6, <2>2, <2>3, <2>4 DEF Begun
  <2>5. CASE c # "control"
    <3>1. P("connect", "control") # P("connect", c)
      BY <2>5 DEF P
    <3>2. Count(packets', P("connect", c)) = Count(packets, P("connect", c))
      BY <1>6, <2>2, <3>1
    <3> QED BY <1>1, <2>3, <2>5, <3>2 DEF Begun
  <2> QED BY <2>4, <2>5
<1>11. ReportsBounded'
  <2>1. P("connect", "control") # P("report", "interrupt")
    BY DEF P
  <2>2. Count(packets, P("report", "interrupt")) \in Nat
    BY <1>4, CountIs
  <2> QED BY <1>1, <1>6, <2>1, <2>2 DEF RemoteInv, ReportsBounded
<1>12. CreditsConserved'
  BY <1>1, <1>2, <1>3 DEF RemoteInv, CreditsConserved
<1> QED BY <1>7, <1>8, <1>9, <1>10, <1>11, <1>12 DEF RemoteInv

LEMMA DisconnectStep ==
  ASSUME RemoteAssumption, RemoteInv, Disconnect
  PROVE  RemoteInv'
<1>1. /\ link = "up" /\ links < MaxLinks
      /\ events' = events \o <<"status", "disconnected">> /\ "disconnected" \in Event
      /\ asked' = FALSE /\ packets' = <<>> /\ began' = FALSE /\ cid' = {} /\ configured' = {}
      /\ extended' = FALSE /\ continuous' = FALSE
      /\ link' = "ending" /\ owes' = <<>> /\ opened' = {}
      /\ UNCHANGED <<scan, links, timeouts, credits, modes>>
  BY DEF Disconnect, AsksAgain, DropsPackets, ForgetsBegun, Event
<1>2. Count(events, "connectionRequest") = 0 /\ Count(events, "connected") = 0
      /\ Count(events, "disconnected") = 0 /\ Count(events, "credit") \in Nat
  BY <1>1, CountIs DEF RemoteInv, RemoteTypeOK, LinkInv
<1>3. /\ events' \in Seq(Event) /\ Ordered(events')
      /\ \A v : Count(events', v) =
           Count(events, v) + (IF "status" = v THEN 1 ELSE 0) + (IF "disconnected" = v THEN 1 ELSE 0)
  BY <1>1, <1>2, QueuedTwo
<1>4. RemoteTypeOK'
  <2>1. <<>> \in Seq(Packet) /\ <<>> \in Seq(Owed)
    OBVIOUS
  <2> QED BY <1>1, <1>3, <2>1 DEF RemoteInv, RemoteTypeOK
<1>5. LinkInv'
  BY <1>1, <1>2, <1>3 DEF RemoteInv, LinkInv
<1>6. PacketsOfThisLink'
  BY <1>1 DEF PacketsOfThisLink
<1>7. AskInv'
  BY <1>1, CountEmpty DEF AskInv, Begun
<1>8. ReportsBounded'
  BY <1>1, CountEmpty DEF RemoteInv, RemoteTypeOK, ReportsBounded, RemoteAssumption
<1>9. CreditsConserved'
  BY <1>1, <1>2, <1>3 DEF RemoteInv, CreditsConserved
<1> QED BY <1>4, <1>5, <1>6, <1>7, <1>8, <1>9 DEF RemoteInv

LEMMA AskForConnectionStep ==
  ASSUME RemoteAssumption, RemoteInv, AskForConnection
  PROVE  RemoteInv'
<1>1. /\ ~asked /\ asked' = TRUE
      /\ events' = Append(events, "connectionRequest") /\ "connectionRequest" \in Event
      /\ UNCHANGED <<scan, began, cid, configured, extended, continuous, packets, stackVars>>
  BY DEF AskForConnection, Event
<1>2. link \in {"down", "ending"}
  BY <1>1 DEF RemoteInv, RemoteTypeOK, LinkInv
<1>3. /\ events' \in Seq(Event) /\ Ordered(events')
      /\ \A v : Count(events', v) = Count(events, v) + (IF "connectionRequest" = v THEN 1 ELSE 0)
  BY <1>1, Queued
<1>4. Count(events, "connectionRequest") \in Nat /\ Count(events, "connected") \in Nat
      /\ Count(events, "disconnected") \in Nat /\ Count(events, "credit") \in Nat
  BY CountIs DEF RemoteInv, RemoteTypeOK
<1>5. RemoteTypeOK'
  BY <1>1, <1>3 DEF RemoteInv, RemoteTypeOK, stackVars
<1>6. LinkInv'
  BY <1>1, <1>2, <1>3, <1>4 DEF RemoteInv, LinkInv, stackVars
<1>7. PacketsOfThisLink' /\ ReportsBounded'
  BY <1>1 DEF RemoteInv, PacketsOfThisLink, ReportsBounded, stackVars
<1>8. AskInv'
  BY <1>1, AskKept DEF RemoteInv, stackVars
<1>9. CreditsConserved'
  BY <1>1, <1>3, <1>4 DEF RemoteInv, CreditsConserved, stackVars
<1> QED BY <1>5, <1>6, <1>7, <1>8, <1>9 DEF RemoteInv

LEMMA QueueReportStep ==
  ASSUME RemoteAssumption, RemoteInv, QueueReport
  PROVE  RemoteInv'
<1>1. /\ "interrupt" \in cid /\ packets = <<>>
      /\ packets' = Append(packets, P("report", "interrupt"))
      /\ UNCHANGED <<hidVars, events, stackVars>>
  BY DEF QueueReport, ReportDue
<1>2. packets \in Seq(Packet) /\ P("report", "interrupt") \in Packet
  BY DEF RemoteInv, RemoteTypeOK, Packet, P
<1>3. \A v : Count(Append(packets, P("report", "interrupt")), v) =
               Count(packets, v) + (IF P("report", "interrupt") = v THEN 1 ELSE 0)
  BY <1>2, CountAppend
<1>4. \A v : Count(packets, v) = 0
  BY <1>1, CountEmpty
<1>5. RemoteTypeOK'
  <2>1. packets' \in Seq(Packet)
    BY <1>1, <1>2
  <2> QED BY <1>1, <2>1 DEF RemoteInv, RemoteTypeOK, hidVars, stackVars
<1>6. LinkInv'
  BY <1>1 DEF RemoteInv, LinkInv, hidVars, stackVars
<1>7. PacketsOfThisLink'
  BY <1>1 DEF RemoteInv, PacketsOfThisLink, hidVars, stackVars
<1>8. AskInv'
  <2>1. \A c : P("report", "interrupt") # P("connect", c)
    BY DEF P
  <2>2. \A c : Count(packets', P("connect", c)) = Count(packets, P("connect", c))
    BY <1>1, <1>3, <1>4, <2>1
  <2> QED BY <1>1, <2>2 DEF RemoteInv, AskInv, Begun, hidVars, stackVars
<1>9. ReportsBounded'
  BY <1>1, <1>3, <1>4 DEF RemoteInv, RemoteTypeOK, RemoteAssumption, ReportsBounded, stackVars
<1>10. CreditsConserved'
  BY <1>1 DEF RemoteInv, CreditsConserved, stackVars
<1> QED BY <1>5, <1>6, <1>7, <1>8, <1>9, <1>10 DEF RemoteInv

\* The state of the link tells which event comes first.
LEMMA DeliverEventStep ==
  ASSUME RemoteAssumption, RemoteInv, DeliverEvent
  PROVE  RemoteInv'
<1> DEFINE e == Head(events)
<1>1. /\ events # <<>> /\ events' = Tail(events) /\ UNCHANGED <<hidVars, packets, opened, modes>>
      /\ credits' = IF e = "credit" THEN credits + 1 ELSE credits
  BY DEF DeliverEvent
<1>2. /\ events' \in Seq(Event) /\ Ordered(events') /\ e \in Event /\ e = events[1]
      /\ Len(events) \in Nat \ {0}
  BY <1>1, CountTail, OrderedTail DEF RemoteInv, RemoteTypeOK, LinkInv
<1>3. \A v : Count(events, v) = Count(events', v) + (IF e = v THEN 1 ELSE 0)
  BY <1>1, CountTail DEF RemoteInv, RemoteTypeOK
<1>4. \A v : Count(events, v) \in Nat /\ Count(events', v) \in Nat
  BY <1>2, CountIs DEF RemoteInv, RemoteTypeOK
<1>5. \/ e = "connectionRequest" /\ link' = "asked" /\ owes' = <<P("accept", "control")>>
           /\ UNCHANGED <<links, timeouts>>
      \/ e = "connected" /\ link' = "up" /\ links' = links + 1 /\ timeouts' = 0 /\ owes' = owes
      \/ e = "disconnected" /\ link' = "down" /\ UNCHANGED <<links, timeouts, owes>>
      \/ e \notin {"connectionRequest", "connected", "disconnected"}
           /\ UNCHANGED <<link, links, timeouts, owes>>
  BY DEF DeliverEvent
<1> HIDE DEF e
<1>6. e = "connectionRequest" => link = "down" /\ asked
  <2>1. SUFFICES ASSUME e = "connectionRequest"
                 PROVE  link = "down" /\ asked
    OBVIOUS
  <2>2. Count(events, "connectionRequest") # 0
    BY <1>3, <1>4, <2>1
  <2>3. link \in {"down", "ending"} /\ asked
    BY <2>2 DEF RemoteInv, LinkInv
  <2>4. link # "ending"
    <3>1. SUFFICES ASSUME link = "ending"
                   PROVE  FALSE
      OBVIOUS
    <3>2. Count(events, "disconnected") # 0
      BY <3>1 DEF RemoteInv, LinkInv
    <3>3. PICK i \in 1 .. Len(events) : events[i] = "disconnected"
      BY <3>2, CountIs DEF RemoteInv, RemoteTypeOK
    <3>4. 1 \in 1 .. Len(events) /\ events[1] = "connectionRequest"
      BY <1>2, <2>1
    <3>5. i < 1
      BY <3>3, <3>4 DEF RemoteInv, LinkInv, Ordered
    <3> QED BY <1>2, <3>5
  <2> QED BY <2>3, <2>4
<1>7. e = "connected" => link = "asked" /\ owes = <<>>
  BY <1>3, <1>4 DEF RemoteInv, LinkInv
<1>8. e = "disconnected" => link = "ending"
  BY <1>3, <1>4 DEF RemoteInv, LinkInv
<1>9. link \in {"down", "asked", "up", "ending"} /\ link' \in {"down", "asked", "up", "ending"}
  BY <1>5 DEF RemoteInv, RemoteTypeOK
<1>10. LinkInv'
  <2>1. CASE e = "connectionRequest"
    <3>1. owes' # <<>> /\ owes' = <<P("accept", "control")>>
      BY <1>5, <2>1
    <3> QED BY <1>1, <1>2, <1>3, <1>4, <1>5, <1>6, <2>1, <3>1 DEF RemoteInv, LinkInv, hidVars
  <2>2. CASE e = "connected"
    BY <1>1, <1>2, <1>3, <1>4, <1>5, <1>7, <2>2 DEF RemoteInv, LinkInv, hidVars
  <2>3. CASE e = "disconnected"
    BY <1>1, <1>2, <1>3, <1>4, <1>5, <1>8, <2>3 DEF RemoteInv, LinkInv, hidVars
  <2>4. CASE e \notin {"connectionRequest", "connected", "disconnected"}
    <3>1. UNCHANGED <<link, links, timeouts, owes, asked>>
      BY <1>1, <1>5, <2>4 DEF hidVars
    <3>2. /\ Count(events', "connectionRequest") = Count(events, "connectionRequest")
          /\ Count(events', "connected") = Count(events, "connected")
          /\ Count(events', "disconnected") = Count(events, "disconnected")
      BY <1>3, <1>4, <2>4
    <3> QED BY <1>2, <3>1, <3>2 DEF RemoteInv, LinkInv
  <2> QED BY <2>1, <2>2, <2>3, <2>4
<1>11. CreditsConserved'
  <2>1. credits \in Nat
    BY DEF RemoteInv, RemoteTypeOK
  <2> QED BY <1>1, <1>3, <1>4, <2>1 DEF RemoteInv, CreditsConserved
<1>12. RemoteTypeOK'
  <2>1. credits' \in 0 .. Credits
    BY <1>1, <1>4, <1>11 DEF RemoteInv, RemoteTypeOK, RemoteAssumption, CreditsConserved
  <2>2. owes' \in Seq(Owed)
    <3>1. P("accept", "control") \in Owed
      BY DEF P, Owed
    <3>2. <<P("accept", "control")>> \in Seq(Owed)
      BY <3>1
    <3> QED BY <1>5, <3>2 DEF RemoteInv, RemoteTypeOK
  <2>3. links' \in 0 .. MaxLinks
    BY <1>5, <1>7 DEF RemoteInv, RemoteTypeOK, LinkInv, RemoteAssumption
  <2>4. timeouts' \in 0 .. MaxTimeouts
    BY <1>5 DEF RemoteInv, RemoteTypeOK, RemoteAssumption
  <2> QED BY <1>1, <1>2, <1>9, <2>1, <2>2, <2>3, <2>4 DEF RemoteInv, RemoteTypeOK, hidVars
<1>13. PacketsOfThisLink'
  <2>1. link' # "up" => link # "up"
    BY <1>5, <1>6, <1>8
  <2> QED BY <1>1, <2>1 DEF RemoteInv, PacketsOfThisLink, hidVars
<1>14. AskInv'
  <2>1. CASE e = "connectionRequest"
    <3>1. packets' = <<>> /\ cid' = {}
      BY <1>1, <1>6, <2>1 DEF RemoteInv, PacketsOfThisLink, hidVars
    <3>2. ASSUME NEW c
          PROVE  Count(<<P("accept", "control")>>, P("connectRsp", c)) = 0
      <4>1. P("accept", "control") # P("connectRsp", c)
        BY DEF P
      <4> DEFINE y == P("accept", "control")
                 v == P("connectRsp", c)
      <4> HIDE DEF y, v
      <4>2. Places(<<y>>, v) = {i \in 1 .. 1 : y = v}
        BY DEF Places
      <4>3. y # v
        BY <4>1 DEF y, v
      <4>4. Places(<<y>>, v) = {}
        BY <4>2, <4>3
      <4>5. Count(<<y>>, v) = Cardinality(Places(<<y>>, v))
        BY DEF Count, Places
      <4> QED BY <4>4, <4>5, FS_EmptySet DEF y, v
    <3>3. owes' = <<P("accept", "control")>>
      BY <1>5, <2>1
    <3> QED BY <3>1, <3>2, <3>3, CountEmpty DEF AskInv, Begun
  <2>2. CASE e # "connectionRequest"
    BY <1>1, <1>5, <2>2, AskKept DEF RemoteInv, hidVars
  <2> QED BY <2>1, <2>2
<1>15. ReportsBounded'
  BY <1>1 DEF RemoteInv, ReportsBounded
<1> QED BY <1>10, <1>11, <1>12, <1>13, <1>14, <1>15 DEF RemoteInv

\* A packet that reaches the stack turns into the answer that is owed for it.
LEMMA DeliverPacketStep ==
  ASSUME RemoteAssumption, RemoteInv, DeliverPacket
  PROVE  RemoteInv'
<1> DEFINE p == Head(packets)
<1>1. /\ packets # <<>> /\ events = <<>> /\ packets' = Tail(packets)
      /\ UNCHANGED <<hidVars, events, link, links, timeouts, credits, opened, modes>>
      /\ \/ p.kind = "connect"
              /\ owes' = owes \o <<P("connectRsp", p.channel), P("configReq", p.channel)>>
         \/ p.kind = "configReq" /\ owes' = owes \o <<P("configRsp", p.channel)>>
         \/ p.kind \notin {"connect", "configReq"} /\ owes' = owes \o <<>>
  BY DEF DeliverPacket
<1>2. packets \in Seq(Packet) /\ owes \in Seq(Owed)
  BY DEF RemoteInv, RemoteTypeOK
<1>3. /\ packets' \in Seq(Packet) /\ p \in Packet
      /\ \A v : Count(packets, v) = Count(packets', v) + (IF p = v THEN 1 ELSE 0)
  BY <1>1, <1>2, CountTail
<1>4. \A v : Count(packets, v) \in Nat /\ Count(packets', v) \in Nat /\ Count(owes, v) \in Nat
  BY <1>2, <1>3, CountIs
<1> HIDE DEF p
<1>5. /\ p.channel \in Channels
      /\ P("connectRsp", p.channel) \in Owed /\ P("configReq", p.channel) \in Owed
      /\ P("configRsp", p.channel) \in Owed
      /\ p = P(p.kind, p.channel)
  <2>1. p.channel \in Channels /\ p = P(p.kind, p.channel)
    BY <1>3 DEF Packet, Channels, P
  <2> QED BY <2>1 DEF Owed, P
\* The first answer to a request is counted where the request was.
<1>6. /\ owes' \in Seq(Owed)
      /\ \A c \in Channels : Count(owes', P("connectRsp", c)) =
           Count(owes, P("connectRsp", c)) + (IF p = P("connect", c) THEN 1 ELSE 0)
  <2>1. CASE p.kind = "connect"
    <3>1. owes' = owes \o <<P("connectRsp", p.channel), P("configReq", p.channel)>>
      BY <1>1, <2>1
    <3>2. /\ owes' \in Seq(Owed)
          /\ \A v : Count(owes', v) = Count(owes, v)
                      + (IF P("connectRsp", p.channel) = v THEN 1 ELSE 0)
                      + (IF P("configReq", p.channel) = v THEN 1 ELSE 0)
      BY <1>2, <1>5, <3>1, CountTwo
    <3>3. ASSUME NEW c \in Channels
          PROVE  /\ P("configReq", p.channel) # P("connectRsp", c)
                 /\ P("connectRsp", p.channel) = P("connectRsp", c) <=> p = P("connect", c)
      <4>1. p.channel = c <=> P("connectRsp", p.channel) = P("connectRsp", c)
        BY DEF P
      <4>2. p.channel = c <=> P("connect", p.channel) = P("connect", c)
        BY DEF P
      <4>3. P("configReq", p.channel) # P("connectRsp", c)
        BY DEF P
      <4> QED BY <1>5, <2>1, <4>1, <4>2, <4>3
    <3> QED BY <1>4, <3>2, <3>3
  <2>2. CASE p.kind # "connect"
    <3>1. \A c : p # P("connect", c)
      BY <2>2 DEF P
    <3>2. CASE p.kind = "configReq"
      <4>1. owes' = Append(owes, P("configRsp", p.channel))
        BY <1>1, <1>2, <1>5, <3>2, CountTwo
      <4>2. owes' \in Seq(Owed)
        BY <1>2, <1>5, <4>1
      <4>3. \A v : Count(owes', v) = Count(owes, v) + (IF P("configRsp", p.channel) = v THEN 1 ELSE 0)
        BY <1>2, <1>5, <4>1, CountAppend
      <4>4. \A c : P("configRsp", p.channel) # P("connectRsp", c)
        BY DEF P
      <4> QED BY <1>4, <3>1, <4>2, <4>3, <4>4
    <3>3. CASE p.kind # "configReq"
      <4>1. owes' = owes
        BY <1>1, <1>2, <2>2, <3>3
      <4> QED BY <1>2, <1>4, <3>1, <4>1
    <3> QED BY <3>2, <3>3
  <2> QED BY <2>1, <2>2
<1>7. link = "up"
  BY <1>1 DEF RemoteInv, PacketsOfThisLink
<1>8. RemoteTypeOK'
  BY <1>1, <1>3, <1>6 DEF RemoteInv, RemoteTypeOK, hidVars
<1>9. LinkInv'
  BY <1>1, <1>7 DEF RemoteInv, LinkInv, hidVars
<1>10. PacketsOfThisLink'
  BY <1>1, <1>7 DEF PacketsOfThisLink
<1>11. AskInv'
  <2>1. SUFFICES ASSUME NEW c \in Channels
                 PROVE  Count(packets', P("connect", c)) + Count(owes', P("connectRsp", c))
                          + (IF c \in cid THEN 1 ELSE 0) <= IF Begun(c) THEN 1 ELSE 0
    BY <1>1 DEF AskInv, Begun, hidVars
  <2>2. Count(packets', P("connect", c)) + Count(owes', P("connectRsp", c)) =
          Count(packets, P("connect", c)) + Count(owes, P("connectRsp", c))
    BY <1>3, <1>4, <1>6
  <2> QED BY <2>2 DEF RemoteInv, AskInv
<1>12. ReportsBounded'
  <2>1. Count(packets', P("report", "interrupt")) <= Count(packets, P("report", "interrupt"))
    BY <1>3, <1>4
  <2>2. modes \in Nat
    BY DEF RemoteInv, RemoteTypeOK
  <2> QED BY <1>1, <1>4, <2>1, <2>2 DEF RemoteInv, ReportsBounded
<1>13. CreditsConserved'
  BY <1>1 DEF RemoteInv, CreditsConserved
<1> QED BY <1>8, <1>9, <1>10, <1>11, <1>12, <1>13 DEF RemoteInv

\* What a packet of the stack does to the credits and the events.
LEMMA SendPacketStep ==
  ASSUME RemoteAssumption, RemoteInv, SendPacket
  PROVE  /\ link = "up" /\ credits' \in 0 .. Credits /\ CreditsConserved'
         /\ events' \in Seq(Event) /\ Ordered(events')
         /\ \A v \in {"connectionRequest", "connected", "disconnected"} :
              Count(events', v) = Count(events, v)
<1>1. /\ link = "up" /\ credits > 0 /\ credits' = credits - 1
      /\ events' = Append(events, "credit") /\ "credit" \in Event
  BY DEF SendPacket, CreditBack, Event
<1>2. /\ events' \in Seq(Event) /\ Ordered(events')
      /\ \A v : Count(events', v) = Count(events, v) + (IF "credit" = v THEN 1 ELSE 0)
  BY <1>1, Queued
<1>3. \A v : Count(events, v) \in Nat
  BY CountIs DEF RemoteInv, RemoteTypeOK
<1>4. credits \in 0 .. Credits /\ Credits \in Nat
  BY DEF RemoteInv, RemoteTypeOK, RemoteAssumption
<1>5. credits' \in 0 .. Credits
  BY <1>1, <1>4
<1>6. CreditsConserved'
  BY <1>1, <1>2, <1>3, <1>4 DEF RemoteInv, CreditsConserved
<1>7. ASSUME NEW v \in {"connectionRequest", "connected", "disconnected"}
      PROVE  Count(events', v) = Count(events, v)
  <2>1. "credit" # v
    OBVIOUS
  <2>2. Count(events', v) = Count(events, v) + 0
    BY <1>2, <2>1
  <2> QED BY <1>3, <2>2
<1> QED BY <1>1, <1>2, <1>5, <1>6, <1>7

\* What an answer leaves in the packets of the remote.
LEMMA ReplyStep ==
  ASSUME RemoteAssumption, RemoteInv, Reply
  PROVE  RemoteInv'
<1> DEFINE o == Head(owes)
           k == o.kind
           ch == o.channel
<1>1. /\ owes # <<>> /\ SendPacket /\ owes' = Tail(owes)
      /\ cid' = cid \cup {d \in {ch} : k = "connectRsp"}
      /\ UNCHANGED <<scan, asked, began, continuous, link, links, timeouts, modes>>
  BY DEF Reply
<1>2. opened' \subseteq Channels
  BY DEF Reply, RemoteInv, RemoteTypeOK
<1>3. \/ /\ k = "configReq"
         /\ packets' = packets \o <<P("configRsp", ch)>> \o
              (IF ch \in configured THEN <<>> ELSE <<P("configReq", ch)>>)
         /\ configured' = configured \cup {ch} /\ extended' = extended
      \/ /\ k = "configRsp" /\ ch = "control" /\ ~extended
         /\ packets' = Append(packets, P("connect", "interrupt"))
         /\ extended' = TRUE /\ configured' = configured
      \/ UNCHANGED <<packets, configured, extended>>
  BY DEF Reply
<1>4. packets \in Seq(Packet) /\ owes \in Seq(Owed) /\ cid \subseteq Channels
      /\ configured \subseteq Channels /\ extended \in BOOLEAN
  BY DEF RemoteInv, RemoteTypeOK
<1>5. /\ owes' \in Seq(Owed) /\ o \in Owed
      /\ \A v : Count(owes, v) = Count(owes', v) + (IF o = v THEN 1 ELSE 0)
  BY <1>1, <1>4, CountTail
<1>6. \A v : Count(packets, v) \in Nat /\ Count(owes, v) \in Nat /\ Count(owes', v) \in Nat
  BY <1>4, <1>5, CountIs
<1>7. /\ link = "up" /\ credits' \in 0 .. Credits /\ CreditsConserved'
      /\ events' \in Seq(Event) /\ Ordered(events')
      /\ \A v \in {"connectionRequest", "connected", "disconnected"} :
           Count(events', v) = Count(events, v)
  BY <1>1, SendPacketStep
<1> HIDE DEF o
<1>8. ch \in Channels /\ o = P(k, ch)
  BY <1>5 DEF Owed, Channels, P
<1> HIDE DEF k, ch
<1>9. P("configRsp", ch) \in Packet /\ P("configReq", ch) \in Packet
      /\ P("connect", "interrupt") \in Packet
  BY <1>8 DEF Packet, P, Channels
\* Only the request for the second channel is a new request.
<1>10. /\ packets' \in Seq(Packet) /\ configured' \subseteq Channels /\ extended' \in BOOLEAN
       /\ Count(packets', P("report", "interrupt")) = Count(packets, P("report", "interrupt"))
       /\ Count(packets', P("connect", "control")) = Count(packets, P("connect", "control"))
       /\ \/ /\ Count(packets', P("connect", "interrupt")) = Count(packets, P("connect", "interrupt"))
             /\ extended' = extended
          \/ /\ Count(packets', P("connect", "interrupt")) = Count(packets, P("connect", "interrupt")) + 1
             /\ ~extended /\ extended' /\ k = "configRsp"
  <2> DEFINE Mine == {P("report", "interrupt"), P("connect", "control"), P("connect", "interrupt")}
  <2>0. P("report", "interrupt") \in Mine /\ P("connect", "control") \in Mine
        /\ P("connect", "interrupt") \in Mine
    OBVIOUS
  <2>1. CASE /\ k = "configReq"
             /\ packets' = packets \o <<P("configRsp", ch)>> \o
                  (IF ch \in configured THEN <<>> ELSE <<P("configReq", ch)>>)
             /\ configured' = configured \cup {ch} /\ extended' = extended
    <3>1. \A v \in Mine : P("configRsp", ch) # v /\ P("configReq", ch) # v
      BY DEF P
    <3>2. packets' = Append(packets, P("configRsp", ch))
          \/ packets' = Append(Append(packets, P("configRsp", ch)), P("configReq", ch))
      <4>1. Append(packets, P("configRsp", ch)) \in Seq(Packet)
        BY <1>4, <1>9
      <4>2. packets \o <<P("configRsp", ch)>> = Append(packets, P("configRsp", ch))
        BY <1>4
      <4>3. \A q \in Seq(Packet), y \in Packet : q \o <<>> = q /\ q \o <<y>> = Append(q, y)
        OBVIOUS
      <4> QED BY <1>9, <2>1, <4>1, <4>2, <4>3
    <3>3. Append(packets, P("configRsp", ch)) \in Seq(Packet)
          /\ \A v \in Mine : Count(Append(packets, P("configRsp", ch)), v) = Count(packets, v)
      BY <1>4, <1>6, <1>9, <3>1, CountAppend
    <3>4. Append(Append(packets, P("configRsp", ch)), P("configReq", ch)) \in Seq(Packet)
          /\ \A v \in Mine : Count(Append(Append(packets, P("configRsp", ch)), P("configReq", ch)), v) =
                               Count(packets, v)
      <4> DEFINE q == Append(packets, P("configRsp", ch))
      <4>1. q \in Seq(Packet) /\ \A v \in Mine : Count(q, v) = Count(packets, v)
        BY <3>3
      <4> HIDE DEF q
      <4>2. \A v : Count(Append(q, P("configReq", ch)), v) =
                     Count(q, v) + (IF P("configReq", ch) = v THEN 1 ELSE 0)
        BY <1>9, <4>1, CountAppend
      <4>3. Append(q, P("configReq", ch)) \in Seq(Packet)
        BY <1>9, <4>1
      <4>4. \A v \in Mine : Count(Append(q, P("configReq", ch)), v) = Count(packets, v)
        BY <1>6, <3>1, <4>1, <4>2
      <4> QED BY <4>3, <4>4 DEF q
    <3>5. packets' \in Seq(Packet) /\ \A v \in Mine : Count(packets', v) = Count(packets, v)
      BY <3>2, <3>3, <3>4
    <3> HIDE DEF Mine
    <3> QED BY <1>4, <1>8, <2>0, <2>1, <3>5
  <2>2. CASE /\ k = "configRsp" /\ ch = "control" /\ ~extended
             /\ packets' = Append(packets, P("connect", "interrupt"))
             /\ extended' = TRUE /\ configured' = configured
    <3>1. P("connect", "interrupt") # P("report", "interrupt")
          /\ P("connect", "interrupt") # P("connect", "control")
      BY DEF P
    <3>2. \A v : Count(Append(packets, P("connect", "interrupt")), v) =
                   Count(packets, v) + (IF P("connect", "interrupt") = v THEN 1 ELSE 0)
      BY <1>4, <1>9, CountAppend
    <3>3. packets' \in Seq(Packet)
      BY <1>4, <1>9, <2>2
    <3>4. /\ Count(packets', P("report", "interrupt")) = Count(packets, P("report", "interrupt"))
          /\ Count(packets', P("connect", "control")) = Count(packets, P("connect", "control"))
          /\ Count(packets', P("connect", "interrupt")) = Count(packets, P("connect", "interrupt")) + 1
      BY <1>6, <2>2, <3>1, <3>2
    <3> QED BY <1>4, <2>2, <3>3, <3>4
  <2>3. CASE UNCHANGED <<packets, configured, extended>>
    BY <1>4, <2>3
  <2> QED BY <1>3, <2>1, <2>2, <2>3
<1>11. /\ cid' \subseteq Channels
       /\ \A c \in Channels : c \in cid' <=> c \in cid \/ o = P("connectRsp", c)
  <2>1. \A c \in Channels : o = P("connectRsp", c) <=> k = "connectRsp" /\ c = ch
    <3>1. \A c \in Channels : P(k, ch) = P("connectRsp", c) <=> k = "connectRsp" /\ c = ch
      BY DEF P
    <3> QED BY <1>8, <3>1
  <2>2. \A c : c \in cid' <=> c \in cid \/ (c = ch /\ k = "connectRsp")
    BY <1>1
  <2> QED BY <1>4, <1>8, <2>1, <2>2
<1>12. RemoteTypeOK'
  BY <1>1, <1>2, <1>5, <1>7, <1>10, <1>11 DEF RemoteInv, RemoteTypeOK
<1>13. LinkInv'
  BY <1>1, <1>7 DEF RemoteInv, LinkInv
<1>14. PacketsOfThisLink'
  BY <1>1, <1>7 DEF PacketsOfThisLink
<1>15. AskInv'
  <2>1. SUFFICES ASSUME NEW c \in Channels
                 PROVE  Count(packets', P("connect", c)) + Count(owes', P("connectRsp", c))
                          + (IF c \in cid' THEN 1 ELSE 0) <= IF Begun(c)' THEN 1 ELSE 0
    BY DEF AskInv
  <2>2. Count(owes', P("connectRsp", c)) + (IF c \in cid' THEN 1 ELSE 0)
          <= Count(owes, P("connectRsp", c)) + (IF c \in cid THEN 1 ELSE 0)
    BY <1>5, <1>6, <1>11
  <2>3. Count(packets, P("connect", c)) + Count(owes, P("connectRsp", c))
          + (IF c \in cid THEN 1 ELSE 0) <= IF Begun(c) THEN 1 ELSE 0
    BY DEF RemoteInv, AskInv
  <2>4. CASE c = "control"
    <3>1. Count(packets', P("connect", c)) = Count(packets, P("connect", c)) /\ Begun(c)' = Begun(c)
      BY <1>1, <1>10, <2>4 DEF Begun
    <3> QED BY <1>6, <2>2, <2>3, <3>1
  <2>5. CASE c # "control"
    <3>1. c = "interrupt"
      BY <2>5 DEF Channels
    <3>2. CASE /\ Count(packets', P("connect", "interrupt")) = Count(packets, P("connect", "interrupt"))
               /\ extended' = extended
      BY <1>6, <2>2, <2>3, <3>1, <3>2 DEF Begun
    <3>3. CASE /\ Count(packets', P("connect", "interrupt")) = Count(packets, P("connect", "interrupt")) + 1
               /\ ~extended /\ extended' /\ k = "configRsp"
      BY <1>6, <2>2, <2>3, <3>1, <3>3 DEF Begun
    <3> QED BY <1>10, <3>2, <3>3
  <2> QED BY <2>4, <2>5
<1>16. ReportsBounded'
  BY <1>1, <1>10 DEF RemoteInv, ReportsBounded
<1> QED BY <1>7, <1>12, <1>13, <1>14, <1>15, <1>16 DEF RemoteInv

LEMMA OutputReportStep ==
  ASSUME RemoteAssumption, RemoteInv, NEW what, NEW on \in BOOLEAN, NEW ack \in BOOLEAN,
         OutputReport(what, on, ack)
  PROVE  RemoteInv'
<1>1. /\ SendPacket /\ modes < MaxModes /\ modes' = modes + 1
      /\ UNCHANGED <<scan, asked, began, cid, configured, extended, link, links, timeouts, owes, opened>>
  BY DEF OutputReport
<1>2. continuous' \in BOOLEAN
  <2>1. continuous \in BOOLEAN
    BY DEF RemoteInv, RemoteTypeOK
  <2> QED BY <2>1 DEF OutputReport
<1>3. \/ packets' = packets
      \/ packets' = packets \o <<P("ack", "interrupt")>> \o <<>>
      \/ packets' = packets \o <<P("ack", "interrupt")>> \o <<P("report", "interrupt")>>
      \/ packets' = packets \o <<>> \o <<>>
      \/ packets' = packets \o <<>> \o <<P("report", "interrupt")>>
  BY DEF OutputReport
<1>4. packets \in Seq(Packet) /\ modes \in Nat /\ MaxModes \in Nat
  BY DEF RemoteInv, RemoteTypeOK, RemoteAssumption
<1>5. P("ack", "interrupt") \in Packet /\ P("report", "interrupt") \in Packet
  BY DEF Packet, P
<1>6. \A v : Count(packets, v) \in Nat
  BY <1>4, CountIs
<1>7. /\ link = "up" /\ credits' \in 0 .. Credits /\ CreditsConserved'
      /\ events' \in Seq(Event) /\ Ordered(events')
      /\ \A v \in {"connectionRequest", "connected", "disconnected"} :
           Count(events', v) = Count(events, v)
  BY <1>1, SendPacketStep
<1>8. \/ packets' = packets
      \/ packets' = Append(packets, P("ack", "interrupt"))
      \/ packets' = Append(packets, P("report", "interrupt"))
      \/ packets' = packets \o <<P("ack", "interrupt"), P("report", "interrupt")>>
  <2>1. /\ packets \o <<>> = packets /\ packets \o <<>> \o <<>> = packets
        /\ packets \o <<>> \o <<P("report", "interrupt")>> = Append(packets, P("report", "interrupt"))
    BY <1>4, <1>5
  <2>2. packets \o <<P("ack", "interrupt")>> \o <<>> = Append(packets, P("ack", "interrupt"))
    BY <1>4, <1>5
  <2>3. packets \o <<P("ack", "interrupt")>> \o <<P("report", "interrupt")>> =
          packets \o <<P("ack", "interrupt"), P("report", "interrupt")>>
    BY <1>4, <1>5
  <2> QED BY <1>3, <2>1, <2>2, <2>3
<1>9. /\ packets' \in Seq(Packet)
      /\ \A c : Count(packets', P("connect", c)) = Count(packets, P("connect", c))
      /\ Count(packets', P("report", "interrupt")) <= Count(packets, P("report", "interrupt")) + 1
  <2>1. \A c : P("ack", "interrupt") # P("connect", c) /\ P("report", "interrupt") # P("connect", c)
    BY DEF P
  <2>2. P("ack", "interrupt") # P("report", "interrupt")
    BY DEF P
  <2>3. CASE packets' = packets
    BY <1>4, <1>6, <2>3
  <2>4. CASE packets' = Append(packets, P("ack", "interrupt"))
    <3>1. packets' \in Seq(Packet)
          /\ \A v : Count(packets', v) = Count(packets, v) + (IF P("ack", "interrupt") = v THEN 1 ELSE 0)
      BY <1>4, <1>5, <2>4, CountAppend
    <3> QED BY <1>6, <2>1, <2>2, <3>1
  <2>5. CASE packets' = Append(packets, P("report", "interrupt"))
    <3>1. packets' \in Seq(Packet)
          /\ \A v : Count(packets', v) = Count(packets, v) + (IF P("report", "interrupt") = v THEN 1 ELSE 0)
      BY <1>4, <1>5, <2>5, CountAppend
    <3> QED BY <1>6, <2>1, <3>1
  <2>6. CASE packets' = packets \o <<P("ack", "interrupt"), P("report", "interrupt")>>
    <3>1. /\ packets' \in Seq(Packet)
          /\ \A v : Count(packets', v) = Count(packets, v) + (IF P("ack", "interrupt") = v THEN 1 ELSE 0)
                      + (IF P("report", "interrupt") = v THEN 1 ELSE 0)
      BY <1>4, <1>5, <2>6, CountTwo
    <3> QED BY <1>6, <2>1, <2>2, <3>1
  <2> QED BY <1>8, <2>3, <2>4, <2>5, <2>6
<1>10. RemoteTypeOK'
  <2>1. modes' \in 0 .. MaxModes
    BY <1>1, <1>4
  <2> QED BY <1>1, <1>2, <1>7, <1>9, <2>1 DEF RemoteInv, RemoteTypeOK
<1>11. LinkInv'
  BY <1>1, <1>7 DEF RemoteInv, LinkInv
<1>12. PacketsOfThisLink'
  BY <1>1, <1>7 DEF PacketsOfThisLink
<1>13. AskInv'
  BY <1>1, <1>9 DEF RemoteInv, AskInv, Begun
<1>14. ReportsBounded'
  <2>1. Count(packets', P("report", "interrupt")) \in Nat
    BY <1>9, CountIs
  <2> QED BY <1>1, <1>4, <1>6, <1>9, <2>1 DEF RemoteInv, ReportsBounded
<1> QED BY <1>7, <1>10, <1>11, <1>12, <1>13, <1>14 DEF RemoteInv

LEMMA RemoteInitInv ==
  ASSUME RemoteAssumption, RemoteInit
  PROVE  RemoteInv
<1>1. <<>> \in Seq(Event) /\ <<>> \in Seq(Packet) /\ <<>> \in Seq(Owed) /\ Len(<<>>) = 0
  OBVIOUS
<1>2. RemoteTypeOK
  <2>1. /\ MaxLinks \in Nat /\ Credits \in Nat /\ MaxTimeouts \in Nat /\ MaxModes \in Nat
    BY DEF RemoteAssumption
  <2>2. /\ links \in 0 .. MaxLinks /\ credits \in 0 .. Credits
        /\ timeouts \in 0 .. MaxTimeouts /\ modes \in 0 .. MaxModes
    BY <2>1 DEF RemoteInit
  <2> QED BY <1>1, <2>2 DEF RemoteInit, RemoteTypeOK
<1>3. LinkInv
  BY <1>1, CountEmpty DEF RemoteInit, LinkInv, Ordered, RemoteAssumption
<1>4. PacketsOfThisLink
  BY DEF RemoteInit, PacketsOfThisLink
<1>5. AskInv
  BY CountEmpty DEF RemoteInit, AskInv, Begun
<1>6. ReportsBounded /\ CreditsConserved
  BY CountEmpty DEF RemoteInit, ReportsBounded, CreditsConserved, RemoteAssumption
<1> QED BY <1>2, <1>3, <1>4, <1>5, <1>6 DEF RemoteInv

LEMMA RemoteNextKeeps ==
  ASSUME RemoteAssumption, RemoteInv, [RemoteNext]_remoteVars
  PROVE  RemoteInv'
<1>1. CASE UNCHANGED remoteVars
  BY <1>1 DEF remoteVars, hidVars, queues, stackVars, RemoteInv, RemoteTypeOK, LinkInv,
              PacketsOfThisLink, AskInv, Begun, ReportsBounded, CreditsConserved
<1>2. CASE RemoteNext
  BY <1>2, WriteScanEnableStep, AcceptConnectionStep, SupervisionStep, DisconnectStep, ReplyStep,
     OutputReportStep, AskForConnectionStep, QueueReportStep, DeliverEventStep, DeliverPacketStep
     DEF RemoteNext
<1> QED BY <1>1, <1>2

LEMMA RemoteInvariance ==
  ASSUME RemoteAssumption
  PROVE  RemoteSpec => []RemoteInv
<1>1. RemoteInit => RemoteInv
  BY RemoteInitInv
<1>2. RemoteInv /\ [RemoteNext]_remoteVars => RemoteInv'
  BY RemoteNextKeeps
<1> QED BY <1>1, <1>2, PTL DEF RemoteSpec

\* Whatever the title does with its link, and however its commands, its answers and its
\* disconnections cross the events and packets of the remote: a credit comes back for
\* every packet, a link sees only packets of its own, each channel is asked for once and
\* reports do not pile up (ipc_hle.cpp: HandleMeteorBtAclOutL2cap, Meteor_BtUsbPump).
THEOREM RemoteStaysOnLink ==
  ASSUME RemoteAssumption
  PROVE  RemoteSpec => []RemoteKeepsToLink
<1>1. RemoteSpec => []RemoteInv
  BY RemoteInvariance
<1>2. RemoteInv => RemoteKeepsToLink
  <2>1. SUFFICES ASSUME RemoteInv, NEW c \in Channels
                 PROVE  Count(packets, P("connect", c)) + Count(owes, P("connectRsp", c))
                          + (IF c \in cid THEN 1 ELSE 0) <= 1
    BY DEF RemoteInv, RemoteKeepsToLink, AsksChannelOnce
  <2>2. Count(packets, P("connect", c)) \in Nat /\ Count(owes, P("connectRsp", c)) \in Nat
    BY <2>1, CountIs DEF RemoteInv, RemoteTypeOK
  <2> QED BY <2>1, <2>2 DEF RemoteInv, AskInv
<1> QED BY <1>1, <1>2, PTL

\* The remote and the stack keep their types: in particular the stack never counts more
\* credits than the controller gave it.
THEOREM RemoteIsTyped ==
  ASSUME RemoteAssumption
  PROVE  RemoteSpec => []RemoteTypeOK
<1>1. RemoteSpec => []RemoteInv
  BY RemoteInvariance
<1>2. RemoteInv => RemoteTypeOK
  BY DEF RemoteInv
<1> QED BY <1>1, <1>2, PTL

-----------------------------------------------------------------------------
(* The checkpoint of the loops.                                            *)


Served == Devices \ {"finish"}

\* In a checkpoint, the services of one group follow the mirror, with nothing between.
Behind(s) == \A k \in 2 .. Len(s) : s[k] \in Served => s[k - 1] \in Served \cup {"mirror"}

\* Registers are only lost while SelectThread uses them, and their restoration is next.
Saved ==
  \A t \in Threads : ~intact[t] =>
    Len(stack[t]) = 1 /\ stack[t][1].todo # <<>> /\ stack[t][1].todo[1] = "restore"

\* A thread that is switched out has no callback, and resumes in its own code or at the
\* restoration.
Away ==
  \A t \in Threads \ {cur} :
    Len(stack[t]) = 1 /\ (stack[t][1].todo # <<>> => stack[t][1].todo[1] = "restore")

\* A device is only looked at while the latch does not say more than the mask of the code
\* that was interrupted.
Masked ==
  /\ \A t \in Threads : \A i \in 1 .. Len(stack[t]) : Behind(stack[t][i].todo)
  /\ CallbacksRespectMask
  /\ latch /\ ~InCode /\ Top.todo[1] \in Served => Top.ee

LoopInv == LoopTypeOK /\ Saved /\ Away /\ (native = {} => Masked)

-----------------------------------------------------------------------------
(* What an operation does to the stack of the running thread.              *)

\* The frame on top of the running thread exists and has its type.
LEMMA TopFrame ==
  ASSUME LoopTypeOK
  PROVE  /\ cur \in Threads /\ stack[cur] \in Seq(Frames)
         /\ Depth \in Nat /\ Depth >= 1 /\ Depth <= MaxDepth + 1
         /\ Top \in Frames /\ Top.todo \in Seq(Steps)
         /\ Top.of \in Devices \cup {"thread"} /\ Top.open \in BOOLEAN /\ Top.ee \in BOOLEAN
<1>1. cur \in Threads /\ stack[cur] \in Seq(Frames) /\ Depth \in 1 .. MaxDepth + 1
  BY DEF LoopTypeOK, Depth
<1>2. Top \in Frames
  BY <1>1 DEF Top, Depth
<1> QED BY <1>1, <1>2 DEF Frames, Depth

\* Only the frame on top of the running thread changes.
LEMMA TopReplaced ==
  ASSUME LoopTypeOK, NEW f \in Frames, SetTop(f)
  PROVE  /\ stack' \in [Threads -> Seq(Frames)]
         /\ \A t \in Threads : Len(stack'[t]) = Len(stack[t])
         /\ \A t \in Threads \ {cur} : stack'[t] = stack[t]
         /\ stack'[cur][Depth] = f
         /\ \A i \in 1 .. Depth - 1 : stack'[cur][i] = stack[cur][i]
<1>1. stack[cur] \in Seq(Frames) /\ Depth \in 1 .. Len(stack[cur]) /\ cur \in Threads
  BY TopFrame DEF Depth
<1>2. stack' = [stack EXCEPT ![cur] = [stack[cur] EXCEPT ![Depth] = f]]
  BY DEF SetTop
<1>3. [stack[cur] EXCEPT ![Depth] = f] \in Seq(Frames)
  BY <1>1
<1>4. Len([stack[cur] EXCEPT ![Depth] = f]) = Len(stack[cur])
  BY <1>1
<1>5. stack \in [Threads -> Seq(Frames)]
  BY DEF LoopTypeOK
<1> QED BY <1>1, <1>2, <1>3, <1>4, <1>5 DEF Depth

\* A step that changes the frame on top, of a thread whose registers are there.
LEMMA TopKeeps ==
  ASSUME LoopTypeOK, Saved, Away, NEW f \in Frames, SetTop(f), UNCHANGED <<cur, intact>>, intact[cur]
  PROVE  /\ stack' \in [Threads -> Seq(Frames)]
         /\ \A t \in Threads : Len(stack'[t]) \in 1 .. MaxDepth + 1
         /\ Saved' /\ Away'
<1>1. /\ stack' \in [Threads -> Seq(Frames)]
      /\ \A t \in Threads : Len(stack'[t]) = Len(stack[t])
      /\ \A t \in Threads \ {cur} : stack'[t] = stack[t]
  BY TopReplaced
<1>2. \A t \in Threads : Len(stack'[t]) \in 1 .. MaxDepth + 1
  BY <1>1 DEF LoopTypeOK
<1>3. Saved'
  BY <1>1 DEF Saved
<1>4. Away'
  BY <1>1 DEF Away
<1> QED BY <1>1, <1>2, <1>3, <1>4

\* The same for the mask: what the checkpoint has left keeps its order, and a device is
\* only next if the latch does not say too much.
LEMMA TopMasked ==
  ASSUME LoopTypeOK, Masked, NEW f \in Frames, SetTop(f), cur' = cur, Behind(f.todo),
         latch' /\ f.todo # <<>> /\ f.todo[1] \in Served => f.ee
  PROVE  Masked'
<1>1. /\ \A t \in Threads : Len(stack'[t]) = Len(stack[t])
      /\ \A t \in Threads \ {cur} : stack'[t] = stack[t]
      /\ stack'[cur][Depth] = f
      /\ \A i \in 1 .. Depth - 1 : stack'[cur][i] = stack[cur][i]
  BY TopReplaced
<1>2. Depth = Len(stack[cur]) /\ Depth \in Nat /\ Depth >= 1 /\ cur \in Threads
  BY TopFrame DEF Depth
<1>3. Top' = f
  BY <1>1, <1>2 DEF Top, Depth
<1>4. \A t \in Threads : \A i \in 1 .. Len(stack'[t]) : Behind(stack'[t][i].todo)
  <2> SUFFICES ASSUME NEW t \in Threads, NEW i \in 1 .. Len(stack'[t])
               PROVE  Behind(stack'[t][i].todo)
    OBVIOUS
  <2>1. CASE t = cur /\ i = Depth
    BY <2>1, <1>1
  <2>2. CASE ~(t = cur /\ i = Depth)
    <3>1. stack'[t][i] = stack[t][i] /\ i \in 1 .. Len(stack[t])
      BY <2>2, <1>1, <1>2
    <3> QED BY <3>1 DEF Masked
  <2> QED BY <2>1, <2>2
<1>5. CallbacksRespectMask'
  <2> SUFFICES ASSUME NEW t \in Threads, NEW i \in 1 .. Len(stack'[t]) - 1
               PROVE  stack'[t][i].ee
    BY DEF CallbacksRespectMask
  <2>1. i \in 1 .. Len(stack[t]) - 1 /\ stack'[t][i] = stack[t][i]
    BY <1>1, <1>2
  <2> QED BY <2>1 DEF Masked, CallbacksRespectMask
<1>6. (latch /\ ~InCode /\ Top.todo[1] \in Served => Top.ee)'
  BY <1>3 DEF InCode
<1> QED BY <1>4, <1>5, <1>6 DEF Masked

\* The registers are there unless the restoration is next.
LEMMA RegistersThere ==
  ASSUME LoopTypeOK, Saved, InCode \/ Top.todo[1] # "restore"
  PROVE  intact[cur] = TRUE
BY TopFrame DEF LoopTypeOK, Saved, InCode, Top, Depth

LEMMA TopBehind ==
  ASSUME LoopTypeOK, Masked
  PROVE  Behind(Top.todo)
BY TopFrame DEF Masked, Top, Depth

\* The rest of a checkpoint keeps its order, and may follow another step unless a device
\* is next.
LEMMA RestBehind ==
  ASSUME NEW s \in Seq(Steps), s # <<>>, Behind(s)
  PROVE  /\ Tail(s) \in Seq(Steps) /\ Behind(Tail(s))
         /\ Tail(s) # <<>> /\ Tail(s)[1] \in Served => s[1] \in Served \cup {"mirror"}
         /\ \A step \in Steps : s[1] \notin Served \cup {"mirror"} =>
              <<step>> \o Tail(s) \in Seq(Steps) /\ Behind(<<step>> \o Tail(s))
<1> DEFINE r == Tail(s)
<1>1. r \in Seq(Steps) /\ Len(r) = Len(s) - 1 /\ Len(s) \in Nat /\ Len(s) >= 1
  OBVIOUS
<1>2. \A k \in 1 .. Len(r) : r[k] = s[k + 1]
  OBVIOUS
<1>3. Behind(r)
  BY <1>1, <1>2 DEF Behind
<1>4. r # <<>> /\ r[1] \in Served => s[1] \in Served \cup {"mirror"}
  BY <1>1, <1>2 DEF Behind
<1>5. ASSUME NEW step \in Steps, s[1] \notin Served \cup {"mirror"}
      PROVE  <<step>> \o r \in Seq(Steps) /\ Behind(<<step>> \o r)
  <2> DEFINE q == <<step>> \o r
  <2>1. q \in Seq(Steps) /\ Len(q) = Len(s)
    BY <1>1
  <2>2. \A k \in 2 .. Len(q) : q[k] = s[k]
    <3> TAKE k \in 2 .. Len(q)
    <3>1. q[k] = r[k - 1] /\ k - 1 \in 1 .. Len(r)
      BY <1>1, <2>1
    <3> QED BY <3>1, <1>2
  <2>3. ASSUME NEW k \in 2 .. Len(q), q[k] \in Served
        PROVE  q[k - 1] \in Served \cup {"mirror"}
    <3>1. s[k - 1] \in Served \cup {"mirror"}
      BY <2>1, <2>2, <2>3 DEF Behind
    <3>2. k # 2
      BY <3>1, <1>5
    <3> QED BY <3>1, <3>2, <2>2, <2>1, <1>1
  <2> QED BY <2>1, <2>3 DEF Behind
<1> QED BY <1>1, <1>3, <1>4, <1>5

\* Lists that do not begin with a device keep their order when put one behind the other.
LEMMA ConcatBehind ==
  ASSUME NEW s \in Seq(Steps), NEW t \in Seq(Steps), Behind(s), Behind(t),
         s # <<>> => s[1] \notin Served, t # <<>> => t[1] \notin Served
  PROVE  /\ s \o t \in Seq(Steps) /\ Behind(s \o t)
         /\ s \o t # <<>> => (s \o t)[1] \notin Served
<1> DEFINE q == s \o t
<1>1. q \in Seq(Steps) /\ Len(q) = Len(s) + Len(t) /\ Len(s) \in Nat /\ Len(t) \in Nat
  OBVIOUS
<1>2. \A k \in 1 .. Len(s) : q[k] = s[k]
  OBVIOUS
<1>3. \A k \in Len(s) + 1 .. Len(q) : q[k] = t[k - Len(s)]
  BY <1>1
<1>4. ASSUME NEW k \in 2 .. Len(q), q[k] \in Served
      PROVE  q[k - 1] \in Served \cup {"mirror"}
  <2>1. CASE k <= Len(s)
    BY <2>1, <1>1, <1>2, <1>4 DEF Behind
  <2>2. CASE k = Len(s) + 1
    <3>1. q[k] = t[1] /\ t # <<>>
      BY <2>2, <1>1, <1>3
    <3> QED BY <3>1, <1>4
  <2>3. CASE k > Len(s) + 1
    <3>1. q[k] = t[k - Len(s)] /\ q[k - 1] = t[k - Len(s) - 1] /\ k - Len(s) \in 2 .. Len(t)
      BY <2>3, <1>1, <1>3
    <3> QED BY <3>1, <1>4 DEF Behind
  <2> QED BY <2>1, <2>2, <2>3, <1>1
<1>5. q # <<>> => q[1] \notin Served
  <2>1. CASE s # <<>>
    BY <2>1, <1>1, <1>2
  <2>2. CASE s = <<>>
    BY <2>2, <1>1, <1>3
  <2> QED BY <2>1, <2>2
<1> QED BY <1>1, <1>4, <1>5 DEF Behind

\* What a backedge plans: a group of services, or two, each behind its mirror.
LEMMA PlanBehind ==
  /\ <<"finish">> \o Plan \in Seq(Steps) /\ Behind(<<"finish">> \o Plan)
  /\ <<"finish">> \o Plan # <<>> => (<<"finish">> \o Plan)[1] \notin Served
<1> DEFINE audio == IF Due("audio", AudioEvery) THEN <<"mirror", "audio", "resched">> ELSE <<>>
           async == IF Due("async", AsyncEvery)
                    THEN <<"mirror", "vi", "alarm", "ios", "resched">> ELSE <<>>
<1>1. audio \in Seq(Steps) /\ Behind(audio) /\ (audio # <<>> => audio[1] \notin Served)
  <2> DEFINE q == <<"mirror", "audio", "resched">>
  <2>1. Len(q) = 3 /\ q \in Seq(Steps) /\ q[1] = "mirror" /\ q[2] = "audio" /\ q[3] = "resched"
    BY DEF Steps, Devices
  <2>2. audio = q \/ audio = <<>>
    OBVIOUS
  <2>3. \A k \in 2 .. 3 : k = 2 \/ k = 3
    OBVIOUS
  <2> HIDE DEF q, audio
  <2>4. Behind(q) /\ q[1] \notin Served
    BY <2>1, <2>3 DEF Behind, Served, Devices
  <2>5. Behind(<<>>) /\ <<>> \in Seq(Steps)
    BY DEF Behind
  <2> QED BY <2>1, <2>2, <2>4, <2>5
<1>2. async \in Seq(Steps) /\ Behind(async) /\ (async # <<>> => async[1] \notin Served)
  <2> DEFINE q == <<"mirror", "vi", "alarm", "ios", "resched">>
  <2>1. Len(q) = 5 /\ q \in Seq(Steps) /\ q[1] = "mirror" /\ q[2] = "vi" /\ q[3] = "alarm"
        /\ q[4] = "ios" /\ q[5] = "resched"
    BY DEF Steps, Devices
  <2>2. async = q \/ async = <<>>
    OBVIOUS
  <2>3. \A k \in 2 .. 5 : k = 2 \/ k = 3 \/ k = 4 \/ k = 5
    OBVIOUS
  <2> HIDE DEF q, async
  <2>4. Behind(q) /\ q[1] \notin Served
    BY <2>1, <2>3 DEF Behind, Served, Devices
  <2>5. Behind(<<>>) /\ <<>> \in Seq(Steps)
    BY DEF Behind
  <2> QED BY <2>1, <2>2, <2>4, <2>5
<1>3. Plan = audio \o async
  BY Zenon DEF Plan
<1> HIDE DEF audio, async
<1>4. Plan \in Seq(Steps) /\ Behind(Plan) /\ (Plan # <<>> => Plan[1] \notin Served)
  BY <1>1, <1>2, <1>3, ConcatBehind
<1>5. <<"finish">> \in Seq(Steps) /\ Behind(<<"finish">>) /\ <<"finish">>[1] \notin Served
  BY DEF Behind, Steps, Devices, Served
<1> QED BY <1>4, <1>5, ConcatBehind

-----------------------------------------------------------------------------
(* The steps of guest code.                                                *)

LEMMA MaskStep ==
  ASSUME LoopInv, NEW ee \in BOOLEAN, Mask(ee)
  PROVE  LoopInv'
<1> DEFINE f == [Top EXCEPT !.open = ee, !.ee = ee]
<1>1. SetTop(f) /\ InCode /\ UNCHANGED <<native, cur, intact, latch, ready, resched, raised, serial, late>>
  BY DEF Mask
<1>2. f \in Frames /\ f.todo = Top.todo
  BY TopFrame DEF LoopInv, Frames
<1>3. intact[cur] = TRUE
  BY <1>1, RegistersThere DEF LoopInv
<1>4. stack' \in [Threads -> Seq(Frames)] /\ (\A t \in Threads : Len(stack'[t]) \in 1 .. MaxDepth + 1)
      /\ Saved' /\ Away'
  BY <1>1, <1>2, <1>3, TopKeeps DEF LoopInv
<1>5. LoopTypeOK'
  BY <1>1, <1>4 DEF LoopInv, LoopTypeOK
<1>6. Masked => Masked'
  BY <1>1, <1>2, TopMasked, TopBehind DEF LoopInv, InCode
<1> QED BY <1>1, <1>4, <1>5, <1>6 DEF LoopInv

LEMMA NativePairStep ==
  ASSUME LoopInv, NativePair
  PROVE  LoopInv'
<1> DEFINE f == [Top EXCEPT !.ee = latch]
<1>1. SetTop(f) /\ InCode /\ UNCHANGED <<native, cur, intact, latch, ready, resched, raised, serial, late>>
      /\ "mask" \in native
  BY DEF NativePair
<1>2. f \in Frames
  BY TopFrame DEF LoopInv, Frames, LoopTypeOK
<1>3. intact[cur] = TRUE
  BY <1>1, RegistersThere DEF LoopInv
<1>4. stack' \in [Threads -> Seq(Frames)] /\ (\A t \in Threads : Len(stack'[t]) \in 1 .. MaxDepth + 1)
      /\ Saved' /\ Away'
  BY <1>1, <1>2, <1>3, TopKeeps DEF LoopInv
<1>5. LoopTypeOK'
  BY <1>1, <1>4 DEF LoopInv, LoopTypeOK
<1> QED BY <1>1, <1>4, <1>5 DEF LoopInv

\* A step that only gives the frame on top another list of what is left.
LEMMA TodoStep ==
  ASSUME LoopInv, NEW s \in Seq(Steps), Todo(s), UNCHANGED <<native, cur, intact>>, intact[cur],
         latch' \in BOOLEAN, ready' \in BOOLEAN, resched' \in BOOLEAN,
         raised' \subseteq Devices, serial' \in 0 .. AsyncEvery - 1,
         late' \subseteq {"audio", "async"},
         \/ native # {}
         \/ Masked => Behind(s) /\ (latch' /\ s # <<>> /\ s[1] \in Served => Top.ee)
  PROVE  LoopInv'
<1> DEFINE f == [Top EXCEPT !.todo = s]
<1>1. SetTop(f)
  BY DEF Todo
<1>2. f \in Frames /\ f.todo = s /\ f.ee = Top.ee
  BY TopFrame DEF LoopInv, Frames
<1>3. stack' \in [Threads -> Seq(Frames)] /\ (\A t \in Threads : Len(stack'[t]) \in 1 .. MaxDepth + 1)
      /\ Saved' /\ Away'
  BY <1>1, <1>2, TopKeeps DEF LoopInv
<1>4. LoopTypeOK'
  BY <1>3 DEF LoopInv, LoopTypeOK
<1>5. native = {} => Masked'
  BY <1>1, <1>2, TopMasked DEF LoopInv
<1> QED BY <1>3, <1>4, <1>5 DEF LoopInv

LEMMA BackedgeStep ==
  ASSUME LoopAssumption, LoopInv, Backedge
  PROVE  LoopInv'
<1> DEFINE s == <<"finish">> \o Plan
<1>1. InCode /\ Todo(s) /\ UNCHANGED <<native, cur, intact, latch, ready, resched, raised>>
  BY DEF Backedge
<1>2. serial' \in 0 .. AsyncEvery - 1 /\ late' \subseteq {"audio", "async"}
  BY DEF Backedge, Counted, LoopAssumption, LoopInv, LoopTypeOK
<1>3. intact[cur] = TRUE
  BY <1>1, RegistersThere DEF LoopInv
<1>4. /\ latch' \in BOOLEAN /\ ready' \in BOOLEAN /\ resched' \in BOOLEAN /\ raised' \subseteq Devices
  BY <1>1 DEF LoopInv, LoopTypeOK
<1>5. s \in Seq(Steps) /\ Behind(s) /\ ~(s # <<>> /\ s[1] \in Served)
  BY PlanBehind
<1> HIDE DEF s
<1> QED BY <1>1, <1>2, <1>3, <1>4, <1>5, TodoStep

LEMMA NativeWaitStep ==
  ASSUME LoopInv, NativeWait
  PROVE  LoopInv'
<1>1. "wait" \in native /\ InCode /\ Todo(<<"vi", "alarm", "audio">>)
      /\ UNCHANGED <<native, cur, intact, latch, ready, resched, raised, serial, late>>
  BY DEF NativeWait
<1>2. intact[cur] = TRUE
  BY <1>1, RegistersThere DEF LoopInv
<1>3. <<"vi", "alarm", "audio">> \in Seq(Steps)
  BY DEF Steps, Devices
<1>4. /\ latch' \in BOOLEAN /\ ready' \in BOOLEAN /\ resched' \in BOOLEAN /\ raised' \subseteq Devices
      /\ serial' \in 0 .. AsyncEvery - 1 /\ late' \subseteq {"audio", "async"}
  BY <1>1 DEF LoopInv, LoopTypeOK
<1> QED BY <1>1, <1>2, <1>3, <1>4, TodoStep

\* The thread that goes on is where it was left: in its code or before the restoration.
LEMMA SleepStep ==
  ASSUME LoopInv, Sleep
  PROVE  LoopInv'
<1>1. cur = "urgent" /\ InCode /\ Depth = 1 /\ cur' = "hot" /\ ready' = FALSE
      /\ latch' = stack["hot"][1].ee /\ UNCHANGED <<native, stack, intact, resched, raised, serial, late>>
  BY DEF Sleep
<1>2. Len(stack["hot"]) = 1 /\ stack["hot"] \in Seq(Frames)
      /\ (stack["hot"][1].todo # <<>> => stack["hot"][1].todo[1] = "restore")
  BY <1>1 DEF LoopInv, Away, LoopTypeOK, Threads
<1>3. LoopTypeOK'
  <2>1. stack["hot"][1] \in Frames
    BY <1>2
  <2> QED BY <1>1, <2>1 DEF LoopInv, LoopTypeOK, Threads, Frames
<1>4. Saved'
  BY <1>1 DEF LoopInv, Saved
<1>5. Away'
  BY <1>1 DEF LoopInv, Away, InCode, Top, Depth, Threads
<1>6. Masked => Masked'
  <2>1. Top' = stack["hot"][1]
    BY <1>1, <1>2 DEF Top, Depth
  <2>2. "restore" \notin Served
    BY DEF Served, Devices
  <2>3. (latch /\ ~InCode /\ Top.todo[1] \in Served => Top.ee)'
    BY <1>1, <2>1
  <2> QED BY <1>1, <2>3 DEF Masked, CallbacksRespectMask
<1> QED BY <1>1, <1>3, <1>4, <1>5, <1>6 DEF LoopInv

LEMMA OutsideStep ==
  ASSUME LoopInv, (\E d \in Devices : Raise(d)) \/ Millisecond \/ UNCHANGED loopVars
  PROVE  LoopInv'
<1>1. UNCHANGED <<native, cur, stack, intact, latch, ready, resched, serial>>
      /\ raised' \subseteq Devices /\ late' \subseteq {"audio", "async"}
  BY DEF Raise, Millisecond, loopVars, LoopInv, LoopTypeOK
<1>2. LoopTypeOK' /\ Saved' /\ Away'
  BY <1>1 DEF LoopInv, LoopTypeOK, Saved, Away
<1>3. Masked => Masked'
  BY <1>1 DEF Masked, CallbacksRespectMask, InCode, Top, Depth
<1> QED BY <1>1, <1>2, <1>3 DEF LoopInv

-----------------------------------------------------------------------------
(* The steps of the checkpoint.                                            *)

\* The step a checkpoint is at, and what it has left.
LEMMA AtStep ==
  ASSUME LoopInv, NEW step \in Steps, Does(step)
  PROVE  /\ Top.todo # <<>> /\ Top.todo[1] = step /\ ~InCode
         /\ Rest \in Seq(Steps)
         /\ Masked => /\ Behind(Rest)
                      /\ Rest # <<>> /\ Rest[1] \in Served => step \in Served \cup {"mirror"}
                      /\ step \notin Served \cup {"mirror"} =>
                           /\ <<"resched">> \o Rest \in Seq(Steps) /\ Behind(<<"resched">> \o Rest)
                           /\ <<"restore">> \o Rest \in Seq(Steps) /\ Behind(<<"restore">> \o Rest)
<1>1. Top.todo \in Seq(Steps)
  BY TopFrame DEF LoopInv
<1>2. Top.todo # <<>> /\ Top.todo[1] = step /\ ~InCode
  BY <1>1 DEF Does, InCode
<1>3. Masked => Behind(Top.todo)
  BY TopBehind DEF LoopInv
<1>4. {"resched", "restore"} \subseteq Steps
  BY DEF Steps
<1> QED BY <1>1, <1>2, <1>3, <1>4, RestBehind DEF Rest

LEMMA MirrorStep ==
  ASSUME LoopInv, Mirror
  PROVE  LoopInv'
<1>1. Does("mirror") /\ Todo(Rest) /\ latch' = Top.ee
      /\ UNCHANGED <<native, cur, intact, ready, resched, raised, serial, late>>
  BY DEF Mirror, MirrorLatch
<1>2. "mirror" \in Steps /\ "mirror" # "restore"
  BY DEF Steps
<1>3. intact[cur] = TRUE
  BY <1>1, <1>2, AtStep, RegistersThere DEF LoopInv
<1>4. latch' \in BOOLEAN
  BY <1>1, TopFrame DEF LoopInv
<1>5. /\ ready' \in BOOLEAN /\ resched' \in BOOLEAN /\ raised' \subseteq Devices
      /\ serial' \in 0 .. AsyncEvery - 1 /\ late' \subseteq {"audio", "async"}
  BY <1>1 DEF LoopInv, LoopTypeOK
<1> QED BY <1>1, <1>2, <1>3, <1>4, <1>5, AtStep, TodoStep DEF LoopInv

LEMMA FinishStep ==
  ASSUME LoopInv, Finish
  PROVE  LoopInv'
<1>1. Does("finish") /\ UNCHANGED <<native, cur, intact, serial, late>>
  BY DEF Finish
<1>2. "finish" \in Steps /\ "finish" # "restore" /\ "finish" \notin Served \cup {"mirror"}
  BY DEF Steps, Devices, Served
<1>3. intact[cur] = TRUE
  BY <1>1, <1>2, AtStep, RegistersThere DEF LoopInv
<1>4. /\ latch' \in BOOLEAN /\ ready' \in BOOLEAN /\ resched' \in BOOLEAN /\ raised' \subseteq Devices
      /\ serial' \in 0 .. AsyncEvery - 1 /\ late' \subseteq {"audio", "async"}
  BY DEF Finish, Wakes, LoopInv, LoopTypeOK
<1>5. CASE Top.ee /\ "finish" \in raised
  <2> DEFINE s == <<"resched">> \o Rest
  <2>1. Todo(s)
    BY <1>5 DEF Finish
  <2>2. s \in Seq(Steps) /\ (Masked => Behind(s))
    <3>1. Rest \in Seq(Steps) /\ <<"resched">> \in Seq(Steps)
      BY <1>1, <1>2, AtStep DEF Steps
    <3> QED BY <3>1, <1>1, <1>2, AtStep
  <2>3. Top.ee
    BY <1>5
  <2> HIDE DEF s
  <2> QED BY <1>1, <1>3, <1>4, <2>1, <2>2, <2>3, TodoStep DEF LoopInv
<1>6. CASE ~(Top.ee /\ "finish" \in raised)
  <2>1. Todo(Rest)
    BY <1>6 DEF Finish
  <2> QED BY <1>1, <1>2, <1>3, <1>4, <2>1, AtStep, TodoStep DEF LoopInv
<1> QED BY <1>5, <1>6

\* A device that is passed over leaves the next one as it was; a callback is only made
\* on top of a frame whose code has interrupts open.
LEMMA ServeStep ==
  ASSUME LoopAssumption, LoopInv, NEW d \in Served, Serve(d)
  PROVE  LoopInv'
<1>1. Does(d) /\ UNCHANGED <<native, cur, latch, ready, resched, serial, late>>
  BY DEF Serve
<1>2. d \in Steps /\ d # "restore" /\ d \in Devices
  BY DEF Steps, Devices, Served
<1>3. intact[cur] = TRUE
  BY <1>1, <1>2, AtStep, RegistersThere DEF LoopInv
<1>4. /\ latch' \in BOOLEAN /\ ready' \in BOOLEAN /\ resched' \in BOOLEAN /\ raised' \subseteq Devices
      /\ serial' \in 0 .. AsyncEvery - 1 /\ late' \subseteq {"audio", "async"} /\ intact' = intact
  BY DEF Serve, CallCopiesRegisters, LoopInv, LoopTypeOK
<1>5. Masked => (latch => Top.ee)
  BY <1>1, <1>2, AtStep DEF Masked
<1>6. CASE ~(latch /\ d \in raised /\ Depth <= MaxDepth /\ (d = "vi" => ~Advancing))
  <2>1. Todo(Rest)
    BY <1>6 DEF Serve
  <2> QED BY <1>1, <1>2, <1>3, <1>4, <1>5, <2>1, AtStep, TodoStep DEF LoopInv
<1>7. CASE latch /\ d \in raised /\ Depth <= MaxDepth /\ (d = "vi" => ~Advancing)
  <2> DEFINE top == [Top EXCEPT !.todo = Rest]
             below == [stack[cur] EXCEPT ![Depth] = top]
             new == Append(below, Frame(d))
  <2>1. /\ cur \in Threads /\ stack[cur] \in Seq(Frames) /\ Depth = Len(stack[cur])
        /\ Depth \in Nat /\ Depth >= 1 /\ Top = stack[cur][Depth]
    BY TopFrame DEF LoopInv, Top, Depth
  <2>2. stack' = [stack EXCEPT ![cur] = new]
    BY <1>7, <2>1 DEF Serve
  <2>3. top \in Frames /\ top.todo = Rest /\ top.ee = Top.ee
    BY <1>1, <1>2, AtStep, TopFrame DEF LoopInv, Frames
  <2>4. Frame(d) \in Frames /\ Frame(d).todo = <<>>
    BY <1>2 DEF Frame, Frames
  <2>5. below \in Seq(Frames) /\ Len(below) = Depth /\ below[Depth] = top
        /\ \A i \in 1 .. Depth - 1 : below[i] = stack[cur][i]
    BY <2>1, <2>3
  <2> HIDE DEF below, top
  <2>6. /\ new \in Seq(Frames) /\ Len(new) = Depth + 1 /\ new[Depth + 1] = Frame(d)
        /\ new[Depth] = top /\ \A i \in 1 .. Depth - 1 : new[i] = stack[cur][i]
    BY <2>5, <2>4, <2>1
  <2> HIDE DEF new
  <2>7. /\ stack' \in [Threads -> Seq(Frames)] /\ stack'[cur] = new
        /\ \A t \in Threads \ {cur} : stack'[t] = stack[t]
    BY <2>1, <2>2, <2>6 DEF LoopInv, LoopTypeOK
  <2>8. \A t \in Threads : Len(stack'[t]) \in 1 .. MaxDepth + 1
    <3>1. Len(stack'[cur]) \in 1 .. MaxDepth + 1
      BY <1>7, <2>1, <2>6, <2>7 DEF LoopAssumption
    <3>2. \A t \in Threads \ {cur} : Len(stack'[t]) \in 1 .. MaxDepth + 1
      BY <2>7 DEF LoopInv, LoopTypeOK
    <3> QED BY <3>1, <3>2
  <2>9. LoopTypeOK'
    BY <1>1, <1>4, <2>7, <2>8 DEF LoopInv, LoopTypeOK
  <2>10. Saved' /\ Away'
    BY <1>1, <1>3, <1>4, <2>7 DEF LoopInv, Saved, Away
  <2>11. ASSUME Masked PROVE Masked'
    <3>1. Top' = Frame(d)
      BY <1>1, <2>6, <2>7 DEF Top, Depth
    <3>2. InCode'
      BY <3>1, <2>4 DEF InCode
    <3>3. Behind(top.todo) /\ Behind(Frame(d).todo)
      BY <2>3, <2>4, <2>11, <1>1, <1>2, AtStep DEF Behind
    <3>4. \A t \in Threads : \A i \in 1 .. Len(stack'[t]) : Behind(stack'[t][i].todo)
      <4> SUFFICES ASSUME NEW t \in Threads, NEW i \in 1 .. Len(stack'[t])
                   PROVE  Behind(stack'[t][i].todo)
        OBVIOUS
      <4>1. CASE t # cur
        BY <4>1, <2>7, <2>11 DEF Masked
      <4>2. CASE t = cur /\ i < Depth
        BY <4>2, <2>1, <2>6, <2>7, <2>11 DEF Masked
      <4>3. CASE t = cur /\ i >= Depth
        BY SMTT(30), <4>3, <2>1, <2>6, <2>7, <3>3
      <4> QED BY <4>1, <4>2, <4>3, <2>1
    <3>5. top.ee
      BY <1>5, <1>7, <2>3, <2>11
    <3>6. CallbacksRespectMask'
      <4> SUFFICES ASSUME NEW t \in Threads, NEW i \in 1 .. Len(stack'[t]) - 1
                   PROVE  stack'[t][i].ee
        BY DEF CallbacksRespectMask
      <4>1. CASE t # cur
        BY <4>1, <2>7, <2>11 DEF Masked, CallbacksRespectMask
      <4>2. CASE t = cur /\ i < Depth
        <5>1. i \in 1 .. Len(stack[cur]) - 1 /\ stack'[t][i] = stack[cur][i]
          BY <4>2, <2>1, <2>6, <2>7
        <5> QED BY <5>1, <2>1, <2>11 DEF Masked, CallbacksRespectMask
      <4>3. CASE t = cur /\ i = Depth
        BY <4>3, <2>6, <2>7, <3>5
      <4> QED BY <4>1, <4>2, <4>3, <2>1, <2>6, <2>7
    <3> QED BY <3>2, <3>4, <3>6 DEF Masked
  <2> QED BY <1>1, <2>9, <2>10, <2>11 DEF LoopInv
<1> QED BY <1>6, <1>7

\* The frame a callback returns to has interrupts open, whatever the latch says by now.
LEMMA ReturnStep ==
  ASSUME LoopAssumption, LoopInv, Return
  PROVE  LoopInv'
<1> DEFINE new == SubSeq(stack[cur], 1, Depth - 1)
<1>1. Depth > 1 /\ InCode /\ stack' = [stack EXCEPT ![cur] = new]
      /\ UNCHANGED <<native, cur, intact, latch, raised, serial, late>>
      /\ ready' \in BOOLEAN /\ resched' \in BOOLEAN
  BY DEF Return, Wakes, LoopInv, LoopTypeOK
<1>2. /\ cur \in Threads /\ stack[cur] \in Seq(Frames) /\ Depth = Len(stack[cur])
      /\ Depth \in Nat /\ Depth <= MaxDepth + 1
  BY TopFrame DEF LoopInv, Depth
<1>3. new \in Seq(Frames) /\ Len(new) = Depth - 1 /\ \A i \in 1 .. Depth - 1 : new[i] = stack[cur][i]
  BY <1>1, <1>2
<1>4. intact[cur] = TRUE
  BY <1>1, RegistersThere DEF LoopInv
<1> HIDE DEF new
<1>5. /\ stack' \in [Threads -> Seq(Frames)] /\ stack'[cur] = new
      /\ \A t \in Threads \ {cur} : stack'[t] = stack[t]
  BY <1>1, <1>2, <1>3 DEF LoopInv, LoopTypeOK
<1>6. \A t \in Threads : Len(stack'[t]) \in 1 .. MaxDepth + 1
  BY <1>1, <1>2, <1>3, <1>5 DEF LoopInv, LoopTypeOK, LoopAssumption
<1>7. LoopTypeOK'
  BY <1>1, <1>5, <1>6 DEF LoopInv, LoopTypeOK
<1>8. Saved' /\ Away'
  BY <1>1, <1>4, <1>5 DEF LoopInv, Saved, Away
<1>9. ASSUME Masked PROVE Masked'
  <2>1. \A t \in Threads : \A i \in 1 .. Len(stack'[t]) : i \in 1 .. Len(stack[t]) /\ stack'[t][i] = stack[t][i]
    BY <1>2, <1>3, <1>5
  <2>2. \A t \in Threads : \A i \in 1 .. Len(stack'[t]) - 1 : i \in 1 .. Len(stack[t]) - 1 /\ stack'[t][i] = stack[t][i]
    BY SMTT(30), <1>2, <1>3, <1>5
  <2>3. CallbacksRespectMask'
    BY <2>2, <1>9 DEF Masked, CallbacksRespectMask
  <2>4. Top' = stack[cur][Depth - 1]
    BY <1>1, <1>2, <1>3, <1>5 DEF Top, Depth
  <2>5. Top'.ee
    BY <2>4, <1>1, <1>2, <1>9 DEF Masked, CallbacksRespectMask
  <2>6. \A t \in Threads : \A i \in 1 .. Len(stack'[t]) : Behind(stack'[t][i].todo)
    BY <2>1, <1>9 DEF Masked
  <2> QED BY <2>3, <2>5, <2>6 DEF Masked
<1> QED BY <1>1, <1>7, <1>8, <1>9 DEF LoopInv

\* The registers of a thread are only lent to SelectThread from its outermost frame, with
\* their restoration next; and only from there does another thread get the processor.
LEMMA ReschedStep ==
  ASSUME LoopInv, Resched
  PROVE  LoopInv'
<1>1. Does("resched") /\ UNCHANGED <<native, ready, raised, serial, late>>
  BY DEF Resched
<1>2. "resched" \in Steps /\ "resched" # "restore" /\ "resched" \notin Served \cup {"mirror"}
      /\ "restore" \in Steps /\ "restore" \notin Served
  BY DEF Steps, Devices, Served
<1>3. intact[cur] = TRUE
  BY <1>1, <1>2, AtStep, RegistersThere DEF LoopInv
<1>4. CASE ~MaySwitch
  <2>1. Todo(Rest) /\ UNCHANGED <<cur, intact, latch, resched>>
    BY <1>4 DEF Resched
  <2>2. /\ latch' \in BOOLEAN /\ ready' \in BOOLEAN /\ resched' \in BOOLEAN /\ raised' \subseteq Devices
        /\ serial' \in 0 .. AsyncEvery - 1 /\ late' \subseteq {"audio", "async"}
    BY <1>1, <2>1 DEF LoopInv, LoopTypeOK
  <2> QED BY <1>1, <1>2, <1>3, <2>1, <2>2, AtStep, TodoStep DEF LoopInv
<1>5. CASE MaySwitch
  <2> DEFINE s == <<"restore">> \o Rest
             f == [Top EXCEPT !.todo = s]
  <2>1. /\ Depth = 1 /\ resched' = FALSE /\ intact' = [intact EXCEPT ![cur] = FALSE]
        /\ SetTop(f)
        /\ IF ready /\ cur = "hot"
           THEN cur' = "urgent" /\ latch' = stack["urgent"][1].ee
           ELSE UNCHANGED <<cur, latch>>
    BY <1>5 DEF Resched, MaySwitch, Todo
  <2>2. Rest \in Seq(Steps) /\ s \in Seq(Steps) /\ s # <<>> /\ s[1] = "restore"
        /\ (Masked => Behind(s))
    <3>1. Rest \in Seq(Steps) /\ <<"restore">> \in Seq(Steps)
      BY <1>1, <1>2, AtStep
    <3> QED BY <3>1, <1>1, <1>2, AtStep
  <2>3. f \in Frames /\ f.todo = s
    BY <2>2, TopFrame DEF LoopInv, Frames
  <2> HIDE DEF f, s
  <2>4. /\ stack' \in [Threads -> Seq(Frames)]
        /\ \A t \in Threads : Len(stack'[t]) = Len(stack[t])
        /\ \A t \in Threads \ {cur} : stack'[t] = stack[t]
        /\ stack'[cur][1] = f
    BY <2>1, <2>3, TopReplaced DEF LoopInv
  <2>5. cur \in Threads /\ Len(stack[cur]) = 1 /\ intact \in [Threads -> BOOLEAN]
    BY <2>1, TopFrame DEF LoopInv, Depth, LoopTypeOK
  <2>6. cur' \in Threads /\ latch' \in BOOLEAN
    <3>1. CASE ready /\ cur = "hot"
      <4>1. Len(stack["urgent"]) = 1 /\ stack["urgent"] \in Seq(Frames)
        BY <3>1 DEF LoopInv, Away, LoopTypeOK, Threads
      <4>2. stack["urgent"][1] \in Frames
        BY <4>1
      <4> QED BY <2>1, <3>1, <4>2 DEF Threads, Frames
    <3>2. CASE ~(ready /\ cur = "hot")
      BY <2>1, <3>2 DEF LoopInv, LoopTypeOK
    <3> QED BY <3>1, <3>2
  <2>7. LoopTypeOK'
    BY <1>1, <2>1, <2>4, <2>5, <2>6 DEF LoopInv, LoopTypeOK
  <2>8. Saved'
    BY ZenonT(60), <1>3, <2>1, <2>2, <2>3, <2>4, <2>5 DEF LoopInv, Saved
  <2>9. Away'
    BY <2>2, <2>3, <2>4, <2>5 DEF LoopInv, Away
  <2>10. ASSUME Masked PROVE Masked'
    <3>1. Top' = f \/ (cur' = "urgent" /\ cur # "urgent" /\ Top' = stack["urgent"][1])
      BY <2>1, <2>4, <2>5, <2>6 DEF Top, Depth, LoopInv, Away, Threads
    <3>2. (latch /\ ~InCode /\ Top.todo[1] \in Served => Top.ee)'
      <4>1. CASE Top' = f
        BY <4>1, <1>2, <2>2, <2>3
      <4>2. CASE cur' = "urgent" /\ cur # "urgent" /\ Top' = stack["urgent"][1]
        <5>1. stack["urgent"][1].todo # <<>> => stack["urgent"][1].todo[1] = "restore"
          BY <4>2 DEF LoopInv, Away, Threads
        <5> QED BY <4>2, <5>1, <1>2 DEF InCode
      <4> QED BY <3>1, <4>1, <4>2
    <3>3. \A t \in Threads : \A i \in 1 .. Len(stack'[t]) : Behind(stack'[t][i].todo)
      <4> SUFFICES ASSUME NEW t \in Threads, NEW i \in 1 .. Len(stack'[t])
                   PROVE  Behind(stack'[t][i].todo)
        OBVIOUS
      <4>1. CASE t = cur
        BY <4>1, <2>2, <2>3, <2>4, <2>5, <2>10
      <4>2. CASE t # cur
        BY <4>2, <2>4, <2>10 DEF Masked
      <4> QED BY <4>1, <4>2
    <3>4. CallbacksRespectMask'
      <4> SUFFICES ASSUME NEW t \in Threads, NEW i \in 1 .. Len(stack'[t]) - 1
                   PROVE  stack'[t][i].ee
        BY DEF CallbacksRespectMask
      <4>1. CallbacksRespectMask
        BY <2>10 DEF Masked
      <4>2. CASE t = cur
        <5>1. Len(stack'[t]) = 1
          BY <4>2, <2>4, <2>5
        <5> QED BY <5>1
      <4>3. CASE t # cur
        <5>1. stack'[t] = stack[t]
          BY <4>3, <2>4
        <5> QED BY <5>1, <4>1 DEF CallbacksRespectMask
      <4> QED BY <4>2, <4>3
    <3> QED BY <3>2, <3>3, <3>4 DEF Masked
  <2> QED BY <1>1, <2>7, <2>8, <2>9, <2>10 DEF LoopInv
<1> QED BY <1>4, <1>5

LEMMA RestoreStep ==
  ASSUME LoopInv, Restore
  PROVE  LoopInv'
<1> DEFINE f == [Top EXCEPT !.todo = Rest]
<1>1. Does("restore") /\ SetTop(f) /\ intact' = [intact EXCEPT ![cur] = TRUE] /\ latch' = Top.ee
      /\ UNCHANGED <<native, cur, ready, resched, raised, serial, late>>
  BY DEF Restore, RestoresAll, Todo
<1>2. "restore" \in Steps /\ "restore" \notin Served \cup {"mirror"}
  BY DEF Steps, Devices, Served
<1>3. Rest \in Seq(Steps) /\ (Masked => Behind(Rest) /\ ~(Rest # <<>> /\ Rest[1] \in Served))
  BY <1>1, <1>2, AtStep
<1>4. f \in Frames /\ f.todo = Rest /\ Top.ee \in BOOLEAN /\ cur \in Threads
  BY <1>3, TopFrame DEF LoopInv, Frames
<1>5. /\ stack' \in [Threads -> Seq(Frames)]
      /\ \A t \in Threads : Len(stack'[t]) = Len(stack[t])
      /\ \A t \in Threads \ {cur} : stack'[t] = stack[t]
  BY <1>1, <1>4, TopReplaced DEF LoopInv
<1>6. LoopTypeOK'
  BY <1>1, <1>4, <1>5 DEF LoopInv, LoopTypeOK
<1>7. Saved'
  BY <1>1, <1>4, <1>5 DEF LoopInv, Saved, LoopTypeOK
<1>8. Away'
  BY <1>1, <1>5 DEF LoopInv, Away
<1>9. Masked => Masked'
  BY <1>1, <1>3, <1>4, TopMasked DEF LoopInv
<1> QED BY <1>1, <1>6, <1>7, <1>8, <1>9 DEF LoopInv

-----------------------------------------------------------------------------
LEMMA InitHolds ==
  ASSUME LoopAssumption, LoopInit
  PROVE  LoopInv
<1>1. Frame("thread") \in Frames /\ Frame("thread").todo = <<>>
  BY DEF Frame, Frames
<1>2. <<Frame("thread")>> \in Seq(Frames) /\ Len(<<Frame("thread")>>) = 1
      /\ <<Frame("thread")>>[1] = Frame("thread")
  BY <1>1
<1>3. \A t \in Threads : stack[t] = <<Frame("thread")>>
  BY DEF LoopInit
<1>4. LoopTypeOK
  <2>1. AsyncEvery \in Nat /\ AsyncEvery >= 1 /\ MaxDepth \in Nat
    BY DEF LoopAssumption
  <2>2. stack \in [Threads -> Seq(Frames)] /\ \A t \in Threads : Len(stack[t]) \in 1 .. MaxDepth + 1
    BY <1>2, <1>3, <2>1 DEF LoopInit
  <2>3. 0 \in 0 .. AsyncEvery - 1
    BY <2>1
  <2> QED BY <2>2, <2>3 DEF LoopInit, LoopTypeOK, Threads
<1>5. Saved /\ Away
  BY <1>1, <1>2, <1>3 DEF LoopInit, Saved, Away
<1>6. Masked
  <2>1. Behind(<<>>)
    BY DEF Behind
  <2>2. Top.todo = <<>>
    BY <1>1, <1>2, <1>3 DEF LoopInit, Top, Depth, Threads
  <2>3. \A t \in Threads : \A i \in 1 .. Len(stack[t]) : Behind(stack[t][i].todo)
    BY <1>1, <1>2, <1>3, <2>1
  <2>4. CallbacksRespectMask
    <3>1. \A t \in Threads : Len(stack[t]) = 1
      BY <1>2, <1>3
    <3>2. ~\E i \in 1 .. 1 - 1 : TRUE
      OBVIOUS
    <3> QED BY <3>1, <3>2 DEF CallbacksRespectMask
  <2> QED BY <2>2, <2>3, <2>4 DEF Masked, InCode
<1> QED BY <1>4, <1>5, <1>6 DEF LoopInv

LEMMA NextKeeps ==
  ASSUME LoopAssumption, LoopInv, [LoopNext]_loopVars
  PROVE  LoopInv'
<1>1. CASE Checkpoint
  <2>1. \A d \in Devices \ {"finish"} : Serve(d) => LoopInv'
    BY ServeStep DEF Served
  <2> QED BY <1>1, <2>1, MirrorStep, FinishStep, ReschedStep, RestoreStep DEF Checkpoint
<1>2. CASE Return \/ Backedge \/ NativeWait \/ NativePair \/ Sleep
  BY <1>2, ReturnStep, BackedgeStep, NativeWaitStep, NativePairStep, SleepStep
<1>3. CASE \E ee \in BOOLEAN : Mask(ee)
  BY <1>3, MaskStep
<1>4. CASE Millisecond \/ (\E d \in Raising : Raise(d)) \/ UNCHANGED loopVars
  BY <1>4, OutsideStep DEF LoopAssumption, Devices
<1> QED BY <1>1, <1>2, <1>3, <1>4 DEF LoopNext

LEMMA LoopInvariance ==
  ASSUME LoopAssumption
  PROVE  LoopSpec => []LoopInv
<1>1. LoopInit => LoopInv
  BY InitHolds
<1>2. LoopInv /\ [LoopNext]_loopVars => LoopInv'
  BY NextKeeps
<1> QED BY <1>1, <1>2, PTL DEF LoopSpec

\* Every variable of the loop checkpoint keeps its type; callbacks nest no deeper than
\* the checkpoint allows, and the counter of checkpoints stays below its period.
THEOREM TypesCorrect ==
  ASSUME LoopAssumption
  PROVE  LoopSpec => []LoopTypeOK
<1>1. LoopInv => LoopTypeOK
  BY DEF LoopInv
<1> QED BY <1>1, LoopInvariance, PTL

\* The code a checkpoint interrupts finds its registers as it left them, keeps the
\* processor while a callback is on its stack, and is not interrupted inside a critical
\* section, unless it makes native calls there that wait or that mask and restore.
THEOREM LoopsStaySafe ==
  ASSUME LoopAssumption
  PROVE  LoopSpec => []LoopsAreSafe
<1>1. LoopInv => LoopsAreSafe
  <2> SUFFICES ASSUME LoopInv PROVE LoopsAreSafe
    OBVIOUS
  <2>1. RegistersSurvive
    BY RegistersThere DEF LoopInv, RegistersSurvive
  <2>2. NoSwitchInCallback
    BY DEF LoopInv, Away, NoSwitchInCallback
  <2>3. native = {} => CallbacksRespectMask
    BY DEF LoopInv, Masked
  <2> QED BY <2>1, <2>2, <2>3 DEF LoopsAreSafe
<1> QED BY <1>1, LoopInvariance, PTL

-----------------------------------------------------------------------------
(* Readbacks.                                                              *)

\* A set of naturals that is not empty has a least element.
LEMMA LeastNatural ==
  ASSUME NEW T \in SUBSET Nat, T # {}
  PROVE  Min(T) \in T /\ \A n \in T : Min(T) <= n
<1>1. PICK m \in T : \A n \in T : ~(<<n, m>> \in OpToRel(<, Nat))
  BY NatLessThanWellFounded, WFMin
<1>2. \A n \in T : <<n, m>> \in OpToRel(<, Nat) <=> n < m
  BY DEF OpToRel
<1>3. m \in Nat /\ \A n \in T : n \in Nat /\ ~(n < m)
  BY <1>1, <1>2
<1>4. \A n \in T : m <= n
  BY <1>3
<1> QED BY <1>4 DEF Min

\* SetToSeq goes through a finite set.
LEMMA SetInSequence ==
  ASSUME NEW S, IsFiniteSet(S)
  PROVE  /\ Cardinality(S) \in Nat /\ SetToSeq(S) \in [1 .. Cardinality(S) -> S]
         /\ \A i, j \in 1 .. Cardinality(S) : SetToSeq(S)[i] = SetToSeq(S)[j] => i = j
         /\ \A e \in S : \E i \in 1 .. Cardinality(S) : SetToSeq(S)[i] = e
<1> DEFINE n == Cardinality(S)
           f == SetToSeq(S)
<1>1. n \in Nat /\ ExistsBijection(1 .. n, S)
  BY FS_CardinalityType
<1>2. \E g \in [1 .. n -> S] : IsInjective(g)
  BY <1>1 DEF ExistsBijection, Bijection, Injection
<1>3. f \in [1 .. n -> S] /\ IsInjective(f)
  BY <1>2 DEF SetToSeq
<1>4. Cardinality(1 .. n) = n
  BY <1>1, FS_Interval
<1> HIDE DEF n, f
<1>5. f \in Surjection(1 .. n, S)
  <2>1. f \in Injection(1 .. n, S)
    BY <1>3 DEF Injection
  <2>2. Cardinality(1 .. n) = Cardinality(S)
    BY <1>4 DEF n
  <2> QED BY <2>1, <2>2, FS_Injection
<1>6. DOMAIN f = 1 .. n
  BY <1>3
<1> QED BY <1>1, <1>3, <1>5, <1>6 DEF Surjection, IsInjective, n, f

Apart(q) == \A i, j \in 1 .. Len(q) : q[i].buffer = q[j].buffer => i = j
BuffersIn(q) == {q[i].buffer : i \in 1 .. Len(q)}
Right(q, h) == \A i \in 1 .. Len(q) : q[i].frame = h[q[i].buffer]
Rising(q, h) ==
  \A i, j \in 1 .. Len(q) :
    i < j /\ q[i].buffer \in DepthBuffers /\ q[j].buffer \in DepthBuffers
      => h[q[i].buffer] <= h[q[j].buffer]

LEMMA RecordAt ==
  ASSUME NEW q \in Seq(MapRecords), NEW i \in 1 .. Len(q)
  PROVE  q[i] \in MapRecords /\ q[i].buffer \in Buffers /\ q[i].frame \in Nat
<1>1. q[i] \in MapRecords
  OBVIOUS
<1> QED BY <1>1 DEF MapRecords

\* What MapsOf asks for.
LEMMA MapsOfAre ==
  ASSUME NEW S \in SUBSET Buffers, IsFiniteSet(S), holds \in [Buffers -> Nat]
  PROVE  /\ MapsOf(S) \in Seq(MapRecords) /\ BuffersIn(MapsOf(S)) = S
         /\ Apart(MapsOf(S)) /\ Right(MapsOf(S), holds)
<1> DEFINE n == Cardinality(S)
           f == SetToSeq(S)
           m == MapsOf(S)
<1>1. /\ n \in Nat /\ f \in [1 .. n -> S]
      /\ \A i, j \in 1 .. n : f[i] = f[j] => i = j
      /\ \A e \in S : \E i \in 1 .. n : f[i] = e
  BY SetInSequence
<1>2. m = [i \in 1 .. n |-> [buffer |-> f[i], frame |-> holds[f[i]]]]
  BY DEF MapsOf
<1> HIDE DEF n, f, m
<1>3. \A i \in 1 .. n : f[i] \in S /\ f[i] \in Buffers /\ holds[f[i]] \in Nat
  BY <1>1
<1>4. \A i \in 1 .. n : [buffer |-> f[i], frame |-> holds[f[i]]] \in MapRecords
  BY <1>3 DEF MapRecords
<1>5. m \in [1 .. n -> MapRecords]
  BY <1>2, <1>4
<1>6. m \in Seq(MapRecords) /\ Len(m) = n
  BY <1>1, <1>5
<1>7. \A i \in 1 .. n : m[i].buffer = f[i] /\ m[i].frame = holds[f[i]]
  BY <1>2
<1>8. BuffersIn(m) = S
  <2>1. ASSUME NEW i \in 1 .. Len(m) PROVE m[i].buffer \in S
    BY <1>3, <1>6, <1>7
  <2>2. ASSUME NEW e \in S PROVE \E i \in 1 .. Len(m) : m[i].buffer = e
    <3>1. PICK i \in 1 .. n : f[i] = e
      BY <1>1
    <3> QED BY <1>6, <1>7, <3>1
  <2> QED BY <2>1, <2>2 DEF BuffersIn
<1>9. Apart(m) /\ Right(m, holds)
  BY <1>1, <1>6, <1>7 DEF Apart, Right
<1> QED BY <1>6, <1>8, <1>9 DEF m

LEMMA MapsJoined ==
  ASSUME NEW q \in Seq(MapRecords), NEW r \in Seq(MapRecords), NEW h,
         Apart(q), Apart(r), Right(q, h), Right(r, h), BuffersIn(q) \cap BuffersIn(r) = {}
  PROVE  /\ q \o r \in Seq(MapRecords) /\ Apart(q \o r) /\ Right(q \o r, h)
         /\ BuffersIn(q \o r) = BuffersIn(q) \cup BuffersIn(r)
         /\ /\ Rising(q, h) /\ Rising(r, h)
            /\ \A b \in BuffersIn(q) \cap DepthBuffers, c \in BuffersIn(r) \cap DepthBuffers :
                 h[b] <= h[c]
            => Rising(q \o r, h)
<1> DEFINE s == q \o r
           n == Len(q)
<1>1. /\ s \in Seq(MapRecords) /\ Len(s) = n + Len(r) /\ n \in Nat /\ Len(r) \in Nat
      /\ \A i \in 1 .. n : s[i] = q[i]
      /\ \A i \in 1 .. Len(s) : i > n => s[i] = r[i - n]
  OBVIOUS
<1> HIDE DEF s, n
<1>2. \A i \in 1 .. Len(s) :
        \/ i \in 1 .. n /\ s[i] = q[i] /\ q[i].buffer \in BuffersIn(q)
        \/ i > n /\ i - n \in 1 .. Len(r) /\ s[i] = r[i - n] /\ r[i - n].buffer \in BuffersIn(r)
  <2>1. \A i \in 1 .. Len(s) :
        \/ i \in 1 .. n /\ s[i] = q[i]
        \/ i > n /\ i - n \in 1 .. Len(r) /\ s[i] = r[i - n]
    BY <1>1
  <2>2. /\ \A i \in 1 .. n : q[i].buffer \in BuffersIn(q)
        /\ \A i \in 1 .. Len(r) : r[i].buffer \in BuffersIn(r)
    BY DEF BuffersIn, n
  <2> QED BY <2>1, <2>2
<1>3. /\ \A i \in 1 .. n : i \in 1 .. Len(s)
      /\ \A i \in 1 .. Len(r) : i + n \in 1 .. Len(s) /\ s[i + n] = r[i]
  BY <1>1
<1>4. Apart(s)
  <2>1. SUFFICES ASSUME NEW i \in 1 .. Len(s), NEW j \in 1 .. Len(s), s[i].buffer = s[j].buffer
                 PROVE  i = j
    BY DEF Apart
  <2>2. CASE i \in 1 .. n /\ s[i] = q[i] /\ j \in 1 .. n /\ s[j] = q[j]
    BY <2>1, <2>2 DEF Apart, n
  <2>3. CASE i - n \in 1 .. Len(r) /\ s[i] = r[i - n] /\ j - n \in 1 .. Len(r) /\ s[j] = r[j - n]
    <3>1. i - n = j - n
      BY <2>1, <2>3 DEF Apart
    <3> QED BY <1>1, <3>1
  <2> QED BY <1>2, <2>1, <2>2, <2>3
<1>5. Right(s, h)
  BY <1>2 DEF Right, n
<1>6. BuffersIn(s) = BuffersIn(q) \cup BuffersIn(r)
  <2>1. BuffersIn(s) \subseteq BuffersIn(q) \cup BuffersIn(r)
    <3>1. SUFFICES ASSUME NEW i \in 1 .. Len(s)
                   PROVE  s[i].buffer \in BuffersIn(q) \cup BuffersIn(r)
      BY DEF BuffersIn
    <3> QED BY <1>2
  <2>2. BuffersIn(q) \subseteq BuffersIn(s)
    BY <1>1, <1>3 DEF BuffersIn, n
  <2>3. BuffersIn(r) \subseteq BuffersIn(s)
    BY <1>3 DEF BuffersIn
  <2> QED BY <2>1, <2>2, <2>3
<1>7. ASSUME Rising(q, h), Rising(r, h),
             \A b \in BuffersIn(q) \cap DepthBuffers, c \in BuffersIn(r) \cap DepthBuffers :
               h[b] <= h[c]
      PROVE  Rising(s, h)
  <2>1. SUFFICES ASSUME NEW i \in 1 .. Len(s), NEW j \in 1 .. Len(s), i < j,
                        s[i].buffer \in DepthBuffers, s[j].buffer \in DepthBuffers
                 PROVE  h[s[i].buffer] <= h[s[j].buffer]
    BY DEF Rising
  <2>2. CASE i \in 1 .. n /\ j \in 1 .. n
    <3>1. s[i] = q[i] /\ s[j] = q[j]
      BY <1>1, <2>2
    <3> QED BY <1>7, <2>1, <2>2, <3>1 DEF Rising, n
  <2>3. CASE i > n /\ j > n
    <3>1. /\ i - n \in 1 .. Len(r) /\ s[i] = r[i - n]
          /\ j - n \in 1 .. Len(r) /\ s[j] = r[j - n] /\ i - n < j - n
      BY <1>1, <1>2, <2>1, <2>3
    <3> HIDE DEF BuffersIn
    <3> QED BY <1>7, <2>1, <3>1 DEF Rising
  <2>4. CASE i \in 1 .. n /\ j > n
    <3>1. s[i].buffer \in BuffersIn(q) /\ s[j].buffer \in BuffersIn(r)
      BY <1>1, <1>2, <2>4
    <3> QED BY <1>7, <2>1, <3>1
  <2>5. i \in 1 .. n \/ i > n
    BY <1>1
  <2>6. j \in 1 .. n \/ j > n
    BY <1>1
  <2> QED BY <1>1, <2>1, <2>2, <2>3, <2>4, <2>5, <2>6
<1> QED BY <1>1, <1>4, <1>5, <1>6, <1>7 DEF s

LEMMA OneMapped ==
  ASSUME NEW m \in MapRecords
  PROVE  /\ <<m>> \in Seq(MapRecords) /\ Apart(<<m>>) /\ BuffersIn(<<m>>) = {m.buffer}
         /\ \A h : (Right(<<m>>, h) <=> m.frame = h[m.buffer]) /\ Rising(<<m>>, h)
<1>1. <<m>> \in Seq(MapRecords) /\ Len(<<m>>) = 1 /\ <<m>>[1] = m /\ 1 .. 1 = {1}
  OBVIOUS
<1> QED BY <1>1 DEF Apart, BuffersIn, Right, Rising

\* Without the first map.
LEMMA MapTaken ==
  ASSUME NEW q \in Seq(MapRecords), q # <<>>, Apart(q), NEW h
  PROVE  /\ Tail(q) \in Seq(MapRecords) /\ Apart(Tail(q))
         /\ Head(q).buffer \in BuffersIn(q) /\ Head(q).buffer \in Buffers
         /\ BuffersIn(Tail(q)) = BuffersIn(q) \ {Head(q).buffer}
         /\ Right(q, h) => Right(Tail(q), h)
         /\ Rising(q, h) =>
              /\ Rising(Tail(q), h)
              /\ \A b \in BuffersIn(Tail(q)) \cap DepthBuffers :
                   Head(q).buffer \in DepthBuffers => h[Head(q).buffer] <= h[b]
<1> DEFINE r == Tail(q)
<1>1. /\ r \in Seq(MapRecords) /\ Len(q) \in Nat /\ Len(q) > 0 /\ Len(r) = Len(q) - 1
      /\ Head(q) = q[1] /\ q[1] \in MapRecords /\ \A i \in 1 .. Len(r) : r[i] = q[i + 1]
  OBVIOUS
<1> HIDE DEF r
<1>2. /\ 1 \in 1 .. Len(q)
      /\ \A i \in 1 .. Len(r) : i + 1 \in 1 .. Len(q) /\ i + 1 # 1 /\ 1 < i + 1
      /\ \A i \in 1 .. Len(q) : i = 1 \/ (i - 1 \in 1 .. Len(r) /\ (i - 1) + 1 = i)
  BY <1>1
<1>3. q[1].buffer \in BuffersIn(q) /\ q[1].buffer \in Buffers
  BY <1>1, <1>2 DEF BuffersIn, MapRecords
<1>4. Apart(r)
  <2>1. SUFFICES ASSUME NEW i \in 1 .. Len(r), NEW j \in 1 .. Len(r), r[i].buffer = r[j].buffer
                 PROVE  i = j
    BY DEF Apart
  <2>2. i + 1 = j + 1
    BY <1>1, <1>2, <2>1 DEF Apart
  <2> QED BY <1>1, <2>2
<1>5. BuffersIn(r) \subseteq BuffersIn(q) \ {q[1].buffer}
  BY <1>1, <1>2 DEF BuffersIn, Apart
<1>6. BuffersIn(q) \ {q[1].buffer} \subseteq BuffersIn(r)
  <2>1. SUFFICES ASSUME NEW b \in BuffersIn(q), b # q[1].buffer PROVE b \in BuffersIn(r)
    OBVIOUS
  <2>2. PICK i \in 1 .. Len(q) : q[i].buffer = b
    BY DEF BuffersIn
  <2>3. i - 1 \in 1 .. Len(r) /\ r[i - 1] = q[i]
    BY <1>1, <1>2, <2>1, <2>2
  <2> QED BY <2>2, <2>3 DEF BuffersIn
<1>7. Right(q, h) => Right(r, h)
  BY <1>1, <1>2 DEF Right
<1>8. ASSUME Rising(q, h)
      PROVE  /\ Rising(r, h)
             /\ \A b \in BuffersIn(r) \cap DepthBuffers :
                   q[1].buffer \in DepthBuffers => h[q[1].buffer] <= h[b]
  <2>1. Rising(r, h)
    <3>1. SUFFICES ASSUME NEW i \in 1 .. Len(r), NEW j \in 1 .. Len(r), i < j,
                          r[i].buffer \in DepthBuffers, r[j].buffer \in DepthBuffers
                   PROVE  h[r[i].buffer] <= h[r[j].buffer]
      BY DEF Rising
    <3>2. i + 1 < j + 1 /\ i + 1 \in 1 .. Len(q) /\ j + 1 \in 1 .. Len(q)
          /\ r[i] = q[i + 1] /\ r[j] = q[j + 1]
      BY <1>1, <1>2, <3>1
    <3> QED BY <1>8, <3>1, <3>2, Zenon DEF Rising
  <2>2. ASSUME NEW b \in BuffersIn(r) \cap DepthBuffers, q[1].buffer \in DepthBuffers
        PROVE  h[q[1].buffer] <= h[b]
    <3>1. PICK i \in 1 .. Len(r) : r[i].buffer = b
      BY DEF BuffersIn
    <3>2. 1 < i + 1 /\ i + 1 \in 1 .. Len(q) /\ r[i] = q[i + 1] /\ 1 \in 1 .. Len(q)
      BY <1>1, <1>2
    <3> QED BY <1>8, <2>2, <3>1, <3>2, Zenon DEF Rising
  <2> QED BY <2>1, <2>2
<1> QED BY <1>1, <1>3, <1>4, <1>5, <1>6, <1>7, <1>8 DEF r

BufferState(b) == IF b \in Dests THEN slots[b] ELSE depthSlots[b]

\* The newest frame that may have been copied.
Newest == IF copier = "idle" THEN recording ELSE recording - 1

\* Between a copy and its map is the worker, with the copies of the frame it was given.
WorkInv ==
  /\ encoded # {} => copier = "rendered"
  /\ down => copier = "idle"
  /\ \A b \in Buffers :
       /\ BufferState(b) = "copied"
            => copier \in {"rendered", "submitted"} /\ holds[b] = recording - 1
       /\ copier = "rendered" => (BufferState(b) = "copied" <=> b \in encoded)

MapsInv ==
  /\ Apart(maps) /\ Right(maps, holds) /\ BuffersIn(maps) \cap encoded = {}
  /\ ~down => \A b \in Buffers : BufferState(b) = "mapping" <=> b \in BuffersIn(maps)

InFlight(f) == {d \in Dests : f[d] = "mapping"}
MapCountInv == ~down => mapsInFlight = Cardinality(InFlight(slots))

\* What was shown is not newer than what arrives, and that not than what is copied.
AgesInv ==
  /\ latest <= Newest /\ \A b \in Buffers : holds[b] <= Newest
  /\ ~down => /\ \A d \in Dests : shown[d] <= holds[d] /\ (slots[d] = "none" => shown[d] = 0)
              /\ \A s \in DepthBuffers : depthSlots[s] = "mapping" => latest <= holds[s]
              /\ Rising(maps, holds)

RbInv == ReadbackTypeOK /\ WorkInv /\ MapsInv /\ MapCountInv /\ AgesInv

LEMMA BuffersApart ==
  ASSUME ReadbackAssumption
  PROVE  /\ \A s \in DepthBuffers : s \notin Dests /\ s \in Buffers /\ s \in Nat
                                    /\ BufferState(s) = depthSlots[s]
         /\ \A d \in Dests : d \in Buffers /\ BufferState(d) = slots[d]
         /\ DepthSlots \in Nat /\ IsFiniteSet(DepthBuffers) /\ IsFiniteSet(Dests)
         /\ 1 \in DepthBuffers
<1>1. DepthSlots \in Nat /\ DepthSlots > 0 /\ IsFiniteSet(Dests) /\ Dests \cap DepthBuffers = {}
  BY DEF ReadbackAssumption
<1>2. IsFiniteSet(DepthBuffers) /\ 1 \in DepthBuffers /\ \A s \in DepthBuffers : s \in Nat
  BY <1>1, FS_Interval DEF DepthBuffers
<1> QED BY <1>1, <1>2 DEF Buffers, BufferState

LEMMA DestsCounted ==
  ASSUME ReadbackAssumption, NEW S, S \subseteq Dests
  PROVE  IsFiniteSet(S) /\ Cardinality(S) \in Nat
BY FS_Subset, FS_CardinalityType DEF ReadbackAssumption

\* The slot that is found is free.
LEMMA SlotFound ==
  ASSUME ReadbackAssumption, FreeDepth # {}
  PROVE  /\ FoundSlot \in DepthBuffers /\ depthSlots[FoundSlot] = "idle"
         /\ (FoundSlot % DepthSlots) + 1 \in DepthBuffers
<1>1. FreeDepth \subseteq Nat
  BY BuffersApart DEF FreeDepth
<1>2. FoundSlot \in FreeDepth
  <2>1. CASE {s \in FreeDepth : s >= nextSlot} = {}
    BY <1>1, <2>1, LeastNatural DEF FoundSlot
  <2>2. CASE {s \in FreeDepth : s >= nextSlot} # {}
    <3> DEFINE later == {s \in FreeDepth : s >= nextSlot}
    <3>1. later \in SUBSET Nat /\ later # {}
      BY <1>1, <2>2
    <3>2. Min(later) \in later
      BY <3>1, LeastNatural
    <3> QED BY <2>2, <3>2 DEF FoundSlot
  <2> QED BY <2>1, <2>2
<1>3. FoundSlot \in DepthBuffers /\ depthSlots[FoundSlot] = "idle"
  BY <1>2 DEF FreeDepth
<1>4. FoundSlot \in Nat /\ DepthSlots \in Nat /\ DepthSlots > 0
  BY <1>3, BuffersApart DEF ReadbackAssumption
<1>5. (FoundSlot % DepthSlots) + 1 \in 1 .. DepthSlots
  BY <1>4
<1> QED BY <1>3, <1>5 DEF DepthBuffers

LEMMA ReadbackBegins ==
  ASSUME ReadbackAssumption, ReadbackInit
  PROVE  RbInv
<1> USE DEF ReadbackInit
<1>1. <<>> \in Seq(MapRecords) /\ Len(<<>>) = 0 /\ 1 .. 0 = {}
  OBVIOUS
<1>2. KnownDests = {} /\ InFlight(slots) = {} /\ BuffersIn(maps) = {}
  BY <1>1 DEF KnownDests, InFlight, BuffersIn
<1>3. Cardinality({}) = 0
  BY FS_EmptySet
<1>4. ReadbackTypeOK
  <2>1. /\ slots \in [Dests -> SlotStates] /\ shown \in [Dests -> Nat]
        /\ depthSlots \in [DepthBuffers -> SlotStates \ {"none"}] /\ holds \in [Buffers -> Nat]
    BY DEF SlotStates
  <2>2. Cardinality(KnownDests) <= Cap /\ 1 \in 1 .. MaxCopied /\ 0 \in 0 .. MaxPeeks
        /\ 0 \in 0 .. MaxSplits
    BY <1>2, <1>3 DEF ReadbackAssumption
  <2> QED BY <1>1, <2>1, <2>2, BuffersApart DEF ReadbackTypeOK
<1>5. WorkInv
  BY BuffersApart DEF WorkInv, BufferState, Buffers
<1>6. MapsInv
  BY <1>1, <1>2 DEF MapsInv, Apart, Right, BufferState, Buffers
<1>7. MapCountInv
  BY <1>2, <1>3 DEF MapCountInv
<1>8. AgesInv
  BY <1>1 DEF AgesInv, Newest, Rising, Buffers
<1> QED BY <1>4, <1>5, <1>6, <1>7, <1>8 DEF RbInv

\* Where the buffers, what they hold and their maps stay, so does what is known of them.
LEMMA QuietReadback ==
  ASSUME RbInv, ReadbackAssumption, ReadbackTypeOK', Newest' = Newest, encoded' \subseteq encoded,
         UNCHANGED <<mapsInFlight, depthSlots, holds, maps, latest, down>>,
         \A d \in Dests :
           /\ slots'[d] = slots[d] \/ (slots[d] = "none" /\ slots'[d] = "idle")
           /\ ~down => shown'[d] = shown[d]
  PROVE  MapsInv' /\ MapCountInv' /\ AgesInv'
<1>1. \A b \in Buffers :
        (BufferState(b) = "mapping")' <=> BufferState(b) = "mapping"
  BY DEF BufferState, Buffers
<1>2. /\ Apart(maps)' = Apart(maps) /\ Right(maps, holds)' = Right(maps, holds)
      /\ BuffersIn(maps)' = BuffersIn(maps) /\ Rising(maps, holds)' = Rising(maps, holds)
  BY DEF Apart, Right, BuffersIn, Rising
<1>3. InFlight(slots)' = InFlight(slots)
  BY DEF InFlight
<1>4. MapsInv'
  BY <1>1, <1>2 DEF RbInv, MapsInv
<1>5. MapCountInv'
  BY <1>3 DEF RbInv, MapCountInv
<1>6. AgesInv'
  BY <1>2 DEF RbInv, AgesInv
<1> QED BY <1>4, <1>5, <1>6

\* A buffer that is free is copied to.
LEMMA CopyKeeps ==
  ASSUME RbInv, ReadbackAssumption, ReadbackTypeOK', NEW b \in Buffers, BufferState(b) = "idle",
         holds' = [holds EXCEPT ![b] = recording - 1], encoded' = encoded \cup {b},
         \A c \in Buffers : BufferState(c)' = IF c = b THEN "copied" ELSE BufferState(c),
         copier \in {"sealed", "rendered"}, copier' = "rendered",
         UNCHANGED <<recording, maps, mapsInFlight, shown, latest, down>>
  PROVE  RbInv'
<1>1. ~down /\ Newest = recording - 1 /\ Newest' = recording - 1 /\ recording \in Nat
  BY DEF RbInv, WorkInv, Newest, ReadbackTypeOK
<1>2. /\ holds'[b] = recording - 1
      /\ \A c \in Buffers \ {b} : holds'[c] = holds[c]
      /\ \A c \in Buffers : holds[c] \in Nat /\ holds[c] <= recording - 1
  BY <1>1 DEF RbInv, ReadbackTypeOK, AgesInv
<1>3. b \notin BuffersIn(maps)
  BY <1>1 DEF RbInv, MapsInv
<1>4. \A i \in 1 .. Len(maps) : maps[i].buffer \in Buffers \ {b}
  BY <1>3, RecordAt DEF RbInv, ReadbackTypeOK, BuffersIn
<1>5. WorkInv'
  <2>1. \A c \in Buffers : BufferState(c) = "copied" => c # b
    OBVIOUS
  <2>2. copier = "sealed" => encoded = {} /\ \A c \in Buffers : BufferState(c) # "copied"
    BY DEF RbInv, WorkInv
  <2> QED BY <1>1, <1>2, <2>1, <2>2 DEF RbInv, WorkInv
<1>6. MapsInv'
  <2>1. Apart(maps)' /\ BuffersIn(maps)' = BuffersIn(maps)
    BY DEF RbInv, MapsInv, Apart, BuffersIn
  <2>2. Right(maps, holds)'
    BY <1>2, <1>4 DEF RbInv, MapsInv, Right
  <2>3. \A c \in Buffers : BufferState(c)' = "mapping" <=> BufferState(c) = "mapping"
    OBVIOUS
  <2>4. BuffersIn(maps) \cap encoded' = {}
    BY <1>3 DEF RbInv, MapsInv
  <2> QED BY <1>1, <2>1, <2>2, <2>3, <2>4 DEF RbInv, MapsInv
<1>7. MapCountInv'
  <2>1. \A d \in Dests : slots'[d] = "mapping" <=> slots[d] = "mapping"
    BY DEF Buffers, BufferState
  <2>2. InFlight(slots)' = InFlight(slots)
    BY <2>1 DEF InFlight
  <2> QED BY <2>2 DEF RbInv, MapCountInv
<1>8. AgesInv'
  <2>1. \A c \in Buffers : holds'[c] <= recording - 1 /\ holds'[c] >= holds[c]
    BY <1>1, <1>2
  <2>2. \A d \in Dests : shown'[d] <= holds'[d] /\ (slots'[d] = "none" => shown'[d] = 0)
    <3>1. \A d \in Dests : shown[d] \in Nat /\ holds'[d] \in Nat /\ d \in Buffers
      BY <1>1, <1>2 DEF RbInv, ReadbackTypeOK, Buffers
    <3>2. \A d \in Dests : slots'[d] = "none" => slots[d] = "none"
      BY DEF Buffers, BufferState
    <3> QED BY <1>1, <1>2, <2>1, <3>1, <3>2 DEF RbInv, AgesInv
  <2>3. \A s \in DepthBuffers : depthSlots'[s] = "mapping" => latest' <= holds'[s]
    <3>1. \A s \in DepthBuffers : depthSlots'[s] = "mapping" => depthSlots[s] = "mapping" /\ s # b
      BY BuffersApart DEF BufferState
    <3> QED BY <1>1, <1>2, <3>1, BuffersApart DEF RbInv, AgesInv
  <2>4. Rising(maps, holds)'
    BY <1>1, <1>2, <1>4 DEF RbInv, AgesInv, Rising
  <2> QED BY <1>1, <2>1, <2>2, <2>3, <2>4 DEF RbInv, AgesInv
<1> QED BY <1>5, <1>6, <1>7, <1>8 DEF RbInv

\* What was copied is mapped, in the order of the frames.
LEMMA MapKeeps ==
  ASSUME RbInv, ReadbackAssumption, MapCopied, ~down,
         copier \in {"idle", "submitted"}, copier' = "idle",
         UNCHANGED <<holds, shown, latest, down, encoded, recording>>
  PROVE  /\ slots' \in [Dests -> SlotStates] /\ KnownDests' = KnownDests /\ mapsInFlight' \in Nat
         /\ depthSlots' \in [DepthBuffers -> SlotStates \ {"none"}] /\ maps' \in Seq(MapRecords)
         /\ WorkInv' /\ MapsInv' /\ MapCountInv' /\ AgesInv'
<1> DEFINE S == Copied(depthSlots)
           T == Copied(slots)
<1>1. /\ slots \in [Dests -> SlotStates] /\ depthSlots \in [DepthBuffers -> SlotStates \ {"none"}]
      /\ holds \in [Buffers -> Nat] /\ maps \in Seq(MapRecords) /\ recording \in Nat
      /\ latest \in Nat /\ mapsInFlight \in Nat /\ encoded = {}
  BY DEF RbInv, ReadbackTypeOK, WorkInv
<1>2. /\ S = {s \in DepthBuffers : depthSlots[s] = "copied"}
      /\ T = {d \in Dests : slots[d] = "copied"}
  BY <1>1 DEF Copied
<1>3. /\ slots' = [d \in Dests |-> IF slots[d] = "copied" THEN "mapping" ELSE slots[d]]
      /\ depthSlots' = [s \in DepthBuffers |->
                          IF depthSlots[s] = "copied" THEN "mapping" ELSE depthSlots[s]]
      /\ mapsInFlight' = mapsInFlight + Cardinality(T)
      /\ maps' = maps \o MapsOf(S) \o MapsOf(T)
  BY <1>1 DEF MapCopied, Asks
<1> HIDE DEF S, T
<1>4. /\ slots' \in [Dests -> SlotStates]
      /\ depthSlots' \in [DepthBuffers -> SlotStates \ {"none"}]
  BY <1>1, <1>3 DEF SlotStates
<1>5. KnownDests' = KnownDests
  BY <1>1, <1>3 DEF KnownDests
<1>6. /\ S \in SUBSET Buffers /\ IsFiniteSet(S) /\ T \in SUBSET Buffers /\ IsFiniteSet(T)
      /\ Cardinality(T) \in Nat
  <2>1. S \subseteq DepthBuffers /\ T \subseteq Dests
    BY <1>2
  <2>2. IsFiniteSet(S)
    BY <2>1, BuffersApart, FS_Subset
  <2> QED BY <2>1, <2>2, BuffersApart, DestsCounted DEF Buffers
<1>7. /\ MapsOf(S) \in Seq(MapRecords) /\ BuffersIn(MapsOf(S)) = S
      /\ Apart(MapsOf(S)) /\ Right(MapsOf(S), holds)
      /\ MapsOf(T) \in Seq(MapRecords) /\ BuffersIn(MapsOf(T)) = T
      /\ Apart(MapsOf(T)) /\ Right(MapsOf(T), holds)
  BY <1>1, <1>6, MapsOfAre
<1>8. /\ \A b \in S : BufferState(b) = "copied" /\ b \in DepthBuffers /\ b \in Buffers
      /\ \A b \in T : BufferState(b) = "copied" /\ b \in Dests /\ b \in Buffers
      /\ \A b \in BuffersIn(maps) : b \in Buffers => BufferState(b) = "mapping"
  BY <1>2, BuffersApart DEF RbInv, MapsInv
<1>9. BuffersIn(maps) \cap S = {} /\ BuffersIn(maps) \cap T = {} /\ S \cap T = {}
  BY <1>8, BuffersApart
<1>10. \A b \in S : holds[b] = recording - 1 /\ Newest = recording - 1
  BY <1>8 DEF RbInv, WorkInv, Newest
<1> DEFINE one == maps \o MapsOf(S)
<1>11. /\ one \in Seq(MapRecords) /\ Apart(one) /\ Right(one, holds)
       /\ BuffersIn(one) = BuffersIn(maps) \cup S /\ Rising(one, holds)
  <2>1. Rising(MapsOf(S), holds)
    <3>1. SUFFICES ASSUME NEW i \in 1 .. Len(MapsOf(S)), NEW j \in 1 .. Len(MapsOf(S))
                   PROVE  holds[MapsOf(S)[i].buffer] <= holds[MapsOf(S)[j].buffer]
      BY DEF Rising
    <3>2. MapsOf(S)[i].buffer \in S /\ MapsOf(S)[j].buffer \in S
      BY <1>7 DEF BuffersIn
    <3> QED BY <1>1, <1>10, <3>2
  <2>2. \A b \in BuffersIn(maps) \cap DepthBuffers, c \in S \cap DepthBuffers :
          holds[b] <= holds[c]
    BY <1>1, <1>10, BuffersApart DEF RbInv, AgesInv
  <2>3. Apart(maps) /\ Right(maps, holds) /\ Rising(maps, holds)
    BY DEF RbInv, MapsInv, AgesInv
  <2> QED BY <1>1, <1>7, <1>9, <2>1, <2>2, <2>3, MapsJoined
<1> HIDE DEF one
<1>12. /\ maps' \in Seq(MapRecords) /\ Apart(maps') /\ Right(maps', holds)
       /\ BuffersIn(maps') = BuffersIn(maps) \cup S \cup T /\ Rising(maps', holds)
  <2>1. Rising(MapsOf(T), holds)
    <3>1. \A i \in 1 .. Len(MapsOf(T)) : MapsOf(T)[i].buffer \in T
      BY <1>7 DEF BuffersIn
    <3> QED BY <1>8, <3>1, BuffersApart DEF Rising
  <2>2. T \cap DepthBuffers = {} /\ BuffersIn(one) \cap T = {}
    BY <1>8, <1>9, <1>11, BuffersApart
  <2>3. maps' = one \o MapsOf(T)
    BY <1>3 DEF one
  <2> QED BY <1>7, <1>11, <2>1, <2>2, <2>3, MapsJoined
<1>13. \A b \in Buffers :
         BufferState(b)' = IF BufferState(b) = "copied" THEN "mapping" ELSE BufferState(b)
  BY <1>3 DEF BufferState, Buffers
<1>14. WorkInv'
  BY <1>1, <1>13 DEF RbInv, WorkInv
<1>15. MapsInv'
  <2>1. Apart(maps)' /\ Right(maps, holds)' /\ BuffersIn(maps)' = BuffersIn(maps) \cup S \cup T
    BY <1>12 DEF Apart, Right, BuffersIn
  <2>2. \A b \in Buffers : BufferState(b) = "copied" <=> b \in S \/ b \in T
    BY <1>2, <1>8 DEF Buffers, BufferState
  <2>3. \A b \in Buffers : BufferState(b) = "mapping" <=> b \in BuffersIn(maps)
    BY DEF RbInv, MapsInv
  <2>4. \A b \in Buffers : BufferState(b)' = "mapping" <=> b \in BuffersIn(maps)'
    BY <1>13, <2>1, <2>2, <2>3
  <2> QED BY <1>1, <2>1, <2>4 DEF MapsInv
<1>16. MapCountInv' /\ mapsInFlight' \in Nat
  <2>1. InFlight(slots)' = InFlight(slots) \cup T /\ InFlight(slots) \cap T = {}
    BY <1>2, <1>3 DEF InFlight
  <2>2. IsFiniteSet(InFlight(slots)) /\ Cardinality(InFlight(slots)) \in Nat
    BY DestsCounted DEF InFlight
  <2>3. Cardinality(InFlight(slots)') = Cardinality(InFlight(slots)) + Cardinality(T)
    <3>1. Cardinality(InFlight(slots) \cup T)
            = Cardinality(InFlight(slots)) + Cardinality(T) - Cardinality(InFlight(slots) \cap T)
      BY <1>6, <2>2, FS_Union
    <3>2. Cardinality(InFlight(slots) \cap T) = 0
      BY <2>1, FS_EmptySet
    <3> QED BY <1>6, <2>1, <2>2, <3>1, <3>2
  <2> QED BY <1>1, <1>3, <1>6, <2>3 DEF RbInv, MapCountInv
<1>17. AgesInv'
  <2>1. Newest <= recording /\ Newest' = recording /\ Newest \in Int
    BY <1>1 DEF Newest
  <2>2. latest <= Newest' /\ \A b \in Buffers : holds[b] <= Newest'
    BY <1>1, <2>1 DEF RbInv, AgesInv
  <2>3. \A d \in Dests : slots'[d] = "none" => slots[d] = "none"
    BY <1>3
  <2>4. ASSUME NEW s \in DepthBuffers, depthSlots'[s] = "mapping"
        PROVE  latest <= holds[s]
    <3>1. depthSlots[s] = "mapping" \/ s \in S
      BY <1>2, <1>3, <2>4
    <3>2. CASE s \in S
      BY <1>10, <3>2 DEF RbInv, AgesInv
    <3> QED BY <2>4, <3>1, <3>2 DEF RbInv, AgesInv
  <2>5. Rising(maps, holds)'
    BY <1>12 DEF Rising
  <2> QED BY <2>2, <2>3, <2>4, <2>5 DEF RbInv, AgesInv
<1> QED BY <1>4, <1>5, <1>12, <1>14, <1>15, <1>16, <1>17

\* The producer copies and maps the depth of what it has recorded so far.
LEMMA SplitSnapshotKeeps ==
  ASSUME RbInv, ReadbackAssumption, copier = "idle", ~down, FreeDepth # {},
         holds' = [holds EXCEPT ![FoundSlot] = recording],
         depthSlots' = [depthSlots EXCEPT ![FoundSlot] = "mapping"],
         maps' = Append(maps, [buffer |-> FoundSlot, frame |-> recording]),
         UNCHANGED <<slots, mapsInFlight, shown, latest, encoded, copier, recording, down>>
  PROVE  /\ depthSlots' \in [DepthBuffers -> SlotStates \ {"none"}] /\ maps' \in Seq(MapRecords)
         /\ holds' \in [Buffers -> Nat]
         /\ WorkInv' /\ MapsInv' /\ MapCountInv' /\ AgesInv'
<1> DEFINE s == FoundSlot
           m == [buffer |-> s, frame |-> recording]
<1>1. /\ depthSlots \in [DepthBuffers -> SlotStates \ {"none"}]
      /\ holds \in [Buffers -> Nat] /\ maps \in Seq(MapRecords) /\ recording \in Nat
      /\ latest \in Nat /\ encoded = {}
  BY DEF RbInv, ReadbackTypeOK, WorkInv
<1>2. s \in DepthBuffers /\ s \in Buffers /\ s \notin Dests /\ BufferState(s) = "idle"
  BY SlotFound, BuffersApart
<1>3. m \in MapRecords /\ m.buffer = s /\ m.frame = recording
  BY <1>1, <1>2 DEF MapRecords
<1> HIDE DEF s
<1>4. /\ holds' \in [Buffers -> Nat] /\ holds'[s] = recording
      /\ \A b \in Buffers \ {s} : holds'[b] = holds[b]
      /\ \A b \in Buffers : holds[b] \in Nat /\ holds[b] <= recording
      /\ depthSlots' \in [DepthBuffers -> SlotStates \ {"none"}]
      /\ depthSlots' = [depthSlots EXCEPT ![s] = "mapping"]
  BY <1>1, <1>2 DEF RbInv, AgesInv, Newest, SlotStates, s
<1>5. \A b \in Buffers : BufferState(b)' = IF b = s THEN "mapping" ELSE BufferState(b)
  BY <1>1, <1>2, <1>4 DEF BufferState, Buffers
<1>6. s \notin BuffersIn(maps)
  BY <1>2 DEF RbInv, MapsInv
<1>7. \A i \in 1 .. Len(maps) : maps[i].buffer \in Buffers \ {s}
  BY <1>1, <1>6, RecordAt DEF BuffersIn
<1>8. maps' = maps \o <<m>>
  BY <1>1, <1>3 DEF s
<1> HIDE DEF m
<1>9. /\ maps' \in Seq(MapRecords) /\ Apart(maps') /\ Right(maps', holds')
      /\ BuffersIn(maps') = BuffersIn(maps) \cup {s} /\ Rising(maps', holds')
  <2>1. /\ <<m>> \in Seq(MapRecords) /\ Apart(<<m>>) /\ BuffersIn(<<m>>) = {s}
        /\ Right(<<m>>, holds') /\ Rising(<<m>>, holds')
    BY <1>3, <1>4, OneMapped
  <2>2. Apart(maps) /\ Right(maps, holds') /\ Rising(maps, holds')
    BY <1>4, <1>7 DEF RbInv, MapsInv, AgesInv, Right, Rising
  <2>3. \A b \in BuffersIn(maps) \cap DepthBuffers, c \in {s} \cap DepthBuffers :
          holds'[b] <= holds'[c]
    BY <1>4, <1>6, BuffersApart
  <2>4. BuffersIn(maps) \cap {s} = {}
    BY <1>6
  <2> QED BY <1>1, <1>8, <2>1, <2>2, <2>3, <2>4, MapsJoined
<1>10. WorkInv'
  BY <1>1, <1>5 DEF RbInv, WorkInv
<1>11. MapsInv'
  <2>1. Apart(maps)' /\ Right(maps, holds)' /\ BuffersIn(maps)' = BuffersIn(maps) \cup {s}
    BY <1>9 DEF Apart, Right, BuffersIn
  <2>2. \A b \in Buffers : BufferState(b) = "mapping" <=> b \in BuffersIn(maps)
    BY DEF RbInv, MapsInv
  <2>3. \A b \in Buffers : BufferState(b)' = "mapping" <=> b \in BuffersIn(maps)'
    BY <1>5, <2>1, <2>2
  <2> QED BY <1>1, <2>1, <2>3 DEF MapsInv
<1>12. MapCountInv'
  BY DEF RbInv, MapCountInv, InFlight
<1>13. AgesInv'
  <2>1. Newest' = recording /\ Newest = recording
    BY DEF Newest
  <2>2. latest <= recording /\ \A b \in Buffers : holds'[b] <= recording /\ holds'[b] >= holds[b]
    BY <1>1, <1>4, <2>1 DEF RbInv, AgesInv
  <2>3. \A d \in Dests : shown[d] <= holds'[d] /\ (slots[d] = "none" => shown[d] = 0)
    BY <1>2, <1>4, BuffersApart DEF RbInv, AgesInv
  <2>4. \A t \in DepthBuffers : depthSlots'[t] = "mapping" => latest <= holds'[t]
    BY <1>1, <1>2, <1>4, <2>2, BuffersApart DEF RbInv, AgesInv
  <2>5. Rising(maps, holds)'
    BY <1>9 DEF Rising
  <2> QED BY <2>1, <2>2, <2>3, <2>4, <2>5 DEF AgesInv
<1> QED BY <1>4, <1>9, <1>10, <1>11, <1>12, <1>13

\* A map completes: its buffer is free again.
LEMMA CompleteKeeps ==
  ASSUME RbInv, ReadbackAssumption, NEW ok \in BOOLEAN, CompleteMap(ok)
  PROVE  /\ slots' \in [Dests -> SlotStates] /\ KnownDests' = KnownDests /\ mapsInFlight' \in Nat
         /\ depthSlots' \in [DepthBuffers -> SlotStates \ {"none"}] /\ maps' \in Seq(MapRecords)
         /\ shown' \in [Dests -> Nat] /\ latest' \in Nat
         /\ WorkInv' /\ MapsInv' /\ MapCountInv' /\ AgesInv'
         /\ ~down => latest' >= latest /\ \A d \in Dests : shown'[d] >= shown[d]
<1>1. /\ slots \in [Dests -> SlotStates] /\ depthSlots \in [DepthBuffers -> SlotStates \ {"none"}]
      /\ holds \in [Buffers -> Nat] /\ maps \in Seq(MapRecords) /\ shown \in [Dests -> Nat]
      /\ latest \in Nat /\ mapsInFlight \in Nat /\ recording \in Nat
  BY DEF RbInv, ReadbackTypeOK
<1>2. /\ maps # <<>> /\ maps' = Tail(maps)
      /\ UNCHANGED <<holds, encoded, copier, recording, down>>
  BY DEF CompleteMap, copies
<1> PICK b : b = Head(maps).buffer
  OBVIOUS
<1>3. /\ \/ /\ b \in Dests
            /\ mapsInFlight' = mapsInFlight - (IF mapsInFlight > 0 THEN 1 ELSE 0)
            /\ IF b \in KnownDests
               THEN /\ slots' = [slots EXCEPT ![b] = "idle"]
                    /\ shown' = IF ok THEN [shown EXCEPT ![b] = holds[b]] ELSE shown
               ELSE UNCHANGED <<slots, shown>>
            /\ UNCHANGED <<depthSlots, latest>>
         \/ /\ b \in DepthBuffers /\ depthSlots' = [depthSlots EXCEPT ![b] = "idle"]
            /\ latest' = IF ok /\ ~down THEN holds[b] ELSE latest
            /\ UNCHANGED <<slots, mapsInFlight, shown>>
  BY DEF CompleteMap
<1>4. Apart(maps) /\ Right(maps, holds) /\ BuffersIn(maps) \cap encoded = {}
  BY DEF RbInv, MapsInv
<1>5. /\ Tail(maps) \in Seq(MapRecords) /\ Apart(Tail(maps)) /\ Right(Tail(maps), holds)
      /\ b \in BuffersIn(maps) /\ b \in Buffers
      /\ BuffersIn(Tail(maps)) = BuffersIn(maps) \ {b}
      /\ Rising(maps, holds) =>
           /\ Rising(Tail(maps), holds)
           /\ \A c \in BuffersIn(Tail(maps)) \cap DepthBuffers :
                b \in DepthBuffers => holds[b] <= holds[c]
  BY <1>1, <1>2, <1>4, MapTaken
<1>6. /\ slots' \in [Dests -> SlotStates] /\ shown' \in [Dests -> Nat] /\ latest' \in Nat
      /\ depthSlots' \in [DepthBuffers -> SlotStates \ {"none"}] /\ mapsInFlight' \in Nat
  <2>1. holds[b] \in Nat /\ "idle" \in SlotStates \ {"none"} /\ "idle" \in SlotStates
    BY <1>1, <1>5 DEF SlotStates
  <2>2. CASE b \in Dests
    <3>1. mapsInFlight' = mapsInFlight - (IF mapsInFlight > 0 THEN 1 ELSE 0)
          /\ UNCHANGED <<depthSlots, latest>>
      BY <1>3, <2>2, BuffersApart
    <3>2. \/ UNCHANGED <<slots, shown>>
          \/ /\ slots' = [slots EXCEPT ![b] = "idle"]
             /\ shown' \in {shown, [shown EXCEPT ![b] = holds[b]]}
      BY <1>3, <2>2, BuffersApart
    <3>3. slots' \in [Dests -> SlotStates] /\ shown' \in [Dests -> Nat]
      BY <1>1, <2>1, <3>2
    <3> QED BY <1>1, <3>1, <3>3
  <2>3. CASE b \in DepthBuffers
    <3>1. /\ depthSlots' = [depthSlots EXCEPT ![b] = "idle"] /\ latest' \in {latest, holds[b]}
          /\ UNCHANGED <<slots, mapsInFlight, shown>>
      BY <1>3, <2>3, BuffersApart
    <3> QED BY <1>1, <2>1, <3>1
  <2> QED BY <1>3, <2>2, <2>3
<1>7. KnownDests' = KnownDests
  BY <1>1, <1>3 DEF KnownDests
<1>8. ~down => BufferState(b) = "mapping"
  BY <1>5 DEF RbInv, MapsInv
<1>9. \A c \in Buffers \ {b} : BufferState(c)' = BufferState(c)
  BY <1>1, <1>3 DEF BufferState, Buffers
<1>10. ~down => BufferState(b)' = "idle"
  BY <1>1, <1>3, <1>8, BuffersApart DEF BufferState, KnownDests
<1>11. BufferState(b)' = "copied" => BufferState(b) = "copied"
  BY <1>1, <1>3, BuffersApart DEF BufferState
<1>12. WorkInv'
  <2>1. \A c \in Buffers : BufferState(c)' = "copied" => BufferState(c) = "copied"
    BY <1>9, <1>11
  <2>2. copier = "rendered" => ~down /\ b \notin encoded
    BY <1>4, <1>5 DEF RbInv, WorkInv
  <2>3. copier = "rendered" =>
          \A c \in Buffers : BufferState(c)' = "copied" <=> c \in encoded
    BY <1>9, <1>10, <2>2 DEF RbInv, WorkInv
  <2> QED BY <1>2, <2>1, <2>3 DEF RbInv, WorkInv
<1>13. MapsInv'
  <2>1. Apart(maps)' /\ Right(maps, holds)' /\ BuffersIn(maps)' = BuffersIn(maps) \ {b}
    <3>1. /\ Apart(maps)' = Apart(Tail(maps)) /\ Right(maps, holds)' = Right(Tail(maps), holds)
          /\ BuffersIn(maps)' = BuffersIn(Tail(maps))
      BY <1>2 DEF Apart, Right, BuffersIn
    <3> QED BY <1>5, <3>1
  <2>2. ~down => \A c \in Buffers : BufferState(c) = "mapping" <=> c \in BuffersIn(maps)
    BY DEF RbInv, MapsInv
  <2>3. ~down => \A c \in Buffers : BufferState(c)' = "mapping" <=> c \in BuffersIn(maps)'
    BY <1>9, <1>10, <2>1, <2>2
  <2> QED BY <1>2, <1>4, <2>1, <2>3 DEF MapsInv
<1>14. MapCountInv'
  <2>1. SUFFICES ASSUME ~down PROVE mapsInFlight' = Cardinality(InFlight(slots))'
    BY <1>2 DEF MapCountInv
  <2>2. CASE b \in Dests
    <3>1. /\ slots[b] = "mapping" /\ b \in InFlight(slots)
          /\ InFlight(slots)' = InFlight(slots) \ {b}
      BY <1>1, <1>3, <1>8, <2>1, <2>2, BuffersApart DEF BufferState, InFlight, KnownDests
    <3>2. IsFiniteSet(InFlight(slots)) /\ Cardinality(InFlight(slots)) \in Nat
      BY DestsCounted DEF InFlight
    <3>3. Cardinality(InFlight(slots) \ {b}) = Cardinality(InFlight(slots)) - 1
      BY <3>1, <3>2, FS_RemoveElement
    <3>4. Cardinality(InFlight(slots) \ {b}) \in Nat
      BY DestsCounted DEF InFlight
    <3>5. mapsInFlight = Cardinality(InFlight(slots))
      BY <2>1 DEF RbInv, MapCountInv
    <3>6. mapsInFlight' = mapsInFlight - (IF mapsInFlight > 0 THEN 1 ELSE 0)
      BY <1>3, <2>2, BuffersApart
    <3> QED BY <3>1, <3>2, <3>3, <3>4, <3>5, <3>6
  <2>3. CASE b \in DepthBuffers
    <3>1. UNCHANGED <<slots, mapsInFlight>>
      BY <1>3, <2>3, BuffersApart
    <3> QED BY <2>1, <3>1 DEF RbInv, MapCountInv, InFlight
  <2> QED BY <1>3, <2>2, <2>3
<1>15. holds[b] \in Nat /\ holds[b] <= Newest /\ Newest \in Int /\ Newest' = Newest
  BY <1>1, <1>2, <1>5 DEF RbInv, AgesInv, Newest
<1>16. AgesInv' /\ (~down => latest' >= latest /\ \A d \in Dests : shown'[d] >= shown[d])
  <2>1. latest' <= Newest' /\ \A c \in Buffers : holds'[c] <= Newest'
    BY <1>2, <1>3, <1>15 DEF RbInv, AgesInv
  <2>2. ASSUME ~down
        PROVE  /\ Rising(maps, holds)'
               /\ \A c \in BuffersIn(Tail(maps)) \cap DepthBuffers :
                    b \in DepthBuffers => holds[b] <= holds[c]
    <3>1. Rising(maps, holds)
      BY <2>2 DEF RbInv, AgesInv
    <3>2. Rising(maps, holds)' = Rising(Tail(maps), holds)
      BY <1>2 DEF Rising
    <3> QED BY <1>5, <3>1, <3>2
  <2>3. ASSUME ~down, NEW d \in Dests
        PROVE  /\ shown'[d] <= holds'[d] /\ (slots'[d] = "none" => shown'[d] = 0)
               /\ shown'[d] >= shown[d]
    <3>1. /\ shown[d] <= holds[d] /\ (slots[d] = "none" => shown[d] = 0)
          /\ shown[d] \in Nat /\ holds[d] \in Nat
      BY <1>1, <2>3, BuffersApart DEF RbInv, AgesInv
    <3>2. CASE d = b
      <4>1. slots'[d] = "idle" /\ shown'[d] \in {shown[d], holds[d]}
        BY <1>1, <1>3, <1>8, <2>3, <3>2, BuffersApart DEF KnownDests
      <4> QED BY <1>2, <3>1, <4>1
    <3>3. CASE d # b
      <4>1. slots'[d] = slots[d] /\ shown'[d] = shown[d]
        BY <1>1, <1>3, <3>3
      <4> QED BY <1>2, <3>1, <4>1
    <3> QED BY <3>2, <3>3
  <2>4. ASSUME ~down PROVE latest' >= latest
    <3>1. CASE b \in DepthBuffers
      <4>1. depthSlots[b] = "mapping"
        BY <1>8, <2>4, <3>1, BuffersApart
      <4>2. latest <= holds[b]
        BY <2>4, <3>1, <4>1 DEF RbInv, AgesInv
      <4> QED BY <1>1, <1>3, <1>15, <3>1, <4>2, BuffersApart
    <3>2. CASE b \in Dests
      BY <1>1, <1>3, <3>2, BuffersApart
    <3> QED BY <1>3, <3>1, <3>2
  <2>5. ASSUME ~down, NEW s \in DepthBuffers, depthSlots'[s] = "mapping"
        PROVE  latest' <= holds'[s]
    <3>1. depthSlots[s] = "mapping" /\ s # b /\ s \in BuffersIn(maps)
      BY <1>1, <1>3, <1>8, <1>9, <1>10, <2>5, BuffersApart DEF RbInv, MapsInv, BufferState
    <3>2. s \in BuffersIn(Tail(maps)) \cap DepthBuffers
      BY <1>5, <3>1
    <3>3. latest <= holds[s] /\ holds[s] \in Nat
      BY <1>1, <2>5, <3>1, BuffersApart DEF RbInv, AgesInv
    <3>4. b \in DepthBuffers => holds[b] <= holds[s]
      BY <2>2, <2>5, <3>2
    <3> QED BY <1>2, <1>3, <3>3, <3>4
  <2> QED BY <1>2, <2>1, <2>2, <2>3, <2>4, <2>5 DEF AgesInv
<1> QED BY <1>2, <1>5, <1>6, <1>7, <1>12, <1>13, <1>14, <1>16

\* The end.
LEMMA StopKeeps ==
  ASSUME RbInv, ReadbackAssumption, StopReadbacks
  PROVE  RbInv'
<1> USE DEF StopReadbacks, gpu
<1>1. /\ KnownDests' = {} /\ Cardinality({}) = 0
  BY FS_EmptySet DEF KnownDests
<1>2. ReadbackTypeOK'
  <2>1. /\ slots' \in [Dests -> SlotStates]
        /\ depthSlots' \in [DepthBuffers -> SlotStates \ {"none"}]
        /\ Cap \in Nat
    BY DEF SlotStates, ReadbackAssumption
  <2>2. Cardinality(KnownDests)' <= Cap
    BY <1>1, <2>1
  <2>3. requested' \in BOOLEAN /\ down' \in BOOLEAN
    OBVIOUS
  <2>4. nextSlot' \in DepthBuffers
    BY BuffersApart
  <2>5. ReadbackTypeOK
    BY DEF RbInv
  <2> QED BY <2>1, <2>2, <2>3, <2>4, <2>5 DEF ReadbackTypeOK
<1>3. WorkInv'
  <2>1. encoded = {}
    BY DEF RbInv, WorkInv
  <2>2. \A b \in Buffers : BufferState(b)' # "copied"
    BY DEF BufferState, Buffers
  <2> QED BY <2>1, <2>2 DEF WorkInv
<1>4. MapsInv'
  <2>1. Apart(maps)' /\ Right(maps, holds)' /\ (BuffersIn(maps) \cap encoded)' = {}
    BY DEF RbInv, MapsInv, Apart, Right, BuffersIn
  <2> QED BY <2>1 DEF MapsInv
<1>5. MapCountInv'
  BY DEF MapCountInv
<1>6. AgesInv'
  <2>1. Newest' = Newest /\ Newest' \in Nat
    BY DEF Newest, RbInv, ReadbackTypeOK
  <2> QED BY <2>1 DEF RbInv, AgesInv
<1> QED BY <1>2, <1>3, <1>4, <1>5, <1>6 DEF RbInv

\* What the guest reads.
Fresher == ~down' => latest' >= latest /\ \A d \in Dests : shown'[d] >= shown[d]

LEMMA GuestReads ==
  ASSUME RbInv, ReadbackAssumption, (\E d \in Dests : ScheduleCopy(d)) \/ PeekDepth
  PROVE  RbInv' /\ Fresher
<1>1. UNCHANGED <<mapsInFlight, depthSlots, nextSlot, latest, holds, encoded, maps, copier,
                  recording, splits, down>>
  BY DEF ScheduleCopy, PeekDepth, depths, gpu
<1>2. /\ slots' \in [Dests -> SlotStates] /\ shown' \in [Dests -> Nat]
      /\ asyncPending' \subseteq Dests /\ asyncSealed' \subseteq Dests
      /\ Cardinality(KnownDests)' <= Cap
      /\ \A d \in Dests :
           /\ slots'[d] = slots[d] \/ (slots[d] = "none" /\ slots'[d] = "idle")
           /\ ~down => shown'[d] = shown[d]
  <2>1. /\ slots \in [Dests -> SlotStates] /\ shown \in [Dests -> Nat]
        /\ asyncPending \subseteq Dests /\ asyncSealed \subseteq Dests
        /\ Cardinality(KnownDests) <= Cap
    BY DEF RbInv, ReadbackTypeOK
  <2>2. CASE PeekDepth
    <3>1. UNCHANGED <<slots, shown, asyncPending, asyncSealed>>
      BY <2>2 DEF PeekDepth, copies
    <3> QED BY <2>1, <3>1 DEF KnownDests
  <2>3. ASSUME NEW d \in Dests, ScheduleCopy(d) PROVE <1>2
    <3>1. asyncPending' \subseteq Dests /\ asyncSealed' \subseteq Dests /\ ~down
      BY <2>1, <2>3 DEF ScheduleCopy
    <3>2. CASE d \in KnownDests
      <4>1. UNCHANGED <<slots, shown>>
        BY <2>3, <3>2 DEF ScheduleCopy
      <4> QED BY <2>1, <3>1, <4>1 DEF KnownDests
    <3>3. CASE d \notin KnownDests
      <4>1. /\ slots' = [slots EXCEPT ![d] = "idle"] /\ shown' = [shown EXCEPT ![d] = 0]
            /\ Cardinality(KnownDests) < Cap /\ slots[d] = "none"
        BY <2>3, <3>3 DEF ScheduleCopy, KnownDests
      <4>2. shown[d] = 0
        BY <2>3, <3>1, <4>1 DEF RbInv, AgesInv
      <4>3. slots' \in [Dests -> SlotStates] /\ shown' = shown
        BY <2>1, <4>1, <4>2 DEF SlotStates
      <4>4. KnownDests' = KnownDests \cup {d}
        BY <2>1, <2>3, <4>1 DEF KnownDests
      <4>5. IsFiniteSet(KnownDests) /\ Cardinality(KnownDests) \in Nat
        BY DestsCounted DEF KnownDests
      <4>6. Cardinality(KnownDests \cup {d}) = Cardinality(KnownDests) + 1
        BY <3>3, <4>5, FS_AddElement
      <4>7. Cap \in Nat
        BY DEF ReadbackAssumption
      <4>8. Cardinality(KnownDests)' <= Cap
        BY <4>1, <4>4, <4>5, <4>6, <4>7
      <4> QED BY <2>1, <3>1, <4>1, <4>3, <4>8
    <3> QED BY <3>2, <3>3
  <2> QED BY <2>2, <2>3
<1>3. requested' \in BOOLEAN /\ peeks' \in 0 .. MaxPeeks
  <2>1. requested \in BOOLEAN /\ peeks \in 0 .. MaxPeeks /\ MaxPeeks \in Nat
    BY DEF RbInv, ReadbackTypeOK, ReadbackAssumption
  <2>2. \/ UNCHANGED <<requested, peeks>>
        \/ requested' = TRUE /\ peeks < MaxPeeks /\ peeks' = peeks + 1
    BY DEF ScheduleCopy, PeekDepth, depths
  <2>3. requested' \in BOOLEAN
    BY <2>1, <2>2
  <2> QED BY <2>1, <2>2, <2>3
<1>4. ReadbackTypeOK'
  <2>1. ReadbackTypeOK
    BY DEF RbInv
  <2> QED BY <1>1, <1>2, <1>3, <2>1 DEF ReadbackTypeOK
<1>5. WorkInv'
  <2>1. \A b \in Buffers : BufferState(b)' = "copied" <=> BufferState(b) = "copied"
    BY <1>1, <1>2 DEF BufferState, Buffers
  <2> QED BY <1>1, <2>1 DEF RbInv, WorkInv
<1>6. MapsInv' /\ MapCountInv' /\ AgesInv'
  <2>1. Newest' = Newest
    BY <1>1 DEF Newest
  <2> QED BY <1>1, <1>2, <1>4, <2>1, QuietReadback
<1>7. Fresher
  <2>1. latest \in Nat /\ shown \in [Dests -> Nat]
    BY DEF RbInv, ReadbackTypeOK
  <2> QED BY <1>1, <1>2, <2>1 DEF Fresher
<1> QED BY <1>4, <1>5, <1>6, <1>7 DEF RbInv

\* The worker goes on without a copy.
LEMMA WorkerGoesOn ==
  ASSUME RbInv, ReadbackAssumption,
         UNCHANGED <<slots, mapsInFlight, shown, depthSlots, nextSlot, latest, holds, maps, peeks,
                     splits, down>>,
         requested' \in BOOLEAN, asyncPending' \subseteq Dests, asyncSealed' \subseteq Dests,
         \/ /\ copier = "idle" /\ copier' = "sealed" /\ encoded' = encoded /\ ~down
            /\ recording < MaxCopied /\ recording' = recording + 1
         \/ /\ copier = "sealed" /\ copier' = "rendered" /\ UNCHANGED <<encoded, recording>>
         \/ /\ copier = "rendered" /\ copier' = copier /\ UNCHANGED <<encoded, recording>>
         \/ /\ copier = "rendered" /\ copier' = "submitted" /\ encoded' = {}
            /\ recording' = recording
  PROVE  RbInv' /\ Fresher
<1>1. recording \in 1 .. MaxCopied /\ MaxCopied \in Nat /\ encoded \subseteq Buffers
  BY DEF RbInv, ReadbackTypeOK, ReadbackAssumption
<1>2. /\ recording' \in 1 .. MaxCopied /\ encoded' \subseteq encoded /\ encoded' \subseteq Buffers
      /\ copier' \in {"idle", "sealed", "rendered", "submitted"}
  BY <1>1
<1>3. KnownDests' = KnownDests
  BY DEF KnownDests
<1>4. ReadbackTypeOK'
  <2>1. ReadbackTypeOK
    BY DEF RbInv
  <2> QED BY <1>2, <1>3, <2>1 DEF ReadbackTypeOK
<1>5. \A b \in Buffers : BufferState(b)' = BufferState(b)
  BY DEF BufferState
<1>6. WorkInv'
  <2>1. copier \in {"idle", "sealed"}
          => encoded = {} /\ \A b \in Buffers : BufferState(b) # "copied"
    BY DEF RbInv, WorkInv
  <2> QED BY <1>5, <2>1 DEF RbInv, WorkInv
<1>7. Newest' = Newest
  BY <1>1 DEF Newest
<1>8. MapsInv' /\ MapCountInv' /\ AgesInv'
  BY <1>2, <1>4, <1>7, QuietReadback
<1>9. Fresher
  BY DEF Fresher, RbInv, ReadbackTypeOK
<1> QED BY <1>4, <1>6, <1>8, <1>9 DEF RbInv

LEMMA WorkerCopies ==
  ASSUME RbInv, ReadbackAssumption,
         RenderSealed \/ (\E d \in Dests : EncodeCopy(d))
  PROVE  RbInv' /\ Fresher
<1>1. ReadbackTypeOK
  BY DEF RbInv
<1>2. CASE RenderSealed
  <2>1. /\ copier = "sealed" /\ copier' = "rendered"
        /\ UNCHANGED <<asyncPending, asyncSealed, slots, mapsInFlight, shown, recording, splits,
                       down>>
    BY <1>2 DEF RenderSealed, copies
  <2>2. /\ UNCHANGED <<maps, latest, peeks>> /\ requested' \in BOOLEAN
        /\ \/ UNCHANGED <<depthSlots, nextSlot, holds, encoded>>
           \/ /\ FreeDepth # {} /\ depthSlots' = [depthSlots EXCEPT ![FoundSlot] = "copied"]
              /\ nextSlot' = (FoundSlot % DepthSlots) + 1
              /\ encoded' = encoded \cup {FoundSlot}
              /\ holds' = [holds EXCEPT ![FoundSlot] = recording - 1]
    <3>1. Snapshot(recording - 1) /\ requested \in BOOLEAN
      BY <1>1, <1>2 DEF RenderSealed, ReadbackTypeOK
    <3> QED BY <3>1 DEF Snapshot, depths, gpu
  <2>3. CASE UNCHANGED <<depthSlots, nextSlot, holds, encoded>>
    <3>1. asyncPending' \subseteq Dests /\ asyncSealed' \subseteq Dests
      BY <1>1, <2>1 DEF ReadbackTypeOK
    <3> QED BY <2>1, <2>2, <2>3, <3>1, WorkerGoesOn
  <2>4. CASE /\ FreeDepth # {} /\ depthSlots' = [depthSlots EXCEPT ![FoundSlot] = "copied"]
             /\ nextSlot' = (FoundSlot % DepthSlots) + 1
             /\ encoded' = encoded \cup {FoundSlot}
             /\ holds' = [holds EXCEPT ![FoundSlot] = recording - 1]
    <3> PICK s : s = FoundSlot
      OBVIOUS
    <3>1. /\ s \in DepthBuffers /\ s \in Buffers /\ s \notin Dests /\ BufferState(s) = "idle"
          /\ (s % DepthSlots) + 1 \in DepthBuffers
      BY <2>4, SlotFound, BuffersApart
    <3>2. /\ depthSlots' = [depthSlots EXCEPT ![s] = "copied"] /\ nextSlot' \in DepthBuffers
          /\ encoded' = encoded \cup {s} /\ holds' = [holds EXCEPT ![s] = recording - 1]
      BY <2>4, <3>1
    <3>3. /\ depthSlots \in [DepthBuffers -> SlotStates \ {"none"}] /\ holds \in [Buffers -> Nat]
          /\ encoded \subseteq Buffers /\ recording \in 1 .. MaxCopied /\ MaxCopied \in Nat
      BY <1>1 DEF ReadbackTypeOK, ReadbackAssumption
    <3>4. /\ depthSlots' \in [DepthBuffers -> SlotStates \ {"none"}] /\ encoded' \subseteq Buffers
          /\ holds' \in [Buffers -> Nat]
      BY <3>1, <3>2, <3>3 DEF SlotStates
    <3>5. KnownDests' = KnownDests
      BY <2>1 DEF KnownDests
    <3>6. ReadbackTypeOK'
      BY <1>1, <2>1, <2>2, <3>2, <3>4, <3>5 DEF ReadbackTypeOK
    <3>7. \A c \in Buffers : BufferState(c)' = IF c = s THEN "copied" ELSE BufferState(c)
      BY <2>1, <3>1, <3>2, <3>3 DEF BufferState, Buffers
    <3>8. RbInv'
      BY <2>1, <2>2, <3>1, <3>2, <3>6, <3>7, CopyKeeps
    <3>9. Fresher
      BY <1>1, <2>1, <2>2 DEF Fresher, ReadbackTypeOK
    <3> QED BY <3>8, <3>9
  <2> QED BY <2>2, <2>3, <2>4
<1>3. ASSUME NEW d \in Dests, EncodeCopy(d) PROVE RbInv' /\ Fresher
  <2>1. /\ copier = "rendered" /\ asyncSealed' = asyncSealed \ {d}
        /\ UNCHANGED <<asyncPending, mapsInFlight, shown, requested, depthSlots, nextSlot, latest,
                       peeks, maps, copier, recording, splits, down>>
    BY <1>3 DEF EncodeCopy, depths
  <2>2. asyncPending' \subseteq Dests /\ asyncSealed' \subseteq Dests /\ requested' \in BOOLEAN
    BY <1>1, <2>1 DEF ReadbackTypeOK
  <2>3. CASE slots[d] = "idle"
    <3>1. /\ slots' = [slots EXCEPT ![d] = "copied"]
          /\ encoded' = encoded \cup {d} /\ holds' = [holds EXCEPT ![d] = recording - 1]
      BY <1>3, <2>3 DEF EncodeCopy
    <3>2. /\ slots \in [Dests -> SlotStates] /\ holds \in [Buffers -> Nat]
          /\ encoded \subseteq Buffers /\ recording \in 1 .. MaxCopied /\ MaxCopied \in Nat
      BY <1>1 DEF ReadbackTypeOK, ReadbackAssumption
    <3>3. d \in Buffers /\ BufferState(d) = "idle"
      BY <1>3, <2>3, BuffersApart
    <3>4. /\ slots' \in [Dests -> SlotStates] /\ encoded' \subseteq Buffers
          /\ holds' \in [Buffers -> Nat]
      BY <3>1, <3>2, <3>3 DEF SlotStates
    <3>5. KnownDests' = KnownDests
      BY <1>3, <2>3, <3>1, <3>2 DEF KnownDests
    <3>6. ReadbackTypeOK'
      BY <1>1, <2>1, <2>2, <3>4, <3>5 DEF ReadbackTypeOK
    <3>7. \A c \in Buffers : BufferState(c)' = IF c = d THEN "copied" ELSE BufferState(c)
      BY <1>3, <2>1, <3>1, <3>2 DEF BufferState
    <3>8. RbInv'
      BY <2>1, <3>1, <3>3, <3>6, <3>7, CopyKeeps
    <3>9. Fresher
      BY <1>1, <2>1 DEF Fresher, ReadbackTypeOK
    <3> QED BY <3>8, <3>9
  <2>4. CASE slots[d] # "idle"
    <3>1. UNCHANGED <<slots, encoded, holds>>
      BY <1>3, <2>4 DEF EncodeCopy
    <3> QED BY <2>1, <2>2, <3>1, WorkerGoesOn
  <2> QED BY <2>3, <2>4
<1> QED BY <1>2, <1>3

LEMMA MapsAreAsked ==
  ASSUME RbInv, ReadbackAssumption, AfterSubmit \/ SplitReadback
  PROVE  RbInv' /\ Fresher
<1>1. /\ ReadbackTypeOK /\ requested \in BOOLEAN /\ splits \in 0 .. MaxSplits /\ MaxSplits \in Nat
      /\ latest \in Nat /\ shown \in [Dests -> Nat]
  BY DEF RbInv, ReadbackTypeOK, ReadbackAssumption
<1>2. /\ UNCHANGED <<asyncPending, asyncSealed, shown, latest, peeks, encoded, recording, down>>
      /\ copier \in {"idle", "submitted"} /\ copier' = "idle"
  BY DEF AfterSubmit, SplitReadback, copies
<1>3. ~down /\ requested' \in BOOLEAN /\ splits' \in 0 .. MaxSplits
  <2>1. CASE AfterSubmit
    BY <1>1, <2>1 DEF AfterSubmit, RbInv, WorkInv
  <2>2. CASE SplitReadback
    <3>1. ~down /\ splits < MaxSplits /\ splits' = splits + 1
      BY <2>2 DEF SplitReadback
    <3>2. requested' \in BOOLEAN
      BY <1>1, <2>2 DEF SplitReadback
    <3> QED BY <1>1, <3>1, <3>2
  <2> QED BY <2>1, <2>2
<1>4. \/ MapCopied /\ UNCHANGED <<nextSlot, holds>>
      \/ /\ copier = "idle" /\ FreeDepth # {} /\ nextSlot' = (FoundSlot % DepthSlots) + 1
         /\ holds' = [holds EXCEPT ![FoundSlot] = recording]
         /\ depthSlots' = [depthSlots EXCEPT ![FoundSlot] = "mapping"]
         /\ maps' = Append(maps, [buffer |-> FoundSlot, frame |-> recording])
         /\ UNCHANGED <<slots, mapsInFlight>>
  BY DEF AfterSubmit, SplitReadback
<1>5. /\ slots' \in [Dests -> SlotStates] /\ KnownDests' = KnownDests /\ mapsInFlight' \in Nat
      /\ depthSlots' \in [DepthBuffers -> SlotStates \ {"none"}] /\ maps' \in Seq(MapRecords)
      /\ holds' \in [Buffers -> Nat] /\ nextSlot' \in DepthBuffers
      /\ WorkInv' /\ MapsInv' /\ MapCountInv' /\ AgesInv'
  <2>1. CASE MapCopied /\ UNCHANGED <<nextSlot, holds>>
    <3>1. holds' \in [Buffers -> Nat] /\ nextSlot' \in DepthBuffers
      BY <1>1, <2>1 DEF ReadbackTypeOK
    <3> QED BY <1>2, <1>3, <2>1, <3>1, MapKeeps
  <2>2. CASE /\ copier = "idle" /\ FreeDepth # {} /\ nextSlot' = (FoundSlot % DepthSlots) + 1
             /\ holds' = [holds EXCEPT ![FoundSlot] = recording]
             /\ depthSlots' = [depthSlots EXCEPT ![FoundSlot] = "mapping"]
             /\ maps' = Append(maps, [buffer |-> FoundSlot, frame |-> recording])
             /\ UNCHANGED <<slots, mapsInFlight>>
    <3>1. slots' \in [Dests -> SlotStates] /\ KnownDests' = KnownDests /\ mapsInFlight' \in Nat
      BY <1>1, <2>2 DEF ReadbackTypeOK, KnownDests
    <3>2. nextSlot' \in DepthBuffers
      BY <2>2, SlotFound
    <3>3. copier' = copier
      BY <1>2, <2>2
    <3> QED BY <1>2, <1>3, <2>2, <3>1, <3>2, <3>3, SplitSnapshotKeeps
  <2> QED BY <1>4, <2>1, <2>2
<1>6. ReadbackTypeOK'
  BY <1>1, <1>2, <1>3, <1>5 DEF ReadbackTypeOK
<1>7. Fresher
  BY <1>1, <1>2 DEF Fresher
<1> QED BY <1>5, <1>6, <1>7 DEF RbInv

LEMMA ReadbackGoesOn ==
  ASSUME RbInv, ReadbackAssumption, [ReadbackNext]_rbVars
  PROVE  RbInv' /\ Fresher
<1>1. ReadbackTypeOK /\ ReadbackAssumption
  BY DEF RbInv
<1>2. ASSUME NEW ok \in BOOLEAN, CompleteMap(ok) PROVE RbInv' /\ Fresher
  <2>1. /\ slots' \in [Dests -> SlotStates] /\ KnownDests' = KnownDests /\ mapsInFlight' \in Nat
        /\ depthSlots' \in [DepthBuffers -> SlotStates \ {"none"}] /\ maps' \in Seq(MapRecords)
        /\ shown' \in [Dests -> Nat] /\ latest' \in Nat
        /\ WorkInv' /\ MapsInv' /\ MapCountInv' /\ AgesInv'
        /\ ~down => latest' >= latest /\ \A d \in Dests : shown'[d] >= shown[d]
    BY <1>2, CompleteKeeps
  <2>2. UNCHANGED <<asyncPending, asyncSealed, requested, nextSlot, peeks, holds, encoded, copier,
                    recording, splits, down>>
    BY <1>2 DEF CompleteMap, copies
  <2>3. ReadbackTypeOK'
    BY <1>1, <2>1, <2>2 DEF ReadbackTypeOK
  <2> QED BY <2>1, <2>2, <2>3 DEF RbInv, Fresher
<1>3. CASE StopReadbacks
  <2>1. Fresher
    BY <1>3 DEF StopReadbacks, Fresher
  <2> QED BY <1>3, <2>1, StopKeeps
<1>4. CASE SealCopies \/ SubmitCopies
  <2>1. asyncPending \subseteq Dests /\ asyncSealed \subseteq Dests /\ requested \in BOOLEAN
    BY <1>1 DEF ReadbackTypeOK
  <2>2. /\ UNCHANGED <<slots, mapsInFlight, shown, depthSlots, nextSlot, latest, holds, maps,
                       peeks, splits, down>>
        /\ requested' \in BOOLEAN /\ asyncPending' \subseteq Dests /\ asyncSealed' \subseteq Dests
    BY <1>4, <2>1 DEF SealCopies, SubmitCopies, depths, gpu, copies
  <2>3. \/ /\ copier = "idle" /\ copier' = "sealed" /\ encoded' = encoded /\ ~down
           /\ recording < MaxCopied /\ recording' = recording + 1
        \/ copier = "rendered" /\ copier' = "submitted" /\ encoded' = {} /\ recording' = recording
    BY <1>4 DEF SealCopies, SubmitCopies, gpu
  <2> QED BY <2>2, <2>3, WorkerGoesOn
<1>5. CASE UNCHANGED rbVars
  <2>1. UNCHANGED <<asyncPending, asyncSealed, slots, mapsInFlight, shown, requested, depthSlots,
                    nextSlot, latest, peeks, holds, encoded, maps, copier, recording, splits, down>>
    BY <1>5 DEF rbVars, copies, depths, gpu
  <2>2. KnownDests' = KnownDests
    BY <2>1 DEF KnownDests
  <2>3. ReadbackTypeOK'
    BY <1>1, <2>1, <2>2 DEF ReadbackTypeOK
  <2>4. Newest' = Newest /\ \A b \in Buffers : BufferState(b)' = BufferState(b)
    BY <2>1 DEF Newest, BufferState
  <2>5. WorkInv'
    BY <2>1, <2>4 DEF RbInv, WorkInv
  <2>6. MapsInv' /\ MapCountInv' /\ AgesInv'
    BY <2>1, <2>3, <2>4, QuietReadback
  <2>7. Fresher
    BY <1>1, <2>1 DEF Fresher, ReadbackTypeOK
  <2> QED BY <2>3, <2>5, <2>6, <2>7 DEF RbInv
<1>6. \A ok \in (IF MapsMayFail THEN BOOLEAN ELSE {TRUE}) : ok \in BOOLEAN
  OBVIOUS
<1> QED BY <1>2, <1>3, <1>4, <1>5, <1>6, GuestReads, WorkerCopies, MapsAreAsked
        DEF ReadbackNext, Copier, MapsComplete

LEMMA ReadbackInvariant ==
  ASSUME ReadbackAssumption
  PROVE  ReadbackSpec => []RbInv
<1>1. ReadbackInit => RbInv
  BY ReadbackBegins
<1>2. RbInv /\ [ReadbackNext]_rbVars => RbInv'
  BY ReadbackGoesOn
<1> QED BY <1>1, <1>2, PTL DEF ReadbackSpec

\* What arrives of the frame buffer is what was copied, by as many maps as are waited for.
LEMMA MapsInOrder ==
  ASSUME RbInv, ReadbackAssumption
  PROVE  MapsWhatWasCopied /\ MapsCounted
<1>1. maps \in Seq(MapRecords) /\ slots \in [Dests -> SlotStates]
  BY DEF RbInv, ReadbackTypeOK
<1>2. \A b : Outstanding(b) <=> b \in BuffersIn(maps)
  BY DEF Outstanding, BuffersIn
<1>3. Apart(maps) /\ Right(maps, holds) /\ BuffersIn(maps) \cap encoded = {}
  BY DEF RbInv, MapsInv
<1>4. ~down => \A b \in Buffers : BufferState(b) = "mapping" <=> Outstanding(b)
  BY <1>2 DEF RbInv, MapsInv
<1>5. MapsWhatWasCopied
  <2>1. \A i \in 1 .. Len(maps) :
          maps[i].buffer \notin encoded /\ maps[i].frame = holds[maps[i].buffer]
    BY <1>3 DEF BuffersIn, Right
  <2>2. \A i, j \in 1 .. Len(maps) : maps[i].buffer = maps[j].buffer => i = j
    BY <1>3 DEF Apart
  <2>3. ~down => /\ \A d \in Dests : slots[d] = "mapping" <=> Outstanding(d)
                 /\ \A s \in DepthBuffers : depthSlots[s] = "mapping" <=> Outstanding(s)
    BY <1>4, BuffersApart
  <2> QED BY <2>1, <2>2, <2>3 DEF MapsWhatWasCopied
<1>6. MapsCounted
  <2>1. ~down => InFlight(slots) = {d \in Dests : Outstanding(d)}
    BY <1>4, BuffersApart DEF InFlight
  <2> QED BY <2>1 DEF MapsCounted, RbInv, MapCountInv
<1> QED BY <1>5, <1>6

\* With any number of destinations, buffers and frames, split or not, whether maps fail or
\* not: what the guest reads of the frame buffer (complete_async_slot, complete_slot) is
\* what was copied for it (encode_async_downloads, encode_frame_snapshot), and no older
\* than what it has read.
THEOREM ReadsAreInOrder ==
  ASSUME ReadbackAssumption
  PROVE  ReadbackSpec => ReadbacksInOrder
<1>1. RbInv => MapsWhatWasCopied /\ MapsCounted
  BY MapsInOrder
<1>2. RbInv /\ [ReadbackNext]_rbVars
        => [~down' => latest' >= latest /\ \A d \in Dests : shown'[d] >= shown[d]]_rbVars
  BY ReadbackGoesOn DEF Fresher
<1> QED BY <1>1, <1>2, ReadbackInvariant, PTL DEF ReadbackSpec, ReadbacksInOrder, NeverOlder

\* The slots of copies stay within their limit, kMaxAsyncSlots, and those of the depth
\* within theirs.
THEOREM ReadbackTypesCorrect ==
  ASSUME ReadbackAssumption
  PROVE  ReadbackSpec => []ReadbackTypeOK
<1>1. RbInv => ReadbackTypeOK
  BY DEF RbInv
<1> QED BY <1>1, ReadbackInvariant, PTL

-----------------------------------------------------------------------------
(* The audio processor.                                                    *)

\* A set of positions that is not empty has a last one, and it is the greatest.
LEMMA LastPosition ==
  ASSUME NEW n \in Nat, NEW T \in SUBSET (1 .. n), T # {}
  PROVE  Max(T) \in T /\ \A i \in T : Max(T) >= i
<1> DEFINE U == {m \in Nat : n - m \in T}
<1>1. U \in SUBSET Nat /\ U # {}
  <2>1. PICK i \in T : TRUE
    OBVIOUS
  <2>2. i \in 1 .. n
    BY <2>1
  <2>3. n - i \in Nat /\ n - (n - i) = i
    BY <2>2
  <2> QED BY <2>1, <2>3
<1>2. \A m \in U : m \in Nat /\ n - m \in T
  OBVIOUS
<1>3. \A i \in T : i \in Nat /\ n - i \in U
  <2>1. SUFFICES ASSUME NEW i \in T PROVE i \in Nat /\ n - i \in U
    OBVIOUS
  <2>2. i \in 1 .. n
    OBVIOUS
  <2>3. n - i \in Nat /\ n - (n - i) = i /\ i \in Nat
    BY <2>2
  <2> QED BY <2>3
<1> HIDE DEF U
<1> DEFINE m == Min(U)
<1>4. m \in U /\ \A u \in U : m <= u
  BY <1>1, LeastNatural
<1> HIDE DEF m
<1>5. \A i \in T : n - m >= i
  <2>1. \A i \in T : m <= n - i /\ i \in Nat
    BY <1>3, <1>4
  <2> QED BY <1>2, <1>4, <2>1
<1> QED BY <1>2, <1>4, <1>5 DEF Max

\* How many commands of the list were mixed.
MixedSoFar ==
  IF published THEN Len(cmdList) ELSE IF mixPending THEN 0 ELSE nextCommand - 1

\* One list at a time: it is pending, then with the worker, then joined.
TurnsInv ==
  /\ mixPending => mixThread = "waiting" /\ ~published
  /\ mixThread = "busy" => ~published /\ ~mixPending
  /\ ~published /\ ~mixPending => nextCommand \in 1 .. Len(cmdList) + 1
  /\ MixIdle /\ ~published => nextCommand = Len(cmdList) + 1

\* The shadow has the uploads of the commands that were mixed, and nothing when they are
\* published; the snapshot has what memory had when the mail came.
ShadowInv ==
  /\ published \/ mixPending => auxOut = <<>>
  /\ ~published =>
       /\ Len(auxOut) <= MixedSoFar
       /\ \A i \in 1 .. Len(auxOut) : auxOut[i].samples = Samples(lists)
       /\ \A b \in AuxBlocks : UploadsTo(auxOut, b) # {} <=> Filled(cmdList, MixedSoFar, b)
       /\ auxIn = [b \in Inputs(cmdList) |-> atMail[b]]

ReadsInv == auxReads = ReadBy(cmdList, MixedSoFar, atMail, lists)

\* A frame is only half written by the worker that is at it.
FrameInv == audioFrame.whole \/ AtCommand("output")

AxInv == AxTypeOK /\ TurnsInv /\ ShadowInv /\ ReadsInv /\ FrameInv /\ UploadsAtJoin

LEMMA ListsAreTyped ==
  ASSUME AxAssumption, NEW l \in Lists \cup {<<>>}
  PROVE  /\ l \in Seq(Commands) /\ Len(l) \in Nat /\ Len(l) <= MaxShadow /\ MaxShadow \in Nat
         /\ \A i \in 1 .. Len(l) :
              /\ l[i].op \in {"mix", "output"}
              /\ l[i].op = "mix" => l[i].out \in AuxBlocks \cup {NoBlock} /\ l[i].in \in AuxBlocks
<1>1. l \in Seq(Commands) /\ Len(l) <= MaxShadow /\ MaxShadow \in Nat
  <2>1. MaxShadow \in Nat /\ \A k \in Lists : k \in Seq(Commands) /\ Len(k) <= MaxShadow
    BY DEF AxAssumption
  <2>2. CASE l \in Lists
    BY <2>1, <2>2
  <2>3. CASE l = <<>>
    <3>1. <<>> \in Seq(Commands) /\ Len(<<>>) = 0
      OBVIOUS
    <3> QED BY <2>1, <2>3, <3>1
  <2> QED BY <2>2, <2>3
<1>2. \A i \in 1 .. Len(l) : l[i] \in Commands
  BY <1>1
<1>3. \A c \in Commands :
        /\ c.op \in {"mix", "output"}
        /\ c.op = "mix" => c.out \in AuxBlocks \cup {NoBlock} /\ c.in \in AuxBlocks
  BY DEF Commands
<1> QED BY <1>1, <1>2, <1>3

\* The newest upload of a block is one of those to it.
LEMMA NewestIsOne ==
  ASSUME NEW S, NEW q \in Seq(S), NEW b, UploadsTo(q, b) # {}
  PROVE  \E i \in 1 .. Len(q) : q[i].block = b /\ NewestUpload(q, b) = q[i].samples
<1>1. UploadsTo(q, b) \in SUBSET (1 .. Len(q)) /\ Len(q) \in Nat
  BY DEF UploadsTo
<1>2. Max(UploadsTo(q, b)) \in UploadsTo(q, b)
  BY <1>1, LastPosition
<1> QED BY <1>2 DEF UploadsTo, NewestUpload

\* What is published is what an inline mix leaves.
LEMMA PublishedAsMixed ==
  ASSUME AxInv, AxAssumption, MixIdle
  PROVE  /\ Publishes \in [AuxBlocks -> Contents]
         /\ published => Publishes = blocks
         /\ ~published => \A b \in AuxBlocks :
              IF UploadsTo(auxOut, b) # {}
              THEN /\ Filled(cmdList, Len(cmdList), b)
                   /\ Publishes[b] = Samples(lists)
              ELSE /\ ~Filled(cmdList, Len(cmdList), b)
                   /\ Publishes[b] = blocks[b]
<1>1. blocks \in [AuxBlocks -> Contents] /\ cmdList \in Lists \cup {<<>>}
      /\ auxOut \in Seq(ShadowBlocks) /\ lists \in Nat
  BY DEF AxInv, AxTypeOK
<1>2. \A b \in AuxBlocks : UploadsTo(auxOut, b) # {} => NewestUpload(auxOut, b) \in Contents
  <2>1. SUFFICES ASSUME NEW b \in AuxBlocks, UploadsTo(auxOut, b) # {}
                 PROVE  NewestUpload(auxOut, b) \in Contents
    OBVIOUS
  <2>2. PICK i \in 1 .. Len(auxOut) : NewestUpload(auxOut, b) = auxOut[i].samples
    BY <1>1, <2>1, NewestIsOne
  <2>3. auxOut[i] \in ShadowBlocks
    BY <1>1
  <2> QED BY <2>2, <2>3 DEF ShadowBlocks
<1>3. Publishes \in [AuxBlocks -> Contents]
  BY <1>1, <1>2 DEF Publishes
<1>4. published => Publishes = blocks
  <2>1. auxOut = <<>> => \A b \in AuxBlocks : UploadsTo(auxOut, b) = {}
    BY DEF UploadsTo
  <2> QED BY <1>1, <2>1 DEF Publishes, AxInv, ShadowInv
<1>5. ASSUME ~published, NEW b \in AuxBlocks
      PROVE  IF UploadsTo(auxOut, b) # {}
             THEN Filled(cmdList, Len(cmdList), b) /\ Publishes[b] = Samples(lists)
             ELSE ~Filled(cmdList, Len(cmdList), b) /\ Publishes[b] = blocks[b]
  <2>1. MixedSoFar = Len(cmdList)
    <3>1. Len(cmdList) \in Nat
      BY <1>1, ListsAreTyped
    <3> QED BY <1>5, <3>1 DEF AxInv, TurnsInv, MixedSoFar, MixIdle
  <2>2. UploadsTo(auxOut, b) # {} <=> Filled(cmdList, Len(cmdList), b)
    BY <1>5, <2>1 DEF AxInv, ShadowInv
  <2>3. UploadsTo(auxOut, b) # {} => NewestUpload(auxOut, b) = Samples(lists)
    BY <1>1, <1>5, NewestIsOne DEF AxInv, ShadowInv
  <2> QED BY <2>2, <2>3 DEF Publishes
<1> QED BY <1>3, <1>4, <1>5

LEMMA MixerBegins ==
  ASSUME AxAssumption, AxInit
  PROVE  AxInv
<1> USE DEF AxInit
<1>1. Len(<<>>) = 0 /\ 1 .. 0 = {} /\ <<>> \in Seq(ShadowBlocks)
  OBVIOUS
<1>2. AxTypeOK
  <2>1. /\ blocks \in [AuxBlocks -> Contents] /\ atMail \in [AuxBlocks -> Contents]
        /\ {MaxShadow, MaxLists, MaxTitleWrites, MaxMails} \subseteq Nat /\ MaxMails > 0
    BY DEF Contents, AxAssumption
  <2>2. /\ cpuMails \in Seq(MailWords) /\ Len(cpuMails) = 1
    BY DEF MailWords
  <2>3. audioFrame \in [n : 0 .. MaxLists, whole : BOOLEAN]
    BY <2>1
  <2>4. /\ Len(cpuMails) <= MaxMails /\ Len(auxOut) <= MaxShadow /\ 1 \in 1 .. MaxShadow + 1
        /\ 0 \in 0 .. MaxLists /\ 0 \in 0 .. MaxTitleWrites
    BY <1>1, <2>1, <2>2
  <2> HIDE DEF AxInit
  <2>5. AxInit
    OBVIOUS
  <2>6. /\ mailState = "size" /\ resumes = 0 /\ workerOn = TRUE /\ mixThread = "none"
        /\ mixPending = FALSE /\ mixStop = FALSE /\ cmdList = <<>> /\ nextCommand = 1
        /\ auxOut = <<>> /\ lists = 0 /\ titleWrites = 0 /\ published = TRUE /\ ownBlocks = {}
    BY <2>5 DEF AxInit
  <2> QED BY <1>1, <2>1, <2>2, <2>3, <2>4, <2>6 DEF AxTypeOK
<1>3. TurnsInv
  BY DEF TurnsInv, MixIdle
<1>4. ShadowInv
  BY DEF ShadowInv
<1>5. ReadsInv
  <2>1. MixedSoFar = 0 /\ Mixes(<<>>, 0) = {}
    BY <1>1 DEF MixedSoFar, Mixes
  <2> QED BY <2>1 DEF ReadsInv, ReadBy
<1>6. FrameInv
  BY DEF FrameInv
<1>7. UploadsAtJoin
  BY <1>1 DEF UploadsAtJoin, MemoryAfter, Filled
<1> QED BY <1>2, <1>3, <1>4, <1>5, <1>6, <1>7 DEF AxInv

\* The guest thread does not touch a list that is mixed.
LEMMA MixUntouched ==
  ASSUME AxInv, AxAssumption, AxTypeOK',
         UNCHANGED <<cmdList, lists, nextCommand, mixPending, auxOut, auxIn, auxReads, atMail,
                     published, audioFrame>>,
         MixIdle' = MixIdle /\ (mixThread = "busy" <=> mixThread' = "busy"),
         mixPending => mixThread' = "waiting", UploadsAtJoin'
  PROVE  AxInv'
<1>1. MixedSoFar' = MixedSoFar
  BY DEF MixedSoFar
<1>2. TurnsInv'
  BY DEF AxInv, TurnsInv
<1>3. ShadowInv'
  BY <1>1 DEF AxInv, ShadowInv
<1>4. ReadsInv'
  BY <1>1 DEF AxInv, ReadsInv
<1>5. FrameInv'
  BY DEF AxInv, FrameInv, AtCommand
<1> QED BY <1>2, <1>3, <1>4, <1>5 DEF AxInv

\* A join.
LEMMA JoinKeeps ==
  ASSUME AxInv, AxAssumption, JoinMix,
         UNCHANGED <<cmdList, lists, nextCommand, mixPending, mixThread, auxIn, auxReads, atMail,
                     audioFrame>>
  PROVE  /\ blocks' \in [AuxBlocks -> Contents] /\ published' = TRUE /\ ownBlocks' \subseteq AuxBlocks
         /\ auxOut' = <<>>
         /\ TurnsInv' /\ ShadowInv' /\ ReadsInv' /\ FrameInv' /\ UploadsAtJoin'
<1>1. /\ MixIdle /\ auxOut' = <<>> /\ blocks' = Publishes /\ published' = TRUE
      /\ ownBlocks' = IF published THEN ownBlocks
                      ELSE {b \in ownBlocks : UploadsTo(auxOut, b) = {}}
  BY DEF JoinMix, ShadowLeft
<1>2. /\ blocks \in [AuxBlocks -> Contents] /\ ownBlocks \subseteq AuxBlocks /\ lists \in Nat
      /\ cmdList \in Lists \cup {<<>>} /\ Len(cmdList) \in Nat
  BY ListsAreTyped DEF AxInv, AxTypeOK
<1>3. /\ Publishes \in [AuxBlocks -> Contents]
      /\ published => Publishes = blocks
      /\ ~published => \A b \in AuxBlocks :
           IF UploadsTo(auxOut, b) # {}
           THEN Filled(cmdList, Len(cmdList), b) /\ Publishes[b] = Samples(lists)
           ELSE ~Filled(cmdList, Len(cmdList), b) /\ Publishes[b] = blocks[b]
  BY <1>1, PublishedAsMixed
<1>4. MixedSoFar' = MixedSoFar
  BY <1>1, <1>2 DEF AxInv, TurnsInv, MixedSoFar, MixIdle
<1>5. TurnsInv'
  BY <1>1 DEF TurnsInv, MixIdle
<1>6. ShadowInv'
  BY <1>1 DEF ShadowInv
<1>7. ReadsInv'
  BY <1>4 DEF AxInv, ReadsInv
<1>8. FrameInv'
  BY DEF AxInv, FrameInv, AtCommand
<1>9. UploadsAtJoin'
  <2>1. SUFFICES ASSUME NEW b \in AuxBlocks
                 PROVE  IF b \in ownBlocks' THEN Publishes[b].by = "title"
                        ELSE Publishes[b] = MemoryAfter(cmdList, Len(cmdList), atMail, lists)[b]
    BY <1>1 DEF UploadsAtJoin
  <2>2. IF b \in ownBlocks THEN blocks[b].by = "title"
        ELSE blocks[b] = IF published THEN MemoryAfter(cmdList, Len(cmdList), atMail, lists)[b]
                         ELSE atMail[b]
    BY DEF AxInv, UploadsAtJoin
  <2>3. CASE published
    BY <1>1, <1>3, <2>2, <2>3
  <2>4. CASE ~published
    <3>1. MemoryAfter(cmdList, Len(cmdList), atMail, lists)[b]
            = IF Filled(cmdList, Len(cmdList), b) THEN Samples(lists) ELSE atMail[b]
      BY DEF MemoryAfter
    <3> QED BY <1>1, <1>3, <2>2, <2>4, <3>1
  <2> QED BY <2>3, <2>4
<1> QED BY <1>1, <1>2, <1>3, <1>5, <1>6, <1>7, <1>8, <1>9

\* Mails, callbacks and what the title does to its blocks.
LEMMA TitleKeeps ==
  ASSUME AxInv, AxAssumption,
         \/ WorkerLeaves \/ SendSize \/ (\E reply \in Replies : SendTask(reply))
         \/ ReadMail \/ ServiceResume \/ (\E b \in AuxBlocks : ProcessAux(b)) \/ ShutdownMixWorker
         \/ UNCHANGED axVars
  PROVE  AxInv'
<1>1. /\ UNCHANGED <<cmdList, lists, nextCommand, mixPending, auxOut, auxIn, auxReads, atMail,
                     published, audioFrame, workerOn>>
      /\ mixThread' = mixThread \/ (mixThread = "waiting" /\ ~mixPending /\ mixThread' = "none")
  BY DEF WorkerLeaves, SendSize, SendTask, ReadMail, ServiceResume, ProcessAux, ShutdownMixWorker,
         axVars, mailbox, mixing, sent, ghosts
<1>2. AxTypeOK
  BY DEF AxInv
<1>3. /\ mixThread' \in {"none", "waiting", "busy"} /\ MixIdle' = MixIdle
      /\ mixThread = "busy" <=> mixThread' = "busy"
      /\ mixPending => mixThread' = "waiting"
  BY <1>1, <1>2 DEF AxTypeOK, MixIdle, AxInv, TurnsInv
<1>4. mixStop' \in BOOLEAN
  BY <1>2 DEF AxTypeOK, WorkerLeaves, SendSize, SendTask, ReadMail, ServiceResume, ProcessAux,
         ShutdownMixWorker, axVars, mixing
<1>5. /\ mailState' \in {"size", "address", "task"} /\ resumes' \in Nat
      /\ cpuMails' \in Seq(MailWords) /\ Len(cpuMails') <= MaxMails
  <2>1. /\ mailState \in {"size", "address", "task"} /\ resumes \in Nat
        /\ cpuMails \in Seq(MailWords) /\ Len(cpuMails) <= MaxMails /\ MaxMails \in Nat
    BY <1>2 DEF AxTypeOK, AxAssumption
  <2>2. CASE UNCHANGED <<mailState, resumes, cpuMails>>
    BY <2>1, <2>2
  <2>3. CASE SendSize
    BY <2>1, <2>3 DEF SendSize
  <2>4. ASSUME NEW reply \in Replies, SendTask(reply)
        PROVE  <1>5
    <3>1. reply \in Seq(MailWords) /\ Len(reply) <= 1
      <4>1. /\ <<>> \in Seq(MailWords) /\ Len(<<>>) = 0
            /\ <<"RESUME">> \in Seq(MailWords) /\ Len(<<"RESUME">>) = 1
            /\ <<"DONE">> \in Seq(MailWords) /\ Len(<<"DONE">>) = 1
        BY DEF MailWords
      <4>2. reply = <<>> \/ reply = <<"RESUME">> \/ reply = <<"DONE">>
        BY DEF Replies
      <4>3. CASE reply = <<>>
        BY <4>1, <4>3
      <4>4. CASE reply = <<"RESUME">>
        BY <4>1, <4>4
      <4>5. CASE reply = <<"DONE">>
        BY <4>1, <4>5
      <4> QED BY <4>2, <4>3, <4>4, <4>5
    <3>2. cpuMails' = cpuMails \o reply /\ Len(cpuMails) + 1 <= MaxMails
          /\ mailState' = "size" /\ resumes' = resumes
      BY <2>4 DEF SendTask, MailRoom
    <3>3. cpuMails \o reply \in Seq(MailWords)
          /\ Len(cpuMails \o reply) = Len(cpuMails) + Len(reply)
      BY <2>1, <3>1
    <3>4. Len(cpuMails) \in Nat /\ Len(reply) \in Nat
      BY <2>1, <3>1
    <3> QED BY <2>1, <3>1, <3>2, <3>3, <3>4
  <2>5. CASE ReadMail
    <3>1. /\ cpuMails # <<>> /\ cpuMails' = Tail(cpuMails)
          /\ UNCHANGED <<mailState, resumes>>
      BY <2>5 DEF ReadMail
    <3>2. Tail(cpuMails) \in Seq(MailWords) /\ Len(Tail(cpuMails)) = Len(cpuMails) - 1
          /\ Len(cpuMails) \in Nat
      BY <2>1, <3>1
    <3> QED BY <2>1, <3>1, <3>2
  <2>6. CASE ServiceResume
    BY <2>1, <2>6 DEF ServiceResume
  <2>7. WorkerLeaves \/ ShutdownMixWorker \/ (\E b \in AuxBlocks : ProcessAux(b)) \/ UNCHANGED axVars
          => UNCHANGED <<mailState, resumes, cpuMails>>
    BY DEF WorkerLeaves, ShutdownMixWorker, ProcessAux, axVars, mailbox
  <2> QED BY <2>2, <2>3, <2>4, <2>5, <2>6, <2>7
<1>6. \/ UNCHANGED <<blocks, ownBlocks, titleWrites>>
      \/ \E b \in AuxBlocks :
           /\ titleWrites < MaxTitleWrites /\ titleWrites' = titleWrites + 1
           /\ blocks' = [blocks EXCEPT ![b] = [by |-> "title", n |-> titleWrites + 1]]
           /\ ownBlocks' = ownBlocks \cup {b}
  BY DEF WorkerLeaves, SendSize, SendTask, ReadMail, ServiceResume, ProcessAux, ShutdownMixWorker,
         axVars, ghosts
<1>7. /\ blocks' \in [AuxBlocks -> Contents] /\ ownBlocks' \subseteq AuxBlocks
      /\ titleWrites' \in 0 .. MaxTitleWrites /\ UploadsAtJoin'
  <2>1. /\ blocks \in [AuxBlocks -> Contents] /\ ownBlocks \subseteq AuxBlocks
        /\ titleWrites \in 0 .. MaxTitleWrites /\ MaxTitleWrites \in Nat
    BY <1>2 DEF AxTypeOK, AxAssumption
  <2>2. \A b \in AuxBlocks :
          IF b \in ownBlocks THEN blocks[b].by = "title"
          ELSE blocks[b] = IF published THEN MemoryAfter(cmdList, Len(cmdList), atMail, lists)[b]
                           ELSE atMail[b]
    BY DEF AxInv, UploadsAtJoin
  <2>3. MemoryAfter(cmdList, Len(cmdList), atMail, lists)'
          = MemoryAfter(cmdList, Len(cmdList), atMail, lists)
    BY <1>1
  <2>4. CASE UNCHANGED <<blocks, ownBlocks, titleWrites>>
    <3>1. UploadsAtJoin'
      BY <1>1, <2>2, <2>3, <2>4 DEF UploadsAtJoin
    <3> QED BY <2>1, <2>4, <3>1
  <2>5. ASSUME NEW b \in AuxBlocks,
               titleWrites < MaxTitleWrites, titleWrites' = titleWrites + 1,
               blocks' = [blocks EXCEPT ![b] = [by |-> "title", n |-> titleWrites + 1]],
               ownBlocks' = ownBlocks \cup {b}
        PROVE  <1>7
    <3>1. [by |-> "title", n |-> titleWrites + 1] \in Contents
      BY <2>1 DEF Contents
    <3>2. blocks' \in [AuxBlocks -> Contents] /\ blocks'[b].by = "title"
          /\ \A c \in AuxBlocks \ {b} : blocks'[c] = blocks[c]
      BY <2>1, <2>5, <3>1
    <3>3. UploadsAtJoin'
      BY <1>1, <2>2, <2>3, <2>5, <3>2 DEF UploadsAtJoin
    <3> QED BY <2>1, <2>5, <3>2, <3>3
  <2> QED BY <1>6, <2>4, <2>5
<1>8. AxTypeOK'
  BY <1>1, <1>2, <1>3, <1>4, <1>5, <1>7 DEF AxTypeOK
<1> QED BY <1>1, <1>3, <1>7, <1>8, MixUntouched

\* The guest thread joins.
LEMMA JoinsKeep ==
  ASSUME AxInv, AxAssumption,
         \/ JoinMixWorker \/ (\E on \in BOOLEAN : SetMixWorkerEnabled(on))
         \/ StopAudio \/ InitializeAudio
  PROVE  AxInv'
<1>1. /\ JoinMix
      /\ UNCHANGED <<cmdList, lists, nextCommand, mixPending, mixThread, mixStop, auxIn, auxReads,
                     atMail, audioFrame, titleWrites>>
  BY DEF JoinMixWorker, SetMixWorkerEnabled, StopAudio, InitializeAudio, Joins, sent
<1>2. AxTypeOK
  BY DEF AxInv
<1>3. /\ mailState' \in {"size", "address", "task"} /\ resumes' \in Nat
      /\ cpuMails' \in Seq(MailWords) /\ Len(cpuMails') <= MaxMails
  <2>1. \/ UNCHANGED <<mailState, cpuMails, resumes>>
        \/ mailState' = "size" /\ cpuMails' \in {<<>>, <<"INIT">>} /\ resumes' = 0
    BY DEF JoinMixWorker, SetMixWorkerEnabled, StopAudio, InitializeAudio, mailbox
  <2>2. /\ <<>> \in Seq(MailWords) /\ <<"INIT">> \in Seq(MailWords)
        /\ Len(<<>>) = 0 /\ Len(<<"INIT">>) = 1
    BY DEF MailWords
  <2>3. MaxMails \in Nat /\ MaxMails > 0
    BY DEF AxAssumption
  <2>4. CASE UNCHANGED <<mailState, cpuMails, resumes>>
    BY <1>2, <2>4 DEF AxTypeOK
  <2>5. CASE mailState' = "size" /\ cpuMails' = <<>> /\ resumes' = 0
    BY <2>2, <2>3, <2>5
  <2>6. CASE mailState' = "size" /\ cpuMails' = <<"INIT">> /\ resumes' = 0
    BY <2>2, <2>3, <2>6
  <2> QED BY <2>1, <2>4, <2>5, <2>6
<1>4. workerOn' \in BOOLEAN
  BY <1>2 DEF AxTypeOK, JoinMixWorker, SetMixWorkerEnabled, StopAudio, InitializeAudio
<1>5. /\ blocks' \in [AuxBlocks -> Contents] /\ published' = TRUE /\ ownBlocks' \subseteq AuxBlocks
      /\ auxOut' = <<>>
      /\ TurnsInv' /\ ShadowInv' /\ ReadsInv' /\ FrameInv' /\ UploadsAtJoin'
  BY <1>1, JoinKeeps
<1>6. <<>> \in Seq(ShadowBlocks) /\ Len(<<>>) <= MaxShadow
  <2>1. <<>> \in Seq(ShadowBlocks) /\ Len(<<>>) = 0 /\ MaxShadow \in Nat
    BY DEF AxAssumption
  <2> QED BY <2>1
<1>7. AxTypeOK'
  BY <1>1, <1>2, <1>3, <1>4, <1>5, <1>6 DEF AxTypeOK
<1> QED BY <1>5, <1>7 DEF AxInv

LEMMA MemoryTyped ==
  ASSUME NEW list, NEW k, NEW memory \in [AuxBlocks -> Contents], NEW n \in Nat
  PROVE  MemoryAfter(list, k, memory, n) \in [AuxBlocks -> Contents]
<1>1. Samples(n) \in Contents
  BY DEF Samples, Contents
<1> QED BY <1>1 DEF MemoryAfter

\* A list comes with its address.
LEMMA AddressKeeps ==
  ASSUME AxInv, AxAssumption, NEW list \in Lists, SendAddress(list)
  PROVE  AxInv'
<1> DEFINE now == Publishes
<1>1. /\ MixIdle /\ auxOut' = <<>> /\ lists < MaxLists /\ lists' = lists + 1 /\ cmdList' = list
      /\ ownBlocks' = {} /\ atMail' = now /\ resumes' = resumes + 1 /\ mailState' = "task"
      /\ UNCHANGED <<workerOn, mixStop, nextCommand, titleWrites>>
  BY DEF SendAddress, JoinsFirst, ShadowLeft
<1>2. Defers(list, now) \/ ExecuteCommandList(list, now, lists')
  BY <1>1 DEF SendAddress
<1>3. AxTypeOK /\ lists \in 0 .. MaxLists /\ MaxLists \in Nat /\ mixThread \in {"none", "waiting"}
      /\ ~mixPending /\ audioFrame.whole /\ audioFrame \in [n : 0 .. MaxLists, whole : BOOLEAN]
  BY <1>1 DEF AxInv, AxTypeOK, AxAssumption, MixIdle, FrameInv, AtCommand
<1>4. /\ now \in [AuxBlocks -> Contents] /\ list \in Seq(Commands) /\ Len(list) \in Nat
      /\ lists' \in 0 .. MaxLists /\ lists' \in Nat
  BY <1>1, <1>3, PublishedAsMixed, ListsAreTyped
<1>5. /\ cpuMails' \in Seq(MailWords) /\ Len(cpuMails') <= MaxMails
  <2>1. Outputs(list) \subseteq 1 .. Len(list)
    BY DEF Outputs
  <2>2. Cardinality(Outputs(list)) \in Nat
    <3>1. IsFiniteSet(1 .. Len(list))
      BY <1>4, FS_Interval
    <3>2. IsFiniteSet(Outputs(list))
      BY <2>1, <3>1, FS_Subset
    <3> QED BY <3>2, FS_CardinalityType
  <2> DEFINE n == Cardinality(Outputs(list))
             s == Syncs(list)
  <2>3. s = [i \in 1 .. n |-> "SYNC"] /\ n \in Nat
    BY <2>2 DEF Syncs
  <2>4. cpuMails' = cpuMails \o s \o <<"YIELD">> /\ Len(cpuMails) + (1 + n) <= MaxMails
    BY DEF SendAddress, MailRoom
  <2>5. cpuMails \in Seq(MailWords) /\ MaxMails \in Nat
    BY <1>3 DEF AxTypeOK, AxAssumption
  <2> HIDE DEF n, s
  <2>6. s \in Seq(MailWords) /\ Len(s) = n
    BY <2>3 DEF MailWords
  <2>7. <<"YIELD">> \in Seq(MailWords) /\ Len(<<"YIELD">>) = 1
    BY DEF MailWords
  <2>8. cpuMails \o s \in Seq(MailWords) /\ Len(cpuMails \o s) = Len(cpuMails) + n
    BY <2>5, <2>6
  <2>9. /\ (cpuMails \o s) \o <<"YIELD">> \in Seq(MailWords)
        /\ Len((cpuMails \o s) \o <<"YIELD">>) = Len(cpuMails \o s) + 1
    BY <2>7, <2>8
  <2>10. Len(cpuMails) \in Nat
    BY <2>5
  <2> QED BY <2>3, <2>4, <2>5, <2>8, <2>9, <2>10
<1> HIDE DEF now
<1>6. /\ blocks' \in [AuxBlocks -> Contents] /\ mixThread' \in {"none", "waiting"}
      /\ mixPending' \in BOOLEAN /\ audioFrame' \in [n : 0 .. MaxLists, whole : BOOLEAN]
      /\ published' \in BOOLEAN
  <2>1. MemoryAfter(list, Len(list), now, lists') \in [AuxBlocks -> Contents]
    BY <1>4, MemoryTyped
  <2>2. [n |-> lists', whole |-> TRUE] \in [n : 0 .. MaxLists, whole : BOOLEAN]
    BY <1>4
  <2>3. mixPending \in BOOLEAN
    BY <1>3 DEF AxTypeOK
  <2>4. CASE Defers(list, now)
    BY <1>3, <1>4, <2>4 DEF Defers
  <2>5. CASE ExecuteCommandList(list, now, lists')
    <3>1. /\ blocks' = MemoryAfter(list, Len(list), now, lists') /\ published' = TRUE
          /\ audioFrame' \in {[n |-> lists', whole |-> TRUE], audioFrame}
          /\ mixPending' = mixPending /\ mixThread' = mixThread
      BY <2>5 DEF ExecuteCommandList
    <3> QED BY <1>3, <2>1, <2>2, <2>3, <3>1
  <2> QED BY <1>2, <2>4, <2>5
<1>7. AxTypeOK'
  <2>1. <<>> \in Seq(ShadowBlocks) /\ Len(<<>>) = 0 /\ MaxShadow \in Nat
    BY DEF AxAssumption
  <2>2. resumes' \in Nat
    BY <1>1, <1>3 DEF AxTypeOK
  <2>3. auxOut' \in Seq(ShadowBlocks) /\ Len(auxOut') <= MaxShadow
    BY <1>1, <2>1
  <2> QED BY <1>1, <1>3, <1>4, <1>5, <1>6, <2>2, <2>3 DEF AxTypeOK
<1>8. CASE Defers(list, now)
  <2>1. /\ auxIn' = [b \in Inputs(list) |-> now[b]] /\ blocks' = now /\ auxReads' = <<>>
        /\ published' = FALSE /\ mixPending' = TRUE /\ mixThread' = "waiting"
        /\ audioFrame' = audioFrame
    BY <1>3, <1>8 DEF Defers
  <2>2. MixedSoFar' = 0
    BY <2>1 DEF MixedSoFar
  <2>3. 1 .. 0 = {}
    OBVIOUS
  <2>4. TurnsInv'
    BY <2>1 DEF TurnsInv, MixIdle
  <2>5. ShadowInv'
    <3>1. Len(<<>>) = 0 /\ \A b : UploadsTo(<<>>, b) = {} /\ ~Filled(list, 0, b)
      BY <2>3 DEF UploadsTo, Filled
    <3>2. Len(auxOut)' <= MixedSoFar' /\ \A i \in 1 .. Len(auxOut)' : FALSE
      BY <1>1, <2>2, <2>3, <3>1
    <3>3. \A b \in AuxBlocks : UploadsTo(auxOut, b)' = {} /\ ~Filled(cmdList, MixedSoFar, b)'
      BY <1>1, <2>2, <3>1
    <3> QED BY <1>1, <2>1, <3>2, <3>3 DEF ShadowInv
  <2>6. ReadsInv'
    <3>1. Mixes(list, 0) = {}
      BY <2>3 DEF Mixes
    <3> QED BY <1>1, <2>1, <2>2, <3>1 DEF ReadsInv, ReadBy
  <2>7. FrameInv'
    BY <1>3, <2>1 DEF FrameInv
  <2>8. UploadsAtJoin'
    BY <1>1, <2>1 DEF UploadsAtJoin
  <2> QED BY <1>7, <2>4, <2>5, <2>6, <2>7, <2>8 DEF AxInv
<1>9. CASE ExecuteCommandList(list, now, lists')
  <2>1. /\ blocks' = MemoryAfter(list, Len(list), now, lists')
        /\ auxReads' = ReadBy(list, Len(list), now, lists') /\ published' = TRUE
        /\ audioFrame'.whole /\ UNCHANGED <<mixPending, mixThread>>
    BY <1>3, <1>9 DEF ExecuteCommandList
  <2>2. MixedSoFar' = Len(list)
    BY <1>1, <2>1 DEF MixedSoFar
  <2>3. TurnsInv'
    BY <1>3, <2>1 DEF TurnsInv, MixIdle
  <2>4. ShadowInv'
    BY <1>1, <2>1 DEF ShadowInv
  <2>5. ReadsInv'
    BY <1>1, <2>1, <2>2 DEF ReadsInv
  <2>6. FrameInv'
    BY <2>1 DEF FrameInv
  <2>7. UploadsAtJoin'
    BY <1>1, <2>1 DEF UploadsAtJoin
  <2> QED BY <1>7, <2>3, <2>4, <2>5, <2>6, <2>7 DEF AxInv
<1> QED BY <1>2, <1>8, <1>9 DEF now

\* One command more.
LEMMA OneCommandMore ==
  ASSUME NEW list, NEW k \in Nat
  PROVE  /\ \A b : Filled(list, k + 1, b)
                     <=> Filled(list, k, b) \/ (Uploads(list[k + 1]) /\ list[k + 1].out = b)
         /\ list[k + 1].op = "mix" => Mixes(list, k + 1) = Mixes(list, k) \cup {k + 1}
         /\ list[k + 1].op # "mix" => Mixes(list, k + 1) = Mixes(list, k)
<1>1. \A i : i \in 1 .. k + 1 <=> i \in 1 .. k \/ i = k + 1
  OBVIOUS
<1>2. \A b : Filled(list, k + 1, b)
               <=> Filled(list, k, b) \/ (Uploads(list[k + 1]) /\ list[k + 1].out = b)
  BY <1>1 DEF Filled
<1>3. \A i : i \in Mixes(list, k + 1)
               <=> i \in Mixes(list, k) \/ (i = k + 1 /\ list[k + 1].op = "mix")
  BY <1>1 DEF Mixes
<1> QED BY <1>2, <1>3

\* The worker mixes a command.
LEMMA CommandKeeps ==
  ASSUME AxInv, AxAssumption, MixAUX
  PROVE  AxInv'
<1> DEFINE k == nextCommand - 1
           c == cmdList[nextCommand]
           shadow == AuxWritten(auxOut, c)
<1>1. /\ mixThread = "busy" /\ nextCommand <= Len(cmdList) /\ c.op = "mix"
      /\ nextCommand' = nextCommand + 1 /\ auxOut' = shadow
      /\ auxReads' = [i \in DOMAIN auxReads \cup {nextCommand} |->
                        IF i = nextCommand THEN AuxRead(shadow, c.in) ELSE auxReads[i]]
      /\ UNCHANGED <<blocks, mailState, cpuMails, resumes, workerOn, mixThread, mixPending, mixStop,
                     auxIn, audioFrame, cmdList, lists, titleWrites, atMail, published, ownBlocks>>
  BY DEF MixAUX, AtCommand, mailbox, sent
<1>2. /\ AxTypeOK /\ cmdList \in Lists \cup {<<>>} /\ nextCommand \in 1 .. MaxShadow + 1
      /\ auxOut \in Seq(ShadowBlocks) /\ lists \in Nat /\ atMail \in [AuxBlocks -> Contents]
  BY DEF AxInv, AxTypeOK
<1>3. /\ Len(cmdList) \in Nat /\ Len(cmdList) <= MaxShadow /\ MaxShadow \in Nat
      /\ nextCommand \in 1 .. Len(cmdList) /\ k \in Nat /\ k + 1 = nextCommand
      /\ c.out \in AuxBlocks \cup {NoBlock} /\ c.in \in AuxBlocks
  <2>1. /\ Len(cmdList) \in Nat /\ Len(cmdList) <= MaxShadow /\ MaxShadow \in Nat
        /\ \A i \in 1 .. Len(cmdList) : cmdList[i].op = "mix" =>
             cmdList[i].out \in AuxBlocks \cup {NoBlock} /\ cmdList[i].in \in AuxBlocks
    BY <1>2, ListsAreTyped
  <2>2. nextCommand \in 1 .. Len(cmdList)
    BY <1>1, <1>2, <2>1
  <2> QED BY <1>1, <2>1, <2>2
<1>4. /\ ~published /\ ~mixPending /\ ~published' /\ ~mixPending'
      /\ MixedSoFar = k /\ MixedSoFar' = k + 1
  BY <1>1, <1>3 DEF AxInv, TurnsInv, MixedSoFar
<1>5. /\ Len(auxOut) <= k
      /\ \A i \in 1 .. Len(auxOut) : auxOut[i].samples = Samples(lists)
      /\ \A b \in AuxBlocks : UploadsTo(auxOut, b) # {} <=> Filled(cmdList, k, b)
      /\ auxIn = [b \in Inputs(cmdList) |-> atMail[b]]
  BY <1>4 DEF AxInv, ShadowInv
<1>6. /\ \A b : Filled(cmdList, k + 1, b) <=> Filled(cmdList, k, b) \/ (Uploads(c) /\ c.out = b)
      /\ Mixes(cmdList, k + 1) = Mixes(cmdList, k) \cup {k + 1}
  BY <1>1, <1>3, OneCommandMore
<1> HIDE DEF k, c
<1>7. /\ shadow \in Seq(ShadowBlocks) /\ Len(shadow) <= k + 1 /\ Len(shadow) <= MaxShadow
      /\ \A i \in 1 .. Len(shadow) : shadow[i].samples = Samples(lists)
      /\ \A b \in AuxBlocks : UploadsTo(shadow, b) # {} <=> Filled(cmdList, k + 1, b)
  <2>1. Len(auxOut) \in Nat /\ Len(auxOut) < MaxShadow
    BY <1>2, <1>3, <1>5
  <2>2. CASE ~Uploads(c)
    <3>1. shadow = auxOut
      BY <2>2 DEF AuxWritten
    <3> HIDE DEF shadow
    <3> QED BY <1>2, <1>3, <1>5, <1>6, <2>1, <2>2, <3>1
  <2>3. CASE Uploads(c)
    <3> DEFINE r == [block |-> c.out, samples |-> Samples(lists)]
    <3>1. shadow = Append(auxOut, r)
      BY <2>1, <2>3 DEF AuxWritten
    <3>2. r \in ShadowBlocks /\ r.block = c.out /\ r.samples = Samples(lists) /\ c.out \in AuxBlocks
      BY <1>2, <1>3, <2>3 DEF ShadowBlocks, Uploads, Samples, Contents
    <3> HIDE DEF shadow, r
    <3>3. /\ shadow \in Seq(ShadowBlocks) /\ Len(shadow) = Len(auxOut) + 1
          /\ \A i \in 1 .. Len(auxOut) : shadow[i] = auxOut[i]
          /\ shadow[Len(auxOut) + 1] = r
      BY <1>2, <3>1, <3>2
    <3>4. \A i : i \in 1 .. Len(shadow) <=> i \in 1 .. Len(auxOut) \/ i = Len(auxOut) + 1
      BY <2>1, <3>3
    <3>5. \A i \in 1 .. Len(shadow) : shadow[i].samples = Samples(lists)
      BY <1>5, <3>2, <3>3, <3>4
    <3>6. \A b \in AuxBlocks : UploadsTo(shadow, b) # {} <=> UploadsTo(auxOut, b) # {} \/ c.out = b
      <4>1. SUFFICES ASSUME NEW b \in AuxBlocks
                     PROVE  UploadsTo(shadow, b) # {} <=> UploadsTo(auxOut, b) # {} \/ c.out = b
        OBVIOUS
      <4>2. \A i : i \in UploadsTo(shadow, b)
                     <=> i \in UploadsTo(auxOut, b) \/ (i = Len(auxOut) + 1 /\ c.out = b)
        BY <2>1, <3>2, <3>3, <3>4 DEF UploadsTo
      <4> QED BY <4>2
    <3>7. Len(shadow) <= k + 1 /\ Len(shadow) <= MaxShadow
      BY <1>3, <1>5, <2>1, <3>3
    <3> QED BY <1>5, <1>6, <2>3, <3>3, <3>5, <3>6, <3>7
  <2> QED BY <2>2, <2>3
<1> HIDE DEF shadow
<1>8. AuxRead(shadow, c.in) = MemoryAfter(cmdList, k + 1, atMail, lists)[c.in]
  <2>1. c.in \in DOMAIN auxIn /\ auxIn[c.in] = atMail[c.in]
    <3>1. nextCommand \in Mixes(cmdList, Len(cmdList)) /\ c.in = cmdList[nextCommand].in
      BY <1>1, <1>3 DEF Mixes, c
    <3>2. c.in \in Inputs(cmdList)
      BY <3>1 DEF Inputs
    <3> QED BY <1>5, <3>2
  <2>2. UploadsTo(shadow, c.in) # {} => NewestUpload(shadow, c.in) = Samples(lists)
    BY <1>7, NewestIsOne
  <2>3. UploadsTo(shadow, c.in) # {} <=> Filled(cmdList, k + 1, c.in)
    BY <1>3, <1>7
  <2> QED BY <1>3, <2>1, <2>2, <2>3 DEF AuxRead, MemoryAfter
<1>9. AxTypeOK'
  BY <1>1, <1>2, <1>3, <1>7 DEF AxTypeOK
<1>10. TurnsInv'
  BY <1>1, <1>3, <1>4 DEF TurnsInv, MixIdle
<1>11. ShadowInv'
  <2>1. /\ Len(auxOut') <= MixedSoFar'
        /\ \A i \in 1 .. Len(auxOut') : auxOut'[i].samples = Samples(lists)
        /\ \A b \in AuxBlocks : UploadsTo(auxOut', b) # {} <=> Filled(cmdList, MixedSoFar', b)
    BY <1>1, <1>4, <1>7
  <2>2. auxIn' = [b \in Inputs(cmdList') |-> atMail'[b]]
    BY <1>1, <1>5
  <2> QED BY <1>1, <1>4, <2>1, <2>2 DEF ShadowInv, Samples
<1>12. ReadsInv'
  <2>1. auxReads = [i \in Mixes(cmdList, k) |->
                      MemoryAfter(cmdList, i, atMail, lists)[cmdList[i].in]]
    BY <1>4 DEF AxInv, ReadsInv, ReadBy
  <2>2. k + 1 \notin Mixes(cmdList, k) /\ nextCommand = k + 1 /\ c.in = cmdList[k + 1].in
    BY <1>3 DEF Mixes, k, c
  <2>3. auxReads' = [i \in Mixes(cmdList, k) \cup {k + 1} |->
                       IF i = k + 1 THEN AuxRead(shadow, c.in) ELSE auxReads[i]]
    BY <1>1, <2>1, <2>2
  <2>4. auxReads' = [i \in Mixes(cmdList, k + 1) |->
                       MemoryAfter(cmdList, i, atMail, lists)[cmdList[i].in]]
    BY <1>6, <1>8, <2>1, <2>2, <2>3
  <2>5. auxReads' = ReadBy(cmdList, k + 1, atMail, lists)
    BY <2>4 DEF ReadBy
  <2> QED BY <1>1, <1>4, <2>5 DEF ReadsInv
<1>13. FrameInv'
  BY <1>1 DEF AxInv, FrameInv, AtCommand, c
<1>14. UploadsAtJoin'
  BY <1>1 DEF AxInv, UploadsAtJoin
<1> QED BY <1>9, <1>10, <1>11, <1>12, <1>13, <1>14 DEF AxInv

\* The worker takes a list, writes the frame and is done.
LEMMA WorkerKeeps ==
  ASSUME AxInv, AxAssumption, TakeList \/ OutputSamples \/ ListMixed
  PROVE  AxInv'
<1>1. /\ AxTypeOK /\ cmdList \in Lists \cup {<<>>} /\ nextCommand \in 1 .. MaxShadow + 1
      /\ auxOut \in Seq(ShadowBlocks) /\ lists \in 0 .. MaxLists /\ lists \in Nat
      /\ audioFrame \in [n : 0 .. MaxLists, whole : BOOLEAN]
  BY DEF AxInv, AxTypeOK
<1>2. /\ Len(cmdList) \in Nat /\ Len(cmdList) <= MaxShadow /\ MaxShadow \in Nat
      /\ <<>> \in Seq(ShadowBlocks) /\ Len(<<>>) = 0 /\ 1 .. 0 = {}
  BY <1>1, ListsAreTyped
<1>3. /\ UNCHANGED <<blocks, mailState, cpuMails, resumes, workerOn, mixStop, auxIn, cmdList, lists,
                     titleWrites, auxReads, atMail, published, ownBlocks>>
      /\ ~published
  BY DEF TakeList, OutputSamples, ListMixed, AtCommand, mailbox, sent, ghosts, AxInv, TurnsInv
<1>4. UploadsAtJoin'
  BY <1>3 DEF AxInv, UploadsAtJoin
<1>5. CASE TakeList
  <2>1. /\ mixThread = "waiting" /\ mixPending /\ mixThread' = "busy" /\ mixPending' = FALSE
        /\ nextCommand' = 1 /\ auxOut' = <<>> /\ audioFrame' = audioFrame
    BY <1>5 DEF TakeList
  <2>2. MixedSoFar = 0 /\ MixedSoFar' = 0
    BY <1>3, <2>1 DEF MixedSoFar
  <2>3. AxTypeOK'
    <3>1. nextCommand' \in 1 .. MaxShadow + 1 /\ Len(auxOut') <= MaxShadow
      BY <1>2, <2>1
    <3> QED BY <1>1, <1>2, <1>3, <2>1, <3>1 DEF AxTypeOK
  <2>4. TurnsInv'
    BY <1>2, <1>3, <2>1 DEF TurnsInv, MixIdle
  <2>5. ShadowInv'
    <3>1. auxOut = <<>>
      BY <2>1 DEF AxInv, ShadowInv
    <3> QED BY <1>2, <1>3, <2>1, <2>2, <3>1 DEF AxInv, ShadowInv
  <2>6. ReadsInv'
    BY <1>3, <2>2 DEF AxInv, ReadsInv
  <2>7. FrameInv'
    BY <2>1 DEF AxInv, FrameInv, AtCommand
  <2> QED BY <1>4, <2>3, <2>4, <2>5, <2>6, <2>7 DEF AxInv
<1>6. CASE ListMixed
  <2>1. /\ mixThread = "busy" /\ nextCommand > Len(cmdList) /\ mixThread' = "waiting"
        /\ UNCHANGED <<mixPending, nextCommand, auxOut, audioFrame>>
    BY <1>6 DEF ListMixed
  <2>2. nextCommand = Len(cmdList) + 1 /\ ~mixPending
    BY <1>2, <1>3, <2>1 DEF AxInv, TurnsInv
  <2>3. MixedSoFar' = MixedSoFar
    BY <1>3, <2>1 DEF MixedSoFar
  <2>4. AxTypeOK'
    BY <1>1, <1>3, <2>1 DEF AxTypeOK
  <2>5. TurnsInv'
    BY <1>2, <1>3, <2>1, <2>2 DEF TurnsInv, MixIdle
  <2>6. ShadowInv'
    BY <1>3, <2>1, <2>3 DEF AxInv, ShadowInv
  <2>7. ReadsInv'
    BY <1>3, <2>3 DEF AxInv, ReadsInv
  <2>8. FrameInv'
    <3>1. audioFrame.whole
      BY <1>2, <2>1, <2>2 DEF AxInv, FrameInv, AtCommand
    <3> QED BY <2>1, <3>1 DEF FrameInv
  <2> QED BY <1>4, <2>4, <2>5, <2>6, <2>7, <2>8 DEF AxInv
<1>7. CASE OutputSamples
  <2>1. /\ mixThread = "busy" /\ nextCommand <= Len(cmdList) /\ cmdList[nextCommand].op = "output"
        /\ audioFrame' = [n |-> lists, whole |-> ~audioFrame.whole]
        /\ nextCommand' = IF audioFrame.whole THEN nextCommand ELSE nextCommand + 1
        /\ UNCHANGED <<mixThread, mixPending, auxOut>>
    BY <1>7 DEF OutputSamples, AtCommand
  <2>2. ~mixPending
    BY <2>1 DEF AxInv, TurnsInv
  <2> DEFINE k == nextCommand - 1
  <2>3. k \in Nat /\ k + 1 = nextCommand /\ MixedSoFar = k
    BY <1>1, <1>3, <2>2 DEF MixedSoFar
  <2>4. nextCommand' \in 1 .. MaxShadow + 1 /\ nextCommand' \in 1 .. Len(cmdList) + 1
    BY <1>1, <1>2, <2>1
  <2>5. /\ audioFrame' \in [n : 0 .. MaxLists, whole : BOOLEAN]
        /\ audioFrame'.whole = ~audioFrame.whole
    BY <1>1, <2>1
  <2>6. AxTypeOK'
    BY <1>1, <1>3, <2>1, <2>4, <2>5 DEF AxTypeOK
  <2>7. TurnsInv'
    BY <1>3, <2>1, <2>2, <2>4 DEF TurnsInv, MixIdle
  <2>8. /\ MixedSoFar' \in {k, k + 1}
        /\ Mixes(cmdList, MixedSoFar') = Mixes(cmdList, k)
        /\ \A b : Filled(cmdList, MixedSoFar', b) <=> Filled(cmdList, k, b)
    <3>1. MixedSoFar' = nextCommand' - 1
      BY <1>3, <2>1, <2>2 DEF MixedSoFar
    <3>2. MixedSoFar' \in {k, k + 1}
      BY <1>1, <2>1, <2>3, <3>1
    <3>3. /\ Mixes(cmdList, k + 1) = Mixes(cmdList, k)
          /\ \A b : Filled(cmdList, k + 1, b) <=> Filled(cmdList, k, b)
      <4>1. cmdList[k + 1].op = "output" /\ ~Uploads(cmdList[k + 1])
        BY <2>1, <2>3 DEF Uploads
      <4> HIDE DEF k
      <4> QED BY <2>3, <4>1, OneCommandMore
    <3> HIDE DEF k
    <3> QED BY <3>2, <3>3
  <2> HIDE DEF k
  <2>9. ShadowInv'
    <3>1. /\ Len(auxOut) <= k /\ Len(auxOut) \in Nat
          /\ \A i \in 1 .. Len(auxOut) : auxOut[i].samples = Samples(lists)
          /\ \A b \in AuxBlocks : UploadsTo(auxOut, b) # {} <=> Filled(cmdList, k, b)
          /\ auxIn = [b \in Inputs(cmdList) |-> atMail[b]]
      BY <1>1, <1>3, <2>3 DEF AxInv, ShadowInv
    <3>2. Len(auxOut') <= MixedSoFar'
      BY <2>1, <2>3, <2>8, <3>1
    <3>3. \A b \in AuxBlocks : UploadsTo(auxOut', b) # {} <=> Filled(cmdList, MixedSoFar', b)
      BY <2>1, <2>8, <3>1
    <3>4. /\ \A i \in 1 .. Len(auxOut') : auxOut'[i].samples = Samples(lists')
          /\ auxIn' = [b \in Inputs(cmdList') |-> atMail'[b]]
      BY <1>3, <2>1, <3>1
    <3> QED BY <1>3, <2>1, <2>2, <3>2, <3>3, <3>4 DEF ShadowInv
  <2>10. ReadsInv'
    <3>1. auxReads = ReadBy(cmdList, k, atMail, lists)
      BY <2>3 DEF AxInv, ReadsInv
    <3>2. ReadBy(cmdList, MixedSoFar', atMail, lists) = ReadBy(cmdList, k, atMail, lists)
      BY <2>8 DEF ReadBy
    <3> QED BY <1>3, <3>1, <3>2 DEF ReadsInv
  <2>11. FrameInv'
    <3>1. CASE audioFrame.whole
      <4>1. nextCommand' = nextCommand
        BY <2>1, <3>1
      <4> QED BY <1>3, <2>1, <4>1 DEF FrameInv, AtCommand
    <3>2. CASE ~audioFrame.whole
      BY <2>5, <3>2 DEF FrameInv
    <3> QED BY <3>1, <3>2
  <2> QED BY <1>4, <2>6, <2>7, <2>9, <2>10, <2>11 DEF AxInv
<1> QED BY <1>5, <1>6, <1>7

LEMMA MixerInvariant ==
  ASSUME AxAssumption
  PROVE  AxSpec => []AxInv
<1>1. AxInit => AxInv
  BY MixerBegins
<1>2. AxInv /\ [AxNext]_axVars => AxInv'
  BY AddressKeeps, CommandKeeps, WorkerKeeps, TitleKeeps, JoinsKeep DEF AxNext, MixWorker
<1> QED BY <1>1, <1>2, PTL DEF AxSpec

\* For any command lists, blocks and sizes, whether the worker starts or not and whenever
\* it is switched on and off: a list that is mixed beside the title (ExecuteCommandList on
\* the worker) reads what it would have read with its mail, its uploads are in memory once,
\* from the join on (JoinMix, PublishAuxOutputs), and what the title does to its buffers
\* after that stays.
THEOREM MixesAreAsInline ==
  ASSUME AxAssumption
  PROVE  AxSpec => []MixesAsInline
<1>1. AxInv => MixesAsInline
  <2>1. SUFFICES ASSUME AxInv PROVE MixesAsInline
    OBVIOUS
  <2>2. /\ cmdList \in Lists \cup {<<>>} /\ nextCommand \in 1 .. MaxShadow + 1
        /\ Len(cmdList) \in Nat /\ MaxShadow \in Nat
    BY <2>1, ListsAreTyped DEF AxInv, AxTypeOK
  <2>3. MixedSoFar \in 0 .. Len(cmdList) /\ (MixIdle => MixedSoFar = Len(cmdList))
    BY <2>1, <2>2 DEF AxInv, TurnsInv, MixedSoFar, MixIdle
  <2>4. Mixes(cmdList, MixedSoFar) \subseteq Mixes(cmdList, Len(cmdList))
    BY <2>2, <2>3 DEF Mixes
  <2>5. auxReads = ReadBy(cmdList, MixedSoFar, atMail, lists)
    BY <2>1 DEF AxInv, ReadsInv
  <2>6. ReadsAsAtMail
    BY <2>3, <2>4, <2>5 DEF ReadsAsAtMail, Expected, ReadBy
  <2>7. FramesWhole
    BY <2>1 DEF AxInv, FrameInv, FramesWhole, AtCommand, MixIdle
  <2> QED BY <2>1, <2>6, <2>7 DEF MixesAsInline, AxInv
<1> QED BY <1>1, MixerInvariant, PTL

\* The shadow has room for the uploads of every list (m_auxOut), and the mailbox for its
\* mails.
THEOREM MixerTypeCorrect ==
  ASSUME AxAssumption
  PROVE  AxSpec => []AxTypeOK
<1>1. AxInv => AxTypeOK
  BY DEF AxInv
<1> QED BY <1>1, MixerInvariant, PTL

-----------------------------------------------------------------------------
(* The memory card.                                                        *)

\* What the title was told of is in memory; and a card that is open has lost nothing.
ToldIsHeld ==
  cardUp => lostPages = {} /\ \A p \in CardPage : toldSaved[p] # 0 => toldSaved[p] = cardData[p]

\* The pages of a complete DMA are on the disk, or due.
CommandHolds ==
  cardCommand.dma = "done" =>
    \A p \in cardCommand.pages : cardDisk[p] = cardData[p] \/ p \in InRange(cardDirty)

\* A checkpoint of this generation holds the image.
CheckpointFits ==
  /\ cardCheckpoint.held => cardUp /\ cardCheckpoint.generation \in 0 .. persistedGeneration
  /\ MayRestore => cardCheckpoint.data = cardData

ClosedClean == ~cardUp => cardDirty = NothingDirty /\ cardCommand = NoCommand

CardInv ==
  /\ CardTypeOK /\ SavedOrDirty /\ ImageIsFile
  /\ ToldIsHeld /\ CommandHolds /\ CheckpointFits /\ ClosedClean

Images == [CardPage -> Versions]
DirtyRanges == [lo : 0 .. CardPages, hi : 0 .. CardPages]

LEMMA CardTypes ==
  ASSUME CardAssumption, CardTypeOK
  PROVE  /\ cardData \in Images /\ cardDisk \in Images /\ toldSaved \in Images
         /\ cardCheckpoint.data \in Images
         /\ CardPages \in Nat /\ PerBlock \in Nat /\ PerBlock > 0 /\ MaxCardWrites \in Nat
         /\ 0 \in Versions /\ cardDirty \in DirtyRanges /\ cardDirty.lo <= cardDirty.hi
         /\ persistedGeneration \in Nat /\ pendingGeneration \in Nat /\ idleObserved \in Nat
         /\ cardUp \in BOOLEAN /\ batchWrites \in BOOLEAN /\ cardError \in BOOLEAN
  BY DEF CardAssumption, CardTypeOK, Images, DirtyRanges, Versions

LEMMA NothingInRange ==
  ASSUME CardAssumption
  PROVE  InRange(NothingDirty) = {} /\ NothingDirty \in DirtyRanges
  BY DEF CardAssumption, InRange, NothingDirty, CardPage, DirtyRanges

LEMMA PagesAreOfTheCard ==
  ASSUME CardAssumption, NEW b \in EraseBlocks
  PROVE  PagesOf(b) \in (SUBSET CardPage) \ {{}}
<1>1. CardPages \in Nat /\ PerBlock \in Nat /\ PerBlock > 0
  BY DEF CardAssumption
<1> DEFINE q == CardPages \div PerBlock
<1>2. q \in Nat /\ q * PerBlock <= CardPages
  BY <1>1
<1>3. b \in 1 .. q
  BY DEF EraseBlocks
<1> HIDE DEF q
<1>4. b * PerBlock \in Nat /\ b * PerBlock <= q * PerBlock
  BY <1>1, <1>2, <1>3
<1>5. (b - 1) * PerBlock \in Nat /\ (b - 1) * PerBlock + PerBlock = b * PerBlock
  BY <1>1, <1>3
<1>6. b * PerBlock \in PagesOf(b)
  BY <1>1, <1>4, <1>5 DEF PagesOf
<1>7. PagesOf(b) \subseteq CardPage
  BY <1>1, <1>2, <1>4, <1>5 DEF PagesOf, CardPage
<1> QED BY <1>6, <1>7

\* A dirty range only grows, and covers the pages that are written.
LEMMA RangeGrows ==
  ASSUME CardAssumption, CardTypeOK, NEW s \in (SUBSET CardPage) \ {{}}
  PROVE  /\ DirtyWith(s) \in DirtyRanges /\ DirtyWith(s).lo <= DirtyWith(s).hi
         /\ s \subseteq InRange(DirtyWith(s)) /\ InRange(cardDirty) \subseteq InRange(DirtyWith(s))
<1>1. /\ Min(s) \in s /\ \A p \in s : Min(s) <= p
      /\ Max(s) \in s /\ \A p \in s : Max(s) >= p
  <2>1. s \in SUBSET Nat /\ s \in SUBSET (1 .. CardPages) /\ s # {} /\ CardPages \in Nat
    BY CardTypes DEF CardPage
  <2> QED BY <2>1, LeastNatural, LastPosition
<1> DEFINE lo == DirtyWith(s).lo
           hi == DirtyWith(s).hi
<1>2. /\ lo = IF cardDirty = NothingDirty \/ Min(s) <= cardDirty.lo THEN Min(s) ELSE cardDirty.lo
      /\ hi = IF cardDirty.hi <= Max(s) THEN Max(s) ELSE cardDirty.hi
      /\ DirtyWith(s) = [lo |-> lo, hi |-> hi]
  BY DEF DirtyWith
<1>3. /\ cardDirty.lo \in 0 .. CardPages /\ cardDirty.hi \in 0 .. CardPages
      /\ cardDirty.lo <= cardDirty.hi /\ CardPages \in Nat
      /\ Min(s) \in 1 .. CardPages /\ Max(s) \in 1 .. CardPages
  BY <1>1, CardTypes DEF DirtyRanges, CardPage
<1> HIDE DEF lo, hi
<1>4. /\ lo \in 0 .. CardPages /\ hi \in 0 .. CardPages /\ lo <= Min(s) /\ Max(s) <= hi
      /\ cardDirty.hi <= hi /\ (cardDirty = NothingDirty \/ lo <= cardDirty.lo)
  BY <1>2, <1>3
<1>5. Min(s) <= Max(s)
  BY <1>1
<1>6. lo <= hi
  BY <1>3, <1>4, <1>5
<1>7. s \subseteq InRange(DirtyWith(s))
  <2>1. SUFFICES ASSUME NEW p \in s PROVE p \in CardPage /\ lo <= p /\ p <= hi
    BY <1>2 DEF InRange
  <2>2. p \in CardPage /\ p \in 1 .. CardPages /\ Min(s) <= p /\ p <= Max(s)
    BY <1>1, <1>3 DEF CardPage
  <2> QED BY <1>3, <1>4, <2>2
<1>8. InRange(cardDirty) \subseteq InRange(DirtyWith(s))
  <2>1. CASE cardDirty = NothingDirty
    BY <2>1, NothingInRange
  <2>2. CASE lo <= cardDirty.lo
    <3>1. SUFFICES ASSUME NEW p \in InRange(cardDirty)
                   PROVE  p \in CardPage /\ lo <= p /\ p <= hi
      BY <1>2 DEF InRange
    <3>2. p \in CardPage /\ p \in 1 .. CardPages /\ cardDirty.lo <= p /\ p <= cardDirty.hi
      BY DEF InRange, CardPage
    <3> QED BY <1>3, <1>4, <2>2, <3>2
  <2> QED BY <1>4, <2>1, <2>2
<1> QED BY <1>2, <1>4, <1>6, <1>7, <1>8 DEF DirtyRanges

\* A write to the file, complete or not.
LEMMA RangeWritten ==
  ASSUME CardAssumption, CardTypeOK, NEW image \in Images, NEW s \in SUBSET CardPage,
         NEW ok \in BOOLEAN, PersistRange(image, s, ok)
  PROVE  /\ cardDisk' \in Images
         /\ \A p \in CardPage : cardDisk'[p] = cardDisk[p] \/ (p \in s /\ cardDisk'[p] = image[p])
         /\ ok => \A p \in s : cardDisk'[p] = image[p]
<1>1. PICK some \in SUBSET s : cardDisk' = StoredIn(image, cardDisk, some) /\ (ok => some = s)
  BY DEF PersistRange
<1>2. cardDisk \in Images
  BY CardTypes
<1> QED BY <1>1, <1>2 DEF StoredIn, Images

\* A write of the pages s, at once or batched.
LEMMA Persists ==
  ASSUME CardAssumption, CardTypeOK, NEW image \in Images, NEW s \in (SUBSET CardPage) \ {{}},
         NEW ok \in BOOLEAN, Persist(image, s, ok)
  PROVE  /\ cardDisk' \in Images /\ cardDirty' \in DirtyRanges /\ cardDirty'.lo <= cardDirty'.hi
         /\ persistedGeneration' = persistedGeneration + 1
         /\ pendingGeneration' \in {pendingGeneration, pendingGeneration + 1}
         /\ \A p \in CardPage : p \notin s => cardDisk'[p] = cardDisk[p]
         /\ InRange(cardDirty) \subseteq InRange(cardDirty')
         /\ ok => \A p \in s : cardDisk'[p] = image[p] \/ p \in InRange(cardDirty')
<1>1. CASE batchWrites
  <2>1. cardDisk' = cardDisk /\ cardDirty' = DirtyWith(s)
        /\ pendingGeneration' = pendingGeneration + 1
        /\ persistedGeneration' = persistedGeneration + 1
    BY <1>1 DEF Persist
  <2> QED BY <2>1, RangeGrows, CardTypes
<1>2. CASE ~batchWrites
  <2>1. PersistRange(image, s, ok) /\ cardDirty' = cardDirty
        /\ pendingGeneration' = pendingGeneration
        /\ persistedGeneration' = persistedGeneration + 1
    BY <1>2 DEF Persist
  <2> QED BY <2>1, RangeWritten, CardTypes
<1> QED BY <1>1, <1>2, CardTypes

\* The title writes the pages s, and is told of them or not.
LEMMA WritingKeeps ==
  ASSUME CardAssumption, CardInv, NEW image \in Images, NEW s \in (SUBSET CardPage) \ {{}},
         NEW ok \in BOOLEAN, NEW told \in BOOLEAN, told => ok, cardUp,
         cardData' = image, \A p \in CardPage : p \notin s => image[p] = cardData[p],
         Persist(image, s, ok), cardVersion' \in Versions,
         toldSaved' = [p \in CardPage |->
           IF p \notin s THEN toldSaved[p] ELSE IF told THEN image[p] ELSE 0],
         UNCHANGED <<cardUp, batchWrites, idleObserved, cardCheckpoint, lostPages>>,
         cardError' \in BOOLEAN, cardCommand' \in CardCommands
  PROVE  /\ CardTypeOK' /\ SavedOrDirty' /\ ImageIsFile' /\ ToldIsHeld' /\ CheckpointFits'
         /\ ClosedClean'
<1>1. /\ cardDisk' \in Images /\ cardDirty' \in DirtyRanges /\ cardDirty'.lo <= cardDirty'.hi
      /\ persistedGeneration' = persistedGeneration + 1
      /\ pendingGeneration' \in {pendingGeneration, pendingGeneration + 1}
      /\ \A p \in CardPage : p \notin s => cardDisk'[p] = cardDisk[p]
      /\ InRange(cardDirty) \subseteq InRange(cardDirty')
      /\ ok => \A p \in s : cardDisk'[p] = image[p] \/ p \in InRange(cardDirty')
  BY Persists DEF CardInv
<1>2. cardData \in Images /\ cardDisk \in Images /\ toldSaved \in Images /\ 0 \in Versions
  BY CardTypes DEF CardInv
<1>3. /\ \A p \in CardPage : p \notin s => toldSaved'[p] = toldSaved[p]
      /\ \A p \in CardPage : p \in s => toldSaved'[p] = IF told THEN image[p] ELSE 0
      /\ toldSaved' \in Images
  BY <1>2 DEF Images
<1>4. InRange(cardDirty)' = InRange(cardDirty')
  BY DEF InRange
<1>5. CardTypeOK'
  <2>1. /\ {persistedGeneration, pendingGeneration, idleObserved}' \subseteq Nat
        /\ idleObserved' <= pendingGeneration' /\ pendingGeneration' <= persistedGeneration'
    BY <1>1 DEF CardInv, CardTypeOK
  <2>2. /\ cardUp' = cardUp /\ batchWrites' = batchWrites /\ cardCheckpoint' = cardCheckpoint
        /\ lostPages' = lostPages
    OBVIOUS
  <2>3. {cardUp, batchWrites, cardError}' \subseteq BOOLEAN
    BY <2>2 DEF CardInv, CardTypeOK
  <2>4. {cardData, cardDisk, toldSaved, cardCheckpoint.data}' \subseteq [CardPage -> Versions]
    BY <1>1, <1>3, <2>2 DEF CardInv, CardTypeOK, Images
  <2>5. /\ cardVersion' \in Versions /\ lostPages' \subseteq CardPage
        /\ cardDirty' \in [lo : 0 .. CardPages, hi : 0 .. CardPages]
        /\ cardDirty'.lo <= cardDirty'.hi /\ cardCommand' \in CardCommands
    BY <1>1, <2>2 DEF CardInv, CardTypeOK, DirtyRanges
  <2> QED BY <2>1, <2>3, <2>4, <2>5 DEF CardTypeOK
<1>6. ToldIsHeld'
  <2>1. lostPages' = {} /\ \A p \in CardPage : toldSaved[p] # 0 => toldSaved[p] = cardData[p]
    BY DEF CardInv, ToldIsHeld
  <2>2. \A p \in CardPage : toldSaved'[p] # 0 => toldSaved'[p] = image[p]
    BY <1>3, <2>1
  <2> QED BY <2>1, <2>2 DEF ToldIsHeld
<1>7. SavedOrDirty'
  <2>1. SUFFICES ASSUME NEW p \in CardPage, toldSaved'[p] # 0
                 PROVE  \/ cardDisk'[p] = toldSaved'[p] \/ p \in InRange(cardDirty')
                        \/ p \in lostPages'
    BY <1>4 DEF SavedOrDirty
  <2>2. CASE p \in s
    BY <1>1, <1>3, <2>1, <2>2
  <2>3. CASE p \notin s
    <3>1. cardDisk[p] = toldSaved[p] \/ p \in InRange(cardDirty) \/ p \in lostPages
      BY <1>3, <2>1, <2>3 DEF CardInv, SavedOrDirty
    <3> QED BY <1>1, <1>3, <2>3, <3>1
  <2> QED BY <2>2, <2>3
<1>8. ImageIsFile'
  <2>1. SUFFICES ASSUME NEW p \in CardPage, image[p] # cardDisk'[p]
                 PROVE  p \in InRange(cardDirty') \/ toldSaved'[p] = 0
    BY <1>4 DEF ImageIsFile
  <2>2. CASE p \in s
    BY <1>1, <1>3, <2>1, <2>2
  <2>3. CASE p \notin s
    <3>1. cardData[p] # cardDisk[p] => p \in InRange(cardDirty) \/ toldSaved[p] = 0
      BY DEF CardInv, ImageIsFile
    <3> QED BY <1>1, <1>3, <2>1, <2>3, <3>1
  <2> QED BY <2>2, <2>3
<1>9. CheckpointFits'
  <2>1. cardCheckpoint.held => cardUp /\ cardCheckpoint.generation \in 0 .. persistedGeneration
    BY DEF CardInv, CheckpointFits
  <2>2. /\ persistedGeneration \in Nat /\ persistedGeneration' = persistedGeneration + 1
    BY <1>1, CardTypes DEF CardInv
  <2>3. cardCheckpoint.held =>
          /\ cardCheckpoint.generation \in 0 .. persistedGeneration'
          /\ cardCheckpoint.generation # persistedGeneration'
    BY <2>1, <2>2
  <2>4. cardCheckpoint' = cardCheckpoint /\ cardUp' = cardUp
    OBVIOUS
  <2> QED BY <2>1, <2>3, <2>4 DEF CheckpointFits, MayRestore
<1>10. ClosedClean'
  BY DEF ClosedClean
<1> QED BY <1>5, <1>6, <1>7, <1>8, <1>9, <1>10

\* A commit writes what is in memory, and what is due stays due, is written or is lost.
LEMMA CommitKeeps ==
  ASSUME CardAssumption, CardInv, cardUp, cardDisk' \in Images,
         \A p \in CardPage : cardDisk'[p] = cardDisk[p] \/ cardDisk'[p] = cardData[p],
         \A p \in InRange(cardDirty) :
           p \in InRange(cardDirty') \/ p \in lostPages' \/ cardDisk'[p] = cardData[p],
         UNCHANGED <<cardData, toldSaved>>, lostPages \subseteq lostPages'
  PROVE  /\ SavedOrDirty'
         /\ lostPages' = {} => ImageIsFile'
         /\ lostPages' = {} /\ cardCommand' = cardCommand => CommandHolds'
<1>1. /\ \A p \in CardPage : toldSaved[p] # 0 => toldSaved[p] = cardData[p]
      /\ \A p \in CardPage : cardData[p] # cardDisk[p] => p \in InRange(cardDirty) \/ toldSaved[p] = 0
      /\ \A p \in CardPage :
           toldSaved[p] # 0
             => cardDisk[p] = toldSaved[p] \/ p \in InRange(cardDirty) \/ p \in lostPages
  BY DEF CardInv, ToldIsHeld, ImageIsFile, SavedOrDirty
<1>2. InRange(cardDirty)' = InRange(cardDirty') /\ cardData' = cardData /\ toldSaved' = toldSaved
  BY DEF InRange
<1>3. SavedOrDirty'
  BY <1>1, <1>2 DEF SavedOrDirty
<1>4. ASSUME lostPages' = {} PROVE ImageIsFile'
  BY <1>1, <1>2, <1>4 DEF ImageIsFile
<1>5. ASSUME lostPages' = {}, cardCommand' = cardCommand PROVE CommandHolds'
  <2>1. \A p \in cardCommand.pages : p \in CardPage \/ cardCommand.dma # "done"
    BY DEF CardInv, CardTypeOK, CardCommands, NoCommand
  <2>2. cardCommand.dma = "done" =>
          \A p \in cardCommand.pages : cardDisk[p] = cardData[p] \/ p \in InRange(cardDirty)
    BY DEF CardInv, CommandHolds
  <2> QED BY <1>2, <1>5, <2>1, <2>2 DEF CommandHolds
<1> QED BY <1>3, <1>4, <1>5

LEMMA FlushWrites ==
  ASSUME CardAssumption, CardInv, NEW ok \in BOOLEAN, FlushPendingWrites(ok)
  PROVE  /\ cardDisk' \in Images /\ cardDirty' \in {cardDirty, NothingDirty}
         /\ \A p \in CardPage : cardDisk'[p] = cardDisk[p] \/ cardDisk'[p] = cardData[p]
         /\ \A p \in InRange(cardDirty) : p \in InRange(cardDirty') \/ cardDisk'[p] = cardData[p]
         /\ idleObserved' \in {idleObserved, pendingGeneration}
<1>1. /\ cardDisk \in Images /\ cardData \in Images /\ CardTypeOK
      /\ InRange(cardDirty) \subseteq CardPage /\ InRange(NothingDirty) = {}
  BY CardTypes, NothingInRange DEF CardInv, InRange
<1>2. CASE cardDirty = NothingDirty
  BY <1>1, <1>2 DEF FlushPendingWrites
<1>3. CASE cardDirty # NothingDirty
  <2>1. /\ PersistRange(cardData, InRange(cardDirty), ok)
        /\ cardDirty' = IF ok THEN NothingDirty ELSE cardDirty
        /\ idleObserved' \in {idleObserved, pendingGeneration}
    BY <1>3 DEF FlushPendingWrites, AfterFlush
  <2> DEFINE owed == InRange(cardDirty)
  <2>2. PICK image \in Images, s \in SUBSET CardPage : image = cardData /\ s = owed
    BY <1>1
  <2>3. PersistRange(image, s, ok)
    BY <2>1, <2>2
  <2>4. /\ cardDisk' \in Images
        /\ \A p \in CardPage : cardDisk'[p] = cardDisk[p] \/ (p \in s /\ cardDisk'[p] = image[p])
        /\ ok => \A p \in s : cardDisk'[p] = image[p]
    BY <1>1, <2>3, RangeWritten
  <2> QED BY <2>1, <2>2, <2>4
<1> QED BY <1>2, <1>3

\* The title begins a command, or is told that one is complete.
LEMMA BeginKeeps ==
  ASSUME CardAssumption, CardInv, NEW name \in {"program", "erase"},
         NEW s \in (SUBSET CardPage) \ {{}}, BeginCommand(name, s)
  PROVE  CardInv'
<1>1. /\ UNCHANGED <<cardUp, flash, batchWrites, commits, cardCheckpoint, promises>>
      /\ cardCommand' = [name |-> name, pages |-> s, dma |-> "no"] /\ cardError' = FALSE /\ cardUp
  BY DEF BeginCommand
<1>2. cardCommand' \in CardCommands
  BY <1>1 DEF CardCommands
<1>3. /\ CardTypeOK' /\ CommandHolds'
  BY <1>1, <1>2 DEF CardInv, CardTypeOK, CommandHolds, flash, commits, promises
<1>4. SavedOrDirty' /\ ImageIsFile' /\ ToldIsHeld' /\ CheckpointFits' /\ ClosedClean'
  BY <1>1 DEF CardInv, SavedOrDirty, ImageIsFile, ToldIsHeld, CheckpointFits, ClosedClean,
    MayRestore, InRange, flash, commits, promises
<1> QED BY <1>3, <1>4 DEF CardInv

LEMMA OverwriteTyped ==
  ASSUME CardAssumption, CardInv, NEW s \in (SUBSET CardPage) \ {{}}, Overwrite(s)
  PROVE  /\ cardData' \in Images /\ \A p \in CardPage : p \notin s => cardData'[p] = cardData[p]
         /\ cardVersion' \in Versions
<1>1. cardData \in Images /\ MaxCardWrites \in Nat /\ cardVersion \in Versions
  BY CardTypes DEF CardInv, CardTypeOK
<1>2. cardVersion + 1 \in Versions
  BY <1>1 DEF Overwrite, Versions
<1> QED BY <1>1, <1>2 DEF Overwrite, Images

\* The command that is not over has pages.
LEMMA CommandHasPages ==
  ASSUME CardInv, cardCommand # NoCommand
  PROVE  /\ cardCommand.pages \in (SUBSET CardPage) \ {{}}
         /\ cardCommand.name \in {"program", "erase"} /\ cardCommand.dma \in {"no", "done", "failed"}
         /\ \A d \in {"no", "done", "failed"} : [cardCommand EXCEPT !.dma = d] \in CardCommands
  BY DEF CardInv, CardTypeOK, CardCommands

LEMMA DmaKeeps ==
  ASSUME CardAssumption, CardInv, NEW ok \in BOOLEAN, DmaWrite(ok)
  PROVE  CardInv'
<1>1. cardCommand # NoCommand /\ cardUp
  BY DEF DmaWrite, NoCommand
<1>2. PICK s \in (SUBSET CardPage) \ {{}} : s = cardCommand.pages
  BY <1>1, CommandHasPages
<1>3. /\ Overwrite(s) /\ Persist(cardData', s, ok) /\ cardError' = (cardError \/ ~ok)
      /\ cardCommand' = [cardCommand EXCEPT !.dma = IF ok THEN "done" ELSE "failed"]
      /\ UNCHANGED <<cardUp, batchWrites, idleObserved, cardCheckpoint, lostPages>>
  BY <1>2 DEF DmaWrite
<1>4. PICK image \in Images : image = cardData'
  BY <1>3, OverwriteTyped
<1>5. Persist(image, s, ok)
  BY <1>3, <1>4
<1>6. /\ cardVersion' \in Versions /\ \A p \in CardPage : p \notin s => image[p] = cardData[p]
  BY <1>3, <1>4, OverwriteTyped
<1>7. toldSaved' = [p \in CardPage |->
        IF p \notin s THEN toldSaved[p] ELSE IF FALSE THEN image[p] ELSE 0]
  BY <1>2, <1>4 DEF DmaWrite, TellTitle
<1>8. cardCommand' \in CardCommands /\ cardError' \in BOOLEAN
  BY <1>1, <1>3, CommandHasPages
<1>9. /\ CardTypeOK' /\ SavedOrDirty' /\ ImageIsFile' /\ ToldIsHeld' /\ CheckpointFits'
      /\ ClosedClean'
  BY <1>1, <1>3, <1>4, <1>5, <1>6, <1>7, <1>8, WritingKeeps
<1>10. CommandHolds'
  <2>1. ok => \A p \in s : cardDisk'[p] = image[p] \/ p \in InRange(cardDirty')
    BY <1>5, Persists DEF CardInv
  <2>2. cardCommand'.pages = s /\ (cardCommand'.dma = "done" => ok)
    <3>1. cardCommand \in [name : {"program", "erase"}, pages : SUBSET CardPage,
                           dma : {"no", "done", "failed"}]
      BY <1>1 DEF CardInv, CardTypeOK, CardCommands
    <3> QED BY <1>2, <1>3, <3>1
  <2>3. InRange(cardDirty)' = InRange(cardDirty')
    BY DEF InRange
  <2> QED BY <1>4, <2>1, <2>2, <2>3 DEF CommandHolds
<1> QED BY <1>9, <1>10 DEF CardInv

LEMMA DeselectKeeps ==
  ASSUME CardAssumption, CardInv, NEW ok \in BOOLEAN, Deselect(ok)
  PROVE  CardInv'
<1>1. /\ cardUp /\ cardCommand # NoCommand /\ cardCommand' = NoCommand
      /\ cardError' = (cardError \/ ~ok)
      /\ UNCHANGED <<cardUp, batchWrites, idleObserved, cardCheckpoint, lostPages>>
  BY DEF Deselect
<1>2. cardCommand' \in CardCommands /\ cardError' \in BOOLEAN /\ cardError \in BOOLEAN
  BY <1>1, CardTypes DEF CardCommands, CardInv
<1>3. PICK s \in (SUBSET CardPage) \ {{}} : s = cardCommand.pages
  BY <1>1, CommandHasPages
<1>4. CommandHolds'
  BY <1>1 DEF CommandHolds, NoCommand
<1>5. CASE Completes(ok)
  <2>1. /\ cardCommand.dma = "done"
        /\ UNCHANGED <<flash, cardDirty, persistedGeneration, pendingGeneration>>
        /\ toldSaved' = [p \in CardPage |->
             IF p \notin s THEN toldSaved[p] ELSE IF ~cardError THEN cardData[p] ELSE 0]
    BY <1>3, <1>5 DEF Completes, TellTitle
  <2>2. cardData \in Images /\ toldSaved \in Images /\ 0 \in Versions
    BY CardTypes DEF CardInv
  <2>3. /\ toldSaved' \in Images
        /\ \A p \in CardPage : p \notin s => toldSaved'[p] = toldSaved[p]
        /\ \A p \in s : toldSaved'[p] \in {0, cardData[p]}
    BY <2>1, <2>2 DEF Images
  <2>4. CardTypeOK'
    BY <1>1, <1>2, <2>1, <2>3 DEF CardInv, CardTypeOK, flash, Images
  <2>5. InRange(cardDirty)' = InRange(cardDirty) /\ cardDisk' = cardDisk /\ cardData' = cardData
    BY <2>1 DEF InRange, flash
  <2>6. \A p \in s : cardDisk[p] = cardData[p] \/ p \in InRange(cardDirty)
    BY <1>3, <2>1 DEF CardInv, CommandHolds
  <2>7. SavedOrDirty'
    BY <1>1, <2>3, <2>5, <2>6 DEF CardInv, SavedOrDirty
  <2>8. ImageIsFile'
    BY <1>1, <2>3, <2>5, <2>6 DEF CardInv, ImageIsFile
  <2>9. ToldIsHeld'
    BY <1>1, <2>3, <2>5 DEF CardInv, ToldIsHeld
  <2>10. CheckpointFits' /\ ClosedClean'
    BY <1>1, <2>1, <2>5 DEF CardInv, CheckpointFits, ClosedClean, MayRestore
  <2> QED BY <1>4, <2>4, <2>7, <2>8, <2>9, <2>10 DEF CardInv
<1>6. CASE WritesAgain(ok) \/ WritesNow(ok)
  <2>1. /\ cardData' \in Images /\ \A p \in CardPage : p \notin s => cardData'[p] = cardData[p]
        /\ cardVersion' \in Versions /\ Persist(cardData', s, ok)
        /\ TellTitle(cardData', ok /\ ~cardError)
    <3>1. CASE WritesAgain(ok)
      <4>1. cardData' = cardData /\ cardVersion' = cardVersion
            /\ Persist(cardData, s, ok) /\ TellTitle(cardData, ok /\ ~cardError)
        BY <1>3, <3>1 DEF WritesAgain
      <4>2. cardData \in Images /\ cardVersion \in Versions
        BY CardTypes DEF CardInv, CardTypeOK
      <4> QED BY <4>1, <4>2
    <3>2. CASE WritesNow(ok)
      <4>1. Overwrite(s) /\ Persist(cardData', s, ok) /\ TellTitle(cardData', ok /\ ~cardError)
        BY <1>3, <3>2 DEF WritesNow
      <4> QED BY <4>1, OverwriteTyped
    <3> QED BY <1>6, <3>1, <3>2
  <2>2. PICK image \in Images : image = cardData'
    BY <2>1
  <2>3. PICK told \in BOOLEAN : told = (ok /\ ~cardError)
    BY <1>2
  <2>4. toldSaved' = [p \in CardPage |->
          IF p \notin s THEN toldSaved[p] ELSE IF told THEN image[p] ELSE 0]
    BY <1>3, <2>1, <2>2, <2>3 DEF TellTitle
  <2>5. Persist(image, s, ok) /\ (told => ok)
    BY <2>1, <2>2, <2>3
  <2>6. /\ CardTypeOK' /\ SavedOrDirty' /\ ImageIsFile' /\ ToldIsHeld' /\ CheckpointFits'
        /\ ClosedClean'
    BY <1>1, <1>2, <2>1, <2>2, <2>4, <2>5, WritingKeeps
  <2> QED BY <1>4, <2>6 DEF CardInv
<1> QED BY <1>5, <1>6 DEF Deselect

\* A commit, when the title is quiet or its policy changes.
LEMMA FlushKeeps ==
  ASSUME CardAssumption, CardInv, NEW ok \in BOOLEAN, SetBatchWrites(ok) \/ FlushIfIdle(ok)
  PROVE  CardInv'
<1>1. /\ cardUp /\ batchWrites' \in {batchWrites, ~batchWrites}
      /\ UNCHANGED <<cardUp, cardData, cardVersion, persistedGeneration, pendingGeneration,
                     cardCommand, cardError, cardCheckpoint, promises>>
  BY DEF SetBatchWrites, FlushIfIdle
<1>2. /\ cardDisk' \in Images /\ cardDirty' \in {cardDirty, NothingDirty}
      /\ \A p \in CardPage : cardDisk'[p] = cardDisk[p] \/ cardDisk'[p] = cardData[p]
      /\ \A p \in InRange(cardDirty) : p \in InRange(cardDirty') \/ cardDisk'[p] = cardData[p]
      /\ idleObserved' \in {idleObserved, pendingGeneration}
  <2>1. CASE FlushPendingWrites(ok)
    BY <2>1, FlushWrites
  <2>2. CASE ~FlushPendingWrites(ok)
    <3>1. cardDisk' = cardDisk /\ cardDirty' = cardDirty /\ idleObserved' = pendingGeneration
      BY <2>2 DEF SetBatchWrites, FlushIfIdle
    <3> QED BY <3>1, CardTypes DEF CardInv
  <2> QED BY <2>1, <2>2
<1>3. lostPages = {} /\ lostPages' = lostPages /\ toldSaved' = toldSaved
  BY <1>1 DEF CardInv, ToldIsHeld, promises
<1>4. SavedOrDirty' /\ ImageIsFile' /\ CommandHolds'
  BY <1>1, <1>2, <1>3, CommitKeeps
<1>5. CardTypeOK'
  <2>1. /\ cardDirty' \in DirtyRanges /\ cardDirty'.lo <= cardDirty'.hi
    BY <1>2, CardTypes, NothingInRange DEF CardInv, NothingDirty
  <2>2. /\ {persistedGeneration, pendingGeneration, idleObserved}' \subseteq Nat
        /\ idleObserved' <= pendingGeneration' /\ pendingGeneration' <= persistedGeneration'
    BY <1>1, <1>2 DEF CardInv, CardTypeOK
  <2>3. {cardUp, batchWrites, cardError}' \subseteq BOOLEAN
    BY <1>1 DEF CardInv, CardTypeOK
  <2>4. {cardData, cardDisk, toldSaved, cardCheckpoint.data}' \subseteq [CardPage -> Versions]
    BY <1>1, <1>2, <1>3 DEF CardInv, CardTypeOK, Images
  <2>5. cardVersion' \in Versions /\ lostPages' \subseteq CardPage /\ cardCommand' \in CardCommands
    BY <1>1, <1>3 DEF CardInv, CardTypeOK
  <2> QED BY <2>1, <2>2, <2>3, <2>4, <2>5 DEF CardTypeOK, DirtyRanges
<1>6. ToldIsHeld' /\ CheckpointFits' /\ ClosedClean'
  BY <1>1, <1>3 DEF CardInv, ToldIsHeld, CheckpointFits, ClosedClean, MayRestore
<1> QED BY <1>4, <1>5, <1>6 DEF CardInv

\* Checkpoints.
LEMMA CheckpointKeeps ==
  ASSUME CardAssumption, CardInv, CaptureState \/ RestoreState
  PROVE  CardInv'
<1>1. /\ cardUp /\ cardData' = cardData
      /\ UNCHANGED <<cardUp, cardDisk, cardVersion, batchWrites, commits, cardError, promises>>
  BY DEF CaptureState, RestoreState, CardInv, CheckpointFits, flash
<1>2. /\ \/ cardCheckpoint' = cardCheckpoint /\ cardCommand' = NoCommand
         \/ /\ cardCommand' = cardCommand
            /\ cardCheckpoint' = [held |-> TRUE, generation |-> persistedGeneration,
                                  data |-> cardData]
  BY DEF CaptureState, RestoreState
<1>3. /\ persistedGeneration \in Nat /\ cardData \in Images /\ NoCommand \in CardCommands
  BY CardTypes DEF CardInv, CardCommands
<1>4. CardTypeOK'
  <2>1. cardCheckpoint'.data \in Images /\ cardCommand' \in CardCommands
    BY <1>2, <1>3 DEF CardInv, CardTypeOK, Images
  <2> QED BY <1>1, <2>1 DEF CardInv, CardTypeOK, Images, commits, promises
<1>5. CheckpointFits'
  <2>1. CASE cardCheckpoint' = cardCheckpoint
    BY <1>1, <2>1 DEF CardInv, CheckpointFits, MayRestore, commits
  <2>2. CASE cardCheckpoint' = [held |-> TRUE, generation |-> persistedGeneration,
                                data |-> cardData]
    <3>1. /\ cardCheckpoint'.generation = persistedGeneration /\ cardCheckpoint'.data = cardData
          /\ persistedGeneration' = persistedGeneration /\ cardUp'
      BY <1>1, <2>2 DEF commits
    <3>2. persistedGeneration \in 0 .. persistedGeneration
      BY <1>3
    <3> QED BY <1>1, <3>1, <3>2 DEF CheckpointFits
  <2> QED BY <1>2, <2>1, <2>2
<1>6. CommandHolds'
  BY <1>1, <1>2 DEF CardInv, CommandHolds, NoCommand, InRange, commits
<1>7. SavedOrDirty' /\ ImageIsFile' /\ ToldIsHeld' /\ ClosedClean'
  BY <1>1 DEF CardInv, SavedOrDirty, ImageIsFile, ToldIsHeld, ClosedClean, InRange,
    commits, promises
<1> QED BY <1>4, <1>5, <1>6, <1>7 DEF CardInv

\* The process ends, and begins again.
LEMMA EndKeeps ==
  ASSUME CardAssumption, CardInv, CardCrash \/ \E ok \in BOOLEAN : CloseCard(ok)
  PROVE  CardInv'
<1>1. /\ cardUp /\ ~cardUp' /\ cardCheckpoint' = NoCardCheckpoint /\ cardCommand' = NoCommand
      /\ ~batchWrites' /\ cardDirty' = NothingDirty
      /\ persistedGeneration' = 0 /\ pendingGeneration' = 0 /\ idleObserved' = 0
      /\ UNCHANGED <<cardData, cardVersion, cardError, toldSaved>>
      /\ cardUp' \in BOOLEAN /\ batchWrites' \in BOOLEAN
  BY DEF CardCrash, CloseCard, CardGone
<1>2. /\ cardData \in Images /\ cardDisk \in Images /\ InRange(cardDirty) \subseteq CardPage
      /\ CardTypeOK /\ 0 \in Versions
  BY CardTypes DEF CardInv, InRange
<1>3. /\ cardDisk' \in Images /\ lostPages \subseteq lostPages' /\ lostPages' \subseteq CardPage
      /\ \A p \in CardPage : cardDisk'[p] = cardDisk[p] \/ cardDisk'[p] = cardData[p]
      /\ \A p \in InRange(cardDirty) : p \in lostPages' \/ cardDisk'[p] = cardData[p]
  <2>1. lostPages \subseteq CardPage
    BY DEF CardInv, CardTypeOK
  <2>2. CASE CardCrash
    <3>1. cardDisk' = cardDisk /\ lostPages' = lostPages \cup InRange(cardDirty)
      BY <2>2 DEF CardCrash
    <3> QED BY <1>2, <2>1, <3>1
  <2>3. CASE \E ok \in BOOLEAN : CloseCard(ok)
    <3>1. PICK ok \in BOOLEAN : CloseCard(ok)
      BY <2>3
    <3>2. /\ FlushAtClose(ok)
          /\ lostPages' = IF ok THEN lostPages ELSE lostPages \cup InRange(cardDirty)
      BY <3>1 DEF CloseCard
    <3>3. CASE cardDirty = NothingDirty
      <4>1. cardDisk' = cardDisk /\ InRange(cardDirty) = {}
        BY <3>2, <3>3, NothingInRange DEF FlushAtClose
      <4> QED BY <1>2, <2>1, <3>2, <4>1
    <3>4. CASE cardDirty # NothingDirty
      <4>1. PersistRange(cardData, InRange(cardDirty), ok)
        BY <3>2, <3>4 DEF FlushAtClose
      <4> DEFINE owed == InRange(cardDirty)
      <4>2. PICK image \in Images, s \in SUBSET CardPage : image = cardData /\ s = owed
        BY <1>2
      <4>3. PersistRange(image, s, ok)
        BY <4>1, <4>2
      <4>4. /\ cardDisk' \in Images
            /\ \A p \in CardPage : cardDisk'[p] = cardDisk[p] \/ (p \in s /\ cardDisk'[p] = image[p])
            /\ ok => \A p \in s : cardDisk'[p] = image[p]
        BY <1>2, <4>3, RangeWritten
      <4> QED BY <1>2, <2>1, <3>2, <4>2, <4>4
    <3> QED BY <3>3, <3>4
  <2> QED BY <2>2, <2>3
<1>4. SavedOrDirty'
  BY <1>1, <1>3, CommitKeeps
<1>5. CardTypeOK'
  <2>1. /\ NoCardCheckpoint.data \in Images /\ NoCommand \in CardCommands
    BY <1>2 DEF NoCardCheckpoint, Images, CardCommands
  <2>2. NothingDirty \in DirtyRanges /\ NothingDirty.lo <= NothingDirty.hi
    BY NothingInRange DEF NothingDirty
  <2>3. {cardUp, batchWrites, cardError}' \subseteq BOOLEAN
    BY <1>1, <1>2 DEF CardTypeOK
  <2>4. {cardData, cardDisk, toldSaved, cardCheckpoint.data}' \subseteq [CardPage -> Versions]
    BY <1>1, <1>2, <1>3, <2>1 DEF CardTypeOK, Images
  <2>5. /\ cardVersion' \in Versions /\ lostPages' \subseteq CardPage
        /\ cardDirty' \in [lo : 0 .. CardPages, hi : 0 .. CardPages]
        /\ cardDirty'.lo <= cardDirty'.hi
    BY <1>1, <1>2, <1>3, <2>2 DEF CardTypeOK, DirtyRanges
  <2>6. /\ {persistedGeneration, pendingGeneration, idleObserved}' \subseteq Nat
        /\ idleObserved' <= pendingGeneration' /\ pendingGeneration' <= persistedGeneration'
    BY <1>1
  <2> QED BY <1>1, <2>1, <2>3, <2>4, <2>5, <2>6 DEF CardTypeOK
<1>6. ImageIsFile' /\ ToldIsHeld' /\ CommandHolds' /\ CheckpointFits' /\ ClosedClean'
  BY <1>1 DEF ImageIsFile, ToldIsHeld, CommandHolds, CheckpointFits, ClosedClean, MayRestore,
    NoCardCheckpoint, NoCommand
<1> QED BY <1>4, <1>5, <1>6 DEF CardInv

LEMMA OpenKeeps ==
  ASSUME CardAssumption, CardInv, OpenCard
  PROVE  CardInv'
<1>1. /\ ~cardUp /\ cardUp' /\ cardUp' \in BOOLEAN /\ cardData' = cardDisk /\ cardError' = FALSE
      /\ lostPages' = {}
      /\ toldSaved' = [p \in CardPage |-> IF p \in lostPages THEN 0 ELSE toldSaved[p]]
      /\ UNCHANGED <<cardDisk, cardVersion, batchWrites, commits, cardCommand, cardCheckpoint>>
  BY DEF OpenCard
<1>2. /\ cardDirty = NothingDirty /\ cardCommand = NoCommand /\ ~cardCheckpoint.held
      /\ InRange(NothingDirty) = {}
  BY <1>1, NothingInRange DEF CardInv, ClosedClean, CheckpointFits
<1>3. cardDisk \in Images /\ toldSaved \in Images /\ 0 \in Versions
  BY CardTypes DEF CardInv
<1>4. /\ toldSaved' \in Images
      /\ \A p \in CardPage : toldSaved'[p] # 0 => toldSaved'[p] = toldSaved[p] /\ p \notin lostPages
  BY <1>1, <1>3 DEF Images
<1>5. \A p \in CardPage : toldSaved'[p] # 0 => toldSaved'[p] = cardDisk[p]
  BY <1>2, <1>4 DEF CardInv, SavedOrDirty
<1>6. CardTypeOK'
  BY <1>1, <1>3, <1>4 DEF CardInv, CardTypeOK, Images, commits
<1>7. SavedOrDirty' /\ ImageIsFile' /\ ToldIsHeld' /\ CommandHolds' /\ ClosedClean'
  BY <1>1, <1>2, <1>5 DEF SavedOrDirty, ImageIsFile, ToldIsHeld, CommandHolds, ClosedClean,
    NoCommand
<1>8. CheckpointFits'
  BY <1>1, <1>2 DEF CheckpointFits, MayRestore
<1> QED BY <1>6, <1>7, <1>8 DEF CardInv

LEMMA CardBegins ==
  ASSUME CardAssumption, CardInit
  PROVE  CardInv
<1> USE DEF CardInit
<1>1. 0 \in Versions /\ MaxCardWrites \in Nat /\ CardPages \in Nat
  BY DEF CardAssumption, Versions
<1>2. [p \in CardPage |-> 0] \in Images /\ NoCommand \in CardCommands
  BY <1>1 DEF Images, CardCommands
<1>3. NothingDirty \in DirtyRanges /\ NothingDirty.lo <= NothingDirty.hi
  BY NothingInRange DEF NothingDirty
<1>4. NoCardCheckpoint.data = [p \in CardPage |-> 0] /\ ~NoCardCheckpoint.held
  BY DEF NoCardCheckpoint
<1>5. CardTypeOK
  <2>1. {cardData, cardDisk, toldSaved, cardCheckpoint.data} \subseteq Images
    BY <1>2, <1>4
  <2>2. cardDirty \in DirtyRanges /\ cardDirty.lo <= cardDirty.hi
    BY <1>3
  <2>3. cardCommand \in CardCommands /\ cardVersion \in Versions
    BY <1>1, <1>2
  <2>4. {cardUp, batchWrites, cardError} \subseteq BOOLEAN /\ lostPages \subseteq CardPage
    OBVIOUS
  <2>5. /\ {persistedGeneration, pendingGeneration, idleObserved} \subseteq Nat
        /\ idleObserved <= pendingGeneration /\ pendingGeneration <= persistedGeneration
    OBVIOUS
  <2> HIDE DEF CardInit
  <2> QED BY <2>1, <2>2, <2>3, <2>4, <2>5 DEF CardTypeOK, Images, DirtyRanges
<1>6. SavedOrDirty /\ ImageIsFile /\ ToldIsHeld
  BY DEF SavedOrDirty, ImageIsFile, ToldIsHeld
<1>7. CommandHolds /\ CheckpointFits /\ ClosedClean
  BY <1>4 DEF CommandHolds, CheckpointFits, ClosedClean, MayRestore, NoCommand
<1> QED BY <1>5, <1>6, <1>7 DEF CardInv

LEMMA CardKept ==
  ASSUME CardAssumption, CardInv, [CardNext]_cardVars
  PROVE  CardInv'
<1>1. CASE \E p \in CardPage : BeginCommand("program", {p})
  <2>1. PICK p \in CardPage : BeginCommand("program", {p})
    BY <1>1
  <2>2. {p} \in (SUBSET CardPage) \ {{}}
    OBVIOUS
  <2> QED BY <2>1, <2>2, BeginKeeps
<1>2. CASE \E b \in EraseBlocks : BeginCommand("erase", PagesOf(b))
  BY <1>2, BeginKeeps, PagesAreOfTheCard
<1>3. CASE \E ok \in BOOLEAN :
             DmaWrite(ok) \/ Deselect(ok) \/ SetBatchWrites(ok) \/ FlushIfIdle(ok) \/ CloseCard(ok)
  BY <1>3, DmaKeeps, DeselectKeeps, FlushKeeps, EndKeeps
<1>4. CASE CaptureState \/ RestoreState \/ CardCrash \/ OpenCard
  BY <1>4, CheckpointKeeps, EndKeeps, OpenKeeps
<1>5. CASE UNCHANGED cardVars
  BY <1>5 DEF CardInv, CardTypeOK, SavedOrDirty, ImageIsFile, ToldIsHeld, CommandHolds,
    CheckpointFits, ClosedClean, MayRestore, InRange, cardVars, flash, commits, promises
<1> QED BY <1>1, <1>2, <1>3, <1>4, <1>5 DEF CardNext

LEMMA CardInvariant ==
  ASSUME CardAssumption
  PROVE  CardSpec => []CardInv
<1>1. CardInit => CardInv
  BY CardBegins
<1>2. CardInv /\ [CardNext]_cardVars => CardInv'
  BY CardKept
<1> QED BY <1>1, <1>2, PTL DEF CardSpec

\* Only a write changes what an open card holds.
LEMMA DataIsWritten ==
  ASSUME CardAssumption, CardInv, [CardNext]_cardVars
  PROVE  [cardUp /\ cardUp' /\ cardData' # cardData => cardVersion' > cardVersion]_cardVars
<1>1. cardVersion \in Nat
  BY CardTypes DEF CardInv, CardTypeOK, Versions
<1>2. SUFFICES ASSUME cardUp, cardUp', cardData' # cardData PROVE cardVersion' = cardVersion + 1
  BY <1>1
<1>3. CardNext
  BY <1>2 DEF cardVars, flash
<1>4. ASSUME NEW ok \in BOOLEAN, DmaWrite(ok) \/ Deselect(ok)
      PROVE  cardVersion' = cardVersion + 1
  BY <1>2, <1>4 DEF DmaWrite, Deselect, Completes, WritesAgain, WritesNow, Overwrite, flash
<1>5. ASSUME NEW ok \in BOOLEAN, SetBatchWrites(ok) \/ FlushIfIdle(ok) \/ CloseCard(ok)
      PROVE  FALSE
  BY <1>2, <1>5 DEF SetBatchWrites, FlushIfIdle, CloseCard, CardGone
<1>6. ASSUME CaptureState \/ RestoreState \/ CardCrash \/ OpenCard
      PROVE  FALSE
  BY <1>2, <1>6 DEF CaptureState, RestoreState, CardCrash, CardGone, OpenCard, CardInv,
    CheckpointFits, flash
<1>7. ASSUME NEW name, NEW s, BeginCommand(name, s)
      PROVE  FALSE
  BY <1>2, <1>7 DEF BeginCommand, flash
<1> QED BY <1>3, <1>4, <1>5, <1>6, <1>7 DEF CardNext

\* For a card of any size and any number of writes, on a disk that may refuse: a page that
\* the title was told is saved (status_ after Complete) is in the file, or in the range of
\* the next commit (dirtyStart_, dirtyEnd_), over batches, failures, checkpoints and closes,
\* and no checkpoint takes a write back (CaptureState).
THEOREM SavesAreKept ==
  ASSUME CardAssumption
  PROVE  CardSpec => CardKeepsSaves
<1>1. CardInv => SavedOrDirty /\ ImageIsFile
  BY DEF CardInv
<1>2. CardInv /\ [CardNext]_cardVars
        => [cardUp /\ cardUp' /\ cardData' # cardData => cardVersion' > cardVersion]_cardVars
  BY DataIsWritten
<1> QED BY <1>1, <1>2, CardInvariant, PTL DEF CardSpec, CardKeepsSaves, RestoreUndoesNothing

\* The range that waits for a commit stays within the card.
THEOREM CardTypeCorrect ==
  ASSUME CardAssumption
  PROVE  CardSpec => []CardTypeOK
<1>1. CardInv => CardTypeOK
  BY DEF CardInv
<1> QED BY <1>1, CardInvariant, PTL

-----------------------------------------------------------------------------
(* The files of the NAND.                                                  *)

\* No two names are of one inode.
NamesApart ==
  \A m, n \in Names : m # n /\ hostFiles[m] # 0 => hostFiles[m] # hostFiles[n]

\* A file whose shadow is not shared has at most one session that a close commits to it.
CommitsApart ==
  \A fd, g \in DOMAIN fileHandles :
    fd # g /\ fileHandles[fd].commit \notin sharedShadows \cup {NoPath} =>
      fileHandles[fd].commit # fileHandles[g].commit

\* No two sessions have one inode, whatever became of its name.
SessionsApart ==
  \A fd, g \in DOMAIN fileHandles :
    fd # g /\ fileHandles[fd].commit # NoPath /\ fileHandles[g].commit # NoPath =>
      fileHandles[fd].inode # fileHandles[g].inode

\* A handle without a commit is not on a shadow, and the files it can write where they
\* stand are known to be written so. One with a commit is on no other shadow than that it
\* commits, and on that unless it is shared; a file that has its inode had its shadow shared.
HandleSound(fd) ==
  LET h == fileHandles[fd]
  IN  /\ h.commit = NoPath => \A path \in NandPaths : hostFiles[Shadow(path)] # h.inode
      /\ h.commit \notin sharedShadows \cup {NoPath} => hostFiles[Shadow(h.commit)] = h.inode
      /\ h.commit = NoPath /\ h.writes =>
           \A path \in NandPaths : hostFiles[Name(path)] = h.inode => path \in writtenInPlace
      /\ h.commit # NoPath =>
           \A path \in NandPaths :
             /\ hostFiles[Shadow(path)] = h.inode => path = h.commit
             /\ hostFiles[Name(path)] = h.inode => path \in sharedShadows

HandlesSound ==
  CommitsApart /\ SessionsApart /\ \A fd \in DOMAIN fileHandles : HandleSound(fd)
NandInv == NandTypeOK /\ NamesApart /\ HandlesSound /\ NoTornFile

LEMMA NameFacts ==
  /\ \A path \in NandPaths : Name(path) \in Names /\ Shadow(path) \in Names
  /\ \A a, b \in NandPaths : Name(a) # Shadow(b)
  /\ \A a, b \in NandPaths : Name(a) = Name(b) => a = b
  /\ \A a, b \in NandPaths : Shadow(a) = Shadow(b) => a = b
  /\ \A n \in Names : \E path \in NandPaths : n = Name(path) \/ n = Shadow(path)
BY DEF Names, NameKinds, Name, Shadow

LEMMA DataFacts ==
  /\ Original \in FileContents /\ NoData \in FileContents
  /\ \A fd \in Fds : \A c \in FileContents : \A part \in Parts :
       [c EXCEPT ![part] = fd] \in FileContents
BY DEF Original, NoData, FileContents

\* A new inode is one that no name and no handle has.
LEMMA NewInodeIsFree ==
  ASSUME NandAssumption, FreeInodes # {}
  PROVE  /\ NewInode \in Inodes /\ NewInode # 0
         /\ \A fd \in DOMAIN fileHandles : fileHandles[fd].inode # NewInode
         /\ \A n \in Names : hostFiles[n] # NewInode
<1>1. FreeInodes \in SUBSET Nat /\ FreeInodes \in SUBSET Inodes
  BY DEF FreeInodes, Inodes, NandAssumption
<1>2. NewInode \in FreeInodes
  BY <1>1, LeastNatural DEF NewInode
<1>3. NewInode \notin HeldInodes /\ NewInode \in Inodes
  BY <1>1, <1>2 DEF FreeInodes
<1>4. NewInode # 0
  BY <1>3 DEF Inodes, NandAssumption
<1> QED BY <1>3, <1>4 DEF HeldInodes

LEMMA HandleTypes ==
  ASSUME NandAssumption, NandTypeOK, NEW fd \in DOMAIN fileHandles
  PROVE  /\ fileHandles[fd] \in FileHandle /\ fd \in Fds /\ fd \in 1 .. nextFd - 1
         /\ fileHandles[fd].inode \in Inodes /\ fileHandles[fd].inode # 0
         /\ fileHandles[fd].commit \in NandPaths \cup {NoPath}
         /\ fileHandles[fd].writes \in BOOLEAN
<1>1. fileHandles[fd] \in FileHandle /\ fd \in 1 .. nextFd - 1
  BY DEF NandTypeOK
<1>2. nextFd \in 1 .. MaxFds + 1 /\ MaxFds \in Nat
  BY DEF NandTypeOK, NandAssumption
<1>3. fd \in Fds
  BY <1>1, <1>2 DEF Fds
<1>4. fileHandles[fd].inode \in Inodes /\ fileHandles[fd].commit \in NandPaths \cup {NoPath}
      /\ fileHandles[fd].writes \in BOOLEAN
  BY <1>1 DEF FileHandle
<1> QED BY <1>1, <1>3, <1>4 DEF Inodes, NandAssumption

\* What AllocateFd does to the table of handles: h is the new one.
LEMMA Allocated ==
  ASSUME NandAssumption, NandTypeOK, NEW h \in FileHandle,
         nextFd \in Fds, nextFd' = nextFd + 1,
         fileHandles' = [fd \in DOMAIN fileHandles \cup {nextFd} |->
                          IF fd # nextFd THEN fileHandles[fd] ELSE h]
  PROVE  /\ DOMAIN fileHandles' = DOMAIN fileHandles \cup {nextFd}
         /\ nextFd \notin DOMAIN fileHandles
         /\ \A fd \in DOMAIN fileHandles : fileHandles'[fd] = fileHandles[fd]
         /\ fileHandles'[nextFd] = h
         /\ DOMAIN fileHandles' \subseteq 1 .. nextFd' - 1 /\ nextFd' \in 1 .. MaxFds + 1
         /\ \A fd \in DOMAIN fileHandles' : fileHandles'[fd] \in FileHandle
<1>1. nextFd \in 1 .. MaxFds /\ nextFd' = nextFd + 1 /\ MaxFds \in Nat
  BY DEF Fds, NandAssumption
<1>2. DOMAIN fileHandles \subseteq 1 .. nextFd - 1
  BY DEF NandTypeOK
<1>3. nextFd \notin DOMAIN fileHandles
  BY <1>1, <1>2
<1>6. DOMAIN fileHandles' = DOMAIN fileHandles \cup {nextFd}
  OBVIOUS
<1>7. fileHandles'[nextFd] = h
  OBVIOUS
<1>8. \A fd \in DOMAIN fileHandles : fileHandles'[fd] = fileHandles[fd]
  BY <1>3
<1>9. \A fd \in DOMAIN fileHandles : fileHandles[fd] \in FileHandle
  BY DEF NandTypeOK
<1>10. \A fd \in DOMAIN fileHandles' : fileHandles'[fd] \in FileHandle
  BY <1>6, <1>7, <1>8, <1>9
<1>11. DOMAIN fileHandles' \subseteq 1 .. nextFd' - 1 /\ nextFd' \in 1 .. MaxFds + 1
  BY <1>1, <1>2, <1>6
<1> QED BY <1>3, <1>6, <1>7, <1>8, <1>10, <1>11

LEMMA Retired ==
  ASSUME NandTypeOK, NEW fd, RetireFd(fd)
  PROVE  /\ DOMAIN fileHandles' = DOMAIN fileHandles \ {fd}
         /\ \A f \in DOMAIN fileHandles' : fileHandles'[f] = fileHandles[f]
         /\ \A f \in DOMAIN fileHandles' : fileHandles'[f] \in FileHandle
<1>1. fileHandles' = [f \in DOMAIN fileHandles \ {fd} |-> fileHandles[f]]
  BY DEF RetireFd
<1>2. \A f \in DOMAIN fileHandles : fileHandles[f] \in FileHandle
  BY DEF NandTypeOK
<1> QED BY <1>1, <1>2

-----------------------------------------------------------------------------
\* Names and handles stay sound when names only lose inodes, none of them a shadow
\* that one session has to itself, and what is new is one handle that is sound.
LEMMA NothingNew ==
  ASSUME NandAssumption, NandInv, NEW new,
         \A n \in Names : hostFiles'[n] \in {hostFiles[n], 0},
         \A f \in DOMAIN fileHandles' :
           f # new => f \in DOMAIN fileHandles /\ fileHandles'[f] = fileHandles[f],
         \A f \in DOMAIN fileHandles' : 
           f # new /\ fileHandles[f].commit \notin sharedShadows' \cup {NoPath} =>
           hostFiles'[Shadow(fileHandles[f].commit)] = hostFiles[Shadow(fileHandles[f].commit)],
         writtenInPlace \subseteq writtenInPlace', sharedShadows \subseteq sharedShadows',
         new \in DOMAIN fileHandles' => fileHandles'[new].commit = NoPath /\ HandleSound(new)'
  PROVE  NamesApart' /\ HandlesSound'
<1>1. NamesApart'
  BY DEF NandInv, NamesApart
<1>2. CommitsApart' /\ SessionsApart'
  BY DEF NandInv, HandlesSound, CommitsApart, SessionsApart
<1>3. ASSUME NEW fd \in DOMAIN fileHandles' PROVE HandleSound(fd)'
  <2>1. CASE fd = new
    BY <1>3, <2>1
  <2>2. CASE fd # new
    <3>1. fd \in DOMAIN fileHandles /\ fileHandles'[fd] = fileHandles[fd]
      BY <1>3, <2>2
    <3>2. HandleSound(fd) /\ fileHandles[fd].inode # 0
      BY <3>1, HandleTypes DEF NandInv, HandlesSound
    <3>3. \A path \in NandPaths :
            /\ hostFiles'[Shadow(path)] \in {hostFiles[Shadow(path)], 0}
            /\ hostFiles'[Name(path)] \in {hostFiles[Name(path)], 0}
      BY NameFacts
    <3>4. fileHandles[fd].commit \notin sharedShadows' \cup {NoPath} =>
            hostFiles'[Shadow(fileHandles[fd].commit)] = hostFiles[Shadow(fileHandles[fd].commit)]
      BY <1>3, <2>2
    <3> QED BY <3>1, <3>2, <3>3, <3>4 DEF HandleSound
  <2> QED BY <2>1, <2>2
<1> QED BY <1>1, <1>2, <1>3 DEF HandlesSound

\* The files stay whole when names only lose inodes and a file that is vouched for goes on
\* holding what it held, in memory or on the disk.
LEMMA StillWhole ==
  ASSUME NandInv,
         \A n \in Names : hostFiles'[n] \in {hostFiles[n], 0},
         writtenInPlace \subseteq writtenInPlace', sharedShadows \subseteq sharedShadows',
         UNCHANGED soundContents,
         \A path \in NandPaths \ (writtenInPlace' \cup sharedShadows') : Exists(path) =>
           LET i == hostFiles[Name(path)]
           IN  {hostCache'[i], hostDisk'[i]} \subseteq {hostCache[i], hostDisk[i]}
  PROVE  NoTornFile'
<1>1. SUFFICES ASSUME NEW path \in NandPaths \ (writtenInPlace' \cup sharedShadows'),
                      Exists(path)'
               PROVE  /\ hostCache'[hostFiles'[Name(path)]] \in soundContents'[path]
                      /\ hostDisk'[hostFiles'[Name(path)]] \in soundContents'[path]
  BY DEF NoTornFile
<1>2. hostFiles'[Name(path)] = hostFiles[Name(path)] /\ Exists(path)
  BY <1>1, NameFacts DEF Exists
<1>3. path \in NandPaths \ (writtenInPlace \cup sharedShadows)
  BY <1>1
<1>4. /\ hostCache[hostFiles[Name(path)]] \in soundContents[path]
      /\ hostDisk[hostFiles[Name(path)]] \in soundContents[path]
  BY <1>2, <1>3 DEF NandInv, NoTornFile
<1> QED BY <1>1, <1>2, <1>4

\* A handle h opened in place: to read, or to write a file that is then written in place.
LEMMA OpenedInPlace ==
  ASSUME NandAssumption, NandInv, NEW path \in NandPaths, NEW h \in FileHandle, Exists(path),
         h.inode = hostFiles[Name(path)], h.commit = NoPath,
         h.writes => path \in writtenInPlace', writtenInPlace \subseteq writtenInPlace',
         nextFd \in Fds, nextFd' = nextFd + 1,
         fileHandles' = [fd \in DOMAIN fileHandles \cup {nextFd} |->
                          IF fd # nextFd THEN fileHandles[fd] ELSE h],
         hostFiles' = hostFiles \/ (ShadowFails(path) /\ ~IsHostPathOpen(path)),
         UNCHANGED <<contents, soundContents, sharedShadows>>
  PROVE  (NamesApart /\ HandlesSound /\ NoTornFile)'
<1> USE NameFacts
<1>1. NandTypeOK /\ NamesApart /\ hostFiles \in [Names -> Inodes \cup {0}]
  BY DEF NandInv, NandTypeOK
<1>2. hostFiles[Name(path)] \in Inodes /\ hostFiles[Name(path)] # 0
  BY <1>1 DEF Exists
<1> PICK new : new = nextFd
  OBVIOUS
<1>3. /\ DOMAIN fileHandles' = DOMAIN fileHandles \cup {new}
      /\ \A fd \in DOMAIN fileHandles : fileHandles'[fd] = fileHandles[fd]
      /\ fileHandles'[new] = h
  BY <1>1, Allocated
<1>4. \A n \in Names : hostFiles'[n] \in {hostFiles[n], 0}
  BY <1>1 DEF ShadowFails
<1>5. \A f \in DOMAIN fileHandles : fileHandles[f].commit # NoPath =>
        hostFiles'[Shadow(fileHandles[f].commit)] = hostFiles[Shadow(fileHandles[f].commit)]
  <2>1. SUFFICES ASSUME NEW f \in DOMAIN fileHandles, fileHandles[f].commit # NoPath,
                        ShadowFails(path), ~IsHostPathOpen(path)
                 PROVE  hostFiles'[Shadow(fileHandles[f].commit)]
                          = hostFiles[Shadow(fileHandles[f].commit)]
    OBVIOUS
  <2>2. fileHandles[f].commit # path /\ fileHandles[f].commit \in NandPaths
    BY <2>1, <1>1, HandleTypes DEF IsHostPathOpen
  <2> QED BY <2>1, <2>2, <1>1 DEF ShadowFails
<1>6. writtenInPlace \subseteq writtenInPlace' /\ sharedShadows \subseteq sharedShadows'
  OBVIOUS
<1>7. HandleSound(new)'
  <2>1. \A other \in NandPaths : hostFiles[Shadow(other)] # hostFiles[Name(path)]
    BY <1>1, <1>2 DEF NamesApart
  <2>2. \A other \in NandPaths : hostFiles[Name(other)] = hostFiles[Name(path)] => other = path
    BY <1>1, <1>2 DEF NamesApart
  <2>3. \A other \in NandPaths : hostFiles'[Shadow(other)] # hostFiles[Name(path)]
    BY <1>2, <1>4, <2>1
  <2>4. \A other \in NandPaths : hostFiles'[Name(other)] = hostFiles[Name(path)] => other = path
    BY <1>2, <1>4, <2>2
  <2> QED BY <1>3, <2>3, <2>4 DEF HandleSound
<1>8. NamesApart' /\ HandlesSound'
  BY <1>3, <1>4, <1>5, <1>6, <1>7, NothingNew
<1>9. NoTornFile'
  BY <1>4, <1>6, StillWhole DEF contents
<1> QED BY <1>8, <1>9

\* What the types say of the names and the contents.
LEMMA FileTypes ==
  ASSUME NandAssumption, NandTypeOK
  PROVE  /\ hostFiles \in [Names -> Inodes \cup {0}]
         /\ \A n \in Names : hostFiles[n] # 0 => hostFiles[n] \in Inodes
         /\ hostCache \in [Inodes -> FileContents] /\ hostDisk \in [Inodes -> FileContents]
         /\ soundContents \in [NandPaths -> SUBSET FileContents]
         /\ \A path \in NandPaths : path # NoPath
BY DEF NandTypeOK, NandAssumption

\* A shadow for a file, which is shared from then on if a session had it.
LEMMA OpenedShadow ==
  ASSUME NandAssumption, NandInv, NEW path \in NandPaths, NEW s, NEW newFlag, Exists(path),
         OpensShadow(s, path, newFlag)
  PROVE  (NamesApart /\ HandlesSound /\ NoTornFile)'
<1> USE NameFacts
<1> PICK new, i : new = nextFd /\ i = NewInode
  OBVIOUS
<1>1. NandTypeOK /\ NamesApart /\ HandlesSound /\ NoTornFile
  BY DEF NandInv
<1>2. /\ i \in Inodes /\ i # 0
      /\ \A fd \in DOMAIN fileHandles : fileHandles[fd].inode # i
      /\ \A n \in Names : hostFiles[n] # i
  BY NewInodeIsFree DEF OpensShadow
<1>3. /\ hostFiles'[Shadow(path)] = i
      /\ \A n \in Names : n # Shadow(path) => hostFiles'[n] = hostFiles[n]
  BY <1>1, FileTypes DEF OpensShadow
<1>4. \A j \in Inodes : j # i => hostCache'[j] = hostCache[j] /\ hostDisk'[j] = hostDisk[j]
  BY <1>1, FileTypes DEF OpensShadow
<1>5. /\ DOMAIN fileHandles' = DOMAIN fileHandles \cup {new} /\ new \notin DOMAIN fileHandles
      /\ \A fd \in DOMAIN fileHandles : fileHandles'[fd] = fileHandles[fd]
      /\ fileHandles'[new].inode = i /\ fileHandles'[new].commit = path
  <2>1. PICK h \in FileHandle :
          h = [inode |-> i, path |-> Shadow(path), commit |-> path, writes |-> TRUE]
    BY <1>2 DEF FileHandle
  <2>2. /\ nextFd \in Fds /\ nextFd' = nextFd + 1
        /\ fileHandles' = [fd \in DOMAIN fileHandles \cup {nextFd} |->
                            IF fd # nextFd THEN fileHandles[fd] ELSE h]
    BY <2>1 DEF AllocateFd, OpensShadow
  <2>3. /\ DOMAIN fileHandles' = DOMAIN fileHandles \cup {new} /\ new \notin DOMAIN fileHandles
        /\ \A fd \in DOMAIN fileHandles : fileHandles'[fd] = fileHandles[fd]
        /\ fileHandles'[new] = h
    BY <1>1, <2>2, Allocated
  <2> QED BY <2>1, <2>3
<1>6. /\ UNCHANGED <<soundContents, writtenInPlace>> /\ sharedShadows \subseteq sharedShadows'
      /\ \A p \in NandPaths : p # path => (p \in sharedShadows' <=> p \in sharedShadows)
      /\ path \notin sharedShadows' =>
           \A fd \in DOMAIN fileHandles : fileHandles[fd].commit # path
  BY DEF OpensShadow, TakesShadow, SessionsOf
<1>7. NamesApart'
  BY <1>1, <1>2, <1>3 DEF NamesApart
<1>8. CommitsApart' /\ SessionsApart'
  <2>1. CommitsApart'
    BY <1>1, <1>5, <1>6 DEF HandlesSound, CommitsApart
  <2>2. SessionsApart'
    BY <1>1, <1>2, <1>5 DEF HandlesSound, SessionsApart
  <2> QED BY <2>1, <2>2
<1>9. ASSUME NEW fd \in DOMAIN fileHandles' PROVE HandleSound(fd)'
  <2>1. CASE fd = new
    <3>1. fileHandles'[fd].inode = i /\ fileHandles'[fd].commit = path /\ path # NoPath
      BY <1>5, <2>1, <1>1, FileTypes
    <3>2. \A p \in NandPaths :
            hostFiles'[Name(p)] # i /\ (hostFiles'[Shadow(p)] = i => p = path)
      BY <1>2, <1>3
    <3> QED BY <3>1, <3>2, <1>3 DEF HandleSound
  <2>2. CASE fd # new
    <3>1. fd \in DOMAIN fileHandles /\ fileHandles'[fd] = fileHandles[fd]
      BY <1>5, <1>9, <2>2
    <3>2. HandleSound(fd) /\ fileHandles[fd].inode # i
      BY <3>1, <1>1, <1>2 DEF HandlesSound
    <3>3. fileHandles[fd].commit \in NandPaths \cup {NoPath}
      BY <3>1, <1>1, HandleTypes
    <3>4. \A p \in NandPaths : hostFiles'[Name(p)] = hostFiles[Name(p)]
      BY <1>3
    <3>5. \A p \in NandPaths : p # path => hostFiles'[Shadow(p)] = hostFiles[Shadow(p)]
      BY <1>3
    <3>6. \A p \in NandPaths : hostFiles'[Shadow(p)] = fileHandles[fd].inode =>
            p # path /\ hostFiles[Shadow(p)] = fileHandles[fd].inode
      BY <3>2, <3>5, <1>3
    <3>7. /\ fileHandles'[fd].commit = NoPath =>
               \A p \in NandPaths : hostFiles'[Shadow(p)] # fileHandles'[fd].inode
          /\ fileHandles'[fd].commit = NoPath /\ fileHandles'[fd].writes =>
               \A p \in NandPaths :
                 hostFiles'[Name(p)] = fileHandles'[fd].inode => p \in writtenInPlace'
      BY <3>1, <3>2, <3>4, <3>6, <1>6 DEF HandleSound
    <3>8. fileHandles'[fd].commit \notin sharedShadows' \cup {NoPath} =>
            hostFiles'[Shadow(fileHandles'[fd].commit)] = fileHandles'[fd].inode
      <4>1. ASSUME fileHandles[fd].commit \notin sharedShadows' \cup {NoPath}
            PROVE  hostFiles'[Shadow(fileHandles[fd].commit)] = fileHandles[fd].inode
        <5>1. fileHandles[fd].commit # path
          BY <4>1, <3>1, <1>6
        <5>2. hostFiles[Shadow(fileHandles[fd].commit)] = fileHandles[fd].inode
          BY <4>1, <3>2, <1>6 DEF HandleSound
        <5> QED BY <4>1, <5>1, <5>2, <3>3, <3>5
      <4> QED BY <4>1, <3>1
    <3>9. fileHandles'[fd].commit # NoPath =>
            \A p \in NandPaths :
              /\ hostFiles'[Shadow(p)] = fileHandles'[fd].inode => p = fileHandles'[fd].commit
              /\ hostFiles'[Name(p)] = fileHandles'[fd].inode => p \in sharedShadows'
      BY <3>1, <3>2, <3>4, <3>6, <1>6 DEF HandleSound
    <3> QED BY <3>7, <3>8, <3>9 DEF HandleSound
  <2> QED BY <2>1, <2>2
<1>10. NoTornFile'
  <2>1. SUFFICES ASSUME NEW p \in NandPaths \ (writtenInPlace \cup sharedShadows),
                        hostFiles[Name(p)] # 0
                 PROVE  /\ hostCache'[hostFiles[Name(p)]] \in soundContents[p]
                        /\ hostDisk'[hostFiles[Name(p)]] \in soundContents[p]
    BY <1>3, <1>6 DEF NoTornFile, Exists
  <2>2. hostFiles[Name(p)] \in Inodes /\ hostFiles[Name(p)] # i
    BY <2>1, <1>1, <1>2, FileTypes
  <2>3. /\ hostCache[hostFiles[Name(p)]] \in soundContents[p]
        /\ hostDisk[hostFiles[Name(p)]] \in soundContents[p]
    BY <2>1, <1>1 DEF NoTornFile, Exists
  <2> QED BY <2>2, <2>3, <1>4
<1> QED BY <1>7, <1>8, <1>9, <1>10 DEF HandlesSound

\* A file under a name that had none, with at most one handle on it.
LEMMA FileMade ==
  ASSUME NandAssumption, NandInv, NEW path \in NandPaths, NEW new,
         ~Exists(path), FreeInodes # {},
         hostFiles' = [hostFiles EXCEPT ![Name(path)] = NewInode],
         hostCache' = [hostCache EXCEPT ![NewInode] = NoData],
         hostDisk' = [hostDisk EXCEPT ![NewInode] = NoData],
         writtenInPlace' = writtenInPlace \cup {path},
         UNCHANGED <<soundContents, sharedShadows>>,
         \A f \in DOMAIN fileHandles' :
           f # new => f \in DOMAIN fileHandles /\ fileHandles'[f] = fileHandles[f],
         new \in DOMAIN fileHandles' =>
           fileHandles'[new].inode = NewInode /\ fileHandles'[new].commit = NoPath
  PROVE  (NamesApart /\ HandlesSound /\ NoTornFile)'
<1> USE NameFacts
<1> PICK i : i = NewInode
  OBVIOUS
<1>1. NandTypeOK /\ NamesApart /\ HandlesSound /\ NoTornFile
  BY DEF NandInv
<1>2. /\ i \in Inodes /\ i # 0
      /\ \A fd \in DOMAIN fileHandles : fileHandles[fd].inode # i
      /\ \A n \in Names : hostFiles[n] # i
  BY NewInodeIsFree
<1>3. /\ hostFiles'[Name(path)] = i
      /\ \A n \in Names : n # Name(path) => hostFiles'[n] = hostFiles[n]
  BY <1>1, FileTypes
<1>4. \A j \in Inodes : j # i => hostCache'[j] = hostCache[j] /\ hostDisk'[j] = hostDisk[j]
  BY <1>1, FileTypes
<1>5. NamesApart'
  BY <1>1, <1>2, <1>3 DEF NamesApart
<1>6. CommitsApart' /\ SessionsApart'
  BY <1>1 DEF HandlesSound, CommitsApart, SessionsApart
<1>7. /\ \A p \in NandPaths : hostFiles'[Shadow(p)] = hostFiles[Shadow(p)]
      /\ \A p \in NandPaths : p # path => hostFiles'[Name(p)] = hostFiles[Name(p)]
  BY <1>3
<1>8. ASSUME NEW fd \in DOMAIN fileHandles' PROVE HandleSound(fd)'
  <2>1. CASE fd = new
    <3>1. fileHandles'[fd].inode = i /\ fileHandles'[fd].commit = NoPath
      BY <1>8, <2>1
    <3>2. \A p \in NandPaths : hostFiles'[Shadow(p)] # i /\ (hostFiles'[Name(p)] = i => p = path)
      BY <1>2, <1>7
    <3> QED BY <3>1, <3>2 DEF HandleSound
  <2>2. CASE fd # new
    <3>1. fd \in DOMAIN fileHandles /\ fileHandles'[fd] = fileHandles[fd]
      BY <1>8, <2>2
    <3>2. HandleSound(fd) /\ fileHandles[fd].inode # i
      BY <3>1, <1>1, <1>2 DEF HandlesSound
    <3>3. fileHandles[fd].commit \in NandPaths \cup {NoPath}
      BY <3>1, <1>1, HandleTypes
    <3> QED BY <3>1, <3>2, <3>3, <1>3, <1>7 DEF HandleSound
  <2> QED BY <2>1, <2>2
<1>9. NoTornFile'
  <2>1. SUFFICES ASSUME NEW p \in NandPaths \ (writtenInPlace \cup sharedShadows), p # path,
                        hostFiles[Name(p)] # 0
                 PROVE  /\ hostCache'[hostFiles[Name(p)]] \in soundContents[p]
                        /\ hostDisk'[hostFiles[Name(p)]] \in soundContents[p]
    BY <1>7 DEF NoTornFile, Exists
  <2>2. hostFiles[Name(p)] \in Inodes /\ hostFiles[Name(p)] # i
    BY <2>1, <1>1, <1>2, FileTypes
  <2>3. /\ hostCache[hostFiles[Name(p)]] \in soundContents[p]
        /\ hostDisk[hostFiles[Name(p)]] \in soundContents[p]
    BY <2>1, <1>1 DEF NoTornFile, Exists
  <2> QED BY <2>2, <2>3, <1>4
<1> QED BY <1>5, <1>6, <1>8, <1>9 DEF HandlesSound

\* A close that puts what has the name of the shadow in place of the file.
LEMMA ShadowPublished ==
  ASSUME NandAssumption, NandInv, NEW fd \in DOMAIN fileHandles,
         fileHandles[fd].commit # NoPath, RetireFd(fd), PublishesShadow(fd),
         UNCHANGED <<hostCache, writtenInPlace>>
  PROVE  /\ (NamesApart /\ HandlesSound /\ NoTornFile)'
         /\ fileHandles[fd].commit \notin sharedShadows =>
              hostFiles'[Name(fileHandles[fd].commit)] = fileHandles[fd].inode
         /\ hostDisk'[fileHandles[fd].inode] = hostCache[fileHandles[fd].inode]
<1> USE NameFacts
<1>1. NandTypeOK /\ NamesApart /\ HandlesSound /\ NoTornFile
  BY DEF NandInv
<1>2. PICK c \in NandPaths, i \in Inodes, j \in Inodes :
        /\ c = fileHandles[fd].commit /\ i = fileHandles[fd].inode /\ i # 0
        /\ j = hostFiles[Shadow(c)] /\ j # 0
  BY <1>1, HandleTypes, FileTypes DEF PublishesShadow
<1>3. /\ hostFiles' = [hostFiles EXCEPT ![Name(c)] = j, ![Shadow(c)] = 0]
      /\ hostDisk' = [hostDisk EXCEPT ![i] = hostCache[i]]
      /\ soundContents' = [soundContents EXCEPT ![c] = {hostCache[i]}]
      /\ sharedShadows' = IF j = i /\ SessionsOf(c) = {fd} THEN sharedShadows \ {c}
                          ELSE sharedShadows
  BY <1>2 DEF PublishesShadow, ShadowsAfter
<1>4. c \notin sharedShadows => j = i
  BY <1>1, <1>2 DEF HandlesSound, HandleSound
<1>5. /\ hostFiles'[Name(c)] = j /\ hostFiles'[Shadow(c)] = 0
      /\ \A n \in Names : n # Name(c) /\ n # Shadow(c) => hostFiles'[n] = hostFiles[n]
  BY <1>1, <1>3, FileTypes
<1>6. \A n \in Names : n # Shadow(c) => hostFiles[n] # j
  BY <1>1, <1>2 DEF NamesApart
<1>7. hostDisk'[i] = hostCache[i] /\ \A k \in Inodes : k # i => hostDisk'[k] = hostDisk[k]
  BY <1>1, <1>3, FileTypes
<1>8. NamesApart'
  BY <1>1, <1>2, <1>5, <1>6 DEF NamesApart
<1>9. /\ \A f \in DOMAIN fileHandles' : f \in DOMAIN fileHandles /\ f # fd
      /\ \A f \in DOMAIN fileHandles' : fileHandles'[f] = fileHandles[f]
  BY <1>1, Retired
\* What is not shared afterwards has no other session, and what was put in place is this one.
<1>10. c \notin sharedShadows' =>
         j = i /\ \A f \in DOMAIN fileHandles' : fileHandles[f].commit # c
  <2>1. CASE c \in sharedShadows
    BY <2>1, <1>3, <1>9 DEF SessionsOf
  <2>2. CASE c \notin sharedShadows
    BY <2>2, <1>1, <1>2, <1>4, <1>9, FileTypes DEF HandlesSound, CommitsApart
  <2> QED BY <2>1, <2>2
<1>11. /\ \A p \in NandPaths : hostFiles'[Shadow(p)] \in {hostFiles[Shadow(p)], 0}
       /\ \A p \in NandPaths : p # c => /\ hostFiles'[Shadow(p)] = hostFiles[Shadow(p)]
                                        /\ hostFiles'[Name(p)] = hostFiles[Name(p)]
                                        /\ (p \in sharedShadows' <=> p \in sharedShadows)
  BY <1>3, <1>5
<1>12. CommitsApart' /\ SessionsApart'
  <2>1. SessionsApart'
    BY <1>1, <1>9 DEF HandlesSound, SessionsApart
  <2>2. ASSUME NEW f \in DOMAIN fileHandles', NEW g \in DOMAIN fileHandles', f # g,
               fileHandles[f].commit \notin sharedShadows' \cup {NoPath}
        PROVE  fileHandles[f].commit # fileHandles[g].commit
    <3>1. f \in DOMAIN fileHandles /\ g \in DOMAIN fileHandles
      BY <1>9
    <3>2. fileHandles[f].commit \in NandPaths
      BY <3>1, <2>2, <1>1, HandleTypes
    <3>3. CASE fileHandles[f].commit = c
      BY <3>3, <2>2, <1>10
    <3>4. CASE fileHandles[f].commit # c
      BY <3>1, <3>2, <3>4, <2>2, <1>1, <1>11 DEF HandlesSound, CommitsApart
    <3> QED BY <3>3, <3>4
  <2> QED BY <2>1, <2>2, <1>9 DEF CommitsApart
<1>13. ASSUME NEW f \in DOMAIN fileHandles' PROVE HandleSound(f)'
  <2>1. f \in DOMAIN fileHandles /\ f # fd /\ fileHandles'[f] = fileHandles[f]
    BY <1>9, <1>13
  <2>2. HandleSound(f) /\ fileHandles[f].inode # 0
        /\ fileHandles[f].commit \in NandPaths \cup {NoPath}
    BY <2>1, <1>1, HandleTypes DEF HandlesSound
  <2>3. CASE fileHandles[f].commit = NoPath
    <3>1. fileHandles[f].inode # j
      BY <2>2, <2>3, <1>2 DEF HandleSound
    <3> QED BY <2>1, <2>2, <2>3, <3>1, <1>5, <1>11 DEF HandleSound
  <2>4. CASE fileHandles[f].commit # NoPath
    <3>1. fileHandles[f].inode # i
      BY <2>1, <2>4, <1>1, <1>2 DEF HandlesSound, SessionsApart
    <3>2. \A p \in NandPaths :
            /\ hostFiles'[Shadow(p)] = fileHandles[f].inode => p = fileHandles[f].commit
            /\ hostFiles'[Name(p)] = fileHandles[f].inode => p \in sharedShadows'
      <4>1. ASSUME NEW p \in NandPaths, hostFiles'[Name(p)] = fileHandles[f].inode
            PROVE  p \in sharedShadows'
        <5>1. CASE p = c
          BY <5>1, <4>1, <3>1, <1>5, <1>10
        <5>2. CASE p # c
          BY <5>2, <4>1, <2>2, <2>4, <1>11 DEF HandleSound
        <5> QED BY <5>1, <5>2
      <4>2. ASSUME NEW p \in NandPaths, hostFiles'[Shadow(p)] = fileHandles[f].inode
            PROVE  p = fileHandles[f].commit
        BY <4>2, <2>2, <2>4, <1>11 DEF HandleSound
      <4> QED BY <4>1, <4>2
    <3>3. fileHandles[f].commit \notin sharedShadows' =>
            hostFiles'[Shadow(fileHandles[f].commit)] = fileHandles[f].inode
      BY <2>2, <2>4, <1>10, <1>11, <1>13 DEF HandleSound
    <3> QED BY <2>1, <2>4, <3>2, <3>3 DEF HandleSound
  <2> QED BY <2>3, <2>4
<1>14. NoTornFile'
  <2>1. SUFFICES ASSUME NEW p \in NandPaths \ (writtenInPlace \cup sharedShadows'),
                        hostFiles'[Name(p)] # 0
                 PROVE  /\ hostCache[hostFiles'[Name(p)]] \in soundContents'[p]
                        /\ hostDisk'[hostFiles'[Name(p)]] \in soundContents'[p]
    BY DEF NoTornFile, Exists
  <2>2. CASE p = c
    <3>1. soundContents'[p] = {hostCache[i]}
      BY <2>2, <1>1, <1>3, FileTypes
    <3> QED BY <3>1, <2>1, <2>2, <1>5, <1>7, <1>10
  <2>3. CASE p # c
    <3>1. soundContents'[p] = soundContents[p]
      BY <2>3, <1>1, <1>3, FileTypes
    <3>2. hostFiles'[Name(p)] = hostFiles[Name(p)] /\ p \notin sharedShadows
      BY <2>1, <2>3, <1>11
    <3>3. hostFiles[Name(p)] \in Inodes /\ hostFiles[Name(p)] # i
      BY <2>1, <3>2, <1>1, <1>2, FileTypes DEF HandlesSound, HandleSound
    <3>4. /\ hostCache[hostFiles[Name(p)]] \in soundContents[p]
          /\ hostDisk[hostFiles[Name(p)]] \in soundContents[p]
      BY <2>1, <3>2, <1>1 DEF NoTornFile, Exists
    <3> QED BY <3>1, <3>2, <3>3, <3>4, <1>7
  <2> QED BY <2>2, <2>3
<1> QED BY <1>2, <1>4, <1>5, <1>7, <1>8, <1>12, <1>13, <1>14 DEF HandlesSound

\* A file under a new name, which has the history of the old one.
LEMMA FileRenamed ==
  ASSUME NandAssumption, NandInv, NEW from \in NandPaths, NEW to \in NandPaths,
         RenameFile(from, to)
  PROVE  (NamesApart /\ HandlesSound /\ NoTornFile)'
<1> USE NameFacts
<1>1. NandTypeOK /\ NamesApart /\ HandlesSound /\ NoTornFile
  BY DEF NandInv
<1>2. from # to /\ hostFiles[Name(from)] # 0 /\ UNCHANGED <<hostCache, hostDisk, fileHandles>>
  BY DEF RenameFile, Exists, contents
<1>3. /\ hostFiles'[Name(to)] = hostFiles[Name(from)] /\ hostFiles'[Name(from)] = 0
      /\ \A n \in Names : n # Name(to) /\ n # Name(from) => hostFiles'[n] = hostFiles[n]
  BY <1>1, FileTypes DEF RenameFile, Exists
<1>4. /\ soundContents'[to] = soundContents[from]
      /\ \A p \in NandPaths : p # to => soundContents'[p] = soundContents[p]
  BY <1>1, FileTypes DEF RenameFile
<1>5. /\ to \in writtenInPlace' <=> from \in writtenInPlace
      /\ \A p \in NandPaths : p # to => (p \in writtenInPlace' <=> p \in writtenInPlace)
  BY DEF RenameFile
<1>5a. /\ from \in sharedShadows => to \in sharedShadows'
       /\ sharedShadows \subseteq sharedShadows'
  BY DEF RenameFile
<1>6. NamesApart'
  BY <1>1, <1>2, <1>3 DEF NamesApart
<1>7. ASSUME NEW fd \in DOMAIN fileHandles PROVE HandleSound(fd)'
  <2>1. HandleSound(fd) /\ fileHandles[fd].inode # 0
        /\ fileHandles[fd].commit \in NandPaths \cup {NoPath}
    BY <1>1, <1>7, HandleTypes DEF HandlesSound
  <2>2. \A p \in NandPaths : hostFiles'[Shadow(p)] = hostFiles[Shadow(p)]
    BY <1>3
  <2>3. \A p \in NandPaths : p # to /\ p # from => hostFiles'[Name(p)] = hostFiles[Name(p)]
    BY <1>3
  <2> QED BY <2>1, <2>2, <2>3, <1>2, <1>3, <1>5, <1>5a DEF HandleSound
<1>8. NoTornFile'
  BY <1>1, <1>2, <1>3, <1>4, <1>5, <1>5a DEF NoTornFile, Exists
<1>9. CommitsApart' /\ SessionsApart'
  BY <1>1, <1>2, <1>5a DEF HandlesSound, CommitsApart, SessionsApart
<1> QED BY <1>2, <1>6, <1>7, <1>8, <1>9 DEF HandlesSound

-----------------------------------------------------------------------------
\* The types, in two parts: files and handles.
FilesTyped ==
  /\ hostFiles \in [Names -> Inodes \cup {0}]
  /\ hostCache \in [Inodes -> FileContents] /\ hostDisk \in [Inodes -> FileContents]
  /\ soundContents \in [NandPaths -> SUBSET FileContents]
  /\ writtenInPlace \subseteq NandPaths /\ sharedShadows \subseteq NandPaths
HandlesTyped ==
  /\ DOMAIN fileHandles \subseteq 1 .. nextFd - 1 /\ nextFd \in 1 .. MaxFds + 1
  /\ \A fd \in DOMAIN fileHandles : fileHandles[fd] \in FileHandle
  /\ fileInfo \in [InfoSlots -> [flag : InfoFlags, fd : Fds \cup {0}]]

LEMMA TypedApart == NandTypeOK <=> FilesTyped /\ HandlesTyped
BY DEF NandTypeOK, FilesTyped, HandlesTyped

LEMMA HandleAdded ==
  ASSUME NandAssumption, NandTypeOK, NEW h \in FileHandle,
         nextFd \in Fds, nextFd' = nextFd + 1,
         fileHandles' = [fd \in DOMAIN fileHandles \cup {nextFd} |->
                          IF fd # nextFd THEN fileHandles[fd] ELSE h],
         UNCHANGED fileInfo
           \/ \E s \in InfoSlots, newFlag \in {"open", "safeOpen"} : GuestSees(s, newFlag)
  PROVE  HandlesTyped'
<1>1. /\ DOMAIN fileHandles' \subseteq 1 .. nextFd' - 1 /\ nextFd' \in 1 .. MaxFds + 1
      /\ \A fd \in DOMAIN fileHandles' : fileHandles'[fd] \in FileHandle
  BY Allocated
<1>2. fileInfo' \in [InfoSlots -> [flag : InfoFlags, fd : Fds \cup {0}]]
  BY DEF NandTypeOK, GuestSees, InfoFlags
<1> QED BY <1>1, <1>2 DEF HandlesTyped

\* A file that is made, emptied, written, named anew or published is of the types.
LEMMA FilesStayTyped ==
  ASSUME NandAssumption, NandTypeOK,
         hostFiles' \in [Names -> Inodes \cup {0}],
         \/ UNCHANGED contents
         \/ \E i \in Inodes : /\ hostCache' = [hostCache EXCEPT ![i] = NoData]
                              /\ hostDisk' \in {hostDisk, [hostDisk EXCEPT ![i] = NoData]}
         \/ \E i \in Inodes : /\ hostDisk' = [hostDisk EXCEPT ![i] = hostCache[i]]
                              /\ UNCHANGED hostCache,
         \/ UNCHANGED soundContents
         \/ \E path \in NandPaths, i \in Inodes :
              soundContents' = [soundContents EXCEPT ![path] = {hostCache[i]}]
         \/ \E from, to \in NandPaths :
              soundContents' = [soundContents EXCEPT ![to] = soundContents[from]],
         writtenInPlace' \subseteq NandPaths, sharedShadows' \subseteq NandPaths
  PROVE  FilesTyped'
<1>1. /\ hostCache \in [Inodes -> FileContents] /\ hostDisk \in [Inodes -> FileContents]
      /\ soundContents \in [NandPaths -> SUBSET FileContents]
  BY FileTypes
<1>2. hostCache' \in [Inodes -> FileContents] /\ hostDisk' \in [Inodes -> FileContents]
  BY <1>1, DataFacts DEF contents
<1>3. soundContents' \in [NandPaths -> SUBSET FileContents]
  BY <1>1
<1> QED BY <1>2, <1>3 DEF FilesTyped

LEMMA NandTypesStart ==
  ASSUME NandAssumption, NandInit
  PROVE  NandTypeOK
<1>1. PICK inode \in [Existing -> 1 .. Cardinality(Existing)] :
        hostFiles = [n \in Names |->
          IF n[2] = "file" /\ n[1] \in Existing THEN inode[n[1]] ELSE 0]
  BY DEF NandInit
<1>2. 1 .. Cardinality(Existing) \subseteq Inodes
  BY DEF NandAssumption, Inodes
<1>3. hostFiles \in [Names -> Inodes \cup {0}]
  BY <1>1, <1>2
<1>4. FilesTyped
  BY <1>3, DataFacts DEF NandInit, FilesTyped
<1>5. HandlesTyped
  BY DEF NandInit, HandlesTyped, NoHandles, NoSessions, InfoFlags, NandAssumption
<1> QED BY <1>4, <1>5, TypedApart

LEMMA NandTypesStep ==
  ASSUME NandAssumption, NandTypeOK, [NandNext]_nandVars
  PROVE  NandTypeOK'
<1> USE NameFacts
<1>0. NandTypeOK' <=> FilesTyped' /\ HandlesTyped'
  BY DEF NandTypeOK, FilesTyped, HandlesTyped
<1>1. /\ FilesTyped /\ HandlesTyped
      /\ hostFiles \in [Names -> Inodes \cup {0}]
      /\ \A n \in Names : hostFiles[n] # 0 => hostFiles[n] \in Inodes
      /\ writtenInPlace \subseteq NandPaths /\ sharedShadows \subseteq NandPaths
  BY TypedApart, FileTypes DEF FilesTyped
<1>2. UNCHANGED <<hostFiles, contents, history>> => FilesTyped'
  BY <1>1 DEF FilesTyped, contents, history
<1>3. UNCHANGED <<fileHandles, nextFd, fileInfo>> => HandlesTyped'
  BY <1>1 DEF HandlesTyped
<1>4. ASSUME NEW s \in InfoSlots, NEW path \in NandPaths, NEW newFlag \in {"open", "safeOpen"},
             OpensInPlace(s, path, TRUE, newFlag) \/ OpensInPlace(s, path, FALSE, newFlag),
             UNCHANGED hostFiles \/ ShadowFails(path)
      PROVE  NandTypeOK'
  <2>1. hostFiles' \in [Names -> Inodes \cup {0}]
    BY <1>1, <1>4 DEF ShadowFails
  <2>2. FilesTyped'
    BY <1>1, <1>4, <2>1, FilesStayTyped DEF OpensInPlace
  <2>3. \A w \in BOOLEAN :
          [inode |-> hostFiles[Name(path)], path |-> Name(path), commit |-> NoPath,
           writes |-> w] \in FileHandle
    BY <1>1, <1>4 DEF FileHandle, OpensInPlace, Exists
  <2>4. PICK h \in FileHandle :
          /\ nextFd \in Fds /\ nextFd' = nextFd + 1 /\ GuestSees(s, newFlag)
          /\ fileHandles' = [fd \in DOMAIN fileHandles \cup {nextFd} |->
                              IF fd # nextFd THEN fileHandles[fd] ELSE h]
    BY <1>4, <2>3 DEF OpensInPlace, AllocateFd
  <2>5. HandlesTyped'
    BY <2>4, HandleAdded
  <2> QED BY <2>2, <2>5, <1>0
<1>5. ASSUME NEW s \in InfoSlots, NEW path \in NandPaths, NEW newFlag \in {"open", "safeOpen"},
             Exists(path), OpensShadow(s, path, newFlag)
      PROVE  NandTypeOK'
  <2>1. NewInode \in Inodes
    BY <1>5, NewInodeIsFree DEF OpensShadow
  <2>2. hostFiles' \in [Names -> Inodes \cup {0}]
    BY <1>1, <1>5, <2>1 DEF OpensShadow
  <2>3. hostCache[hostFiles[Name(path)]] \in FileContents
    BY <1>1, <1>5 DEF Exists, FilesTyped
  <2>4. FilesTyped'
    BY <1>1, <1>5, <2>1, <2>2, <2>3, DataFacts
       DEF OpensShadow, TakesShadow, FilesTyped
  <2>5. PICK h \in FileHandle :
          h = [inode |-> NewInode, path |-> Shadow(path), commit |-> path, writes |-> TRUE]
    BY <2>1 DEF FileHandle
  <2>6. /\ nextFd \in Fds /\ nextFd' = nextFd + 1 /\ GuestSees(s, newFlag)
        /\ fileHandles' = [fd \in DOMAIN fileHandles \cup {nextFd} |->
                            IF fd # nextFd THEN fileHandles[fd] ELSE h]
    BY <1>5, <2>5 DEF OpensShadow, AllocateFd
  <2>7. HandlesTyped'
    BY <2>6, HandleAdded
  <2> QED BY <2>4, <2>7, <1>0
<1>6. ASSUME NEW s \in InfoSlots, NEW path \in NandPaths, Creates(s, path)
      PROVE  NandTypeOK'
  <2>1. NewInode \in Inodes
    BY <1>6, NewInodeIsFree DEF Creates
  <2>2. hostFiles' \in [Names -> Inodes \cup {0}]
    BY <1>1, <1>6, <2>1 DEF Creates
  <2>3. FilesTyped'
    BY <1>1, <1>6, <2>1, <2>2, FilesStayTyped DEF Creates
  <2>4. PICK h \in FileHandle :
          h = [inode |-> NewInode, path |-> Name(path), commit |-> NoPath, writes |-> TRUE]
    BY <2>1 DEF FileHandle
  <2>5. HandlesTyped'
    BY <1>6, <2>4, HandleAdded DEF Creates, AllocateFd
  <2> QED BY <2>3, <2>5, <1>0
<1>7. ASSUME NEW s \in InfoSlots, NEW path \in NandPaths, NANDOpenRead(s, path)
      PROVE  NandTypeOK'
  <2>1. PICK newFlag \in {"open", "safeOpen"} : OpensInPlace(s, path, FALSE, newFlag)
    BY <1>7 DEF NANDOpenRead
  <2>2. OpensInPlace(s, path, TRUE, newFlag) \/ OpensInPlace(s, path, FALSE, newFlag)
    BY <2>1
  <2>3. UNCHANGED hostFiles \/ ShadowFails(path)
    BY <1>7 DEF NANDOpenRead
  <2> QED BY <1>4, <2>2, <2>3
<1>8. ASSUME NEW s \in InfoSlots, NEW path \in NandPaths, NANDOpenWrite(s, path)
      PROVE  NandTypeOK'
  BY <1>4, <1>5, <1>6, <1>8 DEF NANDOpenWrite
<1>9. ASSUME NEW s \in InfoSlots, NEW path \in NandPaths,
             NANDSafeOpen(s, path) \/ NANDSafeOpenFails(s, path)
      PROVE  NandTypeOK'
  <2>1. CASE NANDSafeOpen(s, path)
    BY <1>5, <2>1 DEF NANDSafeOpen
  <2>2. CASE NANDSafeOpenFails(s, path)
    <3>1. hostFiles' \in [Names -> Inodes \cup {0}]
      BY <1>1, <2>2 DEF NANDSafeOpenFails, ShadowFails
    <3>2. FilesTyped'
      BY <1>1, <2>2, <3>1, FilesStayTyped DEF NANDSafeOpenFails, TakesShadow
    <3> QED BY <1>3, <2>2, <3>2, <1>0 DEF NANDSafeOpenFails
  <2> QED BY <1>9, <2>1, <2>2
<1>10. ASSUME NEW path \in NandPaths, IOS_Open(path)
       PROVE  NandTypeOK'
  <2>1. FilesTyped'
    BY <1>1, <1>10, FilesStayTyped DEF IOS_Open
  <2>2. PICK h \in FileHandle :
          h = [inode |-> hostFiles[Name(path)], path |-> Name(path), commit |-> NoPath,
               writes |-> TRUE]
    BY <1>1, <1>10 DEF FileHandle, IOS_Open, Exists
  <2>3. HandlesTyped'
    BY <1>10, <2>2, HandleAdded DEF IOS_Open, AllocateFd
  <2> QED BY <2>1, <2>3, <1>0
<1>11. ASSUME NEW path \in NandPaths,
              NANDCreate(path) \/ ISFS_CreateFile(path) \/ NANDDelete(path)
       PROVE  NandTypeOK'
  <2>1. CASE NANDCreate(path)
    <3>1. NewInode \in Inodes
      BY <2>1, NewInodeIsFree DEF NANDCreate
    <3>2. hostFiles' \in [Names -> Inodes \cup {0}]
      BY <1>1, <2>1, <3>1 DEF NANDCreate
    <3>3. FilesTyped'
      BY <1>1, <2>1, <3>1, <3>2, FilesStayTyped DEF NANDCreate
    <3> QED BY <1>3, <2>1, <3>3, <1>0 DEF NANDCreate
  <2>2. CASE ISFS_CreateFile(path)
    <3>1. hostFiles[Name(path)] \in Inodes
      BY <1>1, <2>2 DEF ISFS_CreateFile, Exists
    <3>2. FilesTyped'
      BY <1>1, <2>2, <3>1, FilesStayTyped DEF ISFS_CreateFile
    <3> QED BY <1>3, <2>2, <3>2, <1>0 DEF ISFS_CreateFile
  <2>3. CASE NANDDelete(path)
    <3>1. hostFiles' \in [Names -> Inodes \cup {0}]
      BY <1>1, <2>3 DEF NANDDelete
    <3>2. FilesTyped'
      BY <1>1, <2>3, <3>1, FilesStayTyped DEF NANDDelete, history
    <3> QED BY <1>3, <2>3, <3>2, <1>0 DEF NANDDelete
  <2> QED BY <1>11, <2>1, <2>2, <2>3
<1>12. ASSUME NEW fd \in DOMAIN fileHandles, RetireFd(fd), UNCHANGED nextFd,
              \/ UNCHANGED fileInfo
              \/ \E s \in InfoSlots, newFlag \in InfoFlags : FlagOnSuccess(s, newFlag)
       PROVE  HandlesTyped'
  <2>1. /\ DOMAIN fileHandles' \subseteq DOMAIN fileHandles
        /\ \A f \in DOMAIN fileHandles' : fileHandles'[f] \in FileHandle
    BY <1>12, Retired
  <2>2. fileInfo' \in [InfoSlots -> [flag : InfoFlags, fd : Fds \cup {0}]]
    BY <1>1, <1>12 DEF HandlesTyped, FlagOnSuccess
  <2> QED BY <1>1, <1>12, <2>1, <2>2 DEF HandlesTyped
<1>13. ASSUME NEW fd \in DOMAIN fileHandles, IOS_Close(fd)
       PROVE  NandTypeOK'
  BY <1>2, <1>12, <1>13, <1>0 DEF IOS_Close
<1>14. ASSUME NEW fd \in DOMAIN fileHandles, NEW part \in Parts, WriteFile(fd, part)
       PROVE  NandTypeOK'
  <2>1. fileHandles[fd].inode \in Inodes /\ fd \in Fds
    BY HandleTypes
  <2>2. \A i \in Inodes : hostCache[i] \in FileContents
    BY <1>1 DEF FilesTyped
  <2>3. hostCache' \in [Inodes -> FileContents]
    BY <1>1, <1>14, <2>1, <2>2, DataFacts DEF WriteFile, FilesTyped
  <2>4. FilesTyped'
    BY <1>1, <1>14, <2>3 DEF WriteFile, FilesTyped, history
  <2> QED BY <1>3, <1>14, <2>4, <1>0 DEF WriteFile
<1>15. ASSUME NEW s \in InfoSlots, NEW newFlag \in InfoFlags, HasHandle(s), CommitAndCloseFd(s, newFlag)
       PROVE  NandTypeOK'
  <2> PICK fd \in DOMAIN fileHandles : fd = fileInfo[s].fd
    BY <1>15 DEF HasHandle
  <2>1. HandlesTyped'
    BY <1>12, <1>15 DEF CommitAndCloseFd
  <2>2. fileHandles[fd].inode \in Inodes
        /\ (fileHandles[fd].commit # NoPath => fileHandles[fd].commit \in NandPaths)
    BY HandleTypes
  <2>3. CASE fileHandles[fd].commit # NoPath /\ PublishesShadow(fd)
    <3>1. hostFiles' \in [Names -> Inodes \cup {0}]
      BY <1>1, <2>2, <2>3 DEF PublishesShadow
    <3>2. sharedShadows' \subseteq NandPaths
      BY <1>1, <2>3 DEF PublishesShadow, ShadowsAfter, FilesTyped
    <3>3. /\ soundContents' = [soundContents EXCEPT
                 ![fileHandles[fd].commit] = {hostCache[fileHandles[fd].inode]}]
          /\ hostDisk' = [hostDisk EXCEPT
                 ![fileHandles[fd].inode] = hostCache[fileHandles[fd].inode]]
          /\ UNCHANGED <<hostCache, writtenInPlace>>
      BY <1>15, <2>3 DEF PublishesShadow, CommitAndCloseFd
    <3>4. FilesTyped'
      BY <1>1, <2>2, <2>3, <3>1, <3>2, <3>3, FilesStayTyped
    <3> QED BY <2>1, <3>4, <1>0
  <2>4. CASE fileHandles[fd].commit # NoPath /\ DropsShadow(fd)
    <3>1. hostFiles' \in [Names -> Inodes \cup {0}]
      BY <1>1, <2>2, <2>4 DEF DropsShadow
    <3>2. FilesTyped'
      BY <1>1, <1>15, <2>2, <2>4, <3>1, FilesStayTyped DEF DropsShadow, CommitAndCloseFd, contents
    <3> QED BY <2>1, <3>2, <1>0
  <2>5. CASE FlushesFile(fd)
    <3>1. FilesTyped'
      BY <1>1, <1>15, <2>2, <2>5, FilesStayTyped DEF FlushesFile, CommitAndCloseFd
    <3> QED BY <2>1, <3>1, <1>0
  <2>6. CASE UNCHANGED <<hostFiles, hostDisk, soundContents, sharedShadows>>
    <3>1. FilesTyped'
      BY <1>1, <1>15, <2>6 DEF CommitAndCloseFd, FilesTyped
    <3> QED BY <2>1, <3>1, <1>0
  <2> QED BY <1>15, <2>3, <2>4, <2>5, <2>6 DEF CommitAndCloseFd
<1>16. ASSUME NEW s \in InfoSlots, NANDClose(s)
       PROVE  NandTypeOK'
  <2>1. CASE HasHandle(s)
    BY <1>15, <1>16, <2>1 DEF NANDClose, InfoFlags
  <2>2. CASE ~HasHandle(s)
    <3>1. fileInfo' \in [InfoSlots -> [flag : InfoFlags, fd : Fds \cup {0}]]
      BY <1>1, <1>16, <2>2 DEF NANDClose, FlagOnSuccess, HandlesTyped, InfoFlags
    <3>2. HandlesTyped'
      BY <1>1, <1>16, <2>2, <3>1 DEF NANDClose, HandlesTyped
    <3> QED BY <1>2, <1>16, <2>2, <3>2, <1>0 DEF NANDClose
  <2> QED BY <2>1, <2>2
<1>17. ASSUME NEW s \in InfoSlots, NANDSafeClose(s)
       PROVE  NandTypeOK'
  BY <1>15, <1>16, <1>17 DEF NANDSafeClose, InfoFlags
<1>18. ASSUME NEW from \in NandPaths, NEW to \in NandPaths, RenameFile(from, to)
       PROVE  NandTypeOK'
  <2>1. hostFiles' \in [Names -> Inodes \cup {0}]
    BY <1>1, <1>18 DEF RenameFile
  <2>2. FilesTyped'
    BY <1>1, <1>18, <2>1, FilesStayTyped DEF RenameFile
  <2> QED BY <1>3, <1>18, <2>2, <1>0 DEF RenameFile
<1>19. CASE HostStops
  <2>1. PICK lost : hostCache' = [i \in Inodes |-> IF i \in lost THEN hostDisk[i] ELSE hostCache[i]]
    BY <1>19 DEF HostStops
  <2>2. FilesTyped'
    BY <1>1, <1>19, <2>1 DEF HostStops, FilesTyped, history
  <2>3. HandlesTyped'
    BY <1>1, <1>19 DEF HostStops, HandlesTyped, NoHandles, NoSessions, InfoFlags
  <2> QED BY <2>2, <2>3, <1>0
<1>20. CASE UNCHANGED nandVars
  BY <1>2, <1>3, <1>20, <1>0 DEF nandVars
<1> QED BY <1>7, <1>8, <1>9, <1>10, <1>11, <1>13, <1>14, <1>16, <1>17, <1>18, <1>19, <1>20
        DEF NandNext

-----------------------------------------------------------------------------
\* The invariant of the files.
LEMMA NandStart ==
  ASSUME NandAssumption, NandInit
  PROVE  NandInv
<1>1. PICK inode \in [Existing -> 1 .. Cardinality(Existing)] :
        /\ \A e, f \in Existing : e # f => inode[e] # inode[f]
        /\ hostFiles = [n \in Names |->
             IF n[2] = "file" /\ n[1] \in Existing THEN inode[n[1]] ELSE 0]
  BY DEF NandInit
<1>2. NamesApart
  BY <1>1 DEF NamesApart, Names, NameKinds
<1>3. HandlesSound
  BY DEF NandInit, NoHandles, HandlesSound, CommitsApart, SessionsApart
<1>4. NoTornFile
  <2>1. \A path \in NandPaths : Name(path) \in Names
    BY NameFacts
  <2>2. \A path \in NandPaths : hostFiles[Name(path)] # 0 => hostFiles[Name(path)] \in Inodes
    BY <2>1, NandTypesStart, FileTypes
  <2> QED BY <2>2 DEF NoTornFile, NandInit, Exists
<1> QED BY <1>2, <1>3, <1>4, NandTypesStart DEF NandInv

\* A close, whatever comes of it.
LEMMA FileClosed ==
  ASSUME NandAssumption, NandInv, NEW s \in InfoSlots, NEW newFlag, HasHandle(s),
         CommitAndCloseFd(s, newFlag)
  PROVE  (NamesApart /\ HandlesSound /\ NoTornFile)'
<1> USE NameFacts
<1> PICK fd \in DOMAIN fileHandles : fd = fileInfo[s].fd
  BY DEF HasHandle
<1>1. NandTypeOK /\ NamesApart /\ HandlesSound /\ RetireFd(fd)
      /\ UNCHANGED <<hostCache, writtenInPlace>>
  BY DEF NandInv, CommitAndCloseFd
<1>2. HandleSound(fd)
  BY <1>1 DEF HandlesSound
<1>3. PICK i \in Inodes : i = fileHandles[fd].inode /\ i # 0
  BY <1>1, HandleTypes
<1>4. /\ \A f \in DOMAIN fileHandles' : f \in DOMAIN fileHandles /\ f # fd
      /\ \A f \in DOMAIN fileHandles' : fileHandles'[f] = fileHandles[f]
  BY <1>1, Retired
<1>5. CASE fileHandles[fd].commit # NoPath /\ PublishesShadow(fd)
  BY <1>1, <1>5, ShadowPublished
<1>6. CASE fileHandles[fd].commit # NoPath /\ DropsShadow(fd)
  <2>1. PICK c \in NandPaths : c = fileHandles[fd].commit
    BY <1>1, <1>6, HandleTypes
  <2>3. \A path \in NandPaths : hostFiles[Name(path)] = i => path \in sharedShadows
    BY <1>2, <1>3, <1>6 DEF HandleSound
  <2>4. hostFiles' = [hostFiles EXCEPT ![Shadow(c)] = 0]
        /\ UNCHANGED <<soundContents, sharedShadows>>
    BY <1>6, <2>1 DEF DropsShadow
  <2>5. \A n \in Names : hostFiles'[n] \in {hostFiles[n], 0}
    BY <1>1, <2>4, FileTypes
  <2>6. \A j \in Inodes : j # i => hostDisk'[j] = hostDisk[j]
    BY <1>1, <1>3, <1>6, FileTypes DEF DropsShadow
  <2>7. \A path \in NandPaths \ sharedShadows : Exists(path) =>
          hostFiles[Name(path)] \in Inodes /\ hostFiles[Name(path)] # i
    BY <1>1, <2>3, FileTypes DEF Exists
  <2>8. NoTornFile'
    BY <1>1, <2>4, <2>5, <2>6, <2>7, StillWhole
  <2>9. \A f \in DOMAIN fileHandles' : fileHandles[f].commit \notin sharedShadows \cup {NoPath} =>
          hostFiles'[Shadow(fileHandles[f].commit)] = hostFiles[Shadow(fileHandles[f].commit)]
    <3>1. SUFFICES ASSUME NEW f \in DOMAIN fileHandles',
                          fileHandles[f].commit \notin sharedShadows \cup {NoPath}
                   PROVE  hostFiles'[Shadow(fileHandles[f].commit)]
                            = hostFiles[Shadow(fileHandles[f].commit)]
      OBVIOUS
    <3>2. fileHandles[f].commit \in NandPaths /\ fileHandles[f].commit # c
      BY <1>1, <1>4, <1>6, <2>1, <3>1, HandleTypes DEF HandlesSound, CommitsApart
    <3> QED BY <1>1, <2>4, <3>2, FileTypes
  <2> QED BY <1>1, <1>4, <2>4, <2>5, <2>8, <2>9, NothingNew
<1>7. CASE fileHandles[fd].commit = NoPath /\ fileHandles[fd].writes /\ FlushesFile(fd)
  <2>1. hostFiles' = hostFiles /\ UNCHANGED <<soundContents, sharedShadows>>
        /\ hostDisk' = [hostDisk EXCEPT ![i] = hostCache[i]]
    BY <1>3, <1>7 DEF FlushesFile
  <2>2. \A j \in Inodes : j # i => hostDisk'[j] = hostDisk[j]
    BY <1>1, <2>1, FileTypes
  <2>3. \A path \in NandPaths \ writtenInPlace : Exists(path) =>
          hostFiles[Name(path)] \in Inodes /\ hostFiles[Name(path)] # i
    BY <1>1, <1>2, <1>3, <1>7, FileTypes DEF HandleSound, Exists
  <2>4. NoTornFile'
    BY <1>1, <2>1, <2>2, <2>3, StillWhole
  <2> QED BY <1>1, <1>4, <2>1, <2>4, NothingNew
<1>8. CASE UNCHANGED <<hostFiles, hostDisk, soundContents, sharedShadows>>
  <2>1. NoTornFile'
    BY <1>1, <1>8, StillWhole
  <2> QED BY <1>1, <1>4, <1>8, <2>1, NothingNew
<1> QED BY <1>5, <1>6, <1>7, <1>8 DEF CommitAndCloseFd

LEMMA NandStep ==
  ASSUME NandAssumption, NandInv, [NandNext]_nandVars
  PROVE  NandInv'
<1> USE NameFacts
<1>0. NandTypeOK'
  BY NandTypesStep DEF NandInv
<1>1. NandTypeOK /\ NamesApart /\ HandlesSound /\ NoTornFile
  BY DEF NandInv
<1>1a. \E new : new \notin DOMAIN fileHandles
  <2>1. DOMAIN fileHandles \subseteq 1 .. nextFd - 1 /\ nextFd \in Nat
    BY <1>1 DEF NandTypeOK, NandAssumption
  <2>2. 0 \notin DOMAIN fileHandles
    BY <2>1
  <2> QED BY <2>2
<1>2. ASSUME UNCHANGED <<hostFiles, contents, fileHandles, history>> PROVE NandInv'
  BY <1>0, <1>1, <1>2
     DEF NandInv, NamesApart, HandlesSound, CommitsApart, SessionsApart, HandleSound,
         NoTornFile, Exists, contents, history
<1>3. ASSUME NEW s \in InfoSlots, NEW path \in NandPaths, NEW newFlag,
             OpensInPlace(s, path, TRUE, newFlag) \/ OpensInPlace(s, path, FALSE, newFlag),
             hostFiles' = hostFiles \/ (ShadowFails(path) /\ ~IsHostPathOpen(path))
      PROVE  NandInv'
  <2>1. hostFiles[Name(path)] \in Inodes
    BY <1>1, <1>3, FileTypes DEF OpensInPlace, Exists
  <2>2. \A w \in BOOLEAN :
          LET h == [inode |-> hostFiles[Name(path)], path |-> Name(path), commit |-> NoPath,
                    writes |-> w]
          IN  /\ h \in FileHandle /\ h.inode = hostFiles[Name(path)]
              /\ h.commit = NoPath /\ h.writes = w
    BY <2>1 DEF FileHandle
  <2>3. PICK h \in FileHandle :
          /\ h.inode = hostFiles[Name(path)] /\ h.commit = NoPath
          /\ h.writes => path \in writtenInPlace'
          /\ nextFd \in Fds /\ nextFd' = nextFd + 1
          /\ fileHandles' = [fd \in DOMAIN fileHandles \cup {nextFd} |->
                              IF fd # nextFd THEN fileHandles[fd] ELSE h]
    BY <1>3, <2>2 DEF OpensInPlace, AllocateFd
  <2>4. Exists(path) /\ writtenInPlace \subseteq writtenInPlace'
        /\ UNCHANGED <<contents, soundContents, sharedShadows>>
    BY <1>3 DEF OpensInPlace
  <2> QED BY <1>0, <1>3, <2>3, <2>4, OpenedInPlace DEF NandInv
<1>4. ASSUME NEW s \in InfoSlots, NEW path \in NandPaths, Creates(s, path)
      PROVE  NandInv'
  <2>1. PICK new : new = nextFd
    OBVIOUS
  <2>2. /\ ~Exists(path) /\ FreeInodes # {}
        /\ hostFiles' = [hostFiles EXCEPT ![Name(path)] = NewInode]
        /\ hostCache' = [hostCache EXCEPT ![NewInode] = NoData]
        /\ hostDisk' = [hostDisk EXCEPT ![NewInode] = NoData]
        /\ writtenInPlace' = writtenInPlace \cup {path}
        /\ UNCHANGED <<soundContents, sharedShadows>>
    BY <1>4 DEF Creates
  <2>3. NewInode \in Inodes
    BY <2>2, NewInodeIsFree
  <2>4. PICK h \in FileHandle :
          h = [inode |-> NewInode, path |-> Name(path), commit |-> NoPath, writes |-> TRUE]
    BY <2>3 DEF FileHandle
  <2>5. /\ nextFd \in Fds /\ nextFd' = nextFd + 1
        /\ fileHandles' = [fd \in DOMAIN fileHandles \cup {nextFd} |->
                            IF fd # nextFd THEN fileHandles[fd] ELSE h]
    BY <1>4, <2>4 DEF Creates, AllocateFd
  <2>6. /\ DOMAIN fileHandles' = DOMAIN fileHandles \cup {new}
        /\ \A fd \in DOMAIN fileHandles : fileHandles'[fd] = fileHandles[fd]
        /\ fileHandles'[new].inode = NewInode /\ fileHandles'[new].commit = NoPath
    BY <1>1, <2>1, <2>4, <2>5, Allocated
  <2> QED BY <1>0, <2>2, <2>6, FileMade DEF NandInv
<1>5. ASSUME NEW s \in InfoSlots, NEW path \in NandPaths, NEW newFlag, Exists(path),
             OpensShadow(s, path, newFlag)
      PROVE  NandInv'
  BY <1>0, <1>5, OpenedShadow DEF NandInv
<1>6. ASSUME NEW s \in InfoSlots, NEW path \in NandPaths, NANDOpenRead(s, path)
      PROVE  NandInv'
  <2>1. PICK newFlag \in {"open", "safeOpen"} : OpensInPlace(s, path, FALSE, newFlag)
    BY <1>6 DEF NANDOpenRead
  <2>2. OpensInPlace(s, path, TRUE, newFlag) \/ OpensInPlace(s, path, FALSE, newFlag)
    BY <2>1
  <2>3. hostFiles' = hostFiles
    BY <1>6 DEF NANDOpenRead
  <2> QED BY <1>3, <2>2, <2>3
<1>7. ASSUME NEW s \in InfoSlots, NEW path \in NandPaths, NANDOpenWrite(s, path)
      PROVE  NandInv'
  <2>1. CASE Exists(path) /\ ~IsHostPathOpen(path) /\ OpensShadow(s, path, "open")
    BY <1>5, <2>1
  <2>2. CASE OpensInPlace(s, path, TRUE, "open") /\ ~IsHostPathOpen(path)
             /\ (UNCHANGED hostFiles \/ ShadowFails(path))
    BY <1>3, <2>2
  <2>3. CASE OpensInPlace(s, path, TRUE, "open") /\ UNCHANGED hostFiles
    BY <1>3, <2>3
  <2>4. CASE Creates(s, path)
    BY <1>4, <2>4
  <2> QED BY <1>7, <2>1, <2>2, <2>3, <2>4 DEF NANDOpenWrite
<1>8. ASSUME NEW s \in InfoSlots, NEW path \in NandPaths, NANDSafeOpen(s, path)
      PROVE  NandInv'
  BY <1>5, <1>8 DEF NANDSafeOpen
<1>9. ASSUME NEW s \in InfoSlots, NEW path \in NandPaths, NANDSafeOpenFails(s, path)
      PROVE  NandInv'
  <2>1. /\ hostFiles' = [hostFiles EXCEPT ![Shadow(path)] = 0]
        /\ UNCHANGED <<contents, fileHandles, soundContents, writtenInPlace>>
        /\ sharedShadows \subseteq sharedShadows'
        /\ path \notin sharedShadows' =>
             \A fd \in DOMAIN fileHandles : fileHandles[fd].commit # path
    BY <1>9 DEF NANDSafeOpenFails, ShadowFails, TakesShadow, SessionsOf
  <2>2. \A n \in Names : hostFiles'[n] \in {hostFiles[n], 0}
    BY <1>1, <2>1, FileTypes
  <2>3. \A f \in DOMAIN fileHandles :
          fileHandles[f].commit \notin sharedShadows' \cup {NoPath} =>
          hostFiles'[Shadow(fileHandles[f].commit)] = hostFiles[Shadow(fileHandles[f].commit)]
    <3>1. SUFFICES ASSUME NEW f \in DOMAIN fileHandles,
                          fileHandles[f].commit \notin sharedShadows' \cup {NoPath}
                   PROVE  hostFiles'[Shadow(fileHandles[f].commit)]
                            = hostFiles[Shadow(fileHandles[f].commit)]
      OBVIOUS
    <3>2. fileHandles[f].commit \in NandPaths /\ fileHandles[f].commit # path
      BY <1>1, <2>1, <3>1, HandleTypes
    <3> QED BY <1>1, <2>1, <3>2, FileTypes
  <2>4. PICK new : new \notin DOMAIN fileHandles
    BY <1>1a
  <2>5. NoTornFile'
    BY <2>1, <2>2, StillWhole DEF contents
  <2> QED BY <1>0, <2>1, <2>2, <2>3, <2>4, <2>5, NothingNew DEF NandInv
<1>10. ASSUME NEW path \in NandPaths, IOS_Open(path)
       PROVE  NandInv'
  <2>1. hostFiles[Name(path)] \in Inodes
    BY <1>1, <1>10, FileTypes DEF IOS_Open, Exists
  <2>2. PICK h \in FileHandle :
          h = [inode |-> hostFiles[Name(path)], path |-> Name(path), commit |-> NoPath,
               writes |-> TRUE]
    BY <2>1 DEF FileHandle
  <2>3. /\ nextFd \in Fds /\ nextFd' = nextFd + 1
        /\ fileHandles' = [fd \in DOMAIN fileHandles \cup {nextFd} |->
                            IF fd # nextFd THEN fileHandles[fd] ELSE h]
    BY <1>10, <2>2 DEF IOS_Open, AllocateFd
  <2>4. Exists(path) /\ writtenInPlace' = writtenInPlace \cup {path} /\ hostFiles' = hostFiles
        /\ UNCHANGED <<contents, soundContents, sharedShadows>>
    BY <1>10 DEF IOS_Open, contents
  <2>5. h.inode = hostFiles[Name(path)] /\ h.commit = NoPath
    BY <2>2
  <2> QED BY <1>0, <2>3, <2>4, <2>5, OpenedInPlace DEF NandInv
<1>11. ASSUME NEW path \in NandPaths, NANDCreate(path)
       PROVE  NandInv'
  <2>1. /\ ~Exists(path) /\ FreeInodes # {}
        /\ hostFiles' = [hostFiles EXCEPT ![Name(path)] = NewInode]
        /\ hostCache' = [hostCache EXCEPT ![NewInode] = NoData]
        /\ hostDisk' = [hostDisk EXCEPT ![NewInode] = NoData]
        /\ writtenInPlace' = writtenInPlace \cup {path}
        /\ UNCHANGED <<soundContents, sharedShadows, fileHandles>>
    BY <1>11 DEF NANDCreate
  <2>2. PICK new : new \notin DOMAIN fileHandles
    BY <1>1a
  <2> QED BY <1>0, <2>1, <2>2, FileMade DEF NandInv
<1>12. ASSUME NEW path \in NandPaths, ISFS_CreateFile(path)
       PROVE  NandInv'
  <2>1. /\ Exists(path) /\ writtenInPlace' = writtenInPlace \cup {path}
        /\ hostCache' = [hostCache EXCEPT ![hostFiles[Name(path)]] = NoData]
        /\ UNCHANGED <<hostFiles, hostDisk, fileHandles, soundContents, sharedShadows>>
    BY <1>12 DEF ISFS_CreateFile
  <2>2. \A other \in NandPaths \ writtenInPlace' : Exists(other) =>
          /\ hostFiles[Name(other)] \in Inodes
          /\ hostFiles[Name(other)] # hostFiles[Name(path)]
    BY <1>1, <2>1, FileTypes DEF Exists, NamesApart
  <2>3. \A other \in NandPaths \ writtenInPlace' : Exists(other) =>
          hostCache'[hostFiles[Name(other)]] = hostCache[hostFiles[Name(other)]]
    BY <1>1, <2>1, <2>2, FileTypes
  <2>4. NoTornFile'
    BY <2>1, <2>3, StillWhole
  <2>5. PICK new : new \notin DOMAIN fileHandles
    BY <1>1a
  <2> QED BY <1>0, <2>1, <2>4, <2>5, NothingNew DEF NandInv
<1>13. ASSUME NEW path \in NandPaths, NANDDelete(path)
       PROVE  NandInv'
  <2>1. /\ hostFiles' = [hostFiles EXCEPT ![Name(path)] = 0]
        /\ UNCHANGED <<contents, fileHandles, history>>
    BY <1>13 DEF NANDDelete
  <2>2. \A n \in Names : hostFiles'[n] \in {hostFiles[n], 0}
    BY <1>1, <2>1, FileTypes
  <2>3. \A p \in NandPaths : hostFiles'[Shadow(p)] = hostFiles[Shadow(p)]
    BY <1>1, <2>1, FileTypes
  <2>4. \A f \in DOMAIN fileHandles : fileHandles[f].commit # NoPath =>
          hostFiles'[Shadow(fileHandles[f].commit)] = hostFiles[Shadow(fileHandles[f].commit)]
    BY <1>1, <2>3, HandleTypes
  <2>5. PICK new : new \notin DOMAIN fileHandles
    BY <1>1a
  <2>6. NoTornFile'
    BY <2>1, <2>2, StillWhole DEF contents, history
  <2> QED BY <1>0, <2>1, <2>2, <2>4, <2>5, <2>6, NothingNew DEF NandInv, history
<1>14. ASSUME NEW fd \in DOMAIN fileHandles, IOS_Close(fd)
       PROVE  NandInv'
  <2>1. /\ \A f \in DOMAIN fileHandles' : f \in DOMAIN fileHandles /\ f # fd
        /\ \A f \in DOMAIN fileHandles' : fileHandles'[f] = fileHandles[f]
    BY <1>1, <1>14, Retired DEF IOS_Close
  <2>2. UNCHANGED <<hostFiles, hostCache, hostDisk, writtenInPlace, soundContents,
                    sharedShadows>>
    BY <1>14 DEF IOS_Close, contents, history
  <2>3. NoTornFile'
    BY <2>2, StillWhole
  <2> QED BY <1>0, <2>1, <2>2, <2>3, NothingNew DEF NandInv
<1>15. ASSUME NEW fd \in DOMAIN fileHandles, NEW part \in Parts, WriteFile(fd, part)
       PROVE  NandInv'
  <2>1. PICK i \in Inodes : i = fileHandles[fd].inode /\ i # 0
    BY <1>1, HandleTypes
  <2>2. HandleSound(fd) /\ fileHandles[fd].writes
        /\ fileHandles[fd].commit \in NandPaths \cup {NoPath}
    BY <1>1, <1>15, HandleTypes DEF WriteFile, HandlesSound
  <2>3. \A path \in NandPaths \ (writtenInPlace \cup sharedShadows) : Exists(path) =>
          hostFiles[Name(path)] \in Inodes /\ hostFiles[Name(path)] # i
    BY <1>1, <2>1, <2>2, FileTypes DEF HandleSound, Exists, NamesApart
  <2>4. UNCHANGED <<hostFiles, hostDisk, fileHandles, writtenInPlace, soundContents,
                    sharedShadows>>
    BY <1>15 DEF WriteFile, history
  <2>5. \A j \in Inodes : j # i => hostCache'[j] = hostCache[j]
    BY <1>1, <1>15, <2>1, FileTypes DEF WriteFile
  <2>6. NoTornFile'
    BY <2>3, <2>4, <2>5, StillWhole
  <2>7. PICK new : new \notin DOMAIN fileHandles
    BY <1>1a
  <2> QED BY <1>0, <2>4, <2>6, <2>7, NothingNew DEF NandInv
<1>16. ASSUME NEW s \in InfoSlots, NANDClose(s)
       PROVE  NandInv'
  <2>1. CASE HasHandle(s)
    BY <1>0, <1>16, <2>1, FileClosed DEF NANDClose, NandInv
  <2>2. CASE ~HasHandle(s)
    BY <1>2, <1>16, <2>2 DEF NANDClose
  <2> QED BY <2>1, <2>2
<1>17. ASSUME NEW s \in InfoSlots, NANDSafeClose(s)
       PROVE  NandInv'
  BY <1>0, <1>16, <1>17, FileClosed DEF NANDSafeClose, NandInv
<1>18. ASSUME NEW from \in NandPaths, NEW to \in NandPaths, RenameFile(from, to)
       PROVE  NandInv'
  BY <1>0, <1>18, FileRenamed DEF NandInv
<1>19. CASE HostStops
  <2>1. /\ DOMAIN fileHandles' = {}
        /\ UNCHANGED <<hostFiles, writtenInPlace, soundContents, sharedShadows>>
        /\ hostDisk' = hostCache'
    BY <1>19 DEF HostStops, NoHandles, history
  <2>2. \A i \in Inodes : hostCache'[i] \in {hostCache[i], hostDisk[i]}
    BY <1>19 DEF HostStops
  <2>3. \A path \in NandPaths : Exists(path) => hostFiles[Name(path)] \in Inodes
    BY <1>1, FileTypes DEF Exists
  <2>4. NoTornFile'
    BY <2>1, <2>2, <2>3, StillWhole
  <2>5. NamesApart' /\ HandlesSound'
    BY <1>1, <2>1 DEF NamesApart, HandlesSound, CommitsApart, SessionsApart
  <2> QED BY <1>0, <2>4, <2>5 DEF NandInv
<1>20. CASE UNCHANGED nandVars
  BY <1>2, <1>20 DEF nandVars
<1> QED BY <1>6, <1>7, <1>8, <1>9, <1>10, <1>11, <1>12, <1>13, <1>14, <1>15, <1>16, <1>17,
           <1>18, <1>19, <1>20 DEF NandNext

\* A close that succeeds has saved its session.
LEMMA CloseSaves ==
  ASSUME NandAssumption, NandInv, [NandNext]_nandVars
  PROVE  [ClosesSave]_nandVars
<1>1. SUFFICES ASSUME NEW s \in InfoSlots,
                      fileInfo[s].flag \in {"open", "safeOpen"},
                      fileInfo'[s].flag \in {"closed", "safeClosed"},
                      HasHandle(s), HandleOf(s).commit \notin sharedShadows \cup {NoPath}
               PROVE  /\ hostFiles'[Name(HandleOf(s).commit)] # 0
                      /\ hostDisk'[hostFiles'[Name(HandleOf(s).commit)]]
                           = hostCache[HandleOf(s).inode]
  BY DEF ClosesSave
<1>2. fileInfo \in [InfoSlots -> [flag : InfoFlags, fd : Fds \cup {0}]]
  BY DEF NandInv, NandTypeOK
<1>3. fileInfo'[s] # fileInfo[s]
  BY <1>1
<1>4. ASSUME NEW r \in InfoSlots, NEW newFlag \in {"open", "safeOpen"}, GuestSees(r, newFlag)
      PROVE  FALSE
  BY <1>1, <1>2, <1>4 DEF GuestSees
<1>5. ASSUME NEW r \in InfoSlots, NEW newFlag, HasHandle(r), CommitAndCloseFd(r, newFlag)
      PROVE  PublishesShadow(fileInfo[s].fd) /\ RetireFd(fileInfo[s].fd)
             /\ UNCHANGED <<hostCache, writtenInPlace>>
  <2>1. r = s
    BY <1>2, <1>3, <1>5 DEF CommitAndCloseFd, FlagOnSuccess
  <2> QED BY <1>1, <1>3, <1>5, <2>1 DEF CommitAndCloseFd, HandleOf
<1>6. PICK r \in InfoSlots, newFlag \in {"closed", "safeClosed"} :
        HasHandle(r) /\ CommitAndCloseFd(r, newFlag)
  <2>1. ASSUME NEW r \in InfoSlots, NANDClose(r), ~HasHandle(r) PROVE FALSE
    BY <1>1, <1>2, <1>3, <2>1 DEF NANDClose, FlagOnSuccess
  <2>2. ASSUME NEW r \in InfoSlots, NEW p \in NandPaths,
               NANDOpenRead(r, p) \/ NANDOpenWrite(r, p) \/ NANDSafeOpen(r, p)
        PROVE  FALSE
    BY <1>4, <2>2
       DEF NANDOpenRead, NANDOpenWrite, NANDSafeOpen, OpensInPlace, OpensShadow, Creates
  <2>3. ~HostStops
    BY <1>1 DEF HostStops, NoSessions
  <2>4. \A r \in InfoSlots, p \in NandPaths : ~NANDSafeOpenFails(r, p)
    BY <1>3 DEF NANDSafeOpenFails
  <2>5. \A p \in NandPaths :
          ~IOS_Open(p) /\ ~NANDCreate(p) /\ ~ISFS_CreateFile(p) /\ ~NANDDelete(p)
    BY <1>3 DEF IOS_Open, NANDCreate, ISFS_CreateFile, NANDDelete
  <2>6. \A fd \in DOMAIN fileHandles : ~IOS_Close(fd) /\ \A part \in Parts : ~WriteFile(fd, part)
    BY <1>3 DEF IOS_Close, WriteFile
  <2>7. \A p, q \in NandPaths : ~RenameFile(p, q)
    BY <1>3 DEF RenameFile
  <2>8. ~UNCHANGED nandVars
    BY <1>3 DEF nandVars
  <2>9. PICK r \in InfoSlots : NANDClose(r) \/ NANDSafeClose(r)
    BY <2>2, <2>3, <2>4, <2>5, <2>6, <2>7, <2>8 DEF NandNext
  <2> QED BY <2>1, <2>9 DEF NANDClose, NANDSafeClose
<1>7. PICK fd \in DOMAIN fileHandles : fd = fileInfo[s].fd
  BY <1>1 DEF HasHandle
<1>8. /\ fileHandles[fd].commit \notin sharedShadows \cup {NoPath}
      /\ PublishesShadow(fd) /\ RetireFd(fd)
      /\ UNCHANGED <<hostCache, writtenInPlace>>
  BY <1>1, <1>5, <1>6, <1>7 DEF HandleOf
<1>9. /\ hostFiles'[Name(fileHandles[fd].commit)] = fileHandles[fd].inode
      /\ hostDisk'[fileHandles[fd].inode] = hostCache[fileHandles[fd].inode]
  BY <1>8, ShadowPublished
<1>10. fileHandles[fd].inode # 0
  BY HandleTypes DEF NandInv
<1> QED BY <1>7, <1>9, <1>10 DEF HandleOf

LEMMA NandInvariant ==
  ASSUME NandAssumption
  PROVE  NandSpec => []NandInv
<1>1. NandInit => NandInv
  BY NandStart
<1>2. NandInv /\ [NandNext]_nandVars => NandInv'
  BY NandStep
<1> QED BY <1>1, <1>2, PTL DEF NandSpec

\* For any files, handles, ranges and bounds, and safe opens at any time: a file that is
\* written through shadows holds what its last successful close left there, to the running
\* host and after a crash at any point, and a close that reports success has put its own
\* session there (nand_async.cpp:407-461). The exception, which the properties name: a file
\* of which a safe open took the shadow while another session had it, until a session that
\* has the name to itself is closed.
THEOREM FilesAreSaved ==
  ASSUME NandAssumption
  PROVE  NandSpec => FilesSurvive
<1>1. NandInv => NoTornFile /\ ShadowIsOwn
  <2>1. ASSUME NandInv PROVE ShadowIsOwn
    BY <2>1 DEF NandInv, HandlesSound, HandleSound, ShadowIsOwn
  <2> QED BY <2>1 DEF NandInv
<1>2. NandInv /\ [NandNext]_nandVars => [ClosesSave]_nandVars
  BY CloseSaves
<1> QED BY <1>1, <1>2, NandInvariant, PTL DEF NandSpec, FilesSurvive, CloseMeansSaved

\* Handles, sessions and inodes stay within their types.
THEOREM NandTypesCorrect ==
  ASSUME NandAssumption
  PROVE  NandSpec => []NandTypeOK
<1>1. NandInit => NandTypeOK
  BY NandTypesStart
<1>2. NandTypeOK /\ [NandNext]_nandVars => NandTypeOK'
  BY NandTypesStep
<1> QED BY <1>1, <1>2, PTL DEF NandSpec

=============================================================================
