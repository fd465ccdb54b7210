------------------------ MODULE CompletionPumpProofs ------------------------
(***************************************************************************)
(* Proofs about the completions the host owes the guest: for any fibers,   *)
(* command blocks, reads and calls, and pumps on one stack to any depth;   *)
(* and of IPC requests, for any blocks, commands and batch, whether or not *)
(* the controller is closed in between; and about deferred network         *)
(* requests, for any threads, sockets and number of requests. Then about   *)
(* the card file system, for any card, names, directory and bounds.        *)
(***************************************************************************)
EXTENDS CompletionPump, IpcSubmit, NetworkDeferral, CardImage, FiniteSetTheorems,
  WellFoundedInduction, TLAPS

Increasing(s) == \A i, j \in 1 .. Len(s) : i < j => s[i] < s[j]

\* The store holds the reads in the order of submission: done, in work, waiting.
StoreOrder ==
  /\ Increasing(pending) /\ Increasing(completed)
  /\ \A c \in Elems(completed), r \in Elems(pending) : c < r
  /\ working # 0 => /\ \A c \in Elems(completed) : c < working
                    /\ \A r \in Elems(pending) : working < r

\* Stacks are bounded; only a pump that is at the reads has taken any.
FramesFit ==
  \A f \in Fibers :
    /\ Len(frames[f]) <= MaxDepth
    /\ \A i \in 1 .. Len(frames[f]) : frames[f][i].stage # "dvd" => frames[f][i].ready = <<>>

HandsOrder == \A f \in Fibers : \A i \in 1 .. Len(frames[f]) : Increasing(frames[f][i].ready)

\* No two pumps have taken the same read.
HandsApart ==
  \A f, g \in Fibers : \A i \in 1 .. Len(frames[f]), j \in 1 .. Len(frames[g]) :
    \A r \in Elems(frames[f][i].ready) : r \in Elems(frames[g][j].ready) => f = g /\ i = j

ReadInv == StoreOrder /\ HandsOrder /\ HandsApart /\ StoreIsYounger /\ ReadsConserved

\* Callbacks dispatched and callbacks queued are those queued so far, in order.
CallInv ==
  /\ Len(dispatched) + Len(queue) = called
  /\ \A i \in 1 .. Len(queue) : queue[i] = Len(dispatched) + i
  /\ CallbacksInOrder

\* The guard is held by one frame, or by one that was destroyed, or free.
DrainInv ==
  /\ \A f, g \in Fibers : \A i \in 1 .. Len(frames[f]), j \in 1 .. Len(frames[g]) :
       frames[f][i].stage = "ios" /\ frames[g][j].stage = "ios" => f = g /\ i = j
  /\ depth = 1 <=>
       drainHeld \/ \E f \in Fibers : \E i \in 1 .. Len(frames[f]) : frames[f][i].stage = "ios"
  /\ drainHeld => \A f \in Fibers : \A i \in 1 .. Len(frames[f]) : frames[f][i].stage # "ios"

TypeInv == PumpTypeOK /\ FramesFit

PumpInv == TypeInv /\ ReadInv /\ CallInv /\ DrainInv

-----------------------------------------------------------------------------
(* Sequences of reads.                                                     *)

LEMMA ElemsAppend ==
  ASSUME NEW S, NEW s \in Seq(S), NEW e
  PROVE  Elems(Append(s, e)) = Elems(s) \cup {e}
<1>1. Len(Append(s, e)) = Len(s) + 1 /\ Len(s) \in Nat /\ Append(s, e)[Len(s) + 1] = e
      /\ \A i \in 1 .. Len(s) : Append(s, e)[i] = s[i]
  OBVIOUS
<1>2. \A i \in 1 .. Len(s) + 1 : i \in 1 .. Len(s) \/ i = Len(s) + 1
  BY <1>1
<1>3. Elems(Append(s, e)) \subseteq Elems(s) \cup {e}
  BY <1>1, <1>2 DEF Elems
<1>4. Elems(s) \cup {e} \subseteq Elems(Append(s, e))
  <2>1. \A i \in 1 .. Len(s) : i \in 1 .. Len(s) + 1
    BY <1>1
  <2>2. Len(s) + 1 \in 1 .. Len(s) + 1
    BY <1>1
  <2> QED BY <1>1, <2>1, <2>2 DEF Elems
<1> QED BY <1>3, <1>4

LEMMA ElemsTail ==
  ASSUME NEW S, NEW s \in Seq(S), s # <<>>
  PROVE  /\ Elems(s) = {Head(s)} \cup Elems(Tail(s)) /\ Head(s) \in S /\ Tail(s) \in Seq(S)
         /\ Increasing(s) /\ S \subseteq Nat =>
              Increasing(Tail(s)) /\ \A x \in Elems(Tail(s)) : Head(s) < x
<1>1. /\ Len(s) \in Nat /\ Len(s) >= 1 /\ Len(Tail(s)) = Len(s) - 1 /\ Head(s) = s[1]
      /\ \A i \in 1 .. Len(s) - 1 : Tail(s)[i] = s[i + 1]
      /\ Head(s) \in S /\ Tail(s) \in Seq(S)
  OBVIOUS
<1>2. Elems(s) \subseteq {Head(s)} \cup Elems(Tail(s))
  <2> SUFFICES ASSUME NEW i \in 1 .. Len(s) PROVE s[i] \in {Head(s)} \cup Elems(Tail(s))
    BY DEF Elems
  <2>1. CASE i = 1
    BY <2>1, <1>1
  <2>2. CASE i # 1
    <3>1. i - 1 \in 1 .. Len(Tail(s)) /\ Tail(s)[i - 1] = s[i]
      BY <2>2, <1>1
    <3> QED BY <3>1 DEF Elems
  <2> QED BY <2>1, <2>2
<1>3. {Head(s)} \cup Elems(Tail(s)) \subseteq Elems(s)
  BY <1>1 DEF Elems
<1>4. ASSUME Increasing(s), S \subseteq Nat
      PROVE  Increasing(Tail(s)) /\ \A x \in Elems(Tail(s)) : Head(s) < x
  <2>1. Increasing(Tail(s))
    BY <1>1, <1>4 DEF Increasing
  <2>2. \A i \in 1 .. Len(Tail(s)) : Head(s) < Tail(s)[i]
    BY <1>1, <1>4 DEF Increasing
  <2> QED BY <2>1, <2>2 DEF Elems
<1> QED BY <1>1, <1>2, <1>3, <1>4

LEMMA IncreasingAppend ==
  ASSUME NEW S, NEW s \in Seq(S), NEW e, Increasing(s), \A x \in Elems(s) : x < e
  PROVE  Increasing(Append(s, e))
<1>1. Len(Append(s, e)) = Len(s) + 1 /\ Len(s) \in Nat /\ Append(s, e)[Len(s) + 1] = e
      /\ \A i \in 1 .. Len(s) : Append(s, e)[i] = s[i]
  OBVIOUS
<1>2. \A i \in 1 .. Len(s) : s[i] < e
  BY DEF Elems
<1> QED BY <1>1, <1>2 DEF Increasing

LEMMA ElemsOf ==
  ASSUME NEW S, NEW s \in Seq(S)
  PROVE  Elems(s) \subseteq S
BY DEF Elems

LEMMA ElemsEmpty == Elems(<<>>) = {} /\ Increasing(<<>>)
BY DEF Elems, Increasing

-----------------------------------------------------------------------------
(* Stacks.                                                                 *)

LEMMA StackShape ==
  ASSUME TypeInv
  PROVE  /\ host \in Fibers /\ Stack \in Seq(Frame) /\ Len(Stack) \in Nat /\ Len(Stack) <= MaxDepth
         /\ Stack # <<>> => /\ Len(Stack) \in 1 .. Len(Stack) /\ Top \in Frame /\ Top.ready \in Seq(Reads)
                           /\ Top.stage \in {"submit", "dvd", "ios"} /\ Top.left \in 0 .. Batch
                           /\ Top.inCallback \in BOOLEAN
<1>1. host \in Fibers /\ Stack \in Seq(Frame) /\ Len(Stack) \in Nat /\ Len(Stack) <= MaxDepth
  BY DEF TypeInv, PumpTypeOK, Stack, FramesFit
<1>2. ASSUME Stack # <<>>
      PROVE  Len(Stack) \in 1 .. Len(Stack) /\ Top \in Frame
  BY <1>1, <1>2 DEF Top
<1> QED BY <1>1, <1>2 DEF Frame

\* One frame changes, comes or goes; the others stay.
LEMMA SetTopShape ==
  ASSUME TypeInv, Stack # <<>>, NEW frame \in Frame, SetTop(frame)
  PROVE  /\ frames' \in [Fibers -> Seq(Frame)]
         /\ \A f \in Fibers : Len(frames'[f]) = Len(frames[f])
         /\ frames'[host][Len(Stack)] = frame
         /\ \A f \in Fibers : \A i \in 1 .. Len(frames[f]) :
              f # host \/ i # Len(Stack) => frames'[f][i] = frames[f][i]
<1>1. /\ frames \in [Fibers -> Seq(Frame)] /\ host \in Fibers /\ Stack = frames[host]
      /\ Len(Stack) \in 1 .. Len(Stack)
  BY StackShape DEF TypeInv, PumpTypeOK, Stack
<1>2. frames' = [frames EXCEPT ![host] = [Stack EXCEPT ![Len(Stack)] = frame]]
  BY <1>1 DEF SetTop
<1> QED BY <1>1, <1>2

LEMMA PushShape ==
  ASSUME TypeInv, NEW frame \in Frame, Push(frame)
  PROVE  /\ frames' \in [Fibers -> Seq(Frame)]
         /\ Len(frames'[host]) = Len(Stack) + 1
         /\ \A f \in Fibers \ {host} : frames'[f] = frames[f]
         /\ frames'[host][Len(Stack) + 1] = frame
         /\ \A i \in 1 .. Len(Stack) : frames'[host][i] = frames[host][i]
<1>1. /\ frames \in [Fibers -> Seq(Frame)] /\ host \in Fibers /\ Stack = frames[host]
      /\ Stack \in Seq(Frame)
  BY StackShape DEF TypeInv, PumpTypeOK, Stack
<1>2. frames' = [frames EXCEPT ![host] = Append(Stack, frame)]
  BY <1>1 DEF Push
<1> QED BY <1>1, <1>2

LEMMA PopShape ==
  ASSUME TypeInv, Stack # <<>>, Pop
  PROVE  /\ frames' \in [Fibers -> Seq(Frame)]
         /\ Len(frames'[host]) = Len(Stack) - 1
         /\ \A f \in Fibers \ {host} : frames'[f] = frames[f]
         /\ \A i \in 1 .. Len(Stack) - 1 : frames'[host][i] = frames[host][i]
<1>1. /\ frames \in [Fibers -> Seq(Frame)] /\ host \in Fibers /\ Stack = frames[host]
      /\ Stack \in Seq(Frame) /\ Len(Stack) >= 1 /\ Len(Stack) \in Nat
  BY StackShape DEF TypeInv, PumpTypeOK, Stack
<1> DEFINE rest == SubSeq(Stack, 1, Len(Stack) - 1)
<1>2. frames' = [frames EXCEPT ![host] = rest]
  BY <1>1 DEF Pop
<1>3. rest \in Seq(Frame) /\ Len(rest) = Len(Stack) - 1
      /\ \A i \in 1 .. Len(Stack) - 1 : rest[i] = Stack[i]
  <2>1. CASE Len(Stack) = 1
    BY <1>1, <2>1
  <2>2. CASE Len(Stack) > 1
    BY <1>1, <2>2
  <2>3. \A n \in Nat : n >= 1 => n = 1 \/ n > 1
    OBVIOUS
  <2> QED BY <1>1, <2>1, <2>2, <2>3, Zenon
<1> HIDE DEF rest
<1> QED BY <1>1, <1>2, <1>3

\* A stack is emptied.
LEMMA EndShape ==
  ASSUME TypeInv, NEW f \in Fibers, NEW g \in Fibers, FiberEnds(f, g)
  PROVE  /\ frames' \in [Fibers -> Seq(Frame)]
         /\ frames'[f] = <<>> /\ Len(frames'[f]) = 0
         /\ \A h \in Fibers \ {f} : frames'[h] = frames[h]
<1>1. frames \in [Fibers -> Seq(Frame)] /\ frames' = [frames EXCEPT ![f] = <<>>]
  BY DEF TypeInv, PumpTypeOK, FiberEnds
<1>2. <<>> \in Seq(Frame) /\ Len(<<>>) = 0
  OBVIOUS
<1> QED BY <1>1, <1>2

\* What a stack holds has been submitted.
LEMMA HandsAreReads ==
  ASSUME TypeInv
  PROVE  Hands \subseteq Reads /\ \A f \in Fibers : TakenBy(f) \subseteq Reads
<1>1. \A f \in Fibers : \A i \in 1 .. Len(frames[f]) : Elems(frames[f][i].ready) \subseteq Reads
  <2> TAKE f \in Fibers
  <2> TAKE i \in 1 .. Len(frames[f])
  <2>1. frames[f][i] \in Frame
    BY DEF TypeInv, PumpTypeOK
  <2> QED BY <2>1, ElemsOf DEF Frame
<1>2. \A p \in Pumps : p[1] \in Fibers /\ p[2] \in 1 .. Len(frames[p[1]])
  BY DEF Pumps
<1> QED BY <1>1, <1>2 DEF Hands, TakenBy

-----------------------------------------------------------------------------
(* Types, and the bounds of the stacks.                                    *)

\* A frame that begins, or takes the place of another, with nothing taken.
LEMMA FitSetTop ==
  ASSUME TypeInv, Stack # <<>>, NEW frame \in Frame, SetTop(frame),
         frame.stage # "dvd" => frame.ready = <<>>
  PROVE  frames' \in [Fibers -> Seq(Frame)] /\ FramesFit'
<1>1. \A f \in Fibers : Len(frames'[f]) <= MaxDepth
  BY SetTopShape DEF TypeInv, FramesFit
<1>2. ASSUME NEW f \in Fibers, NEW i \in 1 .. Len(frames'[f])
      PROVE  frames'[f][i].stage # "dvd" => frames'[f][i].ready = <<>>
  <2>1. i \in 1 .. Len(frames[f])
    BY SetTopShape
  <2>2. CASE f = host /\ i = Len(Stack)
    BY <2>2, SetTopShape
  <2>3. CASE ~(f = host /\ i = Len(Stack))
    BY <2>1, <2>3, SetTopShape DEF TypeInv, FramesFit
  <2> QED BY <2>2, <2>3
<1> QED BY <1>1, <1>2, SetTopShape DEF FramesFit

LEMMA FitPush ==
  ASSUME PumpAssumption, TypeInv, NEW frame \in Frame, Push(frame), Len(Stack) < MaxDepth,
         frame.stage # "dvd" => frame.ready = <<>>
  PROVE  frames' \in [Fibers -> Seq(Frame)] /\ FramesFit'
<1>1. Len(Stack) \in Nat /\ Stack = frames[host] /\ MaxDepth \in Nat
  BY StackShape DEF Stack, PumpAssumption
<1>2. ASSUME NEW f \in Fibers
      PROVE  Len(frames'[f]) <= MaxDepth
  BY <1>1, <1>2, PushShape DEF TypeInv, FramesFit
<1>3. ASSUME NEW f \in Fibers, NEW i \in 1 .. Len(frames'[f])
      PROVE  frames'[f][i].stage # "dvd" => frames'[f][i].ready = <<>>
  <2>1. CASE f = host /\ i = Len(Stack) + 1
    BY <2>1, PushShape
  <2>2. CASE f = host /\ i # Len(Stack) + 1
    <3>1. i \in 1 .. Len(Stack)
      BY <1>1, <2>2, PushShape
    <3> QED BY SMTT(30), <1>1, <2>2, <3>1, PushShape DEF TypeInv, FramesFit
  <2>3. CASE f # host
    BY <2>3, PushShape DEF TypeInv, FramesFit
  <2> QED BY <2>1, <2>2, <2>3
<1> QED BY <1>2, <1>3, PushShape DEF FramesFit

LEMMA FitPop ==
  ASSUME PumpAssumption, TypeInv, Stack # <<>>, Pop
  PROVE  frames' \in [Fibers -> Seq(Frame)] /\ FramesFit'
<1>1. Len(Stack) \in Nat /\ Len(Stack) <= MaxDepth /\ Stack = frames[host] /\ MaxDepth \in Nat
  BY StackShape DEF Stack, PumpAssumption
<1>2. ASSUME NEW f \in Fibers
      PROVE  Len(frames'[f]) <= MaxDepth
  BY SMTT(30), <1>1, <1>2, PopShape DEF TypeInv, FramesFit
<1>3. ASSUME NEW f \in Fibers, NEW i \in 1 .. Len(frames'[f])
      PROVE  frames'[f][i].stage # "dvd" => frames'[f][i].ready = <<>>
  <2>1. i \in 1 .. Len(frames[f]) /\ frames'[f][i] = frames[f][i]
    BY <1>1, <1>3, PopShape
  <2> QED BY <2>1 DEF TypeInv, FramesFit
<1> QED BY <1>2, <1>3, PopShape DEF FramesFit

LEMMA TypeStep ==
  ASSUME PumpAssumption, TypeInv, DrainInv, [PumpNext]_pumpVars
  PROVE  TypeInv'
<1>1. /\ Batch \in Nat /\ MaxReads \in Nat /\ MaxCalls \in Nat /\ Batch > 0
  BY DEF PumpAssumption
<1> USE <1>1
<1>2. ASSUME NEW b \in CommandBlocks, ReadAsync(b)
      PROVE  TypeInv'
  <2>1. reads' = Append(reads, b) /\ Len(reads) < MaxReads /\ pending' = Append(pending, Len(reads'))
        /\ UNCHANGED <<working, completed, answered, perished, block, cancel, cancelSync, iosVars,
                       frames, host>>
    BY <1>2 DEF ReadAsync
  <2>2. reads' \in Seq(CommandBlocks) /\ Len(reads') = Len(reads) + 1 /\ Len(reads) \in Nat
    BY <2>1 DEF TypeInv, PumpTypeOK
  <2>3. Len(reads') \in Reads
    BY <2>1, <2>2 DEF Reads
  <2>4. pending \in Seq(Reads) /\ pending' = Append(pending, Len(reads'))
    BY <2>1 DEF TypeInv, PumpTypeOK
  <2>5. pending' \in Seq(Reads)
    BY ONLY <2>3, <2>4
  <2>6. FramesFit'
    BY <2>1 DEF TypeInv, FramesFit
  <2>7. PumpTypeOK'
    BY <2>1, <2>2, <2>5 DEF TypeInv, PumpTypeOK, iosVars
  <2> QED BY <2>6, <2>7 DEF TypeInv
<1>3. ASSUME NEW b \in CommandBlocks, ReadAsyncFails(b)
      PROVE  TypeInv'
  <2> DEFINE frame == [stage |-> "submit", ready |-> <<>>, left |-> 0, inCallback |-> TRUE]
  <2>1. /\ reads' = Append(reads, b) /\ Len(reads) < MaxReads /\ Len(Stack) < MaxDepth
        /\ answered' = Append(answered, Len(reads')) /\ block' = [block EXCEPT ![b] = "fatal"]
        /\ Push(frame)
        /\ UNCHANGED <<pending, working, completed, perished, cancel, cancelSync, iosVars, host>>
    BY <1>3 DEF ReadAsyncFails
  <2>2. reads' \in Seq(CommandBlocks) /\ Len(reads') = Len(reads) + 1 /\ Len(reads) \in Nat
    BY <2>1 DEF TypeInv, PumpTypeOK
  <2>3. Len(reads') \in Reads
    BY <2>1, <2>2 DEF Reads
  <2>4. frame \in Frame /\ frame.ready = <<>>
    BY DEF Frame
  <2>5. frames' \in [Fibers -> Seq(Frame)] /\ FramesFit'
    BY <2>1, <2>4, FitPush
  <2> QED BY <2>1, <2>2, <2>3, <2>5 DEF TypeInv, PumpTypeOK, iosVars
<1>4. ASSUME (\E b \in CommandBlocks : ReadSync(b)) \/ CancelAll \/ (\E f \in Fibers : Switch(f))
      PROVE  TypeInv'
  <2>1. InFlight \subseteq Reads
    <3>1. Store \subseteq Reads
      BY ElemsOf DEF TypeInv, PumpTypeOK, Store, Reads
    <3>2. Hands \subseteq Reads
      BY HandsAreReads
    <3> QED BY <3>1, <3>2 DEF InFlight
  <2> QED BY <1>4, <2>1 DEF ReadSync, CancelAll, Switch, TypeInv, PumpTypeOK, FramesFit, iosVars, dvdVars
<1>5. CASE QueueCallback
  <2>1. called' \in 0 .. MaxCalls /\ called' \in Calls
    BY <1>5 DEF QueueCallback, TypeInv, PumpTypeOK, Calls
  <2>2. queue' \in Seq(Calls)
    BY <1>5, <2>1 DEF QueueCallback, TypeInv, PumpTypeOK
  <2>3. UNCHANGED <<reads, pending, working, completed, answered, perished, block, cancel,
                    cancelSync, dispatched, depth, drainHeld, frames, host>>
    BY <1>5 DEF QueueCallback, dvdVars
  <2> QED BY <2>1, <2>2, <2>3 DEF TypeInv, PumpTypeOK, FramesFit
<1>6. CASE CallbackReturns
  <2>1. frames' \in [Fibers -> Seq(Frame)] /\ FramesFit'
    <3>1. CASE Top.stage = "submit"
      BY <1>6, <3>1, FitPop DEF CallbackReturns
    <3>2. CASE Top.stage # "submit"
      <4> DEFINE frame == [Top EXCEPT !.inCallback = FALSE]
      <4>1. SetTop(frame) /\ Stack # <<>>
        BY <1>6, <3>2 DEF CallbackReturns
      <4>2. frame \in Frame /\ (frame.stage # "dvd" => frame.ready = <<>>)
        BY <4>1, StackShape DEF Frame, TypeInv, FramesFit, Top, Stack
      <4> QED BY <4>1, <4>2, FitSetTop
    <3> QED BY <3>1, <3>2
  <2>2. cancelSync' \in BOOLEAN
    BY <1>6 DEF CallbackReturns, TypeInv, PumpTypeOK
  <2> QED BY <1>6, <2>1, <2>2 DEF CallbackReturns, TypeInv, PumpTypeOK, iosVars
<1>7. CASE WorkerTakes
  <2>1. Head(pending) \in Reads /\ Tail(pending) \in Seq(Reads)
    BY <1>7 DEF WorkerTakes, TypeInv, PumpTypeOK
  <2> QED BY SMTT(30), <1>7, <2>1 DEF WorkerTakes, TypeInv, PumpTypeOK, FramesFit, iosVars, Reads
<1>8. CASE WorkerPublishes
  BY <1>8 DEF WorkerPublishes, TypeInv, PumpTypeOK, FramesFit, iosVars, Reads
<1>9. CASE PumpBegins
  <2> DEFINE frame == [stage |-> "dvd", ready |-> completed, left |-> Batch, inCallback |-> FALSE]
  <2>1. frame \in Frame /\ frame.stage = "dvd"
    BY DEF Frame, TypeInv, PumpTypeOK
  <2>2. frames' \in [Fibers -> Seq(Frame)] /\ FramesFit'
    BY <1>9, <2>1, FitPush DEF PumpBegins
  <2> QED BY <1>9, <2>2 DEF PumpBegins, TypeInv, PumpTypeOK, iosVars
<1>10. CASE PumpRead
  <2> DEFINE frame == [Top EXCEPT !.ready = Tail(@), !.inCallback = TRUE]
  <2>1. SetTop(frame) /\ Stack # <<>> /\ Top.stage = "dvd" /\ Top.ready # <<>>
    BY <1>10 DEF PumpRead, InPump
  <2>2. Head(Top.ready) \in Reads /\ Tail(Top.ready) \in Seq(Reads)
    BY <2>1, StackShape
  <2>3. frame \in Frame /\ frame.stage = "dvd"
    BY <2>1, <2>2, StackShape DEF Frame
  <2>4. frames' \in [Fibers -> Seq(Frame)] /\ FramesFit'
    BY <2>1, <2>3, FitSetTop
  <2>5. block' \in [CommandBlocks -> {"end", "fatal"}]
    BY <1>10 DEF PumpRead, TypeInv, PumpTypeOK
  <2> QED BY SMTT(30), <1>10, <2>2, <2>4, <2>5 DEF PumpRead, TypeInv, PumpTypeOK, iosVars
<1>11. CASE PumpDrains
  <2>1. Stack # <<>> /\ Top.ready = <<>>
    BY <1>11 DEF PumpDrains, InPump
  <2>2. frames' \in [Fibers -> Seq(Frame)] /\ FramesFit' /\ depth' \in 0 .. 1
    <3>1. CASE depth = 0
      <4> DEFINE frame == [Top EXCEPT !.stage = "ios"]
      <4>1. SetTop(frame) /\ depth' = 1
        BY <1>11, <3>1 DEF PumpDrains, Drain
      <4>2. frame \in Frame /\ frame.ready = <<>>
        BY <2>1, StackShape DEF Frame
      <4> HIDE DEF frame
      <4>3. frames' \in [Fibers -> Seq(Frame)] /\ FramesFit'
        BY <2>1, <4>1, <4>2, FitSetTop
      <4> QED BY <4>1, <4>3
    <3>2. CASE depth # 0
      <4>1. Pop /\ depth' = depth
        BY <1>11, <3>2 DEF PumpDrains, Drain
      <4> QED BY <2>1, <4>1, FitPop DEF TypeInv, PumpTypeOK
    <3> QED BY <3>1, <3>2
  <2> QED BY <1>11, <2>2 DEF PumpDrains, TypeInv, PumpTypeOK, dvdVars
<1>12. CASE DrainDirect
  <2> DEFINE frame == [stage |-> "ios", ready |-> <<>>, left |-> Batch, inCallback |-> FALSE]
  <2>1. frame \in Frame /\ frame.ready = <<>>
    BY DEF Frame
  <2>2. frames' \in [Fibers -> Seq(Frame)] /\ FramesFit'
    BY <1>12, <2>1, FitPush DEF DrainDirect
  <2> QED BY <1>12, <2>2 DEF DrainDirect, TypeInv, PumpTypeOK, dvdVars
<1>13. CASE DrainCalls
  <2> DEFINE frame == [Top EXCEPT !.left = @ - 1, !.inCallback = TRUE]
  <2>1. SetTop(frame) /\ Stack # <<>> /\ Top.stage = "ios" /\ Top.left > 0
    BY <1>13 DEF DrainCalls, InPump
  <2>2. frame \in Frame /\ frame.ready = Top.ready
    <3>1. Top \in Frame /\ Top.left - 1 \in 0 .. Batch
      BY <2>1, StackShape
    <3> QED BY <3>1 DEF Frame
  <2>3. Top.ready = <<>>
    BY <2>1, StackShape DEF TypeInv, FramesFit, Top, Stack
  <2>4. frames' \in [Fibers -> Seq(Frame)] /\ FramesFit'
    BY <2>1, <2>2, <2>3, FitSetTop
  <2>5. queue' \in Seq(Calls) /\ dispatched' \in Seq(Calls)
    BY <1>13 DEF DrainCalls, TypeInv, PumpTypeOK
  <2> QED BY <1>13, <2>4, <2>5 DEF DrainCalls, TypeInv, PumpTypeOK, dvdVars
<1>14. CASE DrainEnds
  <2>1. Stack # <<>> /\ Top.stage = "ios" /\ Pop /\ depth' = depth - 1
    BY <1>14 DEF DrainEnds, InPump
  <2>2. depth = 1
    BY <2>1, StackShape DEF DrainInv, Top, Stack
  <2>3. frames' \in [Fibers -> Seq(Frame)] /\ FramesFit'
    BY <2>1, FitPop
  <2> QED BY <1>14, <2>1, <2>2, <2>3 DEF DrainEnds, TypeInv, PumpTypeOK, dvdVars
<1>16. ASSUME NEW f \in Fibers, NEW g \in Fibers, FiberEnds(f, g)
       PROVE  TypeInv'
  <2>1. frames' \in [Fibers -> Seq(Frame)] /\ FramesFit'
    <3>1. \A h \in Fibers : h = f \/ frames'[h] = frames[h]
      BY <1>16, EndShape
    <3>2. MaxDepth \in Nat /\ MaxDepth >= 0
      BY DEF PumpAssumption
    <3>3. \A h \in Fibers : Len(frames'[h]) <= MaxDepth
      BY <1>16, <3>1, <3>2, EndShape DEF TypeInv, FramesFit
    <3>4. \A h \in Fibers : \A i \in 1 .. Len(frames'[h]) :
            frames'[h][i].stage # "dvd" => frames'[h][i].ready = <<>>
      <4> TAKE h \in Fibers
      <4>1. CASE h = f
        BY <1>16, <4>1, EndShape
      <4>2. CASE h # f
        BY <3>1, <4>2 DEF TypeInv, FramesFit
      <4> QED BY <4>1, <4>2
    <3> QED BY <1>16, <3>3, <3>4, EndShape DEF FramesFit
  <2>2. perished' \subseteq Reads /\ drainHeld' \in BOOLEAN
    BY <1>16, HandsAreReads DEF FiberEnds, TypeInv, PumpTypeOK
  <2>3. host' = g /\ UNCHANGED <<reads, pending, working, completed, answered, block, cancel,
                                cancelSync, queue, called, dispatched, depth>>
    BY <1>16 DEF FiberEnds
  <2> QED BY <2>1, <2>2, <2>3 DEF TypeInv, PumpTypeOK
<1>15. CASE UNCHANGED pumpVars
  BY <1>15 DEF pumpVars, dvdVars, iosVars, TypeInv, PumpTypeOK, FramesFit
<1> QED BY <1>2, <1>3, <1>4, <1>5, <1>6, <1>7, <1>8, <1>9, <1>10, <1>11, <1>12, <1>13, <1>14,
           <1>15, <1>16 DEF PumpNext

-----------------------------------------------------------------------------
(* Callbacks of IOS requests: their order.                                 *)

LEMMA CallStep ==
  ASSUME TypeInv, CallInv, [PumpNext]_pumpVars
  PROVE  CallInv'
<1>1. CASE QueueCallback
  <2>1. called' = called + 1 /\ queue' = Append(queue, called') /\ dispatched' = dispatched
    BY <1>1 DEF QueueCallback
  <2>2. /\ queue \in Seq(Calls) /\ Len(queue) \in Nat /\ Len(dispatched) \in Nat /\ called \in Nat
    BY DEF TypeInv, PumpTypeOK
  <2>3. /\ Len(queue') = Len(queue) + 1 /\ queue'[Len(queue) + 1] = called + 1
        /\ \A i \in 1 .. Len(queue) : queue'[i] = queue[i]
    BY <2>1, <2>2
  <2>4. Len(dispatched') + Len(queue') = called'
    BY SMTT(30), <2>1, <2>2, <2>3 DEF CallInv
  <2>5. \A i \in 1 .. Len(queue') : queue'[i] = Len(dispatched') + i
    BY SMTT(30), <2>1, <2>2, <2>3 DEF CallInv
  <2> QED BY <2>1, <2>4, <2>5 DEF CallInv, CallbacksInOrder
<1>2. CASE DrainCalls
  <2>1. queue # <<>> /\ queue' = Tail(queue) /\ dispatched' = Append(dispatched, Head(queue))
        /\ called' = called
    BY <1>2 DEF DrainCalls
  <2>2. /\ queue \in Seq(Calls) /\ dispatched \in Seq(Calls) /\ Len(queue) \in Nat /\ Len(queue) >= 1
        /\ Len(dispatched) \in Nat /\ called \in Nat
    BY <2>1 DEF TypeInv, PumpTypeOK
  <2>3. /\ Len(queue') = Len(queue) - 1 /\ Len(dispatched') = Len(dispatched) + 1
        /\ \A i \in 1 .. Len(queue') : queue'[i] = queue[i + 1]
        /\ \A i \in 1 .. Len(dispatched) : dispatched'[i] = dispatched[i]
        /\ dispatched'[Len(dispatched) + 1] = queue[1]
    BY <2>1, <2>2
  <2>8. called' = called /\ Len(dispatched) + Len(queue) = called
    BY <2>1 DEF CallInv
  <2>4. Len(dispatched') + Len(queue') = called'
    <3>1. \A d, q \in Nat : (d + 1) + (q - 1) = d + q
      OBVIOUS
    <3>2. (Len(dispatched) + 1) + (Len(queue) - 1) = Len(dispatched) + Len(queue)
      BY <2>2, <3>1
    <3> QED BY <2>3, <2>8, <3>2
  <2>5. \A i \in 1 .. Len(queue') : queue'[i] = Len(dispatched') + i
    BY <2>2, <2>3 DEF CallInv
  <2>6. queue[1] = Len(dispatched) + 1
    BY <2>2 DEF CallInv
  <2>7. \A i \in 1 .. Len(dispatched') : dispatched'[i] = i
    BY SMTT(30), <2>2, <2>3, <2>6 DEF CallInv, CallbacksInOrder
  <2> QED BY <2>4, <2>5, <2>7 DEF CallInv, CallbacksInOrder
<1>3. CASE ~QueueCallback /\ ~DrainCalls
  <2>1. UNCHANGED <<queue, called, dispatched>>
    BY <1>3 DEF PumpNext, pumpVars, iosVars, ReadAsync, ReadAsyncFails, ReadSync, CancelAll, CallbackReturns,
      Switch, FiberEnds, WorkerTakes, WorkerPublishes, PumpBegins, PumpRead, PumpDrains,
      DrainDirect, DrainEnds
  <2> QED BY <2>1 DEF CallInv, CallbacksInOrder
<1> QED BY <1>1, <1>2, <1>3

-----------------------------------------------------------------------------
(* The guard of the drain.                                                 *)

\* What another frame on top, one more or one less means for the drains.
LEMMA DrainSetTop ==
  ASSUME TypeInv, DrainInv, Stack # <<>>, NEW frame \in Frame, SetTop(frame),
         drainHeld' = drainHeld,
         \/ frame.stage = Top.stage /\ depth' = depth
         \/ frame.stage = "ios" /\ depth = 0 /\ depth' = 1
  PROVE  DrainInv'
<1>1. /\ host \in Fibers /\ Len(Stack) \in 1 .. Len(frames[host]) /\ Top = frames[host][Len(Stack)]
  BY StackShape DEF Stack, Top
<1>2. /\ \A f \in Fibers : Len(frames'[f]) = Len(frames[f])
      /\ frames'[host][Len(Stack)] = frame
      /\ \A f \in Fibers : \A i \in 1 .. Len(frames[f]) :
           f # host \/ i # Len(Stack) => frames'[f][i] = frames[f][i]
  BY SetTopShape
<1>3. CASE frame.stage = Top.stage /\ depth' = depth
  <2>1. \A f \in Fibers : \A i \in 1 .. Len(frames[f]) : frames'[f][i].stage = frames[f][i].stage
    BY <1>1, <1>2, <1>3
  <2>2. \A f, g \in Fibers : \A i \in 1 .. Len(frames'[f]), j \in 1 .. Len(frames'[g]) :
          frames'[f][i].stage = "ios" /\ frames'[g][j].stage = "ios" => f = g /\ i = j
    <3> SUFFICES ASSUME NEW f \in Fibers, NEW g \in Fibers,
                        NEW i \in 1 .. Len(frames'[f]), NEW j \in 1 .. Len(frames'[g]),
                        frames'[f][i].stage = "ios", frames'[g][j].stage = "ios"
                 PROVE  f = g /\ i = j
      OBVIOUS
    <3>1. i \in 1 .. Len(frames[f]) /\ j \in 1 .. Len(frames[g])
      BY <1>2
    <3>2. frames[f][i].stage = "ios" /\ frames[g][j].stage = "ios"
      BY <2>1, <3>1
    <3> QED BY <3>1, <3>2 DEF DrainInv
  <2>3. (\E f \in Fibers : \E i \in 1 .. Len(frames'[f]) : frames'[f][i].stage = "ios")
        <=> \E f \in Fibers : \E i \in 1 .. Len(frames[f]) : frames[f][i].stage = "ios"
    BY SMTT(30), <1>2, <2>1
  <2> QED BY <1>3, <2>2, <2>3 DEF DrainInv
<1>4. CASE frame.stage = "ios" /\ depth = 0 /\ depth' = 1
  <2>1. \A f \in Fibers : \A i \in 1 .. Len(frames[f]) :
          frames'[f][i].stage = "ios" => f = host /\ i = Len(Stack)
    BY <1>2, <1>4 DEF DrainInv
  <2> QED BY <1>1, <1>2, <1>4, <2>1 DEF DrainInv
<1> QED BY <1>3, <1>4

LEMMA DrainPush ==
  ASSUME TypeInv, DrainInv, NEW frame \in Frame, Push(frame), drainHeld' = drainHeld,
         \/ frame.stage # "ios" /\ depth' = depth
         \/ frame.stage = "ios" /\ depth = 0 /\ depth' = 1
  PROVE  DrainInv'
<1>1. host \in Fibers /\ Stack = frames[host] /\ Len(Stack) \in Nat
  BY StackShape DEF Stack
<1>2. /\ Len(frames'[host]) = Len(Stack) + 1
      /\ \A f \in Fibers \ {host} : frames'[f] = frames[f]
      /\ frames'[host][Len(Stack) + 1] = frame
      /\ \A i \in 1 .. Len(Stack) : frames'[host][i] = frames[host][i]
  BY PushShape
<1>3. \A f \in Fibers : \A i \in 1 .. Len(frames[f]) :
        i \in 1 .. Len(frames'[f]) /\ frames'[f][i] = frames[f][i]
  BY <1>1, <1>2
<1>4. \A f \in Fibers : \A i \in 1 .. Len(frames'[f]) :
        i \in 1 .. Len(frames[f]) \/ (f = host /\ i = Len(Stack) + 1)
  BY <1>1, <1>2
<1>5. Len(Stack) + 1 \in 1 .. Len(frames'[host])
  BY <1>1, <1>2
<1>6. CASE frame.stage # "ios" /\ depth' = depth
  <2>1. \A f \in Fibers : \A i \in 1 .. Len(frames'[f]) :
          frames'[f][i].stage = "ios" => i \in 1 .. Len(frames[f]) /\ frames[f][i].stage = "ios"
    BY <1>2, <1>3, <1>4, <1>6
  <2> QED BY <1>3, <1>6, <2>1 DEF DrainInv
<1>7. CASE frame.stage = "ios" /\ depth = 0 /\ depth' = 1
  <2>1. \A f \in Fibers : \A i \in 1 .. Len(frames'[f]) :
          frames'[f][i].stage = "ios" => f = host /\ i = Len(Stack) + 1
    BY <1>3, <1>4, <1>7 DEF DrainInv
  <2> QED BY <1>1, <1>2, <1>5, <1>7, <2>1 DEF DrainInv
<1> QED BY <1>6, <1>7

LEMMA DrainPop ==
  ASSUME TypeInv, DrainInv, Stack # <<>>, Pop, drainHeld' = drainHeld,
         \/ Top.stage # "ios" /\ depth' = depth
         \/ Top.stage = "ios" /\ depth' = 0
  PROVE  DrainInv'
<1>1. /\ host \in Fibers /\ Stack = frames[host] /\ Len(Stack) \in 1 .. Len(frames[host])
      /\ Len(Stack) \in Nat /\ Top = frames[host][Len(Stack)]
  BY StackShape DEF Stack, Top
<1>2. /\ Len(frames'[host]) = Len(Stack) - 1
      /\ \A f \in Fibers \ {host} : frames'[f] = frames[f]
      /\ \A i \in 1 .. Len(Stack) - 1 : frames'[host][i] = frames[host][i]
  BY PopShape
<1>3. \A f \in Fibers : \A i \in 1 .. Len(frames'[f]) :
        i \in 1 .. Len(frames[f]) /\ frames'[f][i] = frames[f][i] /\ ~(f = host /\ i = Len(Stack))
  BY <1>1, <1>2
<1>4. \A f \in Fibers : \A i \in 1 .. Len(frames[f]) :
        i \in 1 .. Len(frames'[f]) \/ (f = host /\ i = Len(Stack))
  BY <1>1, <1>2
<1>5. CASE Top.stage # "ios" /\ depth' = depth
  <2>1. \A f, g \in Fibers : \A i \in 1 .. Len(frames'[f]), j \in 1 .. Len(frames'[g]) :
          frames'[f][i].stage = "ios" /\ frames'[g][j].stage = "ios" => f = g /\ i = j
    <3> SUFFICES ASSUME NEW f \in Fibers, NEW g \in Fibers,
                        NEW i \in 1 .. Len(frames'[f]), NEW j \in 1 .. Len(frames'[g]),
                        frames'[f][i].stage = "ios", frames'[g][j].stage = "ios"
                 PROVE  f = g /\ i = j
      OBVIOUS
    <3>1. /\ i \in 1 .. Len(frames[f]) /\ j \in 1 .. Len(frames[g])
          /\ frames[f][i].stage = "ios" /\ frames[g][j].stage = "ios"
      BY <1>3
    <3> QED BY <3>1 DEF DrainInv
  <2>2. (\E f \in Fibers : \E i \in 1 .. Len(frames'[f]) : frames'[f][i].stage = "ios")
        => \E f \in Fibers : \E i \in 1 .. Len(frames[f]) : frames[f][i].stage = "ios"
    BY <1>3
  <2>3. ASSUME NEW f \in Fibers, NEW i \in 1 .. Len(frames[f]), frames[f][i].stage = "ios"
        PROVE  i \in 1 .. Len(frames'[f]) /\ frames'[f][i].stage = "ios"
    BY <1>1, <1>3, <1>4, <1>5, <2>3
  <2> QED BY <1>5, <2>1, <2>2, <2>3 DEF DrainInv
<1>6. CASE Top.stage = "ios" /\ depth' = 0
  <2>1. \A f \in Fibers : \A i \in 1 .. Len(frames[f]) :
          frames[f][i].stage = "ios" => f = host /\ i = Len(Stack)
    BY <1>1, <1>6 DEF DrainInv
  <2>2. \A f \in Fibers : \A i \in 1 .. Len(frames'[f]) : frames'[f][i].stage # "ios"
    BY <1>3, <2>1
  <2>3. ~drainHeld
    BY <1>1, <1>6 DEF DrainInv
  <2> QED BY <1>6, <2>2, <2>3 DEF DrainInv
<1> QED BY <1>5, <1>6

\* The drain of a fiber that ends keeps the guard.
LEMMA DrainFiberEnds ==
  ASSUME TypeInv, DrainInv, NEW f \in Fibers, NEW g \in Fibers, FiberEnds(f, g)
  PROVE  DrainInv'
<1>1. /\ depth' = depth /\ drainHeld' = (drainHeld \/ DrainsOn(f))
      /\ Len(frames'[f]) = 0 /\ \A h \in Fibers \ {f} : frames'[h] = frames[h]
  BY EndShape DEF FiberEnds
<1>2. \A h \in Fibers : \A i \in 1 .. Len(frames'[h]) :
        h # f /\ i \in 1 .. Len(frames[h]) /\ frames'[h][i] = frames[h][i]
  BY <1>1
<1>3. \A h \in Fibers : \A i \in 1 .. Len(frames[h]) :
        h = f \/ (i \in 1 .. Len(frames'[h]) /\ frames'[h][i] = frames[h][i])
  BY <1>1
<1>4. DrainsOn(f) <=> \E i \in 1 .. Len(frames[f]) : frames[f][i].stage = "ios"
  BY DEF DrainsOn
<1>5. \A h, k \in Fibers : \A i \in 1 .. Len(frames'[h]), j \in 1 .. Len(frames'[k]) :
        frames'[h][i].stage = "ios" /\ frames'[k][j].stage = "ios" => h = k /\ i = j
  <2> SUFFICES ASSUME NEW h \in Fibers, NEW k \in Fibers,
                      NEW i \in 1 .. Len(frames'[h]), NEW j \in 1 .. Len(frames'[k]),
                      frames'[h][i].stage = "ios", frames'[k][j].stage = "ios"
               PROVE  h = k /\ i = j
    OBVIOUS
  <2>1. /\ i \in 1 .. Len(frames[h]) /\ j \in 1 .. Len(frames[k])
        /\ frames[h][i].stage = "ios" /\ frames[k][j].stage = "ios"
    BY <1>2
  <2> QED BY <2>1 DEF DrainInv
<1>6. CASE DrainsOn(f)
  <2>1. depth = 1 /\ drainHeld'
    BY <1>1, <1>4, <1>6 DEF DrainInv
  <2>2. ASSUME NEW h \in Fibers, NEW i \in 1 .. Len(frames'[h]), frames'[h][i].stage = "ios"
        PROVE  FALSE
    <3>1. h # f /\ i \in 1 .. Len(frames[h]) /\ frames[h][i].stage = "ios"
      BY <1>2, <2>2
    <3> QED BY <1>4, <1>6, <3>1 DEF DrainInv
  <2> QED BY <1>1, <1>5, <2>1, <2>2 DEF DrainInv
<1>7. CASE ~DrainsOn(f)
  <2>1. (\E h \in Fibers : \E i \in 1 .. Len(frames'[h]) : frames'[h][i].stage = "ios")
        => \E h \in Fibers : \E i \in 1 .. Len(frames[h]) : frames[h][i].stage = "ios"
    BY <1>2
  <2>2. ASSUME NEW h \in Fibers, NEW i \in 1 .. Len(frames[h]), frames[h][i].stage = "ios"
        PROVE  \E k \in Fibers : \E j \in 1 .. Len(frames'[k]) : frames'[k][j].stage = "ios"
    <3>1. h # f
      BY <1>4, <1>7, <2>2
    <3>2. i \in 1 .. Len(frames'[h]) /\ frames'[h][i].stage = "ios"
      BY <1>3, <2>2, <3>1
    <3> QED BY <3>2
  <2>3. drainHeld' = drainHeld
    BY <1>1, <1>7 DEF TypeInv, PumpTypeOK
  <2>4. depth' = 1 <=> drainHeld' \/ \E h \in Fibers : \E i \in 1 .. Len(frames'[h]) : frames'[h][i].stage = "ios"
    BY <1>1, <2>1, <2>2, <2>3 DEF DrainInv
  <2>5. drainHeld' => \A h \in Fibers : \A i \in 1 .. Len(frames'[h]) : frames'[h][i].stage # "ios"
    BY <1>2, <2>3 DEF DrainInv
  <2> QED BY <1>5, <2>4, <2>5 DEF DrainInv
<1> QED BY <1>6, <1>7

LEMMA DrainStep ==
  ASSUME PumpAssumption, TypeInv, DrainInv, [PumpNext]_pumpVars
  PROVE  DrainInv'
<1>1. Batch \in Nat
  BY DEF PumpAssumption
<1>2. ASSUME NEW b \in CommandBlocks, ReadAsyncFails(b)
      PROVE  DrainInv'
  <2> DEFINE frame == [stage |-> "submit", ready |-> <<>>, left |-> 0, inCallback |-> TRUE]
  <2>1. frame \in Frame /\ frame.stage = "submit"
    BY <1>1 DEF Frame
  <2>2. Push(frame) /\ UNCHANGED <<depth, drainHeld>>
    BY <1>2 DEF ReadAsyncFails, iosVars
  <2> HIDE DEF frame
  <2> QED BY <2>1, <2>2, DrainPush
<1>3. CASE CallbackReturns
  <2>1. Stack # <<>> /\ UNCHANGED <<depth, drainHeld>>
    BY <1>3 DEF CallbackReturns, iosVars
  <2>2. CASE Top.stage = "submit"
    BY <1>3, <2>1, <2>2, DrainPop DEF CallbackReturns
  <2>3. CASE Top.stage # "submit"
    <3> DEFINE frame == [Top EXCEPT !.inCallback = FALSE]
    <3>1. SetTop(frame)
      BY <1>3, <2>3 DEF CallbackReturns
    <3>2. frame \in Frame /\ frame.stage = Top.stage
      BY <2>1, StackShape DEF Frame
    <3> HIDE DEF frame
    <3> QED BY <2>1, <3>1, <3>2, DrainSetTop
  <2> QED BY <2>2, <2>3
<1>4. CASE PumpBegins
  <2> DEFINE frame == [stage |-> "dvd", ready |-> completed, left |-> Batch, inCallback |-> FALSE]
  <2>1. frame \in Frame /\ frame.stage = "dvd"
    BY <1>1 DEF Frame, TypeInv, PumpTypeOK
  <2>2. Push(frame) /\ UNCHANGED <<depth, drainHeld>>
    BY <1>4 DEF PumpBegins, iosVars
  <2> HIDE DEF frame
  <2> QED BY <2>1, <2>2, DrainPush
<1>5. CASE PumpRead
  <2> DEFINE frame == [Top EXCEPT !.ready = Tail(@), !.inCallback = TRUE]
  <2>1. SetTop(frame) /\ Stack # <<>> /\ Top.ready # <<>> /\ UNCHANGED <<depth, drainHeld>>
    BY <1>5 DEF PumpRead, InPump, iosVars
  <2>2. Tail(Top.ready) \in Seq(Reads)
    BY <2>1, StackShape
  <2>3. frame \in Frame /\ frame.stage = Top.stage
    BY <2>1, <2>2, StackShape DEF Frame
  <2> HIDE DEF frame
  <2> QED BY <2>1, <2>3, DrainSetTop
<1>6. CASE PumpDrains
  <2>1. Stack # <<>> /\ Top.stage = "dvd" /\ drainHeld' = drainHeld
    BY <1>6 DEF PumpDrains, InPump
  <2>2. CASE depth = 0
    <3> DEFINE frame == [Top EXCEPT !.stage = "ios"]
    <3>1. SetTop(frame) /\ depth' = 1
      BY <1>6, <2>2 DEF PumpDrains, Drain
    <3>2. frame \in Frame /\ frame.stage = "ios"
      BY <2>1, StackShape DEF Frame
    <3> HIDE DEF frame
    <3> QED BY <2>1, <2>2, <3>1, <3>2, DrainSetTop
  <2>3. CASE depth # 0
    BY <1>6, <2>1, <2>3, DrainPop DEF PumpDrains, Drain
  <2> QED BY <2>2, <2>3
<1>7. CASE DrainDirect
  <2> DEFINE frame == [stage |-> "ios", ready |-> <<>>, left |-> Batch, inCallback |-> FALSE]
  <2>1. frame \in Frame /\ frame.stage = "ios"
    BY <1>1 DEF Frame
  <2>2. Push(frame) /\ depth = 0 /\ depth' = 1 /\ drainHeld' = drainHeld
    BY <1>7 DEF DrainDirect
  <2> HIDE DEF frame
  <2> QED BY <2>1, <2>2, DrainPush
<1>8. CASE DrainCalls
  <2> DEFINE frame == [Top EXCEPT !.left = @ - 1, !.inCallback = TRUE]
  <2>1. SetTop(frame) /\ Stack # <<>> /\ Top.left > 0 /\ UNCHANGED <<depth, drainHeld>>
    BY <1>8 DEF DrainCalls, InPump
  <2>2. frame \in Frame /\ frame.stage = Top.stage
    <3>1. Top \in Frame /\ Top.left - 1 \in 0 .. Batch
      BY <1>1, <2>1, StackShape
    <3> QED BY <3>1 DEF Frame
  <2> HIDE DEF frame
  <2> QED BY <2>1, <2>2, DrainSetTop
<1>9. CASE DrainEnds
  <2>1. Stack # <<>> /\ Top.stage = "ios" /\ Pop /\ depth' = depth - 1 /\ drainHeld' = drainHeld
    BY <1>9 DEF DrainEnds, InPump
  <2>2. depth = 1
    BY <2>1, StackShape DEF DrainInv, Top, Stack
  <2> QED BY <2>1, <2>2, DrainPop
<1>10. CASE \/ \E b \in CommandBlocks : ReadAsync(b) \/ ReadSync(b)
            \/ CancelAll \/ QueueCallback \/ WorkerTakes \/ WorkerPublishes
            \/ (\E f \in Fibers : Switch(f)) \/ UNCHANGED pumpVars
  <2>1. UNCHANGED <<frames, depth, drainHeld>>
    BY <1>10 DEF ReadAsync, ReadSync, CancelAll, QueueCallback, WorkerTakes, WorkerPublishes, Switch,
      pumpVars, iosVars
  <2> QED BY <2>1 DEF DrainInv
<1>11. ASSUME NEW f \in Fibers, NEW g \in Fibers, FiberEnds(f, g)
       PROVE  DrainInv'
  BY <1>11, DrainFiberEnds
<1> QED BY <1>11, <1>2, <1>3, <1>4, <1>5, <1>6, <1>7, <1>8, <1>9, <1>10 DEF PumpNext

-----------------------------------------------------------------------------
(* Reads: where they are.                                                  *)

\* The reads in hand are those that some frame has taken.
LEMMA HandsOf ==
  ASSUME NEW fr, \A f \in Fibers : Len(fr[f]) \in Nat /\ Len(fr[f]) <= MaxDepth, MaxDepth \in Nat
  PROVE  \A r : r \in UNION {Elems(fr[p[1]][p[2]].ready) :
                            p \in {q \in Fibers \X (1 .. MaxDepth) : q[2] <= Len(fr[q[1]])}}
              <=> \E f \in Fibers : \E i \in 1 .. Len(fr[f]) : r \in Elems(fr[f][i].ready)
<1> DEFINE P == {q \in Fibers \X (1 .. MaxDepth) : q[2] <= Len(fr[q[1]])}
<1>1. \A p \in P : p[1] \in Fibers /\ p[2] \in 1 .. Len(fr[p[1]])
  OBVIOUS
<1>2. \A f \in Fibers : \A i \in 1 .. Len(fr[f]) : <<f, i>> \in P /\ <<f, i>>[1] = f /\ <<f, i>>[2] = i
  OBVIOUS
<1> HIDE DEF P
<1>3. ASSUME NEW r, r \in UNION {Elems(fr[p[1]][p[2]].ready) : p \in P}
      PROVE  \E f \in Fibers : \E i \in 1 .. Len(fr[f]) : r \in Elems(fr[f][i].ready)
  <2>1. PICK p \in P : r \in Elems(fr[p[1]][p[2]].ready)
    BY <1>3
  <2> QED BY <2>1, <1>1
<1>4. ASSUME NEW r, NEW f \in Fibers, NEW i \in 1 .. Len(fr[f]), r \in Elems(fr[f][i].ready)
      PROVE  r \in UNION {Elems(fr[p[1]][p[2]].ready) : p \in P}
  <2>1. <<f, i>> \in P /\ r \in Elems(fr[<<f, i>>[1]][<<f, i>>[2]].ready)
    BY <1>2, <1>4
  <2> QED BY <2>1
<1> QED BY <1>3, <1>4 DEF P

LEMMA InHands ==
  ASSUME PumpAssumption, TypeInv
  PROVE  \A r : r \in Hands <=>
           \E f \in Fibers : \E i \in 1 .. Len(frames[f]) : r \in Elems(frames[f][i].ready)
<1>1. MaxDepth \in Nat /\ \A f \in Fibers : Len(frames[f]) \in Nat /\ Len(frames[f]) <= MaxDepth
  BY DEF PumpAssumption, TypeInv, PumpTypeOK, FramesFit
<1> QED BY <1>1, HandsOf DEF Hands, Pumps

LEMMA InHandsNext ==
  ASSUME PumpAssumption, TypeInv'
  PROVE  \A r : r \in Hands' <=>
           \E f \in Fibers : \E i \in 1 .. Len(frames'[f]) : r \in Elems(frames'[f][i].ready)
<1>1. MaxDepth \in Nat /\ \A f \in Fibers : Len(frames'[f]) \in Nat /\ Len(frames'[f]) <= MaxDepth
  BY DEF PumpAssumption, TypeInv, PumpTypeOK, FramesFit
<1> QED BY <1>1, HandsOf DEF Hands, Pumps

\* A step after which the same reads are taken, by the same frames: what comes or goes
\* holds none.
SameHands ==
  /\ \A f \in Fibers : \A i \in 1 .. Len(frames'[f]) :
       \/ frames'[f][i].ready = <<>>
       \/ i \in 1 .. Len(frames[f]) /\ frames'[f][i].ready = frames[f][i].ready
  /\ \A f \in Fibers : \A i \in 1 .. Len(frames[f]) :
       \/ frames[f][i].ready = <<>>
       \/ i \in 1 .. Len(frames'[f]) /\ frames'[f][i].ready = frames[f][i].ready

LEMMA SameHandsSetTop ==
  ASSUME TypeInv, Stack # <<>>, NEW frame \in Frame, SetTop(frame), frame.ready = Top.ready
  PROVE  SameHands
<1>1. Top = frames[host][Len(Stack)]
  BY DEF Top, Stack
<1>2. ASSUME NEW f \in Fibers, NEW i \in 1 .. Len(frames[f])
      PROVE  i \in 1 .. Len(frames'[f]) /\ frames'[f][i].ready = frames[f][i].ready
  BY <1>1, SetTopShape
<1>3. \A f \in Fibers : Len(frames'[f]) = Len(frames[f])
  BY SetTopShape
<1> QED BY <1>2, <1>3 DEF SameHands

LEMMA SameHandsPush ==
  ASSUME TypeInv, NEW frame \in Frame, Push(frame), frame.ready = <<>>
  PROVE  SameHands
<1>1. host \in Fibers /\ Stack = frames[host] /\ Len(Stack) \in Nat
  BY StackShape DEF Stack
<1>2. /\ Len(frames'[host]) = Len(Stack) + 1
      /\ \A f \in Fibers \ {host} : frames'[f] = frames[f]
      /\ frames'[host][Len(Stack) + 1] = frame
      /\ \A i \in 1 .. Len(Stack) : frames'[host][i] = frames[host][i]
  BY PushShape
<1>3. \A f \in Fibers : \A i \in 1 .. Len(frames[f]) :
        i \in 1 .. Len(frames'[f]) /\ frames'[f][i] = frames[f][i]
  BY <1>1, <1>2
<1>4. \A f \in Fibers : \A i \in 1 .. Len(frames'[f]) :
        i \in 1 .. Len(frames[f]) \/ (f = host /\ i = Len(Stack) + 1)
  BY <1>1, <1>2
<1>5. ASSUME NEW f \in Fibers, NEW i \in 1 .. Len(frames'[f])
      PROVE  \/ frames'[f][i].ready = <<>>
             \/ i \in 1 .. Len(frames[f]) /\ frames'[f][i].ready = frames[f][i].ready
  <2>1. CASE i \in 1 .. Len(frames[f])
    BY <2>1, <1>3
  <2>2. CASE f = host /\ i = Len(Stack) + 1
    BY <2>2, <1>2
  <2> QED BY <2>1, <2>2, <1>4
<1> QED BY <1>3, <1>5 DEF SameHands

LEMMA SameHandsPop ==
  ASSUME TypeInv, Stack # <<>>, Pop, Top.ready = <<>>
  PROVE  SameHands
<1>1. /\ host \in Fibers /\ Stack = frames[host] /\ Len(Stack) \in Nat /\ Top = frames[host][Len(Stack)]
  BY StackShape DEF Stack, Top
<1>2. /\ Len(frames'[host]) = Len(Stack) - 1
      /\ \A f \in Fibers \ {host} : frames'[f] = frames[f]
      /\ \A i \in 1 .. Len(Stack) - 1 : frames'[host][i] = frames[host][i]
  BY PopShape
<1>3. \A f \in Fibers : \A i \in 1 .. Len(frames'[f]) :
        i \in 1 .. Len(frames[f]) /\ frames'[f][i] = frames[f][i]
  BY <1>1, <1>2
<1>4. ASSUME NEW f \in Fibers, NEW i \in 1 .. Len(frames[f])
      PROVE  \/ frames[f][i].ready = <<>>
             \/ i \in 1 .. Len(frames'[f]) /\ frames'[f][i].ready = frames[f][i].ready
  <2>1. CASE f = host /\ i = Len(Stack)
    BY <2>1, <1>1
  <2>2. CASE ~(f = host /\ i = Len(Stack))
    BY <2>2, <1>1, <1>2
  <2> QED BY <2>1, <2>2
<1> QED BY <1>3, <1>4 DEF SameHands

LEMMA SameHandsKeep ==
  ASSUME PumpAssumption, TypeInv, TypeInv', SameHands, HandsOrder, HandsApart
  PROVE  Hands' = Hands /\ HandsOrder' /\ HandsApart'
<1>1. \A f \in Fibers : \A i \in 1 .. Len(frames'[f]) : \A r \in Elems(frames'[f][i].ready) :
        i \in 1 .. Len(frames[f]) /\ r \in Elems(frames[f][i].ready)
  BY ElemsEmpty DEF SameHands
<1>2. \A f \in Fibers : \A i \in 1 .. Len(frames[f]) : \A r \in Elems(frames[f][i].ready) :
        i \in 1 .. Len(frames'[f]) /\ r \in Elems(frames'[f][i].ready)
  BY ElemsEmpty DEF SameHands
<1>3. \A r : r \in Hands' <=> r \in Hands
  BY ZenonT(60), <1>1, <1>2, InHands, InHandsNext
<1>4. HandsOrder'
  <2> SUFFICES ASSUME NEW f \in Fibers, NEW i \in 1 .. Len(frames'[f])
               PROVE  Increasing(frames'[f][i].ready)
    BY DEF HandsOrder
  <2> QED BY ElemsEmpty DEF SameHands, HandsOrder
<1>5. HandsApart'
  <2> SUFFICES ASSUME NEW f \in Fibers, NEW g \in Fibers, NEW i \in 1 .. Len(frames'[f]),
                      NEW j \in 1 .. Len(frames'[g]), NEW r \in Elems(frames'[f][i].ready),
                      r \in Elems(frames'[g][j].ready)
               PROVE  f = g /\ i = j
    BY DEF HandsApart
  <2> QED BY ZenonT(60), <1>1 DEF HandsApart
<1> QED BY <1>3, <1>4, <1>5

-----------------------------------------------------------------------------
(* Reads: every one is in one place, in order.                             *)

Distinct(s) == \A i, j \in 1 .. Len(s) : s[i] = s[j] => i = j

LEMMA DistinctAppend ==
  ASSUME NEW S, NEW s \in Seq(S), NEW e, Distinct(s), e \notin Elems(s)
  PROVE  Distinct(Append(s, e))
<1>1. Len(Append(s, e)) = Len(s) + 1 /\ Len(s) \in Nat /\ Append(s, e)[Len(s) + 1] = e
      /\ \A i \in 1 .. Len(s) : Append(s, e)[i] = s[i]
  OBVIOUS
<1>2. \A i \in 1 .. Len(s) : s[i] # e
  BY DEF Elems
<1> QED BY <1>1, <1>2 DEF Distinct

\* The reads a store or a stack holds are numbers of reads, and all have been submitted.
LEMMA ReadNumbers ==
  ASSUME PumpAssumption, TypeInv, ReadInv
  PROVE  /\ Reads \subseteq Nat /\ 0 \notin Reads /\ Len(reads) \in Nat
         /\ Elems(pending) \subseteq Reads /\ Elems(completed) \subseteq Reads
         /\ Elems(answered) \subseteq Reads
         /\ \A r \in Store \cup Hands \cup Elems(answered) \cup perished : r \in Nat /\ r <= Len(reads)
         /\ Store \cap Hands = {} /\ Distinct(answered)
<1>1. Reads \subseteq Nat /\ 0 \notin Reads /\ Len(reads) \in Nat
  BY SMTT(30) DEF Reads, TypeInv, PumpTypeOK, PumpAssumption
<1>2. Elems(pending) \subseteq Reads /\ Elems(completed) \subseteq Reads /\ Elems(answered) \subseteq Reads
  BY ElemsOf DEF TypeInv, PumpTypeOK
<1>3. \A r \in Store \cup Hands \cup Elems(answered) \cup perished : r \in Nat /\ r <= Len(reads)
  <2>1. Store \cup Hands \cup Elems(answered) \cup perished = 1 .. Len(reads)
    BY DEF ReadInv, ReadsConserved, InFlight
  <2> QED BY <1>1, <2>1
<1>4. Store \cap Hands = {}
  <2> SUFFICES ASSUME NEW r \in Store, r \in Hands PROVE FALSE
    OBVIOUS
  <2>1. r < r /\ r \in Nat
    BY <1>3 DEF ReadInv, StoreIsYounger
  <2> QED BY <2>1
<1>5. Distinct(answered)
  BY DEF ReadInv, ReadsConserved, Distinct
<1> QED BY <1>1, <1>2, <1>3, <1>4, <1>5

\* A step that moves no read.
LEMMA SameReads ==
  ASSUME PumpAssumption, TypeInv, TypeInv', ReadInv, SameHands,
         UNCHANGED <<reads, pending, working, completed, answered, perished>>
  PROVE  ReadInv'
<1>1. Hands' = Hands /\ HandsOrder' /\ HandsApart'
  BY SameHandsKeep DEF ReadInv
<1>2. Store' = Store
  BY DEF Store
<1>3. StoreOrder'
  BY DEF ReadInv, StoreOrder
<1>4. StoreIsYounger' /\ ReadsConserved'
  BY <1>1, <1>2 DEF ReadInv, StoreIsYounger, ReadsConserved, InFlight
<1> QED BY <1>1, <1>3, <1>4 DEF ReadInv

LEMMA StillHands ==
  ASSUME UNCHANGED frames
  PROVE  SameHands /\ Hands' = Hands /\ (HandsOrder => HandsOrder') /\ (HandsApart => HandsApart')
BY DEF SameHands, Hands, Pumps, HandsOrder, HandsApart

\* A read submitted is younger than all others.
LEMMA ReadAsyncKeeps ==
  ASSUME PumpAssumption, TypeInv, ReadInv, NEW b \in CommandBlocks, ReadAsync(b)
  PROVE  ReadInv'
<1> DEFINE n == Len(reads) + 1
<1>1. /\ reads' = Append(reads, b) /\ pending' = Append(pending, Len(reads'))
      /\ UNCHANGED <<working, completed, answered, perished, frames>>
  BY DEF ReadAsync
<1>2. Len(reads') = n /\ pending' = Append(pending, n) /\ n \in Nat
  BY <1>1 DEF TypeInv, PumpTypeOK
<1>3. Elems(pending') = Elems(pending) \cup {n}
  BY <1>2, ElemsAppend DEF TypeInv, PumpTypeOK
<1>4. Store' = Store \cup {n} /\ Hands' = Hands
  BY <1>1, <1>3, StillHands DEF Store
<1>5. \A r \in Store \cup Hands \cup Elems(answered) \cup perished : r \in Nat /\ r < n
  BY ReadNumbers
<1>6. StoreOrder'
  <2>1. Increasing(pending')
    BY <1>2, <1>5, IncreasingAppend DEF ReadInv, StoreOrder, Store, TypeInv, PumpTypeOK
  <2>2. \A c \in Elems(completed'), r \in Elems(pending') : c < r
    BY <1>1, <1>3, <1>5 DEF ReadInv, StoreOrder, Store
  <2>3. working' # 0 => \A r \in Elems(pending') : working' < r
    BY <1>1, <1>3, <1>5 DEF ReadInv, StoreOrder, Store
  <2> QED BY <1>1, <2>1, <2>2, <2>3 DEF ReadInv, StoreOrder
<1>7. StoreIsYounger'
  BY <1>4, <1>5 DEF ReadInv, StoreIsYounger
<1>8. ReadsConserved'
  <2>1. InFlight' = InFlight \cup {n}
    BY <1>4 DEF InFlight
  <2>2. 1 .. n = (1 .. Len(reads)) \cup {n}
    BY ReadNumbers
  <2>3. n \notin Elems(answered) /\ n \notin perished
    BY <1>5
  <2> HIDE DEF n
  <2> QED BY <1>1, <1>2, <2>1, <2>2, <2>3 DEF ReadInv, ReadsConserved
<1> QED BY <1>1, <1>6, <1>7, <1>8, StillHands DEF ReadInv

LEMMA ReadAsyncFailsKeeps ==
  ASSUME PumpAssumption, TypeInv, TypeInv', ReadInv, NEW b \in CommandBlocks, ReadAsyncFails(b)
  PROVE  ReadInv'
<1> DEFINE n == Len(reads) + 1
           frame == [stage |-> "submit", ready |-> <<>>, left |-> 0, inCallback |-> TRUE]
<1>1. /\ reads' = Append(reads, b) /\ answered' = Append(answered, Len(reads')) /\ Push(frame)
      /\ UNCHANGED <<pending, working, completed, perished>>
  BY DEF ReadAsyncFails
<1>2. Len(reads') = n /\ answered' = Append(answered, n) /\ n \in Nat
  BY SMTT(30), <1>1 DEF TypeInv, PumpTypeOK
<1>3. frame \in Frame /\ frame.ready = <<>>
  BY DEF Frame, PumpAssumption
<1> HIDE DEF frame
<1>4. SameHands
  BY <1>1, <1>3, SameHandsPush
<1>5. Hands' = Hands /\ HandsOrder' /\ HandsApart'
  BY <1>4, SameHandsKeep DEF ReadInv
<1>6. Store' = Store /\ StoreOrder'
  BY <1>1 DEF Store, ReadInv, StoreOrder
<1>7. Elems(answered') = Elems(answered) \cup {n}
  BY <1>2, ElemsAppend DEF TypeInv, PumpTypeOK
<1>8. \A r \in Store \cup Hands \cup Elems(answered) \cup perished : r \in Nat /\ r < n
  BY ReadNumbers
<1>9. n \notin Store \cup Hands \cup Elems(answered) \cup perished
  BY <1>2, <1>8
<1>10. Distinct(answered')
  BY <1>2, <1>9, ReadNumbers, DistinctAppend DEF TypeInv, PumpTypeOK
<1>11. ReadsConserved'
  <2>1. 1 .. n = (1 .. Len(reads)) \cup {n}
    BY ReadNumbers
  <2>2. InFlight' = InFlight /\ n \notin InFlight
    BY <1>5, <1>6, <1>9 DEF InFlight
  <2> HIDE DEF n
  <2> QED BY <1>1, <1>2, <1>7, <1>9, <1>10, <2>1, <2>2 DEF ReadInv, ReadsConserved, Distinct
<1>12. StoreIsYounger'
  BY <1>5, <1>6 DEF ReadInv, StoreIsYounger
<1> QED BY <1>5, <1>6, <1>11, <1>12 DEF ReadInv

\* The worker takes the oldest read that waits, and puts it behind those that are done.
LEMMA WorkerKeeps ==
  ASSUME PumpAssumption, TypeInv, ReadInv, WorkerTakes \/ WorkerPublishes
  PROVE  ReadInv'
<1>1. UNCHANGED <<reads, answered, perished, frames>>
  BY DEF WorkerTakes, WorkerPublishes
<1>2. Store' = Store /\ StoreOrder'
  <2>1. CASE WorkerTakes
    <3>1. working = 0 /\ pending # <<>> /\ working' = Head(pending) /\ pending' = Tail(pending)
          /\ completed' = completed
      BY <2>1 DEF WorkerTakes
    <3>2. /\ Elems(pending) = {Head(pending)} \cup Elems(Tail(pending))
          /\ Increasing(Tail(pending)) /\ \A x \in Elems(Tail(pending)) : Head(pending) < x
          /\ Head(pending) \in Reads
      BY <3>1, ElemsTail, ReadNumbers DEF TypeInv, PumpTypeOK, ReadInv, StoreOrder
    <3>3. Store' = Store
      BY <3>1, <3>2, ReadNumbers DEF Store
    <3>4. StoreOrder'
      BY <3>1, <3>2 DEF ReadInv, StoreOrder
    <3> QED BY <3>3, <3>4
  <2>2. CASE WorkerPublishes
    <3>1. working # 0 /\ completed' = Append(completed, working) /\ working' = 0 /\ pending' = pending
      BY <2>2 DEF WorkerPublishes
    <3>2. Elems(completed') = Elems(completed) \cup {working}
      BY <3>1, ElemsAppend DEF TypeInv, PumpTypeOK
    <3>3. Increasing(completed')
      BY <3>1, IncreasingAppend DEF TypeInv, PumpTypeOK, ReadInv, StoreOrder
    <3>4. Store' = Store
      BY <3>1, <3>2 DEF Store
    <3>5. StoreOrder'
      BY <3>1, <3>2, <3>3 DEF ReadInv, StoreOrder
    <3> QED BY <3>4, <3>5
  <2> QED BY <2>1, <2>2
<1>3. Hands' = Hands /\ HandsOrder' /\ HandsApart'
  BY <1>1, StillHands DEF ReadInv
<1>4. StoreIsYounger' /\ ReadsConserved'
  BY <1>1, <1>2, <1>3 DEF ReadInv, StoreIsYounger, ReadsConserved, InFlight
<1> QED BY <1>2, <1>3, <1>4 DEF ReadInv

\* A pump takes what is done: older than all that the store still holds, and in no other
\* pump's hands.
LEMMA PumpBeginsKeeps ==
  ASSUME PumpAssumption, TypeInv, TypeInv', ReadInv, PumpBegins
  PROVE  ReadInv'
<1> DEFINE frame == [stage |-> "dvd", ready |-> completed, left |-> Batch, inCallback |-> FALSE]
<1>1. /\ Push(frame) /\ completed' = <<>> /\ UNCHANGED <<reads, pending, working, answered, perished>>
  BY DEF PumpBegins
<1>2. frame \in Frame /\ frame.ready = completed
  BY DEF Frame, TypeInv, PumpTypeOK, PumpAssumption
<1> HIDE DEF frame
<1>3. host \in Fibers /\ Stack = frames[host] /\ Len(Stack) \in Nat
  BY StackShape DEF Stack
<1>4. /\ Len(frames'[host]) = Len(Stack) + 1
      /\ \A f \in Fibers \ {host} : frames'[f] = frames[f]
      /\ frames'[host][Len(Stack) + 1] = frame
      /\ \A i \in 1 .. Len(Stack) : frames'[host][i] = frames[host][i]
  BY <1>1, <1>2, PushShape
<1>5. \A f \in Fibers : \A i \in 1 .. Len(frames[f]) :
        i \in 1 .. Len(frames'[f]) /\ frames'[f][i] = frames[f][i]
  BY <1>3, <1>4
<1>6. \A f \in Fibers : \A i \in 1 .. Len(frames'[f]) :
        i \in 1 .. Len(frames[f]) \/ (f = host /\ i = Len(Stack) + 1)
  BY <1>3, <1>4
<1>7. Len(Stack) + 1 \in 1 .. Len(frames'[host])
  BY <1>3, <1>4
<1>8. Hands' = Hands \cup Elems(completed)
  <2>1. \A r \in Hands' : r \in Hands \cup Elems(completed)
    <3> SUFFICES ASSUME NEW r, NEW f \in Fibers, NEW i \in 1 .. Len(frames'[f]),
                        r \in Elems(frames'[f][i].ready)
                 PROVE  r \in Hands \cup Elems(completed)
      BY InHandsNext
    <3>1. CASE i \in 1 .. Len(frames[f])
      BY <3>1, <1>5, InHands
    <3>2. CASE f = host /\ i = Len(Stack) + 1
      BY <3>2, <1>2, <1>4
    <3> QED BY <3>1, <3>2, <1>6
  <2>2. \A r \in Hands : r \in Hands'
    BY <1>5, InHands, InHandsNext
  <2>3. \A r \in Elems(completed) : r \in Hands'
    BY <1>2, <1>3, <1>4, <1>7, InHandsNext
  <2> QED BY <2>1, <2>2, <2>3
<1>9. Store' = Elems(pending) \cup ({working} \ {0}) /\ Store = Store' \cup Elems(completed)
  BY <1>1, ElemsEmpty DEF Store
<1>10. HandsOrder'
  <2> SUFFICES ASSUME NEW f \in Fibers, NEW i \in 1 .. Len(frames'[f])
               PROVE  Increasing(frames'[f][i].ready)
    BY DEF HandsOrder
  <2>1. CASE i \in 1 .. Len(frames[f])
    BY <2>1, <1>5 DEF ReadInv, HandsOrder
  <2>2. CASE f = host /\ i = Len(Stack) + 1
    BY <2>2, <1>2, <1>4 DEF ReadInv, StoreOrder
  <2> QED BY <2>1, <2>2, <1>6
<1>11. HandsApart'
  <2> SUFFICES ASSUME NEW f \in Fibers, NEW g \in Fibers, NEW i \in 1 .. Len(frames'[f]),
                      NEW j \in 1 .. Len(frames'[g]), NEW r \in Elems(frames'[f][i].ready),
                      r \in Elems(frames'[g][j].ready)
               PROVE  f = g /\ i = j
    BY DEF HandsApart
  <2>1. \A h \in Fibers : \A k \in 1 .. Len(frames[h]) : r \in Elems(frames[h][k].ready) => r \notin Elems(completed)
    BY ReadNumbers, InHands DEF Store
  <2>2. CASE i \in 1 .. Len(frames[f]) /\ j \in 1 .. Len(frames[g])
    <3>1. r \in Elems(frames[f][i].ready) /\ r \in Elems(frames[g][j].ready)
      BY <2>2, <1>5
    <3>2. HandsApart
      BY DEF ReadInv
    <3> QED BY <2>2, <3>1, <3>2 DEF HandsApart
  <2>3. CASE i \in 1 .. Len(frames[f]) /\ g = host /\ j = Len(Stack) + 1
    <3>1. r \in Elems(completed) /\ r \in Elems(frames[f][i].ready)
      BY <2>3, <1>2, <1>4, <1>5
    <3> QED BY <2>1, <2>3, <3>1
  <2>4. CASE j \in 1 .. Len(frames[g]) /\ f = host /\ i = Len(Stack) + 1
    <3>1. r \in Elems(completed) /\ r \in Elems(frames[g][j].ready)
      BY <2>4, <1>2, <1>4, <1>5
    <3> QED BY <2>1, <2>4, <3>1
  <2> QED BY <2>2, <2>3, <2>4, <1>6
<1>12. StoreOrder'
  BY <1>1, ElemsEmpty DEF ReadInv, StoreOrder
<1>13. StoreIsYounger'
  <2> SUFFICES ASSUME NEW r \in Hands', NEW s \in Store' PROVE r < s
    BY DEF StoreIsYounger
  <2>1. CASE r \in Hands
    BY <2>1, <1>9 DEF ReadInv, StoreIsYounger
  <2>2. CASE r \in Elems(completed)
    BY <2>2, <1>9 DEF ReadInv, StoreOrder
  <2> QED BY <2>1, <2>2, <1>8
<1>14. ReadsConserved'
  BY <1>1, <1>8, <1>9 DEF ReadInv, ReadsConserved, InFlight
<1> QED BY <1>10, <1>11, <1>12, <1>13, <1>14 DEF ReadInv

\* The oldest read of a pump leaves its hands, and no other's, to be answered.
LEMMA PumpReadKeeps ==
  ASSUME PumpAssumption, TypeInv, TypeInv', ReadInv, PumpRead
  PROVE  ReadInv'
<1> DEFINE h == Head(Top.ready)
           rest == Tail(Top.ready)
           frame == [Top EXCEPT !.ready = Tail(@), !.inCallback = TRUE]
           n == Len(Stack)
<1>1. /\ SetTop(frame) /\ Stack # <<>> /\ Top.ready # <<>> /\ answered' = Append(answered, h)
      /\ UNCHANGED <<reads, pending, working, completed, perished>>
  BY DEF PumpRead, InPump
<1>2. /\ host \in Fibers /\ n \in 1 .. Len(frames[host]) /\ Top = frames[host][n]
      /\ Top.ready \in Seq(Reads)
  BY <1>1, StackShape DEF Stack, Top
<1>3. /\ Elems(Top.ready) = {h} \cup Elems(rest) /\ h \in Reads /\ rest \in Seq(Reads)
      /\ Increasing(rest) /\ \A x \in Elems(rest) : h < x
  BY <1>1, <1>2, ElemsTail, ReadNumbers DEF ReadInv, HandsOrder
<1>4. h \notin Elems(rest) /\ h \in Nat
  BY <1>3, ReadNumbers
<1>5. frame \in Frame /\ frame.ready = rest
  BY <1>1, <1>3, StackShape DEF Frame
<1> HIDE DEF frame, h, rest
<1>6. /\ \A f \in Fibers : Len(frames'[f]) = Len(frames[f])
      /\ frames'[host][n] = frame
      /\ \A f \in Fibers : \A i \in 1 .. Len(frames[f]) :
           f # host \/ i # n => frames'[f][i] = frames[f][i]
  BY <1>1, <1>5, SetTopShape
<1> HIDE DEF n
<1>7. \A f \in Fibers : \A i \in 1 .. Len(frames[f]) : \A r :
        r \in Elems(frames'[f][i].ready) <=> r \in Elems(frames[f][i].ready) /\ r # h
  <2> TAKE f \in Fibers
  <2> TAKE i \in 1 .. Len(frames[f])
  <2> TAKE r
  <2>1. CASE f = host /\ i = n
    BY <2>1, <1>2, <1>3, <1>4, <1>5, <1>6
  <2>2. CASE ~(f = host /\ i = n)
    <3>1. frames'[f][i] = frames[f][i]
      BY <2>2, <1>6
    <3>2. h \in Elems(frames[host][n].ready)
      BY <1>2, <1>3
    <3>3. h \notin Elems(frames[f][i].ready)
      BY <2>2, <3>2, <1>2 DEF ReadInv, HandsApart
    <3> QED BY <3>1, <3>3
  <2> QED BY <2>1, <2>2
<1>8. Hands' = Hands \ {h} /\ h \in Hands
  <2>1. h \in Hands
    BY <1>2, <1>3, InHands
  <2>2. \A r : r \in Hands' => r \in Hands /\ r # h
    <3> SUFFICES ASSUME NEW r, NEW f \in Fibers, NEW i \in 1 .. Len(frames'[f]),
                        r \in Elems(frames'[f][i].ready)
                 PROVE  r \in Hands /\ r # h
      BY InHandsNext
    <3>1. i \in 1 .. Len(frames[f])
      BY <1>6
    <3>2. r \in Elems(frames[f][i].ready) /\ r # h
      BY <1>7, <3>1
    <3> QED BY <3>1, <3>2, InHands
  <2>3. \A r : r \in Hands /\ r # h => r \in Hands'
    <3> SUFFICES ASSUME NEW r, r # h, NEW f \in Fibers, NEW i \in 1 .. Len(frames[f]),
                        r \in Elems(frames[f][i].ready)
                 PROVE  r \in Hands'
      BY InHands
    <3>1. i \in 1 .. Len(frames'[f]) /\ r \in Elems(frames'[f][i].ready)
      BY <1>6, <1>7
    <3> QED BY <3>1, InHandsNext
  <2> QED BY <2>1, <2>2, <2>3
<1>9. Store' = Store /\ StoreOrder'
  BY <1>1 DEF Store, ReadInv, StoreOrder
<1>10. HandsOrder'
  <2> SUFFICES ASSUME NEW f \in Fibers, NEW i \in 1 .. Len(frames'[f])
               PROVE  Increasing(frames'[f][i].ready)
    BY DEF HandsOrder
  <2>1. CASE f = host /\ i = n
    BY <2>1, <1>3, <1>5, <1>6
  <2>2. CASE ~(f = host /\ i = n)
    BY <2>2, <1>6 DEF ReadInv, HandsOrder
  <2> QED BY <2>1, <2>2
<1>11. HandsApart'
  <2> SUFFICES ASSUME NEW f \in Fibers, NEW g \in Fibers, NEW i \in 1 .. Len(frames'[f]),
                      NEW j \in 1 .. Len(frames'[g]), NEW r \in Elems(frames'[f][i].ready),
                      r \in Elems(frames'[g][j].ready)
               PROVE  f = g /\ i = j
    BY DEF HandsApart
  <2>1. i \in 1 .. Len(frames[f]) /\ j \in 1 .. Len(frames[g])
    BY <1>6
  <2>2. r \in Elems(frames[f][i].ready) /\ r \in Elems(frames[g][j].ready)
    BY <1>7, <2>1
  <2>3. HandsApart
    BY DEF ReadInv
  <2> QED BY <2>1, <2>2, <2>3 DEF HandsApart
<1>12. Elems(answered') = Elems(answered) \cup {h}
  BY <1>1, ElemsAppend DEF TypeInv, PumpTypeOK
<1>13. h \notin Store /\ h \notin Elems(answered) /\ h \notin perished
  BY <1>8, ReadNumbers DEF ReadInv, ReadsConserved, InFlight
<1>14. Distinct(answered')
  BY <1>1, <1>13, ReadNumbers, DistinctAppend DEF TypeInv, PumpTypeOK
<1>15. ReadsConserved'
  <2>1. InFlight' = InFlight \ {h} /\ h \in InFlight
    BY <1>8, <1>9, <1>13 DEF InFlight
  <2> QED BY <1>1, <1>12, <1>13, <1>14, <2>1 DEF ReadInv, ReadsConserved, Distinct
<1>16. StoreIsYounger'
  BY <1>8, <1>9 DEF ReadInv, StoreIsYounger
<1> QED BY <1>9, <1>10, <1>11, <1>15, <1>16 DEF ReadInv

\* What the pumps of a fiber that ends had taken leaves their hands, and no other's.
LEMMA FiberEndsKeeps ==
  ASSUME PumpAssumption, TypeInv, TypeInv', ReadInv,
         NEW f \in Fibers, NEW g \in Fibers, FiberEnds(f, g)
  PROVE  ReadInv'
<1>1. /\ perished' = perished \cup TakenBy(f)
      /\ UNCHANGED <<reads, pending, working, completed, answered>>
  BY DEF FiberEnds
<1>2. \A h \in Fibers : \A i \in 1 .. Len(frames'[h]) :
        h # f /\ i \in 1 .. Len(frames[h]) /\ frames'[h][i] = frames[h][i]
  BY EndShape
<1>3. \A h \in Fibers : \A i \in 1 .. Len(frames[h]) :
        h = f \/ (i \in 1 .. Len(frames'[h]) /\ frames'[h][i] = frames[h][i])
  BY EndShape
<1>4. \A r : r \in TakenBy(f) <=> \E i \in 1 .. Len(frames[f]) : r \in Elems(frames[f][i].ready)
  BY DEF TakenBy
<1>5. Hands' = Hands \ TakenBy(f) /\ TakenBy(f) \subseteq Hands
  <2>1. ASSUME NEW r, r \in Hands'
        PROVE  r \in Hands /\ r \notin TakenBy(f)
    <3>1. PICK h \in Fibers : \E i \in 1 .. Len(frames'[h]) : r \in Elems(frames'[h][i].ready)
      BY <2>1, InHandsNext
    <3>2. PICK i \in 1 .. Len(frames'[h]) : r \in Elems(frames'[h][i].ready)
      BY <3>1
    <3>3. h # f /\ i \in 1 .. Len(frames[h]) /\ r \in Elems(frames[h][i].ready)
      BY <1>2, <3>2
    <3>4. \A j \in 1 .. Len(frames[f]) : r \notin Elems(frames[f][j].ready)
      BY <3>3 DEF ReadInv, HandsApart
    <3> QED BY <1>4, <3>3, <3>4, InHands
  <2>2. ASSUME NEW r, r \in Hands, r \notin TakenBy(f)
        PROVE  r \in Hands'
    <3>1. PICK h \in Fibers : \E i \in 1 .. Len(frames[h]) : r \in Elems(frames[h][i].ready)
      BY <2>2, InHands
    <3>2. PICK i \in 1 .. Len(frames[h]) : r \in Elems(frames[h][i].ready)
      BY <3>1
    <3>3. h # f
      BY <1>4, <2>2, <3>2
    <3>4. i \in 1 .. Len(frames'[h]) /\ r \in Elems(frames'[h][i].ready)
      BY <1>3, <3>2, <3>3
    <3> QED BY <3>4, InHandsNext
  <2>3. \A r \in TakenBy(f) : r \in Hands
    BY <1>4, InHands
  <2> QED BY <2>1, <2>2, <2>3
<1>6. HandsOrder'
  BY <1>2 DEF ReadInv, HandsOrder
<1>7. HandsApart'
  <2> SUFFICES ASSUME NEW h \in Fibers, NEW k \in Fibers, NEW i \in 1 .. Len(frames'[h]),
                      NEW j \in 1 .. Len(frames'[k]), NEW r \in Elems(frames'[h][i].ready),
                      r \in Elems(frames'[k][j].ready)
               PROVE  h = k /\ i = j
    BY DEF HandsApart
  <2>1. /\ i \in 1 .. Len(frames[h]) /\ j \in 1 .. Len(frames[k])
        /\ r \in Elems(frames[h][i].ready) /\ r \in Elems(frames[k][j].ready)
    BY <1>2
  <2> QED BY <2>1 DEF ReadInv, HandsApart
<1>8. Store' = Store /\ StoreOrder'
  BY <1>1 DEF Store, ReadInv, StoreOrder
<1>9. StoreIsYounger'
  BY <1>5, <1>8 DEF ReadInv, StoreIsYounger
<1>10. ReadsConserved'
  <2>1. InFlight' = InFlight \ TakenBy(f) /\ TakenBy(f) \subseteq InFlight
    BY <1>5, <1>8, ReadNumbers DEF InFlight
  <2> QED BY <1>1, <2>1 DEF ReadInv, ReadsConserved
<1> QED BY <1>6, <1>7, <1>8, <1>9, <1>10 DEF ReadInv

\* Every step of the pump and of its callers keeps the reads in one place and in order.
LEMMA ReadStep ==
  ASSUME PumpAssumption, TypeInv, TypeInv', ReadInv, [PumpNext]_pumpVars
  PROVE  ReadInv'
<1>1. ASSUME NEW b \in CommandBlocks, ReadAsync(b) \/ ReadAsyncFails(b)
      PROVE  ReadInv'
  BY <1>1, ReadAsyncKeeps, ReadAsyncFailsKeeps
<1>2. CASE WorkerTakes \/ WorkerPublishes
  BY <1>2, WorkerKeeps
<1>3. CASE PumpBegins
  BY <1>3, PumpBeginsKeeps
<1>4. CASE PumpRead
  BY <1>4, PumpReadKeeps
<1>5. CASE \/ \E b \in CommandBlocks : ReadSync(b)
           \/ CancelAll \/ QueueCallback \/ (\E f \in Fibers : Switch(f)) \/ UNCHANGED pumpVars
  <2>1. UNCHANGED <<reads, pending, working, completed, answered, perished, frames>>
    BY <1>5 DEF ReadSync, CancelAll, QueueCallback, Switch, pumpVars, dvdVars
  <2> QED BY <2>1, StillHands, SameReads
<1>6. CASE CallbackReturns
  <2>1. Stack # <<>> /\ UNCHANGED <<reads, pending, working, completed, answered, perished>>
    BY <1>6 DEF CallbackReturns
  <2>2. SameHands
    <3>1. CASE Top.stage = "submit"
      <4>1. Top.ready = <<>>
        BY <2>1, <3>1, StackShape DEF TypeInv, FramesFit, Top, Stack
      <4>2. Pop
        BY <1>6, <3>1 DEF CallbackReturns
      <4> QED BY <2>1, <4>1, <4>2, SameHandsPop
    <3>2. CASE Top.stage # "submit"
      <4> DEFINE frame == [Top EXCEPT !.inCallback = FALSE]
      <4>1. SetTop(frame)
        BY <1>6, <3>2 DEF CallbackReturns
      <4>2. frame \in Frame /\ frame.ready = Top.ready
        BY <2>1, StackShape DEF Frame
      <4> HIDE DEF frame
      <4> QED BY <2>1, <4>1, <4>2, SameHandsSetTop
    <3> QED BY <3>1, <3>2
  <2> QED BY <2>1, <2>2, SameReads
<1>7. CASE PumpDrains
  <2>1. /\ Stack # <<>> /\ Top.ready = <<>> /\ Drain
        /\ UNCHANGED <<reads, pending, working, completed, answered, perished>>
    BY <1>7 DEF PumpDrains, InPump, dvdVars
  <2>2. SameHands
    <3>1. CASE depth = 0
      <4> DEFINE frame == [Top EXCEPT !.stage = "ios"]
      <4>1. SetTop(frame)
        BY <2>1, <3>1 DEF Drain
      <4>2. frame \in Frame /\ frame.ready = Top.ready
        BY <2>1, StackShape DEF Frame
      <4> HIDE DEF frame
      <4> QED BY <2>1, <4>1, <4>2, SameHandsSetTop
    <3>2. CASE depth # 0
      BY <2>1, <3>2, SameHandsPop DEF Drain
    <3> QED BY <3>1, <3>2
  <2> QED BY <2>1, <2>2, SameReads
<1>8. CASE DrainDirect
  <2> DEFINE frame == [stage |-> "ios", ready |-> <<>>, left |-> Batch, inCallback |-> FALSE]
  <2>1. Push(frame) /\ UNCHANGED <<reads, pending, working, completed, answered, perished>>
    BY <1>8 DEF DrainDirect, dvdVars
  <2>2. frame \in Frame /\ frame.ready = <<>>
    BY DEF Frame, PumpAssumption
  <2> HIDE DEF frame
  <2>3. SameHands
    BY <2>1, <2>2, SameHandsPush
  <2> QED BY <2>1, <2>3, SameReads
<1>9. CASE DrainCalls
  <2> DEFINE frame == [Top EXCEPT !.left = @ - 1, !.inCallback = TRUE]
  <2>1. /\ SetTop(frame) /\ Stack # <<>> /\ Top.left > 0
        /\ UNCHANGED <<reads, pending, working, completed, answered, perished>>
    BY <1>9 DEF DrainCalls, InPump, dvdVars
  <2>2. frame \in Frame /\ frame.ready = Top.ready
    <3>1. Top \in Frame /\ Top.left - 1 \in 0 .. Batch
      BY <2>1, StackShape DEF PumpAssumption
    <3> QED BY <3>1 DEF Frame
  <2> HIDE DEF frame
  <2>3. SameHands
    BY <2>1, <2>2, SameHandsSetTop
  <2> QED BY <2>1, <2>3, SameReads
<1>10. CASE DrainEnds
  <2>1. /\ Stack # <<>> /\ Top.stage = "ios" /\ Pop
        /\ UNCHANGED <<reads, pending, working, completed, answered, perished>>
    BY <1>10 DEF DrainEnds, InPump, dvdVars
  <2>2. Top.ready = <<>>
    BY <2>1, StackShape DEF TypeInv, FramesFit, Top, Stack
  <2>3. SameHands
    BY <2>1, <2>2, SameHandsPop
  <2> QED BY <2>1, <2>3, SameReads
<1>11. ASSUME NEW f \in Fibers, NEW g \in Fibers, FiberEnds(f, g)
       PROVE  ReadInv'
  BY <1>11, FiberEndsKeeps
<1> QED BY <1>1, <1>2, <1>3, <1>4, <1>5, <1>6, <1>7, <1>8, <1>9, <1>10, <1>11 DEF PumpNext

-----------------------------------------------------------------------------
(* The theorems.                                                           *)

LEMMA InitHolds ==
  ASSUME PumpAssumption, PumpInit
  PROVE  PumpInv
<1>1. \A f \in Fibers : frames[f] = <<>> /\ Len(frames[f]) = 0
  BY DEF PumpInit
<1>2. TypeInv
  <2>1. 0 \in 0 .. 1 /\ 0 \in 0 .. MaxReads /\ 0 \in 0 .. MaxCalls /\ MaxDepth \in Nat /\ First \in Fibers
    BY DEF PumpAssumption
  <2>2. PumpTypeOK
    <3>1. drainHeld = FALSE /\ drainHeld \in BOOLEAN /\ perished \subseteq Reads
      BY DEF PumpInit
    <3>2. frames \in [Fibers -> Seq(Frame)] /\ host \in Fibers /\ depth \in 0 .. 1
      BY <2>1 DEF PumpInit
    <3> QED BY <2>1, <3>1, <3>2 DEF PumpInit, PumpTypeOK, PumpAssumption
  <2>3. FramesFit
    BY <1>1, <2>1 DEF FramesFit
  <2> QED BY <2>2, <2>3 DEF TypeInv
<1>3. Hands = {}
  BY <1>1, <1>2, InHands
<1>4. Store = {}
  BY ElemsEmpty DEF PumpInit, Store
<1>5. ReadInv
  <2>1. StoreOrder
    BY ElemsEmpty DEF PumpInit, StoreOrder
  <2>2. HandsOrder /\ HandsApart
    BY <1>1 DEF HandsOrder, HandsApart
  <2>3. StoreIsYounger
    BY <1>3 DEF StoreIsYounger
  <2>4. ReadsConserved
    BY <1>3, <1>4, ElemsEmpty DEF PumpInit, ReadsConserved, InFlight
  <2> QED BY <2>1, <2>2, <2>3, <2>4 DEF ReadInv
<1>6. CallInv
  BY DEF PumpInit, CallInv, CallbacksInOrder
<1>7. DrainInv
  BY <1>1 DEF PumpInit, DrainInv
<1> QED BY <1>2, <1>5, <1>6, <1>7 DEF PumpInv

LEMMA NextKeeps ==
  ASSUME PumpAssumption, PumpInv, [PumpNext]_pumpVars
  PROVE  PumpInv'
<1>1. TypeInv'
  BY TypeStep DEF PumpInv
<1>2. ReadInv' /\ CallInv' /\ DrainInv'
  BY <1>1, ReadStep, CallStep, DrainStep DEF PumpInv
<1> QED BY <1>1, <1>2 DEF PumpInv

LEMMA PumpInvariance ==
  ASSUME PumpAssumption
  PROVE  PumpSpec => []PumpInv
<1>1. PumpInit => PumpInv
  BY InitHolds
<1>2. PumpInv /\ [PumpNext]_pumpVars => PumpInv'
  BY NextKeeps
<1> QED BY <1>1, <1>2, PTL DEF PumpSpec

\* The frames that drain are none or one, as the counter says.
LEMMA OneDrain ==
  ASSUME PumpAssumption, TypeInv, DrainInv
  PROVE  FlatDrain
<1>1. MaxDepth \in Nat /\ \A f \in Fibers : Len(frames[f]) \in Nat /\ Len(frames[f]) <= MaxDepth
  BY DEF PumpAssumption, TypeInv, PumpTypeOK, FramesFit
<1>2. ASSUME NEW p \in Drains
      PROVE  /\ p = <<p[1], p[2]>> /\ p[1] \in Fibers /\ p[2] \in 1 .. Len(frames[p[1]])
             /\ frames[p[1]][p[2]].stage = "ios"
  BY <1>1 DEF Drains, Pumps
<1>3. ASSUME NEW f \in Fibers, NEW i \in 1 .. Len(frames[f]), frames[f][i].stage = "ios"
      PROVE  <<f, i>> \in Drains
  BY <1>1, <1>3 DEF Drains, Pumps
<1>4. CASE depth = 0 \/ drainHeld
  <2>1. Drains = {}
    BY <1>2, <1>4 DEF DrainInv
  <2>2. depth = IF drainHeld THEN 1 ELSE 0
    BY <1>4 DEF DrainInv
  <2>3. Cardinality(Drains) = 0
    BY <2>1, FS_EmptySet
  <2> QED BY <2>2, <2>3 DEF FlatDrain
<1>5. CASE depth = 1 /\ ~drainHeld
  <2>0. PICK f \in Fibers : \E i \in 1 .. Len(frames[f]) : frames[f][i].stage = "ios"
    BY <1>5 DEF DrainInv
  <2>1. PICK i \in 1 .. Len(frames[f]) : frames[f][i].stage = "ios"
    BY <2>0
  <2>2. \A p \in Drains : p = <<f, i>>
    BY <1>2, <2>1 DEF DrainInv
  <2>3. Drains = {<<f, i>>}
    BY <1>3, <2>1, <2>2
  <2>4. Cardinality(Drains) = 1
    BY <2>3, FS_Singleton
  <2> QED BY <1>5, <2>4 DEF FlatDrain
<1> QED BY <1>4, <1>5 DEF TypeInv, PumpTypeOK

\* The queues, the pumps on every stack and the counters are of their types, whatever
\* guest code a callback runs.
THEOREM TypesCorrect ==
  ASSUME PumpAssumption
  PROVE  PumpSpec => []PumpTypeOK
<1>1. PumpInv => PumpTypeOK
  BY DEF PumpInv, TypeInv
<1> QED BY <1>1, PumpInvariance, PTL

\* Every read submitted is in one place, or has been answered, once, or was lost with the
\* fiber whose pump had taken it; what a pump has taken is older than what the store holds;
\* the guard of the drain is held by one frame, by one that was destroyed, or free; and IOS
\* callbacks begin in the order they were queued, however pumps nest and fibers switch and
\* end.
THEOREM CompletionsStayInOrder ==
  ASSUME PumpAssumption
  PROVE  PumpSpec => []CompletionsInOrder
<1>1. PumpInv => CompletionsInOrder
  BY OneDrain DEF PumpInv, ReadInv, CallInv, CompletionsInOrder
<1> QED BY <1>1, PumpInvariance, PTL

-----------------------------------------------------------------------------
(* IPC transfers: who holds a request block, and what follows what.        *)

\* No read is twice in the store of deferred reads.
StoreApart ==
  /\ \A i, j \in 1 .. Len(diPending) : diPending[i] = diPending[j] => i = j
  /\ \A i, j \in 1 .. Len(diCompleted) : diCompleted[i] = diCompleted[j] => i = j
  /\ \A i \in 1 .. Len(diPending), j \in 1 .. Len(diCompleted) : diPending[i] # diCompleted[j]
  /\ ~Among(diWorking, diPending) /\ ~Among(diWorking, diCompleted)

\* A drain that is over has left nothing in the queue.
CallsDrained == drain = "off" => calls = <<>>

\* The reply to a command waits behind the callback of the transfer that carried it.
RepliesFollowOut ==
  \A i \in 1 .. Len(events) : events[i] # 0 => events[i] \in confirmed \/ Among(events[i], calls)

HeldInv == ArmedNotFreed /\ ReadNotFreed /\ StoreApart
ReplyInv == CallsDrained /\ RepliesFollowOut
IpcInv == IpcTypeOK /\ HeldInv /\ ReplyInv

LEMMA AmongAppend ==
  ASSUME NEW S, NEW s \in Seq(S), NEW x \in S, NEW r
  PROVE  /\ Append(s, x) \in Seq(S)
         /\ Among(r, Append(s, x)) <=> Among(r, s) \/ r = x
<1>1. /\ Append(s, x) \in Seq(S) /\ Len(s) \in Nat /\ Len(Append(s, x)) = Len(s) + 1
      /\ \A i \in 1 .. Len(s) : Append(s, x)[i] = s[i]
      /\ Append(s, x)[Len(s) + 1] = x
  OBVIOUS
<1>2. 1 .. Len(s) + 1 = (1 .. Len(s)) \cup {Len(s) + 1}
  BY <1>1
<1> QED BY <1>1, <1>2 DEF Among

LEMMA AmongTail ==
  ASSUME NEW S, NEW s \in Seq(S), s # <<>>, NEW r
  PROVE  /\ Tail(s) \in Seq(S) /\ Head(s) \in S /\ Head(s) = s[1] /\ Len(Tail(s)) = Len(s) - 1
         /\ \A i \in 1 .. Len(Tail(s)) : Tail(s)[i] = s[i + 1]
         /\ Among(r, s) <=> r = Head(s) \/ Among(r, Tail(s))
<1>1. /\ Tail(s) \in Seq(S) /\ Head(s) \in S /\ Head(s) = s[1] /\ Len(s) \in Nat \ {0}
      /\ Len(Tail(s)) = Len(s) - 1
      /\ \A i \in 1 .. Len(Tail(s)) : Tail(s)[i] = s[i + 1]
  OBVIOUS
<1>2. ASSUME Among(r, s)
      PROVE  r = Head(s) \/ Among(r, Tail(s))
  <2>1. PICK i \in 1 .. Len(s) : s[i] = r
    BY <1>2 DEF Among
  <2>2. CASE i = 1
    BY <1>1, <2>1, <2>2
  <2>3. CASE i # 1
    <3>1. i - 1 \in 1 .. Len(Tail(s)) /\ Tail(s)[i - 1] = s[i]
      BY <1>1, <2>3
    <3> QED BY <2>1, <3>1 DEF Among
  <2> QED BY <2>2, <2>3
<1>3. ASSUME r = Head(s) \/ Among(r, Tail(s))
      PROVE  Among(r, s)
  <2>1. CASE r = Head(s)
    <3>1. 1 \in 1 .. Len(s)
      BY <1>1
    <3> QED BY <1>1, <2>1, <3>1 DEF Among
  <2>2. CASE Among(r, Tail(s))
    <3>1. PICK i \in 1 .. Len(Tail(s)) : Tail(s)[i] = r
      BY <2>2 DEF Among
    <3>2. i + 1 \in 1 .. Len(s) /\ s[i + 1] = r
      BY <1>1, <3>1
    <3> QED BY <3>2 DEF Among
  <2> QED BY <1>3, <2>1, <2>2
<1> QED BY <1>1, <1>2, <1>3

\* What PumpMeteorDeferredDiReads takes from the front, and what it leaves.
LEMMA AmongRest ==
  ASSUME NEW S, NEW s \in Seq(S), NEW n \in 0 .. Len(s), NEW r
  PROVE  /\ SubSeq(s, n + 1, Len(s)) \in Seq(S) /\ Len(SubSeq(s, n + 1, Len(s))) = Len(s) - n
         /\ \A i \in 1 .. Len(s) - n : SubSeq(s, n + 1, Len(s))[i] = s[n + i]
         /\ Among(r, SubSeq(s, n + 1, Len(s))) <=> \E i \in n + 1 .. Len(s) : s[i] = r
<1> DEFINE t == SubSeq(s, n + 1, Len(s))
<1>1. /\ Len(s) \in Nat /\ n \in Nat /\ t \in Seq(S) /\ Len(t) = Len(s) - n
      /\ \A i \in 1 .. Len(s) - n : t[i] = s[n + i]
  OBVIOUS
<1>2. ASSUME Among(r, t)
      PROVE  \E i \in n + 1 .. Len(s) : s[i] = r
  <2>1. PICK i \in 1 .. Len(s) - n : t[i] = r
    BY <1>1, <1>2 DEF Among
  <2>2. n + i \in n + 1 .. Len(s) /\ s[n + i] = r
    BY <1>1, <2>1
  <2> QED BY <2>2
<1>3. ASSUME NEW i \in n + 1 .. Len(s), s[i] = r
      PROVE  Among(r, t)
  <2>1. i - n \in 1 .. Len(t) /\ t[i - n] = r
    BY <1>1, <1>3
  <2> QED BY <2>1 DEF Among
<1> QED BY <1>1, <1>2, <1>3

\* The callbacks of the reads that are done go behind those that wait.
LEMMA AmongMore ==
  ASSUME NEW s \in Seq(Nat), NEW T, s \in Seq(T), 0 \in T, NEW n \in Nat, NEW c
  PROVE  /\ s \o [i \in 1 .. n |-> 0] \in Seq(T)
         /\ Among(c, s) => Among(c, s \o [i \in 1 .. n |-> 0])
<1> DEFINE z == [i \in 1 .. n |-> 0]
<1>1. z \in Seq(T) /\ Len(z) = n
  OBVIOUS
<1>2. s \o z \in Seq(T) /\ Len(s \o z) = Len(s) + n /\ Len(s) \in Nat
      /\ \A i \in 1 .. Len(s) : (s \o z)[i] = s[i]
  BY <1>1
<1>3. 1 .. Len(s) \subseteq 1 .. Len(s \o z)
  BY <1>2
<1> QED BY <1>2, <1>3 DEF Among

\* The steps that only move a request through the heap and the queues.
LEMMA IpcTypeStep ==
  ASSUME IpcAssumption, IpcTypeOK, HeldInv, [IpcNext]_ipcVars
  PROVE  IpcTypeOK'
<1> USE DEF IpcTypeOK
<1>1. /\ DiBatch \in Nat \ {0} /\ MaxCommands \in Nat /\ MaxDone \in Nat
      /\ 0 \in 0 .. MaxCommands /\ NoRequest \notin Requests
  BY DEF IpcAssumption
<1>2. ASSUME NEW r \in Requests, NEW what \in {"free", "guest", "di"} \cup Slots
      PROVE  [use EXCEPT ![r] = what] \in [Requests -> {"free", "guest", "di"} \cup Slots]
  OBVIOUS
<1>3. ASSUME NEW r \in Requests, NEW c \in 0 .. MaxCommands, CompleteAsync(r, c)
      PROVE  /\ use' \in [Requests -> {"free", "guest", "di"} \cup Slots]
             /\ calls' \in Seq(0 .. MaxCommands) /\ doneAsync' \in 0 .. MaxDone
             /\ confirmed' = confirmed /\ drain' \in {"off", "on", "call"}
  BY <1>1, <1>2, <1>3, AmongAppend DEF CompleteAsync, Release, StartDrain
<1>4. ASSUME NEW r \in Requests, Allocate(r) \/ SubmitSync(r) \/ SubmitReset(r)
      PROVE  IpcTypeOK'
  <2>1. use' \in [Requests -> {"free", "guest", "di"} \cup Slots]
    BY <1>2, <1>4 DEF Allocate, SubmitSync, SubmitReset, Release, Take
  <2>2. CASE Allocate(r) \/ SubmitSync(r)
    BY <2>1, <2>2 DEF Allocate, SubmitSync, btVars, diVars, callVars
  <2>3. CASE SubmitReset(r)
    BY <2>1, <2>3 DEF SubmitReset, diVars, callVars
  <2> QED BY <1>4, <2>2, <2>3
<1>5. ASSUME NEW r \in Requests, NEW s \in Slots, SubmitIn(r, s)
      PROVE  IpcTypeOK'
  <2>1. CASE armed[s] = NoRequest
    <3>1. use' \in [Requests -> {"free", "guest", "di"} \cup Slots]
      BY <1>2, <1>5, <2>1 DEF SubmitIn, Take
    <3>2. armed' \in [Slots -> Requests \cup {NoRequest}]
      BY <1>5, <2>1 DEF SubmitIn
    <3> QED BY <1>5, <2>1, <3>1, <3>2 DEF SubmitIn, diVars, callVars
  <2>2. CASE armed[s] # NoRequest
    BY <1>1, <1>3, <1>5, <2>2 DEF SubmitIn, diVars
  <2> QED BY <2>1, <2>2
<1>6. ASSUME NEW r \in Requests, SubmitControl(r)
      PROVE  IpcTypeOK'
  <2>1. commands' \in 0 .. MaxCommands /\ CompleteAsync(r, commands')
    BY <1>1, <1>6 DEF SubmitControl
  <2>2. events' \in Seq(0 .. MaxCommands)
    BY <1>6, <2>1, AmongAppend DEF SubmitControl
  <2> QED BY <1>3, <1>6, <2>1, <2>2 DEF SubmitControl, diVars
<1>7. ASSUME NEW r \in Requests, SubmitAclOut(r)
      PROVE  IpcTypeOK'
  <2>1. events' \in Seq(0 .. MaxCommands) /\ aclIn' \in 0 .. 1
    BY <1>1, <1>7, AmongAppend DEF SubmitAclOut
  <2> QED BY <1>1, <1>3, <1>7, <2>1 DEF SubmitAclOut, diVars
<1>8. ASSUME NEW r \in Requests, SubmitDiRead(r)
      PROVE  IpcTypeOK'
  <2>1. diPending' \in Seq(Requests)
    BY <1>8, AmongAppend DEF SubmitDiRead
  <2> QED BY <1>2, <1>8, <2>1 DEF SubmitDiRead, Take, btVars, callVars
<1>9. CASE DiTakes
  <2>1. Head(diPending) \in Requests /\ Tail(diPending) \in Seq(Requests)
    BY <1>9, AmongTail DEF DiTakes
  <2> QED BY <1>9, <2>1 DEF DiTakes, btVars, callVars
<1>10. CASE DiPublishes
  <2>1. diCompleted' \in Seq(Requests)
    BY <1>10, AmongAppend DEF DiPublishes
  <2> QED BY <1>10, <2>1 DEF DiPublishes, btVars, callVars
<1>11. CASE IpcDrainStep
  <2>1. CASE IpcDrainCalls
    <3>1. Head(calls) \in 0 .. MaxCommands /\ Tail(calls) \in Seq(0 .. MaxCommands)
      BY <2>1, AmongTail DEF IpcDrainCalls
    <3>2. Head(calls) = 0 \/ Head(calls) \in Commands
      BY <1>1, <3>1 DEF Commands
    <3>3. confirmed' \subseteq Commands
      BY <2>1, <3>2 DEF IpcDrainCalls
    <3> QED BY <2>1, <3>1, <3>3 DEF IpcDrainCalls, btVars, diVars
  <2>2. CASE IpcCallbackReturns
    BY <2>2 DEF IpcCallbackReturns, btVars, diVars
  <2>3. CASE IpcDrainEnds
    BY <2>3 DEF IpcDrainEnds, btVars, diVars
  <2> QED BY <1>11, <2>1, <2>2, <2>3 DEF IpcDrainStep
<1>12. CASE BtPumpBegins
  BY <1>12 DEF BtPumpBegins, btVars, diVars, callVars
<1>13. CASE PumpDi
  <2> DEFINE n == IF Len(diCompleted) < DiBatch THEN Len(diCompleted) ELSE DiBatch
  <2>1. n \in 0 .. Len(diCompleted) /\ n \in Nat
    BY <1>1
  <2>2. SubSeq(diCompleted, n + 1, Len(diCompleted)) \in Seq(Requests)
    BY <2>1, AmongRest
  <2>3. calls \o [i \in 1 .. n |-> 0] \in Seq(0 .. MaxCommands)
    BY <1>1, <2>1, AmongMore
  <2>4. use' \in [Requests -> {"free", "guest", "di"} \cup Slots]
    BY <1>13 DEF PumpDi
  <2>5. calls' = calls \o [i \in 1 .. n |-> 0]
        /\ diCompleted' = SubSeq(diCompleted, n + 1, Len(diCompleted))
    BY <1>13 DEF PumpDi
  <2> HIDE DEF n
  <2> QED BY <1>13, <2>2, <2>3, <2>4, <2>5 DEF PumpDi, StartDrain, btVars
<1>14. ASSUME NEW s \in Slots, armed[s] # NoRequest, Deliver(s)
       PROVE  /\ use' \in [Requests -> {"free", "guest", "di"} \cup Slots]
              /\ armed' \in [Slots -> Requests \cup {NoRequest}]
              /\ calls' \in Seq(0 .. MaxCommands)
  BY <1>1, <1>2, <1>14, AmongAppend DEF Deliver, Release
<1>15. CASE PumpEvent
  <2>1. CASE armed["event"] = NoRequest \/ events = <<>>
    BY <1>15, <2>1 DEF PumpEvent, StartDrain, diVars
  <2>2. CASE ~(armed["event"] = NoRequest \/ events = <<>>)
    <3>1. events' \in Seq(0 .. MaxCommands)
      BY <1>15, <2>2, AmongTail DEF PumpEvent
    <3>2. CASE Deliver("event")
      BY <1>14, <1>15, <2>2, <3>1, <3>2 DEF PumpEvent, StartDrain, diVars, Slots
    <3>3. CASE UNCHANGED <<use, armed, calls>>
      BY <1>15, <3>1, <3>3 DEF PumpEvent, StartDrain, diVars
    <3> QED BY <1>15, <2>2, <3>2, <3>3 DEF PumpEvent
  <2> QED BY <2>1, <2>2
<1>16. CASE PumpAcl
  <2>1. CASE ~AclReady
    BY <1>16, <2>1 DEF PumpAcl, StartDrain, diVars
  <2>2. CASE AclReady
    <3>1. aclIn' \in 0 .. 1 /\ armed["acl"] # NoRequest
      BY <1>16, <2>2 DEF PumpAcl, AclReady
    <3>2. CASE Deliver("acl")
      BY <1>14, <1>16, <3>1, <3>2 DEF PumpAcl, StartDrain, diVars, Slots
    <3>3. CASE UNCHANGED <<use, armed, calls>>
      BY <1>16, <3>1, <3>3 DEF PumpAcl, StartDrain, diVars
    <3> QED BY <1>16, <2>2, <3>2, <3>3 DEF PumpAcl
  <2> QED BY <2>1, <2>2
<1>17. CASE PumpEnds
  BY <1>17 DEF PumpEnds, btVars, diVars, callVars
<1>18. CASE UNCHANGED ipcVars
  BY <1>18 DEF ipcVars, btVars, diVars, callVars
<1> QED BY <1>4, <1>5, <1>6, <1>7, <1>8, <1>9, <1>10, <1>11, <1>12, <1>13, <1>15, <1>16,
           <1>17, <1>18 DEF IpcNext, PumpStep

\* What a step does to the block it is about, and to no other.
LEMMA HeldStep ==
  ASSUME IpcAssumption, IpcTypeOK, HeldInv, [IpcNext]_ipcVars
  PROVE  HeldInv'
<1> USE DEF IpcTypeOK
<1>1. /\ DiBatch \in Nat \ {0} /\ NoRequest \notin Requests
      /\ \A s \in Slots : s \notin {"free", "guest", "di"}
      /\ diPending \in Seq(Requests) /\ diCompleted \in Seq(Requests)
  BY DEF IpcAssumption, Slots
<1>2. /\ \A s \in Slots : armed[s] # NoRequest => use[armed[s]] = s
      /\ \A r \in Requests : use[r] = "di" <=> InStore(r)
      /\ StoreApart
  BY DEF HeldInv, ArmedNotFreed, ReadNotFreed
<1>3. \A s, t \in Slots : armed[s] # NoRequest /\ armed[s] = armed[t] => s = t
  BY <1>2
\* A block that something new is done with, while the store of reads stays.
<1>4. ASSUME NEW r \in Requests, NEW what \in {"free", "guest"} \cup Slots,
             use' = [use EXCEPT ![r] = what], use[r] # "di", UNCHANGED diVars,
             \A s \in Slots : armed'[s] # NoRequest =>
               \/ armed'[s] = armed[s] /\ armed[s] # r
               \/ armed'[s] = r /\ what = s
      PROVE  HeldInv'
  <2>1. use'[r] = what /\ \A x \in Requests \ {r} : use'[x] = use[x]
    BY <1>4
  <2>2. ArmedNotFreed'
    <3> SUFFICES ASSUME NEW s \in Slots, armed'[s] # NoRequest
                 PROVE  use'[armed'[s]] = s
      BY DEF ArmedNotFreed
    <3>1. CASE armed'[s] = armed[s] /\ armed[s] # r
      <4>1. armed[s] \in Requests \ {r} /\ use[armed[s]] = s
        BY <1>2, <3>1
      <4> QED BY <2>1, <3>1, <4>1
    <3>2. CASE armed'[s] = r /\ what = s
      BY <2>1, <3>2
    <3> QED BY <1>4, <3>1, <3>2
  <2>3. \A x : InStore(x)' <=> InStore(x)
    BY <1>4 DEF diVars, InStore, Among
  <2>4. ReadNotFreed'
    BY <1>1, <1>2, <1>4, <2>1, <2>3 DEF ReadNotFreed
  <2>5. StoreApart'
    BY <1>2, <1>4 DEF StoreApart, Among, diVars
  <2> QED BY <2>2, <2>4, <2>5 DEF HeldInv
<1>5. ASSUME NEW r \in Requests, use[r] = "guest", use' = [use EXCEPT ![r] = "free"],
             UNCHANGED diVars, \A s \in Slots : armed'[s] \in {armed[s], NoRequest}
      PROVE  HeldInv'
  <2>1. \A s \in Slots : armed[s] # r
    BY <1>1, <1>2, <1>5
  <2> QED BY <1>4, <1>5, <2>1
<1>6. ASSUME NEW s \in Slots, armed[s] # NoRequest, Deliver(s), UNCHANGED diVars
      PROVE  HeldInv'
  <2>1. armed[s] \in Requests /\ use[armed[s]] = s /\ use[armed[s]] # "di"
    BY <1>1, <1>2, <1>6
  <2>2. \A t \in Slots : armed'[t] # NoRequest => armed'[t] = armed[t] /\ armed[t] # armed[s]
    BY <1>3, <1>6 DEF Deliver
  <2> QED BY <1>4, <1>6, <2>1, <2>2 DEF Deliver, Release
<1>7. ASSUME UNCHANGED <<use, armed, diVars>>
      PROVE  HeldInv'
  BY <1>7 DEF HeldInv, ArmedNotFreed, ReadNotFreed, StoreApart, InStore, Among, diVars
<1>8. ASSUME NEW r \in Requests, Allocate(r) \/ SubmitSync(r) \/ SubmitReset(r)
      PROVE  HeldInv'
  <2>1. CASE Allocate(r)
    <3>1. \A s \in Slots : armed[s] # r
      BY <1>1, <1>2, <2>1 DEF Allocate
    <3> QED BY <1>4, <2>1, <3>1 DEF Allocate, Take, btVars
  <2>2. CASE SubmitSync(r)
    BY <1>5, <2>2 DEF SubmitSync, Release, btVars
  <2>3. CASE SubmitReset(r)
    BY <1>5, <2>3 DEF SubmitReset, Release
  <2> QED BY <1>8, <2>1, <2>2, <2>3
<1>9. ASSUME NEW r \in Requests, NEW s \in Slots, SubmitIn(r, s)
      PROVE  HeldInv'
  <2>1. CASE armed[s] = NoRequest
    <3>1. \A t \in Slots : armed[t] # r
      BY <1>1, <1>2, <1>9 DEF SubmitIn
    <3>2. \A t \in Slots : armed'[t] # NoRequest =>
            (armed'[t] = armed[t] /\ armed[t] # r) \/ (armed'[t] = r /\ s = t)
      <4>1. armed' = [armed EXCEPT ![s] = r]
        BY <1>9, <2>1 DEF SubmitIn
      <4>2. armed'[s] = r /\ \A t \in Slots \ {s} : armed'[t] = armed[t]
        BY <4>1
      <4>3. ASSUME NEW t \in Slots
            PROVE  (armed'[t] = armed[t] /\ armed[t] # r) \/ (armed'[t] = r /\ s = t)
        <5>1. CASE t = s
          BY <4>2, <5>1
        <5>2. CASE t # s
          BY <3>1, <4>2, <5>2
        <5> QED BY <5>1, <5>2
      <4> QED BY <4>3
    <3>3. use' = [use EXCEPT ![r] = s] /\ use[r] # "di" /\ UNCHANGED diVars
      BY <1>9, <2>1 DEF SubmitIn, Take
    <3>4. s \in {"free", "guest"} \cup Slots
      OBVIOUS
    <3> QED BY <1>4, <3>2, <3>3, <3>4, Zenon
  <2>2. CASE armed[s] # NoRequest
    BY <1>5, <1>9, <2>2 DEF SubmitIn, CompleteAsync, Release
  <2> QED BY <2>1, <2>2
<1>10. ASSUME NEW r \in Requests, SubmitControl(r) \/ SubmitAclOut(r)
       PROVE  HeldInv'
  BY <1>5, <1>10 DEF SubmitControl, SubmitAclOut, CompleteAsync, Release
<1>11. ASSUME NEW r \in Requests, SubmitDiRead(r)
       PROVE  HeldInv'
  <2>1. /\ use[r] = "guest" /\ use' = [use EXCEPT ![r] = "di"]
        /\ diPending' = Append(diPending, r)
        /\ UNCHANGED <<armed, diWorking, diCompleted>>
    BY <1>11 DEF SubmitDiRead, Take, btVars
  <2>2. ~InStore(r)
    BY <1>2, <2>1
  <2>3. \A x : Among(x, diPending') <=> Among(x, diPending) \/ x = r
    BY <1>1, <2>1, AmongAppend
  <2>4. ArmedNotFreed'
    BY <1>1, <1>2, <2>1 DEF ArmedNotFreed
  <2>5. ReadNotFreed'
    BY <1>2, <2>1, <2>3 DEF ReadNotFreed, InStore
  <2>6. /\ Len(diPending') = Len(diPending) + 1 /\ Len(diPending) \in Nat
        /\ \A i \in 1 .. Len(diPending) : diPending'[i] = diPending[i]
        /\ diPending'[Len(diPending) + 1] = r
    BY <1>1, <2>1
  <2>7. StoreApart'
    <3>0. /\ \A i \in 1 .. Len(diPending) : diPending[i] # r
          /\ \A i \in 1 .. Len(diCompleted) : diCompleted[i] # r
          /\ \A i \in 1 .. Len(diPending') : i \in 1 .. Len(diPending) \/ i = Len(diPending) + 1
      BY <2>2, <2>6 DEF InStore, Among
    <3>1. \A i, j \in 1 .. Len(diPending') : diPending'[i] = diPending'[j] => i = j
      BY <1>2, <2>6, <3>0 DEF StoreApart
    <3>2. \A i \in 1 .. Len(diPending'), j \in 1 .. Len(diCompleted) : diPending'[i] # diCompleted[j]
      BY <1>2, <2>6, <3>0 DEF StoreApart
    <3>3. ~Among(diWorking, diPending)'
      BY <1>2, <2>1, <2>2, <2>3 DEF StoreApart, InStore
    <3>4. ~Among(diWorking, diCompleted)'
      BY <1>2, <2>1 DEF StoreApart, Among
    <3> QED BY <1>2, <2>1, <3>1, <3>2, <3>3, <3>4 DEF StoreApart
  <2> QED BY <2>4, <2>5, <2>7 DEF HeldInv
<1>12. CASE DiTakes
  <2>1. /\ diWorking = NoRequest /\ diPending # <<>>
        /\ diWorking' = Head(diPending) /\ diPending' = Tail(diPending)
        /\ UNCHANGED <<use, armed, diCompleted>>
    BY <1>12 DEF DiTakes, btVars
  <2>2. /\ Head(diPending) = diPending[1] /\ Len(diPending) \in Nat \ {0}
        /\ Len(diPending') = Len(diPending) - 1
        /\ \A i \in 1 .. Len(diPending') : diPending'[i] = diPending[i + 1]
    BY <1>1, <2>1, AmongTail
  <2>3. \A x : Among(x, diPending) <=> x = diWorking' \/ Among(x, diPending')
    BY <1>1, <2>1, AmongTail
  <2>4. ReadNotFreed'
    BY <1>1, <1>2, <2>1, <2>3 DEF ReadNotFreed, InStore
  <2>5. StoreApart'
    <3>1. \A i, j \in 1 .. Len(diPending') : diPending'[i] = diPending'[j] => i = j
      BY <1>2, <2>2 DEF StoreApart
    <3>2. \A i \in 1 .. Len(diPending'), j \in 1 .. Len(diCompleted) : diPending'[i] # diCompleted[j]
      BY <1>2, <2>2 DEF StoreApart
    <3>3. ~Among(diWorking, diPending)'
      BY <1>2, <2>1, <2>2 DEF StoreApart, Among
    <3>4. ~Among(diWorking, diCompleted)'
      BY <1>2, <2>1, <2>2 DEF StoreApart, Among
    <3> QED BY <1>2, <2>1, <3>1, <3>2, <3>3, <3>4 DEF StoreApart
  <2> QED BY <1>2, <2>1, <2>4, <2>5 DEF HeldInv, ArmedNotFreed
<1>13. CASE DiPublishes
  <2>1. /\ diWorking \in Requests /\ diCompleted' = Append(diCompleted, diWorking)
        /\ diWorking' = NoRequest /\ UNCHANGED <<use, armed, diPending>>
    BY <1>13 DEF DiPublishes, btVars
  <2>2. \A x : Among(x, diCompleted') <=> Among(x, diCompleted) \/ x = diWorking
    BY <1>1, <2>1, AmongAppend
  <2>3. /\ Len(diCompleted') = Len(diCompleted) + 1 /\ Len(diCompleted) \in Nat
        /\ \A i \in 1 .. Len(diCompleted) : diCompleted'[i] = diCompleted[i]
        /\ diCompleted'[Len(diCompleted) + 1] = diWorking
    BY <1>1, <2>1
  <2>4. ReadNotFreed'
    BY <1>1, <1>2, <2>1, <2>2 DEF ReadNotFreed, InStore
  <2>5. StoreApart'
    <3>1. \A i, j \in 1 .. Len(diCompleted') : diCompleted'[i] = diCompleted'[j] => i = j
      BY <1>2, <2>3 DEF StoreApart, Among
    <3>2. \A i \in 1 .. Len(diPending), j \in 1 .. Len(diCompleted') : diPending[i] # diCompleted'[j]
      BY <1>2, <2>3 DEF StoreApart, Among
    <3>3. ~Among(diWorking', diPending) /\ \A x : Among(x, diPending)' <=> Among(x, diPending)
      BY <1>1, <2>1 DEF Among
    <3>4. ~Among(diWorking, diCompleted)'
      <4>1. diCompleted' \in Seq(Requests)
        BY <1>1, <2>1
      <4> QED BY <1>1, <2>1, <4>1 DEF Among
    <3> QED BY <1>2, <2>1, <3>1, <3>2, <3>3, <3>4 DEF StoreApart
  <2> QED BY <1>2, <2>1, <2>4, <2>5 DEF HeldInv, ArmedNotFreed
<1>14. CASE IpcDrainStep \/ BtPumpBegins \/ PumpEnds
  BY <1>7, <1>14 DEF IpcDrainStep, IpcDrainCalls, IpcCallbackReturns, IpcDrainEnds, BtPumpBegins,
     PumpEnds, btVars
<1>15. CASE PumpDi
  <2> DEFINE n == IF Len(diCompleted) < DiBatch THEN Len(diCompleted) ELSE DiBatch
             ready == {diCompleted[i] : i \in 1 .. n}
  <2>1. n \in 0 .. Len(diCompleted) /\ n \in Nat
    BY <1>1
  <2>2. /\ use' = [r \in Requests |-> IF r \in ready THEN "free" ELSE use[r]]
        /\ diCompleted' = SubSeq(diCompleted, n + 1, Len(diCompleted))
        /\ UNCHANGED <<armed, diPending, diWorking>>
    BY <1>15 DEF PumpDi, btVars
  <2> HIDE DEF n
  <2>3. \A r \in ready : Among(r, diCompleted)
    BY <2>1 DEF Among
  <2>4. /\ Len(diCompleted') = Len(diCompleted) - n
        /\ \A i \in 1 .. Len(diCompleted') : diCompleted'[i] = diCompleted[n + i]
    BY <1>1, <2>1, <2>2, AmongRest
  <2>5. \A x : Among(x, diCompleted') <=> \E i \in n + 1 .. Len(diCompleted) : diCompleted[i] = x
    BY <1>1, <2>1, <2>2, AmongRest
  <2>6. \A x : Among(x, diCompleted') <=> Among(x, diCompleted) /\ x \notin ready
    <3>1. ASSUME NEW x, NEW i \in n + 1 .. Len(diCompleted), diCompleted[i] = x
          PROVE  Among(x, diCompleted) /\ x \notin ready
      BY <1>2, <2>1, <3>1 DEF StoreApart, Among
    <3>2. ASSUME NEW x, Among(x, diCompleted), x \notin ready
          PROVE  \E i \in n + 1 .. Len(diCompleted) : diCompleted[i] = x
      <4>1. PICK i \in 1 .. Len(diCompleted) : diCompleted[i] = x
        BY <3>2 DEF Among
      <4>2. i \notin 1 .. n
        BY <3>2, <4>1
      <4> QED BY <2>1, <4>1, <4>2
    <3> QED BY <2>5, <3>1, <3>2
  <2>7. \A r \in ready : ~Among(r, diPending) /\ r # diWorking
    BY <1>2, <2>3 DEF StoreApart, Among
  <2> HIDE DEF ready
  <2>8. ArmedNotFreed'
    <3> SUFFICES ASSUME NEW s \in Slots, armed[s] # NoRequest
                 PROVE  use'[armed[s]] = s
      BY <2>2 DEF ArmedNotFreed
    <3>1. armed[s] \in Requests /\ use[armed[s]] = s /\ ~InStore(armed[s])
      BY <1>1, <1>2
    <3>2. armed[s] \notin ready
      BY <2>3, <3>1 DEF InStore
    <3> QED BY <2>2, <3>1, <3>2
  <2>9. ReadNotFreed'
    <3>1. ASSUME NEW r \in Requests
          PROVE  use'[r] = "di" <=> InStore(r)'
      <4>1. InStore(r)' <=> Among(r, diPending) \/ r = diWorking
                              \/ (Among(r, diCompleted) /\ r \notin ready)
        <5>1. InStore(r)' <=> Among(r, diPending') \/ r = diWorking' \/ Among(r, diCompleted')
          BY DEF InStore
        <5>2. diPending' = diPending /\ diWorking' = diWorking
          BY <2>2
        <5> QED BY <2>6, <5>1, <5>2
      <4>2. use'[r] = "di" <=> r \notin ready /\ use[r] = "di"
        BY <2>2
      <4> QED BY <1>2, <2>7, <4>1, <4>2 DEF InStore
    <3> QED BY <3>1 DEF ReadNotFreed
  <2>10. StoreApart'
    <3>1. \A i, j \in 1 .. Len(diCompleted') : diCompleted'[i] = diCompleted'[j] => i = j
      <4>1. \A i \in 1 .. Len(diCompleted') : n + i \in 1 .. Len(diCompleted)
        BY <1>1, <2>1, <2>4
      <4>2. ASSUME NEW i \in 1 .. Len(diCompleted'), NEW j \in 1 .. Len(diCompleted'),
                   diCompleted'[i] = diCompleted'[j]
            PROVE  i = j
        <5>1. n + i = n + j
          BY <1>2, <2>4, <4>1, <4>2 DEF StoreApart
        <5> QED BY <2>1, <5>1
      <4> QED BY <4>2
    <3>2. \A i \in 1 .. Len(diPending), j \in 1 .. Len(diCompleted') : diPending[i] # diCompleted'[j]
      BY <1>1, <1>2, <2>1, <2>4 DEF StoreApart
    <3>3. ~Among(diWorking, diPending)' /\ ~Among(diWorking, diCompleted)'
      BY <1>2, <2>2, <2>6 DEF StoreApart, Among
    <3> QED BY <1>2, <2>2, <3>1, <3>2, <3>3 DEF StoreApart
  <2> QED BY <2>8, <2>9, <2>10 DEF HeldInv
<1>16. CASE PumpEvent
  BY <1>6, <1>7, <1>16 DEF PumpEvent, Slots, diVars
<1>17. CASE PumpAcl
  BY <1>6, <1>7, <1>17 DEF PumpAcl, AclReady, Slots, diVars
<1>18. CASE UNCHANGED ipcVars
  BY <1>7, <1>18 DEF ipcVars, btVars
<1> QED BY <1>8, <1>9, <1>10, <1>11, <1>12, <1>13, <1>14, <1>15, <1>16, <1>17, <1>18
        DEF IpcNext, PumpStep

\* Whatever queues a callback starts the drain, and the pump stands still until it is over.
LEMMA ReplyStep ==
  ASSUME IpcAssumption, IpcTypeOK, ReplyInv, [IpcNext]_ipcVars
  PROVE  ReplyInv'
<1> USE DEF IpcTypeOK
<1>1. MaxCommands \in Nat /\ 0 \in 0 .. MaxCommands /\ calls \in Seq(0 .. MaxCommands)
      /\ events \in Seq(0 .. MaxCommands) /\ DiBatch \in Nat
  BY DEF IpcAssumption
<1>2. /\ drain = "off" => calls = <<>>
      /\ \A i \in 1 .. Len(events) : events[i] # 0 => events[i] \in confirmed \/ Among(events[i], calls)
  BY DEF ReplyInv, CallsDrained, RepliesFollowOut
<1>3. StartDrain => drain' # "off"
  BY DEF StartDrain
\* A step that may queue callbacks and adds no reply.
<1>4. ASSUME drain' = "off" => calls' = <<>>,
             \A i \in 1 .. Len(events') : \E j \in 1 .. Len(events) : events'[i] = events[j],
             confirmed \subseteq confirmed',
             \A c : Among(c, calls) /\ c # 0 => c \in confirmed' \/ Among(c, calls')
      PROVE  ReplyInv'
  BY <1>2, <1>4 DEF ReplyInv, CallsDrained, RepliesFollowOut
<1>5. ASSUME UNCHANGED <<events, calls, confirmed, drain>>
      PROVE  ReplyInv'
  BY <1>5 DEF ReplyInv, CallsDrained, RepliesFollowOut, Among
<1>6. ASSUME NEW c \in 0 .. MaxCommands, calls' = Append(calls, c)
      PROVE  \A x : Among(x, calls') <=> Among(x, calls) \/ x = c
  <2>1. ASSUME NEW x
        PROVE  Among(x, Append(calls, c)) <=> Among(x, calls) \/ x = c
    <3> DEFINE T == 0 .. MaxCommands
    <3>1. calls \in Seq(T) /\ c \in T
      BY <1>1
    <3> HIDE DEF T
    <3> QED BY <3>1, AmongAppend
  <2> QED BY <1>6, <2>1
\* A command that is done at once; what it has queued as an event comes with it.
<1>7. ASSUME NEW r \in Requests, NEW c \in 0 .. MaxCommands, CompleteAsync(r, c),
             events' = events \/ \E e \in {0, c} : events' = Append(events, e)
      PROVE  ReplyInv'
  <2>1. /\ calls' = Append(calls, c) /\ confirmed' = confirmed /\ drain' # "off"
    BY <1>3, <1>7 DEF CompleteAsync
  <2>2. \A x : Among(x, calls') <=> Among(x, calls) \/ x = c
    BY <1>6, <2>1
  <2>3. ASSUME NEW i \in 1 .. Len(events'), events'[i] # 0
        PROVE  events'[i] \in confirmed' \/ Among(events'[i], calls')
    <3>1. CASE events' = events
      BY <1>2, <2>1, <2>2, <2>3, <3>1
    <3>2. ASSUME NEW e \in {0, c}, events' = Append(events, e)
          PROVE  events'[i] \in confirmed' \/ Among(events'[i], calls')
      <4>1. Len(events') = Len(events) + 1 /\ Len(events) \in Nat
            /\ \A j \in 1 .. Len(events) : events'[j] = events[j]
            /\ events'[Len(events) + 1] = e
        BY <1>1, <3>2
      <4>2. CASE i = Len(events) + 1
        <5>1. e = c /\ events'[i] = c
          BY <2>3, <3>2, <4>1, <4>2
        <5> QED BY <2>2, <5>1
      <4>3. CASE i # Len(events) + 1
        <5>1. i \in 1 .. Len(events)
          BY <4>1, <4>3
        <5> QED BY <1>2, <2>1, <2>2, <2>3, <4>1, <5>1
      <4> QED BY <4>2, <4>3
    <3> QED BY <1>7, <3>1, <3>2
  <2> QED BY <2>1, <2>3 DEF ReplyInv, CallsDrained, RepliesFollowOut
<1>8. ASSUME NEW r \in Requests, Allocate(r) \/ SubmitSync(r) \/ SubmitDiRead(r)
      PROVE  ReplyInv'
  BY <1>5, <1>8 DEF Allocate, SubmitSync, SubmitDiRead, btVars, callVars
<1>9. ASSUME NEW r \in Requests, SubmitReset(r)
      PROVE  ReplyInv'
  BY <1>2, <1>9 DEF SubmitReset, callVars, ReplyInv, CallsDrained, RepliesFollowOut
<1>10. ASSUME NEW r \in Requests, NEW s \in Slots, SubmitIn(r, s)
       PROVE  ReplyInv'
  BY <1>1, <1>5, <1>7, <1>10 DEF SubmitIn, callVars
<1>11. ASSUME NEW r \in Requests, SubmitControl(r)
       PROVE  ReplyInv'
  <2>1. /\ commands' \in 0 .. MaxCommands /\ CompleteAsync(r, commands')
        /\ events' = Append(events, commands')
    BY <1>1, <1>11 DEF SubmitControl
  <2> QED BY <1>7, <2>1
<1>12. ASSUME NEW r \in Requests, SubmitAclOut(r)
       PROVE  ReplyInv'
  BY <1>1, <1>7, <1>12 DEF SubmitAclOut
<1>13. CASE DiTakes \/ DiPublishes \/ BtPumpBegins \/ PumpEnds
  BY <1>5, <1>13 DEF DiTakes, DiPublishes, BtPumpBegins, PumpEnds, btVars, callVars
<1>14. CASE IpcDrainCalls
  <2>1. /\ calls # <<>> /\ calls' = Tail(calls) /\ drain' = "call" /\ events' = events
        /\ confirmed' = confirmed \cup ({Head(calls)} \ {0})
    BY <1>14 DEF IpcDrainCalls, btVars
  <2>2. \A c : Among(c, calls) => c = Head(calls) \/ Among(c, calls')
    BY <1>1, <2>1, AmongTail
  <2> QED BY <1>4, <2>1, <2>2
<1>15. CASE IpcCallbackReturns \/ IpcDrainEnds
  <2>1. /\ UNCHANGED <<events, calls, confirmed>>
        /\ drain' = "off" => calls = <<>>
    BY <1>15 DEF IpcCallbackReturns, IpcDrainEnds, btVars
  <2> QED BY <1>2, <2>1 DEF ReplyInv, CallsDrained, RepliesFollowOut
<1>16. CASE PumpDi
  <2> DEFINE n == IF Len(diCompleted) < DiBatch THEN Len(diCompleted) ELSE DiBatch
  <2>1. n \in Nat
    BY <1>1
  <2>2. /\ calls' = calls \o [i \in 1 .. n |-> 0] /\ UNCHANGED <<events, confirmed>>
        /\ drain' # "off"
    BY <1>3, <1>16 DEF PumpDi, btVars
  <2> HIDE DEF n
  <2>3. calls \in Seq(Nat)
    BY <1>1
  <2>4. \A c : Among(c, calls) => Among(c, calls')
    BY <1>1, <2>1, <2>2, <2>3, AmongMore
  <2> QED BY <1>4, <2>2, <2>4
<1>17. ASSUME NEW s \in Slots, Deliver(s) \/ UNCHANGED <<use, armed, calls>>
       PROVE  \A c : Among(c, calls) => Among(c, calls')
  <2>1. CASE calls' = Append(calls, 0)
    BY <1>1, <1>6, <2>1
  <2>2. CASE calls' = calls
    BY <2>2
  <2> QED BY <1>17, <2>1, <2>2 DEF Deliver
<1>18. CASE PumpEvent
  <2>1. drain' # "off" /\ confirmed' = confirmed
    BY <1>3, <1>18 DEF PumpEvent
  <2>2. CASE armed["event"] = NoRequest \/ events = <<>>
    <3>1. UNCHANGED <<events, calls>>
      BY <1>18, <2>2 DEF PumpEvent
    <3> QED BY <1>2, <2>1, <3>1 DEF ReplyInv, CallsDrained, RepliesFollowOut
  <2>3. CASE ~(armed["event"] = NoRequest \/ events = <<>>)
    <3>1. events' = Tail(events) /\ (Deliver("event") \/ UNCHANGED <<use, armed, calls>>)
      BY <1>18, <2>3 DEF PumpEvent
    <3>2. /\ Len(events) \in Nat \ {0} /\ Len(events') = Len(events) - 1
          /\ \A i \in 1 .. Len(events') : events'[i] = events[i + 1]
      BY <1>1, <2>3, <3>1, AmongTail
    <3>3. \A i \in 1 .. Len(events') : i + 1 \in 1 .. Len(events) /\ events'[i] = events[i + 1]
      BY <3>2
    <3>4. \A c : Among(c, calls) => Among(c, calls')
      BY <1>17, <3>1 DEF Slots
    <3> QED BY <1>4, <2>1, <3>3, <3>4
  <2> QED BY <2>2, <2>3
<1>19. CASE PumpAcl
  <2>1. drain' # "off" /\ UNCHANGED <<events, confirmed>>
    BY <1>3, <1>19 DEF PumpAcl
  <2>2. Deliver("acl") \/ UNCHANGED <<use, armed, calls>>
    BY <1>19 DEF PumpAcl
  <2>3. \A c : Among(c, calls) => Among(c, calls')
    BY <1>17, <2>2 DEF Slots
  <2> QED BY <1>4, <2>1, <2>3
<1>20. CASE UNCHANGED ipcVars
  BY <1>5, <1>20 DEF ipcVars, btVars, callVars
<1> QED BY <1>8, <1>9, <1>10, <1>11, <1>12, <1>13, <1>14, <1>15, <1>16, <1>18, <1>19, <1>20
        DEF IpcNext, PumpStep, IpcDrainStep

\* Events leave the queue one by one only in the pump, when the drain has ended.
LEMMA PayloadStep ==
  ASSUME IpcAssumption, IpcInv, [IpcNext]_ipcVars, NEW c \in Commands,
         armed["event"] # NoRequest, use'[armed["event"]] = "free",
         events # <<>>, Head(events) = c, events' = Tail(events)
  PROVE  c \in confirmed
<1>1. /\ events \in Seq(0 .. MaxCommands) /\ calls \in Seq(0 .. MaxCommands)
      /\ armed["event"] \in Requests /\ use[armed["event"]] = "event"
      /\ use \in [Requests -> {"free", "guest", "di"} \cup Slots]
  BY DEF IpcInv, HeldInv, ArmedNotFreed, IpcTypeOK, Slots
<1>2. Len(events) \in Nat \ {0} /\ Len(events') = Len(events) - 1 /\ events[1] = c
  BY <1>1, AmongTail
<1>3. events' # events
  <2>1. \A m \in Nat : m - 1 # m
    OBVIOUS
  <2> QED BY <1>2, <2>1, Zenon
<1>4. \A e : events' # Append(events, e)
  <2>1. SUFFICES ASSUME NEW e, events' = Append(events, e)
                 PROVE  FALSE
    OBVIOUS
  <2>2. Len(Append(events, e)) = Len(events) + 1
    BY <1>1
  <2> QED BY <1>2, <2>1, <2>2
<1>5. ASSUME NEW r \in Requests, SubmitReset(r)
      PROVE  FALSE
  <2>1. use[r] = "guest" /\ use' = [use EXCEPT ![r] = "free"]
    BY <1>5 DEF SubmitReset, Release
  <2>2. r # armed["event"]
    BY <1>1, <2>1
  <2> QED BY <1>1, <2>1, <2>2
<1>6. ASSUME PumpEvent
      PROVE  c \in confirmed
  <2>1. calls = <<>>
    BY <1>6 DEF PumpEvent, PumpAt, IpcInv, ReplyInv, CallsDrained
  <2>2. ~Among(c, calls)
    BY <2>1 DEF Among
  <2>3. 1 \in 1 .. Len(events) /\ events[1] = c /\ c # 0
    BY <1>2 DEF Commands
  <2> QED BY <2>2, <2>3 DEF IpcInv, ReplyInv, RepliesFollowOut
<1>7. ASSUME PumpDi \/ PumpAcl \/ PumpEnds \/ BtPumpBegins \/ IpcDrainStep \/ DiTakes \/ DiPublishes
      PROVE  FALSE
  BY <1>3, <1>7 DEF PumpDi, PumpAcl, PumpEnds, BtPumpBegins, IpcDrainStep, IpcDrainCalls,
     IpcCallbackReturns, IpcDrainEnds, DiTakes, DiPublishes, btVars
<1>8. ASSUME NEW r \in Requests, Allocate(r) \/ SubmitSync(r) \/ SubmitControl(r)
                                 \/ SubmitAclOut(r) \/ SubmitDiRead(r)
      PROVE  FALSE
  BY <1>3, <1>4, <1>8 DEF Allocate, SubmitSync, SubmitControl, SubmitAclOut, SubmitDiRead, btVars
<1>9. ASSUME NEW r \in Requests, NEW s \in Slots, SubmitIn(r, s)
      PROVE  FALSE
  BY <1>3, <1>9 DEF SubmitIn
<1>10. ~UNCHANGED ipcVars
  BY <1>3 DEF ipcVars, btVars
<1> QED BY <1>5, <1>6, <1>7, <1>8, <1>9, <1>10 DEF IpcNext, PumpStep

\* A packet is handed over behind every event.
LEMMA AclStep ==
  ASSUME IpcAssumption, IpcTypeOK, [IpcNext]_ipcVars, aclIn' < aclIn
  PROVE  events' = <<>>
<1>1. aclIn \in 0 .. 1
  BY DEF IpcTypeOK
<1>2. aclIn' # aclIn
  BY <1>1
<1>3. ASSUME NEW r \in Requests, SubmitReset(r)
      PROVE  events' = <<>>
  BY <1>3 DEF SubmitReset
<1>4. ASSUME PumpAcl
      PROVE  events' = <<>>
  BY <1>2, <1>4 DEF PumpAcl, AclReady
<1>5. ~(PumpDi \/ PumpEvent \/ PumpEnds \/ BtPumpBegins \/ IpcDrainStep \/ DiTakes \/ DiPublishes)
  BY <1>2 DEF PumpDi, PumpEvent, PumpEnds, BtPumpBegins, IpcDrainStep, IpcDrainCalls,
     IpcCallbackReturns, IpcDrainEnds, DiTakes, DiPublishes, btVars
<1>6. ASSUME NEW r \in Requests, Allocate(r) \/ SubmitSync(r) \/ SubmitControl(r)
                                 \/ SubmitDiRead(r) \/ \E s \in Slots : SubmitIn(r, s)
      PROVE  FALSE
  BY <1>2, <1>6 DEF Allocate, SubmitSync, SubmitControl, SubmitDiRead, SubmitIn, btVars
<1>7. ASSUME NEW r \in Requests, SubmitAclOut(r)
      PROVE  FALSE
  BY <1>1, <1>7 DEF SubmitAclOut
<1>8. ~UNCHANGED ipcVars
  BY <1>2 DEF ipcVars, btVars
<1> QED BY <1>3, <1>4, <1>5, <1>6, <1>7, <1>8 DEF IpcNext, PumpStep

LEMMA IpcInvariance ==
  ASSUME IpcAssumption
  PROVE  IpcSpec => []IpcInv
<1>1. ASSUME IpcInit
      PROVE  IpcInv
  <2>1. IpcTypeOK
    <3>1. <<>> \in Seq(Requests) /\ <<>> \in Seq(0 .. MaxCommands)
      OBVIOUS
    <3> QED BY <1>1, <3>1 DEF IpcInit, IpcTypeOK, IpcAssumption
  <2>2. \A x : ~Among(x, <<>>)
    BY DEF Among
  <2>3. HeldInv
    BY <1>1, <2>2 DEF IpcAssumption, IpcInit, HeldInv, ArmedNotFreed, ReadNotFreed, StoreApart, InStore
  <2>4. ReplyInv
    BY <1>1 DEF IpcInit, ReplyInv, CallsDrained, RepliesFollowOut
  <2> QED BY <2>1, <2>3, <2>4 DEF IpcInv
<1>2. IpcInv /\ [IpcNext]_ipcVars => IpcInv'
  BY IpcTypeStep, HeldStep, ReplyStep DEF IpcInv
<1> QED BY <1>1, <1>2, PTL DEF IpcSpec

\* Every request block, queue and counter of the IPC keeps its type.
THEOREM TransfersAreTyped ==
  ASSUME IpcAssumption
  PROVE  IpcSpec => []IpcTypeOK
<1>1. IpcInv => IpcTypeOK
  BY DEF IpcInv
<1> QED BY <1>1, IpcInvariance, PTL

\* A request block that something still has to complete is not given back, and the block of
\* a disc read belongs to the store of deferred reads for as long as it is there; the reply
\* to a command follows the callback of its transfer; no packet overtakes an event.
THEOREM TransfersStayInOrder ==
  ASSUME IpcAssumption
  PROVE  IpcSpec => TransfersInOrder
<1>1. IpcInv => ArmedNotFreed /\ ReadNotFreed
  BY DEF IpcInv, HeldInv
<1>2. ASSUME IpcInv, [IpcNext]_ipcVars
      PROVE  [\A c \in Commands :
                (armed["event"] # NoRequest /\ use'[armed["event"]] = "free" /\ events # <<>>
                 /\ Head(events) = c /\ events' = Tail(events)) => c \in confirmed]_ipcVars
  BY <1>2, PayloadStep
<1>3. ASSUME IpcInv, [IpcNext]_ipcVars
      PROVE  [aclIn' < aclIn => events' = <<>>]_ipcVars
  BY <1>3, AclStep DEF IpcInv
<1> QED BY <1>1, <1>2, <1>3, IpcInvariance, PTL DEF IpcSpec, TransfersInOrder, PayloadAfterOut, EventsBeforeAcl

-----------------------------------------------------------------------------
(* Network requests.                                                       *)

Flying == resolvers \cup netPending \cup LookupsIn(resolved) \cup LookupsIn(netReady)
LookupsOnce(q) == \A i, j \in 1 .. Len(q) : q[i].work = q[j].work => i = j

\* Each request is in one place: with its host thread, among the lookups that are published
\* or taken by the pump, or parked. Its token is its own.
NetPlaced ==
  /\ \A w, x \in Flying : w.token = x.token => w = x
  /\ \A w \in netPending : w.kind # "dns"
  /\ \A w \in resolvers \cup LookupsIn(resolved) \cup LookupsIn(netReady) : w.kind = "dns"
  /\ resolvers \cap LookupsIn(resolved) = {} /\ resolvers \cap LookupsIn(netReady) = {}
  /\ LookupsIn(resolved) \cap LookupsIn(netReady) = {}
  /\ LookupsOnce(resolved) /\ LookupsOnce(netReady)
  /\ ~pumping => netReady = <<>>

\* Tokens only grow; what has an answer is not on its way, and has one.
AnswersInv ==
  /\ \A w \in Flying : w.token < nextToken
  /\ \A a \in netResults : a.token < nextToken /\ \A w \in Flying : w.token # a.token
  /\ \A a, b \in netResults : a.token = b.token => a = b
  /\ \A i \in 1 .. Len(netCallbacks) :
       netCallbacks[i].token < nextToken /\ \A w \in Flying : w.token # netCallbacks[i].token
  /\ \A i, j \in 1 .. Len(netCallbacks) :
       netCallbacks[i].token = netCallbacks[j].token => i = j

\* The word behind a wait queue names the last request of its own thread.
CookieInv ==
  /\ \A t \in NetThreads : cookie[t] < nextToken
  /\ \A t, u \in NetThreads : cookie[t] = cookie[u] /\ cookie[t] # 0 => t = u
  /\ \A t \in NetThreads : \A w \in Flying : cookie[t] = w.token => w.thread = t

\* Only a connect may succeed without a probe.
ForcedInv == \A w \in netPending : w.forced = "ok" => w.kind = "connect"

NetInv ==
  /\ NetTypeOK /\ NetPlaced /\ AnswersInv /\ CookieInv /\ ForcedInv
  /\ WokenHasResult /\ NoLostWaiter

LEMMA InFlightIs == NetInFlight = {w.token : w \in Flying}
  BY DEF NetInFlight, TokensOf, Flying

LEMMA LookupAdded ==
  ASSUME NEW q \in Seq(LookupDone), NEW c \in LookupDone
  PROVE  /\ Append(q, c) \in Seq(LookupDone)
         /\ LookupsIn(Append(q, c)) = LookupsIn(q) \cup {c.work}
         /\ LookupsOnce(q) /\ c.work \notin LookupsIn(q) => LookupsOnce(Append(q, c))
<1> DEFINE r == Append(q, c)
<1>1. /\ r \in Seq(LookupDone) /\ Len(r) = Len(q) + 1 /\ Len(q) \in Nat /\ r[Len(q) + 1] = c
      /\ \A i \in 1 .. Len(q) : r[i] = q[i]
  OBVIOUS
<1> HIDE DEF r
<1>2. \A i \in 1 .. Len(r) : i \in 1 .. Len(q) \/ i = Len(q) + 1
  BY <1>1
<1>3. Len(q) + 1 \in 1 .. Len(r) /\ \A i \in 1 .. Len(q) : i \in 1 .. Len(r)
  BY <1>1
<1>4. LookupsIn(r) = LookupsIn(q) \cup {c.work}
  BY <1>1, <1>2, <1>3 DEF LookupsIn
<1>5. LookupsOnce(q) /\ c.work \notin LookupsIn(q) => LookupsOnce(r)
  BY <1>1, <1>2 DEF LookupsOnce, LookupsIn
<1> QED BY <1>1, <1>4, <1>5 DEF r

LEMMA LookupTaken ==
  ASSUME NEW q \in Seq(LookupDone), q # <<>>, LookupsOnce(q)
  PROVE  /\ Tail(q) \in Seq(LookupDone) /\ Head(q) \in LookupDone
         /\ LookupsIn(Tail(q)) = LookupsIn(q) \ {Head(q).work}
         /\ Head(q).work \in LookupsIn(q) /\ LookupsOnce(Tail(q))
<1> DEFINE r == Tail(q)
<1>1. /\ r \in Seq(LookupDone) /\ Len(q) \in Nat /\ Len(q) > 0 /\ Len(r) = Len(q) - 1
      /\ Head(q) = q[1] /\ q[1] \in LookupDone /\ \A i \in 1 .. Len(r) : r[i] = q[i + 1]
  OBVIOUS
<1> HIDE DEF r
<1>2. /\ 1 \in 1 .. Len(q)
      /\ \A i \in 1 .. Len(r) : i + 1 \in 1 .. Len(q) /\ i + 1 # 1
      /\ \A i \in 1 .. Len(q) : i = 1 \/ (i - 1 \in 1 .. Len(r) /\ (i - 1) + 1 = i)
  BY <1>1
<1>3. q[1].work \in LookupsIn(q)
  BY <1>2 DEF LookupsIn
<1>4. LookupsIn(r) \subseteq LookupsIn(q) \ {q[1].work}
  BY <1>1, <1>2 DEF LookupsIn, LookupsOnce
<1>5. LookupsIn(q) \ {q[1].work} \subseteq LookupsIn(r)
  <2>1. SUFFICES ASSUME NEW x \in LookupsIn(q), x # q[1].work PROVE x \in LookupsIn(r)
    OBVIOUS
  <2>2. PICK i \in 1 .. Len(q) : q[i].work = x
    BY DEF LookupsIn
  <2>3. i - 1 \in 1 .. Len(r) /\ r[i - 1] = q[i]
    BY <1>1, <1>2, <2>1, <2>2
  <2> QED BY <2>2, <2>3 DEF LookupsIn
<1>6. LookupsOnce(r)
  <2>1. SUFFICES ASSUME NEW i \in 1 .. Len(r), NEW j \in 1 .. Len(r), r[i].work = r[j].work
                 PROVE  i = j
    BY DEF LookupsOnce
  <2>2. i + 1 = j + 1
    BY <1>1, <1>2, <2>1 DEF LookupsOnce
  <2> QED BY <1>1, <2>2
<1> QED BY <1>1, <1>3, <1>4, <1>5, <1>6 DEF r

LEMMA NoLookups == LookupsIn(<<>>) = {} /\ LookupsOnce(<<>>) /\ <<>> \in Seq(LookupDone)
<1>1. Len(<<>>) = 0
  OBVIOUS
<1> QED BY <1>1 DEF LookupsIn, LookupsOnce

\* What is on its way is a request.
LEMMA FlyingAre ==
  ASSUME NetTypeOK
  PROVE  /\ Flying \subseteq NetWork
         /\ \A w \in Flying : w.token \in Nat /\ w.token \in NetTokens
         /\ nextToken \in Nat
         /\ \A t \in NetThreads : cookie[t] \in Nat
<1>1. \A q \in Seq(LookupDone) : LookupsIn(q) \subseteq NetWork
  <2>1. SUFFICES ASSUME NEW q \in Seq(LookupDone), NEW i \in 1 .. Len(q)
                 PROVE  q[i].work \in NetWork
    BY DEF LookupsIn
  <2>2. q[i] \in LookupDone
    BY <2>1
  <2> QED BY <2>2 DEF LookupDone
<1>2. Flying \subseteq NetWork
  BY <1>1 DEF Flying, NetTypeOK
<1>3. \A w \in NetWork : w.token \in Nat /\ w.token \in NetTokens
  BY DEF NetWork, NetTokens
<1>4. nextToken \in Nat /\ \A t \in NetThreads : cookie[t] \in Nat
  BY DEF NetTypeOK
<1> QED BY <1>2, <1>3, <1>4

\* Requests that move or are marked keep their token and their thread.
LEMMA SameRequests ==
  ASSUME AnswersInv, CookieInv, WokenHasResult, NoLostWaiter,
         \A x \in Flying' : \E w \in Flying : w.token = x.token /\ w.thread = x.thread,
         \A w \in Flying : \E x \in Flying' : x.token = w.token,
         UNCHANGED <<nextToken, cookie, netResults, netCallbacks>>,
         \A t \in NetThreads :
           netState'[t] \in {"waiting", "woken"} => netState'[t] = netState[t]
  PROVE  AnswersInv' /\ CookieInv' /\ WokenHasResult' /\ NoLostWaiter'
<1>1. AnswersInv'
  BY DEF AnswersInv
<1>2. CookieInv'
  BY DEF CookieInv
<1>3. WokenHasResult'
  BY DEF WokenHasResult
<1>4. NoLostWaiter'
  <2>1. NetInFlight \subseteq NetInFlight'
    BY DEF NetInFlight, TokensOf, Flying
  <2> QED BY <2>1 DEF NoLostWaiter
<1> QED BY <1>1, <1>2, <1>3, <1>4

LEMMA NetBegins == RequestsAssumption /\ NetInit => NetInv
<1> SUFFICES ASSUME RequestsAssumption, NetInit PROVE NetInv
  OBVIOUS
<1> USE DEF NetInit
<1>1. Flying = {}
  BY NoLookups DEF Flying
<1>2. NetTypeOK
  <2>1. <<>> \in Seq(NetAnswer)
    OBVIOUS
  <2>2. 0 \in 0 .. MaxOpens /\ 0 \in 0 .. NetRequests /\ 1 \in 1 .. NetRequests + 1
    BY DEF RequestsAssumption
  <2> QED BY NoLookups, <2>1, <2>2 DEF NetTypeOK
<1>3. NetPlaced
  BY <1>1, NoLookups DEF NetPlaced
<1>4. Len(netCallbacks) = 0 /\ 1 .. 0 = {}
  OBVIOUS
<1>5. AnswersInv
  BY <1>1, <1>4 DEF AnswersInv
<1> QED BY <1>1, <1>2, <1>3, <1>5 DEF NetInv, CookieInv, ForcedInv, WokenHasResult, NoLostWaiter

\* Sockets come and go, threads die and are born.
LEMMA QuietKeeps ==
  ASSUME NetInv, NetTypeOK',
         UNCHANGED <<cookie, nextToken, netHost, netPending, netAnswers, pumpWork>>,
         \A t \in NetThreads :
           netState'[t] \in {"waiting", "woken"} => netState'[t] = netState[t]
  PROVE  NetInv'
<1> USE DEF netHost, netAnswers, pumpWork
<1>1. Flying' = Flying
  BY DEF Flying
<1>2. NetPlaced' /\ ForcedInv'
  BY <1>1 DEF NetInv, NetPlaced, ForcedInv
<1>3. AnswersInv' /\ CookieInv' /\ WokenHasResult' /\ NoLostWaiter'
  BY <1>1, SameRequests DEF NetInv
<1> QED BY <1>2, <1>3 DEF NetInv

\* Parked requests are marked.
LEMMA MarkKeeps ==
  ASSUME NetInv, NetTypeOK',
         \A x \in netPending' : \E w \in netPending :
           /\ w.token = x.token /\ w.thread = x.thread /\ w.kind = x.kind
           /\ x.forced = "ok" => w.forced = "ok",
         \A w \in netPending : \E x \in netPending' : x.token = w.token,
         \A x, y \in netPending' : x.token = y.token => x = y,
         UNCHANGED <<netGuest, nextToken, netHost, netAnswers, pumpWork>>
  PROVE  NetInv'
<1> USE DEF netHost, netAnswers, pumpWork, netGuest
<1> DEFINE L == resolvers \cup LookupsIn(resolved) \cup LookupsIn(netReady)
<1>1. L' = L /\ Flying = L \cup netPending /\ Flying' = L \cup netPending'
  BY DEF Flying
<1>2. \A w \in L : w.kind = "dns"
  BY DEF NetInv, NetPlaced
<1>3. \A w, x \in Flying : w.token = x.token => w = x
  BY DEF NetInv, NetPlaced
<1>4. \A w \in netPending : w.kind # "dns"
  BY DEF NetInv, NetPlaced
<1> HIDE DEF L
<1>5. \A w \in netPending' : w.kind # "dns"
  BY <1>4
<1>6. ASSUME NEW x \in netPending', NEW y \in L PROVE x.token # y.token
  BY <1>1, <1>2, <1>3, <1>4
<1>7. \A w, x \in Flying' : w.token = x.token => w = x
  BY <1>1, <1>3, <1>6
<1>8. NetPlaced' /\ ForcedInv'
  BY <1>5, <1>7 DEF NetInv, NetPlaced, ForcedInv
<1>9. AnswersInv' /\ CookieInv' /\ WokenHasResult' /\ NoLostWaiter'
  BY <1>1, SameRequests DEF NetInv
<1> QED BY <1>8, <1>9 DEF NetInv

LEMMA SocketsKeep ==
  ASSUME NetInv, RequestsAssumption, NEW fd \in Fds, OpenSocket(fd) \/ ReconnectSocket(fd)
  PROVE  NetInv'
<1> USE DEF netHost, netAnswers, pumpWork, netGuest, NextGeneration
<1>1. opened' \in 0 .. MaxOpens /\ sockets' \in [Fds -> 0 .. MaxOpens]
  <2>1. /\ opened \in 0 .. MaxOpens /\ sockets \in [Fds -> 0 .. MaxOpens]
        /\ MaxOpens \in Nat
    BY DEF NetInv, NetTypeOK, RequestsAssumption
  <2>2. opened < MaxOpens /\ opened' = opened + 1
    BY DEF OpenSocket, ReconnectSocket
  <2>3. opened' \in 0 .. MaxOpens
    BY <2>1, <2>2
  <2>4. sockets' = [sockets EXCEPT ![fd] = opened']
    BY DEF OpenSocket, ReconnectSocket
  <2> QED BY <2>1, <2>3, <2>4
<1>2. NetTypeOK'
  BY <1>1 DEF NetInv, NetTypeOK, OpenSocket, ReconnectSocket
<1> QED BY <1>2, QuietKeeps DEF OpenSocket, ReconnectSocket

LEMMA AbortKeeps ==
  ASSUME NetInv, RequestsAssumption, NEW fd \in Fds, CloseSocket(fd) \/ ShutdownSocket(fd)
  PROVE  NetInv'
<1> USE DEF netHost, netAnswers, pumpWork, netGuest, netSockets
<1> DEFINE Mark(w) == IF w.fd = fd /\ w.kind # "poll" /\ w.forced = "none"
                      THEN [w EXCEPT !.forced = "aborted"] ELSE w
<1>1. netPending' = {Mark(w) : w \in netPending}
  BY DEF CloseSocket, ShutdownSocket, AbortParked
<1>2. ASSUME NEW w \in netPending
      PROVE  /\ Mark(w) \in NetWork /\ Mark(w).token = w.token /\ Mark(w).thread = w.thread
             /\ Mark(w).kind = w.kind /\ (Mark(w).forced = "ok" => w.forced = "ok")
  BY DEF NetInv, NetTypeOK, NetWork, NetOutcomes
<1> HIDE DEF Mark
<1>3. \A w, x \in netPending : w.token = x.token => w = x
  BY DEF NetInv, NetPlaced, Flying
<1>4. \A x \in netPending' : \E w \in netPending :
           /\ w.token = x.token /\ w.thread = x.thread /\ w.kind = x.kind
           /\ x.forced = "ok" => w.forced = "ok"
  BY <1>1, <1>2
<1>5. \A w \in netPending : \E x \in netPending' : x.token = w.token
  BY <1>1, <1>2
<1>6. \A x, y \in netPending' : x.token = y.token => x = y
  BY <1>1, <1>2, <1>3
<1>7. sockets' \in [Fds -> 0 .. MaxOpens] /\ opened' = opened
  <2>1. sockets \in [Fds -> 0 .. MaxOpens] /\ 0 \in 0 .. MaxOpens
    BY DEF NetInv, NetTypeOK, RequestsAssumption
  <2>2. (sockets' = [sockets EXCEPT ![fd] = 0] \/ sockets' = sockets) /\ opened' = opened
    BY DEF CloseSocket, ShutdownSocket
  <2> QED BY <2>1, <2>2
<1>8. netPending' \subseteq NetWork
  BY <1>1, <1>2
<1>9. UNCHANGED <<netGuest, nextToken, netHost, netAnswers, pumpWork>>
  BY DEF CloseSocket, ShutdownSocket
<1>10. NetTypeOK'
  <2>1. netRest' \subseteq {w.token : w \in netPending'}
    BY <1>5, <1>9 DEF NetInv, NetTypeOK
  <2> QED BY <1>7, <1>8, <1>9, <2>1 DEF NetInv, NetTypeOK
<1> QED BY <1>4, <1>5, <1>6, <1>9, <1>10, MarkKeeps

LEMMA ExpireKeeps ==
  ASSUME NetInv, NEW w \in netPending, NetExpire(w)
  PROVE  NetInv'
<1> USE DEF netHost, netAnswers, pumpWork, netGuest, netSockets
<1> DEFINE e == [w EXCEPT !.expired = TRUE]
<1>1. netPending' = (netPending \ {w}) \cup {e}
  BY DEF NetExpire
<1>2. /\ e \in NetWork /\ e.token = w.token /\ e.thread = w.thread
      /\ e.kind = w.kind /\ e.forced = w.forced
  BY DEF NetInv, NetTypeOK, NetWork
<1> HIDE DEF e
<1>3. \A y, x \in netPending : y.token = x.token => y = x
  BY DEF NetInv, NetPlaced, Flying
<1>4. \A x \in netPending' : \E y \in netPending :
           /\ y.token = x.token /\ y.thread = x.thread /\ y.kind = x.kind
           /\ x.forced = "ok" => y.forced = "ok"
  BY <1>1, <1>2
<1>5. \A y \in netPending : \E x \in netPending' : x.token = y.token
  BY <1>1, <1>2
<1>6. \A x, y \in netPending' : x.token = y.token => x = y
  BY <1>1, <1>2, <1>3
<1>8. netPending' \subseteq NetWork
  BY <1>1, <1>2 DEF NetInv, NetTypeOK
<1>9. UNCHANGED <<netSockets, netGuest, nextToken, netHost, netAnswers, pumpWork>>
  BY DEF NetExpire
<1>10. NetTypeOK'
  <2>1. netRest' \subseteq {x.token : x \in netPending'}
    BY <1>5, <1>9 DEF NetInv, NetTypeOK
  <2> QED BY <1>8, <1>9, <2>1 DEF NetInv, NetTypeOK
<1> QED BY <1>4, <1>5, <1>6, <1>9, <1>10, MarkKeeps

\* The pump takes the lookups that are published, and ends.
LEMMA NetPumpBeginsKeeps ==
  ASSUME NetInv, NetPumpBegins
  PROVE  NetInv'
<1> USE DEF netAnswers, netGuest, netSockets
<1>1. /\ netReady = <<>> /\ netReady' = resolved /\ resolved' = <<>>
      /\ UNCHANGED <<resolvers, netPending, netGuest, netSockets, nextToken, netAnswers>>
      /\ pumping' = TRUE /\ netRest' = {w.token : w \in netPending}
  BY DEF NetPumpBegins, NetQuiet, NetInv, NetPlaced
<1>2. NetTypeOK'
  BY <1>1, NoLookups DEF NetInv, NetTypeOK
<1>3. Flying' = Flying
  BY <1>1, NoLookups DEF Flying
<1>4. NetPlaced' /\ ForcedInv'
  BY <1>1, <1>3, NoLookups DEF NetInv, NetPlaced, ForcedInv
<1>5. AnswersInv' /\ CookieInv' /\ WokenHasResult' /\ NoLostWaiter'
  BY <1>1, <1>3, SameRequests DEF NetInv
<1> QED BY <1>2, <1>4, <1>5 DEF NetInv

LEMMA NetPumpEndsKeeps ==
  ASSUME NetInv, NetPumpEnds
  PROVE  NetInv'
<1> USE DEF netAnswers, netGuest, netSockets, netHost
<1>1. /\ netReady' = <<>> /\ netReady = <<>> /\ resolved' = resolved
      /\ UNCHANGED <<resolvers, netPending, netGuest, netSockets, nextToken, netAnswers,
                     netRest>>
      /\ pumping' = FALSE
  BY DEF NetPumpEnds
<1>2. NetTypeOK'
  BY <1>1 DEF NetInv, NetTypeOK
<1>3. Flying' = Flying
  BY <1>1 DEF Flying
<1>4. NetPlaced' /\ ForcedInv'
  BY <1>1, <1>3 DEF NetInv, NetPlaced, ForcedInv
<1>5. AnswersInv' /\ CookieInv' /\ WokenHasResult' /\ NoLostWaiter'
  BY <1>1, <1>3, SameRequests DEF NetInv
<1> QED BY <1>2, <1>4, <1>5 DEF NetInv

\* A host thread publishes what it found.
LEMMA ResolveKeeps ==
  ASSUME NetInv, NEW w \in resolvers, Resolve(w)
  PROVE  NetInv'
<1> USE DEF netAnswers, netGuest, netSockets, pumpWork
<1>1. PICK outcome \in {"ok", "error"} :
        resolved' = Append(resolved, [work |-> w, outcome |-> outcome])
  BY DEF Resolve
<1> DEFINE c == [work |-> w, outcome |-> outcome]
<1>2. c \in LookupDone /\ c.work = w /\ resolved \in Seq(LookupDone)
  BY <1>1 DEF LookupDone, NetInv, NetTypeOK
<1> HIDE DEF c
<1>3. /\ resolvers' = resolvers \ {w}
      /\ UNCHANGED <<netPending, netReady, netGuest, netSockets, nextToken, netAnswers,
                     pumping, netRest>>
  BY DEF Resolve
<1>4. w \notin LookupsIn(resolved) /\ w \notin LookupsIn(netReady)
  BY DEF NetInv, NetPlaced
<1>5. /\ resolved' \in Seq(LookupDone) /\ LookupsIn(resolved') = LookupsIn(resolved) \cup {w}
      /\ LookupsOnce(resolved')
  BY <1>1, <1>2, <1>4, LookupAdded DEF c, NetInv, NetPlaced
<1>6. NetTypeOK'
  BY <1>3, <1>5 DEF NetInv, NetTypeOK
<1>7. /\ LookupsIn(resolved)' = LookupsIn(resolved) \cup {w}
      /\ LookupsIn(netReady)' = LookupsIn(netReady) /\ LookupsOnce(resolved)'
      /\ LookupsOnce(netReady)' = LookupsOnce(netReady)
  BY <1>3, <1>5 DEF LookupsIn, LookupsOnce
<1>8. Flying' = Flying
  BY <1>3, <1>7 DEF Flying
<1>9. NetPlaced' /\ ForcedInv'
  BY <1>3, <1>4, <1>7, <1>8 DEF NetInv, NetPlaced, ForcedInv
<1>10. AnswersInv' /\ CookieInv' /\ WokenHasResult' /\ NoLostWaiter'
  BY <1>3, <1>8, SameRequests DEF NetInv
<1> QED BY <1>6, <1>9, <1>10 DEF NetInv

\* A request is made: it is the only one with its token.
LEMMA Installed ==
  ASSUME NetInv, RequestsAssumption, NetQuiet,
         NEW kind \in NetKinds, NEW fd \in Fds, NEW thread \in NetThreads \cup {NoCaller},
         Install(kind, fd, thread), UNCHANGED <<netSockets, netAnswers, pumpWork>>,
         cookie' \in [NetThreads -> 0 .. NetRequests],
         netState' \in [NetThreads -> {"running", "waiting", "woken", "refused", "dead"}]
  PROVE  /\ \E w \in NetWork :
              w.token = nextToken /\ w.thread = thread /\ Flying' = Flying \cup {w}
         /\ nextToken' = nextToken + 1 /\ NetTypeOK' /\ NetPlaced' /\ ForcedInv'
<1> USE DEF netAnswers, netSockets, pumpWork, netHost
<1>1. PICK forced \in ConnectSays(kind), timed \in HasDeadline(kind) :
       LET w == [token |-> nextToken, thread |-> thread, kind |-> kind, fd |-> fd,
                 generation |-> sockets[fd], timed |-> timed, expired |-> FALSE,
                 forced |-> forced]
       IN  IF kind = "dns"
           THEN resolvers' = resolvers \cup {w} /\ UNCHANGED <<resolved, netPending>>
           ELSE netPending' = netPending \cup {w} /\ UNCHANGED netHost
  BY DEF Install
<1> DEFINE w == [token |-> nextToken, thread |-> thread, kind |-> kind, fd |-> fd,
                 generation |-> sockets[fd], timed |-> timed, expired |-> FALSE,
                 forced |-> forced]
<1>2. nextToken \in NetTokens /\ nextToken' = nextToken + 1 /\ NetRequests \in Nat
  BY DEF Install, RequestsAssumption
<1>3. /\ forced \in NetOutcomes \cup {"none"} /\ (forced = "ok" => kind = "connect")
      /\ timed \in BOOLEAN /\ kind \in AllKinds
  BY DEF ConnectSays, HasDeadline, NetOutcomes, RequestsAssumption
<1>4. /\ w \in NetWork /\ w.token = nextToken /\ w.thread = thread /\ w.kind = kind
      /\ (w.forced = "ok" => w.kind = "connect")
  BY <1>2, <1>3 DEF NetWork, NetInv, NetTypeOK
<1>5. \/ kind = "dns" /\ resolvers' = resolvers \cup {w} /\ UNCHANGED <<resolved, netPending>>
      \/ kind # "dns" /\ netPending' = netPending \cup {w} /\ UNCHANGED netHost
  BY <1>1
<1> HIDE DEF w
<1>6. Flying' = Flying \cup {w}
  BY <1>5 DEF Flying, LookupsIn
<1>7. \A x \in Flying : x.token # w.token
  BY <1>2, <1>4, FlyingAre DEF NetInv, AnswersInv
<1>8. NetTypeOK'
  <2>1. nextToken' \in 1 .. NetRequests + 1
    BY <1>2 DEF NetTokens
  <2>2. resolvers' \subseteq NetWork /\ netPending' \subseteq NetWork
        /\ resolved' \in Seq(LookupDone)
        /\ netPending \subseteq netPending'
    BY <1>4, <1>5 DEF NetInv, NetTypeOK
  <2>3. netRest' \subseteq {x.token : x \in netPending'}
    BY <2>2 DEF NetInv, NetTypeOK
  <2> QED BY <2>1, <2>2, <2>3 DEF NetInv, NetTypeOK
<1>9. NetPlaced'
  <2>1. \A x, y \in Flying' : x.token = y.token => x = y
    BY <1>6, <1>7 DEF NetInv, NetPlaced
  <2>2. w \notin Flying /\ UNCHANGED <<resolved, netReady, pumping>>
    BY <1>5, <1>7
  <2>3. w \notin LookupsIn(resolved) /\ w \notin LookupsIn(netReady)
    BY <2>2 DEF Flying
  <2>4. /\ LookupsIn(resolved)' = LookupsIn(resolved)
        /\ LookupsIn(netReady)' = LookupsIn(netReady)
        /\ LookupsOnce(resolved)' = LookupsOnce(resolved)
        /\ LookupsOnce(netReady)' = LookupsOnce(netReady)
    BY <2>2 DEF LookupsIn, LookupsOnce
  <2>5. CASE kind = "dns"
    BY <1>4, <1>5, <2>1, <2>2, <2>3, <2>4, <2>5 DEF NetInv, NetPlaced
  <2>6. CASE kind # "dns"
    BY <1>4, <1>5, <2>1, <2>2, <2>4, <2>6 DEF NetInv, NetPlaced
  <2> QED BY <2>5, <2>6
<1>10. ForcedInv'
  BY <1>4, <1>5 DEF NetInv, ForcedInv
<1> QED BY <1>2, <1>4, <1>6, <1>8, <1>9, <1>10

\* Its token is younger than every answer.
LEMMA InstallAnswers ==
  ASSUME NetInv, NEW w \in NetWork, w.token = nextToken, Flying' = Flying \cup {w},
         nextToken' = nextToken + 1, UNCHANGED netAnswers
  PROVE  AnswersInv'
<1> USE DEF netAnswers
<1>1. nextToken \in Nat /\ \A x \in Flying : x.token \in Nat
  BY FlyingAre DEF NetInv
<1>2. /\ \A a \in netResults : a.token \in Nat
      /\ \A i \in 1 .. Len(netCallbacks) : netCallbacks[i].token \in Nat
  <2>1. \A a \in NetAnswer : a.token \in Nat
    BY DEF NetAnswer, NetTokens
  <2>2. \A i \in 1 .. Len(netCallbacks) : netCallbacks[i] \in NetAnswer
    BY DEF NetInv, NetTypeOK
  <2>3. netResults \subseteq NetAnswer
    BY DEF NetInv, NetTypeOK
  <2> QED BY <2>1, <2>2, <2>3
<1>3. \A x \in Flying' : x.token < nextToken'
  BY <1>1 DEF NetInv, AnswersInv
<1>4. \A a \in netResults' : a.token < nextToken' /\ \A x \in Flying' : x.token # a.token
  BY <1>1, <1>2 DEF NetInv, AnswersInv
<1>5. \A i \in 1 .. Len(netCallbacks') :
       netCallbacks'[i].token < nextToken' /\ \A x \in Flying' : x.token # netCallbacks'[i].token
  BY <1>1, <1>2 DEF NetInv, AnswersInv
<1> QED BY <1>3, <1>4, <1>5 DEF NetInv, AnswersInv

LEMMA StartSyncKeeps ==
  ASSUME NetInv, RequestsAssumption, NEW t \in NetThreads, NEW kind \in NetKinds,
         NEW fd \in Fds, NEW parks \in BOOLEAN, StartSync(t, kind, fd, parks)
  PROVE  NetInv'
<1>1. /\ cookie' = [cookie EXCEPT ![t] = nextToken]
      /\ netState' = [netState EXCEPT ![t] = IF parks THEN "waiting" ELSE "refused"]
      /\ Install(kind, fd, t) /\ NetQuiet /\ UNCHANGED <<netSockets, netAnswers, pumpWork>>
  BY DEF StartSync
<1>2. nextToken \in NetTokens /\ nextToken \in 0 .. NetRequests /\ nextToken # 0
  BY DEF StartSync, Install, NetTokens
<1>3. /\ cookie \in [NetThreads -> 0 .. NetRequests]
      /\ netState \in [NetThreads -> {"running", "waiting", "woken", "refused", "dead"}]
  BY DEF NetInv, NetTypeOK
<1>4. /\ cookie' \in [NetThreads -> 0 .. NetRequests]
      /\ netState' \in [NetThreads -> {"running", "waiting", "woken", "refused", "dead"}]
  BY <1>1, <1>2, <1>3
<1>5. /\ \E w \in NetWork :
           w.token = nextToken /\ w.thread = t /\ Flying' = Flying \cup {w}
      /\ nextToken' = nextToken + 1 /\ NetTypeOK' /\ NetPlaced' /\ ForcedInv'
  BY <1>1, <1>4, Installed
<1>6. PICK w \in NetWork : w.token = nextToken /\ w.thread = t /\ Flying' = Flying \cup {w}
  BY <1>5
<1>7. AnswersInv'
  BY <1>1, <1>5, <1>6, InstallAnswers
<1>8. /\ cookie'[t] = nextToken /\ netState'[t] \notin {"running", "woken"}
      /\ \A u \in NetThreads \ {t} : cookie'[u] = cookie[u] /\ netState'[u] = netState[u]
      /\ \A u \in NetThreads : cookie[u] \in Nat /\ cookie[u] < nextToken
      /\ nextToken \in Nat
  BY <1>1, <1>3, FlyingAre DEF NetInv, CookieInv
<1>9. CookieInv'
  <2>1. \A u \in NetThreads : cookie'[u] < nextToken'
    BY <1>5, <1>8
  <2>2. \A u, v \in NetThreads : cookie'[u] = cookie'[v] /\ cookie'[u] # 0 => u = v
    <3>1. SUFFICES ASSUME NEW u \in NetThreads, NEW v \in NetThreads,
                          cookie'[u] = cookie'[v], cookie'[u] # 0
                   PROVE  u = v
      OBVIOUS
    <3>2. CASE u = t /\ v # t
      BY <1>8, <3>1, <3>2
    <3>3. CASE u # t /\ v = t
      BY <1>8, <3>1, <3>3
    <3>4. CASE u # t /\ v # t
      BY <1>8, <3>1, <3>4 DEF NetInv, CookieInv
    <3> QED BY <3>2, <3>3, <3>4
  <2>3. ASSUME NEW u \in NetThreads, NEW x \in Flying', cookie'[u] = x.token
        PROVE  x.thread = u
    <3>1. \A y \in Flying : y.token < nextToken /\ y.token \in Nat
      BY FlyingAre DEF NetInv, AnswersInv
    <3>2. CASE u = t
      <4>1. x = w
        BY <1>6, <1>8, <2>3, <3>1, <3>2
      <4> QED BY <1>6, <3>2, <4>1
    <3>3. CASE u # t
      <4>1. x \in Flying
        BY <1>6, <1>8, <2>3, <3>3
      <4> QED BY <1>8, <2>3, <3>3, <4>1 DEF NetInv, CookieInv
    <3> QED BY <3>2, <3>3
  <2> QED BY <2>1, <2>2, <2>3 DEF CookieInv
<1>10. WokenHasResult'
  BY <1>1, <1>8 DEF NetInv, WokenHasResult, netAnswers
<1>11. NoLostWaiter'
  <2>1. NetInFlight' = {x.token : x \in Flying'} /\ NetInFlight = {x.token : x \in Flying}
    BY DEF NetInFlight, TokensOf, Flying
  <2> QED BY <1>6, <1>8, <2>1 DEF NetInv, NoLostWaiter
<1> QED BY <1>5, <1>7, <1>9, <1>10, <1>11 DEF NetInv

LEMMA StartAsyncKeeps ==
  ASSUME NetInv, RequestsAssumption, NEW kind \in NetKinds, NEW fd \in Fds,
         StartAsync(kind, fd)
  PROVE  NetInv'
<1>1. /\ UNCHANGED <<cookie, netState>>
      /\ Install(kind, fd, NoCaller) /\ NetQuiet
      /\ UNCHANGED <<netSockets, netAnswers, pumpWork>>
  BY DEF StartAsync, netGuest
<1>2. /\ cookie' \in [NetThreads -> 0 .. NetRequests]
      /\ netState' \in [NetThreads -> {"running", "waiting", "woken", "refused", "dead"}]
  BY <1>1 DEF NetInv, NetTypeOK
<1>3. /\ \E w \in NetWork :
           w.token = nextToken /\ w.thread = NoCaller /\ Flying' = Flying \cup {w}
      /\ nextToken' = nextToken + 1 /\ NetTypeOK' /\ NetPlaced' /\ ForcedInv'
  BY <1>1, <1>2, Installed
<1>4. PICK w \in NetWork : w.token = nextToken /\ Flying' = Flying \cup {w}
  BY <1>3
<1>5. AnswersInv'
  BY <1>1, <1>3, <1>4, InstallAnswers
<1>6. \A u \in NetThreads : cookie[u] \in Nat /\ cookie[u] < nextToken /\ nextToken \in Nat
  BY FlyingAre DEF NetInv, CookieInv
<1>7. CookieInv'
  BY <1>1, <1>3, <1>4, <1>6 DEF NetInv, CookieInv
<1>8. WokenHasResult'
  BY <1>1 DEF NetInv, WokenHasResult, netAnswers
<1>9. NoLostWaiter'
  <2>1. NetInFlight' = {x.token : x \in Flying'} /\ NetInFlight = {x.token : x \in Flying}
    BY DEF NetInFlight, TokensOf, Flying
  <2> QED BY <1>1, <1>4, <2>1 DEF NetInv, NoLostWaiter
<1> QED BY <1>3, <1>5, <1>7, <1>8, <1>9 DEF NetInv

\* A thread goes on with its result: it was the only one that waited for it.
LEMMA FinishKeeps ==
  ASSUME NetInv, NEW t \in NetThreads, FinishWait(t)
  PROVE  NetInv'
<1> USE DEF netSockets, netHost, pumpWork
<1>1. /\ netState' = [netState EXCEPT ![t] = "running"]
      /\ netResults' = {a \in netResults : a.token # cookie[t]}
      /\ UNCHANGED <<sockets, opened, cookie, nextToken, resolvers, resolved, netPending,
                     netCallbacks, pumping, netReady, netRest>>
  BY DEF FinishWait
<1>2. netState \in [NetThreads -> {"running", "waiting", "woken", "refused", "dead"}]
  BY DEF NetInv, NetTypeOK
<1>3. /\ netState' \in [NetThreads -> {"running", "waiting", "woken", "refused", "dead"}]
      /\ netState'[t] = "running"
      /\ \A u \in NetThreads \ {t} : netState'[u] = netState[u]
  BY <1>1, <1>2
<1>4. NetTypeOK'
  BY <1>1, <1>3 DEF NetInv, NetTypeOK
<1>5. Flying' = Flying
  BY <1>1 DEF Flying
<1>6. NetPlaced' /\ ForcedInv' /\ CookieInv'
  BY <1>1, <1>5 DEF NetInv, NetPlaced, ForcedInv, CookieInv
<1>7. AnswersInv'
  BY <1>1, <1>5 DEF NetInv, AnswersInv
<1>8. WokenHasResult'
  <2>1. SUFFICES ASSUME NEW u \in NetThreads, netState'[u] = "woken"
                 PROVE  \E a \in netResults' : a.token = cookie'[u]
    BY DEF WokenHasResult
  <2>2. PICK a \in netResults : a.token = cookie[u]
    BY <1>3, <2>1 DEF NetInv, WokenHasResult
  <2>3. a.token # 0
    BY DEF NetInv, NetTypeOK, NetAnswer, NetTokens
  <2>4. cookie[t] # cookie[u]
    BY <1>3, <2>1, <2>2, <2>3 DEF NetInv, CookieInv
  <2> QED BY <1>1, <2>2, <2>4
<1>9. NoLostWaiter'
  <2>1. NetInFlight' = NetInFlight
    BY <1>1 DEF NetInFlight, TokensOf
  <2> QED BY <1>1, <1>3, <2>1 DEF NetInv, NoLostWaiter
<1> QED BY <1>4, <1>6, <1>7, <1>8, <1>9 DEF NetInv

LEMMA CallBackKeeps ==
  ASSUME NetInv, NetCallBack
  PROVE  /\ NetInv'
         /\ \A j \in 1 .. Len(netCallbacks') :
              \E i \in 1 .. Len(netCallbacks) : netCallbacks'[j] = netCallbacks[i]
<1> USE DEF netSockets, netHost, pumpWork, netGuest
<1>1. /\ netCallbacks # <<>> /\ netCallbacks' = Tail(netCallbacks)
      /\ UNCHANGED <<sockets, opened, netState, cookie, nextToken, resolvers, resolved,
                     netPending, netResults, pumping, netReady, netRest>>
      /\ netCallbacks \in Seq(NetAnswer)
  BY DEF NetCallBack, NetInv, NetTypeOK
<1>2. /\ netCallbacks' \in Seq(NetAnswer) /\ Len(netCallbacks) \in Nat
      /\ Len(netCallbacks') = Len(netCallbacks) - 1
      /\ \A j \in 1 .. Len(netCallbacks') : netCallbacks'[j] = netCallbacks[j + 1]
  BY <1>1
<1>3. \A j \in 1 .. Len(netCallbacks') : j + 1 \in 1 .. Len(netCallbacks)
  BY <1>2
<1>4. NetTypeOK'
  BY <1>1, <1>2 DEF NetInv, NetTypeOK
<1>5. Flying' = Flying
  BY <1>1 DEF Flying
<1>6. NetPlaced' /\ ForcedInv' /\ CookieInv' /\ WokenHasResult'
  BY <1>1, <1>5 DEF NetInv, NetPlaced, ForcedInv, CookieInv, WokenHasResult
<1>7. AnswersInv'
  <2>1. \A j \in 1 .. Len(netCallbacks') :
          /\ netCallbacks'[j].token < nextToken'
          /\ \A w \in Flying' : w.token # netCallbacks'[j].token
    BY <1>1, <1>2, <1>3, <1>5 DEF NetInv, AnswersInv
  <2>2. ASSUME NEW i \in 1 .. Len(netCallbacks'), NEW j \in 1 .. Len(netCallbacks'),
               netCallbacks'[i].token = netCallbacks'[j].token
        PROVE  i = j
    <3>1. i + 1 = j + 1
      BY <1>2, <1>3, <2>2, Zenon DEF NetInv, AnswersInv
    <3> QED BY <1>2, <3>1
  <2> QED BY <1>1, <1>5, <2>1, <2>2 DEF NetInv, AnswersInv
<1>8. NoLostWaiter'
  BY <1>1 DEF NetInv, NoLostWaiter, NetInFlight, TokensOf
<1> QED BY <1>2, <1>3, <1>4, <1>6, <1>7, <1>8 DEF NetInv

\* A request ends: nobody waits for it any more, or it is delivered.
LEMMA RequestEnds ==
  ASSUME NetInv, RequestsAssumption, NEW w \in Flying, Flying' = Flying \ {w},
         UNCHANGED <<cookie, nextToken>>,
         \/ ~WaiterIsValid(w) /\ UNCHANGED <<netResults, netCallbacks, netState>>
         \/ WaiterIsValid(w) /\ \E outcome \in NetOutcomes : NetDeliver(w, outcome)
  PROVE  /\ AnswersInv' /\ CookieInv' /\ WokenHasResult' /\ NoLostWaiter'
         /\ netResults' \subseteq NetAnswer /\ netCallbacks' \in Seq(NetAnswer)
         /\ netState' \in [NetThreads -> {"running", "waiting", "woken", "refused", "dead"}]
<1>1. /\ NetInFlight' = {x.token : x \in Flying'} /\ NetInFlight = {x.token : x \in Flying}
      /\ w \in NetWork /\ w.token \in NetTokens
  BY FlyingAre DEF NetInv, NetInFlight, TokensOf, Flying
<1>2. \A x \in Flying' : x \in Flying /\ x.token # w.token
  BY DEF NetInv, NetPlaced
<1>3. CookieInv'
  BY DEF NetInv, CookieInv
<1>4. ASSUME NEW t \in NetThreads, netState[t] = "waiting", ~(w.thread = t /\ WaiterIsValid(w))
      PROVE  cookie[t] \in NetInFlight'
  <2>1. PICK x \in Flying : x.token = cookie[t]
    BY <1>1, <1>4 DEF NetInv, NoLostWaiter
  <2>2. x # w
    BY <1>4, <2>1 DEF NetInv, CookieInv, WaiterIsValid
  <2> QED BY <1>1, <2>1, <2>2
<1>5. CASE ~WaiterIsValid(w) /\ UNCHANGED <<netResults, netCallbacks, netState>>
  <2>1. AnswersInv'
    BY <1>2, <1>5 DEF NetInv, AnswersInv
  <2>2. WokenHasResult' /\ NoLostWaiter'
    BY <1>4, <1>5 DEF NetInv, WokenHasResult, NoLostWaiter
  <2> QED BY <1>3, <1>5, <2>1, <2>2 DEF NetInv, NetTypeOK
<1>6. ASSUME WaiterIsValid(w), NEW outcome \in NetOutcomes, NetDeliver(w, outcome)
      PROVE  /\ AnswersInv' /\ WokenHasResult' /\ NoLostWaiter'
             /\ netResults' \subseteq NetAnswer /\ netCallbacks' \in Seq(NetAnswer)
             /\ netState' \in [NetThreads -> {"running", "waiting", "woken", "refused", "dead"}]
  <2> DEFINE answer == [token |-> w.token, outcome |-> outcome]
  <2>1. answer \in NetAnswer /\ answer.token = w.token
    BY <1>1 DEF NetAnswer
  <2>2. /\ netResults \subseteq NetAnswer /\ netCallbacks \in Seq(NetAnswer)
        /\ netState \in [NetThreads -> {"running", "waiting", "woken", "refused", "dead"}]
    BY DEF NetInv, NetTypeOK
  <2>3. /\ \A a \in netResults : a.token # w.token
        /\ \A i \in 1 .. Len(netCallbacks) : netCallbacks[i].token # w.token
        /\ w.token < nextToken
    BY DEF NetInv, AnswersInv
  <2>4. CASE w.thread = NoCaller
    <3>1. netCallbacks' = Append(netCallbacks, answer) /\ UNCHANGED <<netResults, netState>>
      BY <1>6, <2>4 DEF NetDeliver
    <3> HIDE DEF answer
    <3>2. /\ netCallbacks' \in Seq(NetAnswer) /\ Len(netCallbacks) \in Nat
          /\ Len(netCallbacks') = Len(netCallbacks) + 1
          /\ \A i \in 1 .. Len(netCallbacks) : netCallbacks'[i] = netCallbacks[i]
          /\ netCallbacks'[Len(netCallbacks) + 1] = answer
      BY <2>1, <2>2, <3>1
    <3>3. \A i \in 1 .. Len(netCallbacks') :
            i \in 1 .. Len(netCallbacks) \/ i = Len(netCallbacks) + 1
      BY <3>2
    <3>4. \A i \in 1 .. Len(netCallbacks') :
            /\ netCallbacks'[i].token < nextToken
            /\ \A x \in Flying' : x.token # netCallbacks'[i].token
      BY <1>2, <2>1, <2>3, <3>2, <3>3 DEF NetInv, AnswersInv
    <3>5. \A i, j \in 1 .. Len(netCallbacks') :
            netCallbacks'[i].token = netCallbacks'[j].token => i = j
      BY <2>1, <2>3, <3>2, <3>3 DEF NetInv, AnswersInv
    <3>6. AnswersInv'
      BY <1>2, <3>1, <3>4, <3>5 DEF NetInv, AnswersInv
    <3>7. WokenHasResult' /\ NoLostWaiter'
      BY <1>4, <2>4, <3>1 DEF NetInv, WokenHasResult, NoLostWaiter, RequestsAssumption
    <3> QED BY <2>2, <3>1, <3>2, <3>6, <3>7
  <2>5. CASE w.thread # NoCaller
    <3>1. /\ netResults' = netResults \cup {answer}
          /\ netState' = [netState EXCEPT ![w.thread] = "woken"]
          /\ netCallbacks' = netCallbacks
      BY <1>6, <2>5 DEF NetDeliver
    <3> HIDE DEF answer
    <3>2. w.thread \in NetThreads /\ cookie[w.thread] = w.token
      BY <1>1, <1>6, <2>5 DEF NetWork, WaiterIsValid
    <3>3. /\ netState' \in [NetThreads -> {"running", "waiting", "woken", "refused", "dead"}]
          /\ netState'[w.thread] = "woken"
          /\ \A u \in NetThreads \ {w.thread} : netState'[u] = netState[u]
      BY <2>2, <3>1, <3>2
    <3>4. \A a \in netResults' :
            a.token < nextToken /\ \A x \in Flying' : x.token # a.token
      BY <1>2, <2>1, <2>3, <3>1 DEF NetInv, AnswersInv
    <3>5. \A a, b \in netResults' : a.token = b.token => a = b
      BY <2>1, <2>3, <3>1 DEF NetInv, AnswersInv
    <3>6. AnswersInv'
      BY <1>2, <3>1, <3>4, <3>5 DEF NetInv, AnswersInv
    <3>7. WokenHasResult'
      BY <2>1, <3>1, <3>2, <3>3 DEF NetInv, WokenHasResult
    <3>8. NoLostWaiter'
      BY <1>4, <3>3 DEF NetInv, NoLostWaiter
    <3> QED BY <2>1, <2>2, <3>1, <3>3, <3>6, <3>7, <3>8
  <2> QED BY <2>4, <2>5
<1> QED BY <1>3, <1>5, <1>6

LEMMA LookupKeeps ==
  ASSUME NetInv, RequestsAssumption, PumpLookup
  PROVE  NetInv' /\ netPending' = netPending
<1> USE DEF netSockets, netHost
<1>1. /\ pumping /\ netReady # <<>> /\ netReady' = Tail(netReady)
      /\ UNCHANGED <<sockets, opened, cookie, nextToken, resolvers, resolved, netPending,
                     pumping, netRest>>
  BY DEF PumpLookup
<1> DEFINE w == Head(netReady).work
<1>2. /\ netReady' \in Seq(LookupDone) /\ Head(netReady) \in LookupDone
      /\ LookupsIn(netReady') = LookupsIn(netReady) \ {w}
      /\ w \in LookupsIn(netReady) /\ LookupsOnce(netReady')
  BY <1>1, LookupTaken DEF NetInv, NetTypeOK, NetPlaced
<1>3. \/ ~WaiterIsValid(w) /\ UNCHANGED <<netResults, netCallbacks, netState>>
      \/ WaiterIsValid(w) /\ \E outcome \in NetOutcomes : NetDeliver(w, outcome)
  <2>1. Head(netReady).outcome \in NetOutcomes /\ "error" \in NetOutcomes
    BY <1>2 DEF LookupDone, NetOutcomes
  <2> QED BY <2>1 DEF PumpLookup
<1> HIDE DEF w
<1>4. /\ LookupsIn(netReady)' = LookupsIn(netReady) \ {w} /\ LookupsOnce(netReady)'
      /\ LookupsIn(resolved)' = LookupsIn(resolved)
      /\ LookupsOnce(resolved)' = LookupsOnce(resolved)
  <2>1. LookupsIn(netReady)' = LookupsIn(netReady') /\ LookupsIn(resolved)' = LookupsIn(resolved)
    BY <1>1 DEF LookupsIn
  <2>2. /\ LookupsOnce(netReady)' = LookupsOnce(netReady')
        /\ LookupsOnce(resolved)' = LookupsOnce(resolved)
    BY <1>1 DEF LookupsOnce
  <2> QED BY <1>2, <2>1, <2>2
<1>5. w \in Flying /\ Flying' = Flying \ {w}
  BY <1>1, <1>2, <1>4 DEF Flying, NetInv, NetPlaced
<1>6. /\ AnswersInv' /\ CookieInv' /\ WokenHasResult' /\ NoLostWaiter'
      /\ netResults' \subseteq NetAnswer /\ netCallbacks' \in Seq(NetAnswer)
      /\ netState' \in [NetThreads -> {"running", "waiting", "woken", "refused", "dead"}]
  BY <1>1, <1>3, <1>5, RequestEnds
<1>7. NetTypeOK'
  BY <1>1, <1>2, <1>6 DEF NetInv, NetTypeOK
<1>8. NetPlaced' /\ ForcedInv'
  BY <1>1, <1>4, <1>5 DEF NetInv, NetPlaced, ForcedInv
<1> QED BY <1>1, <1>6, <1>7, <1>8 DEF NetInv

\* What a probe says of a request that ends.
LEMMA ProbeSaid ==
  ASSUME NetInv, NEW w \in netPending, PumpProbe(w)
  PROVE  /\ \/ netPending' = netPending /\ UNCHANGED <<netResults, netCallbacks, netState>>
            \/ /\ netPending' = netPending \ {w} /\ ~WaiterIsValid(w)
               /\ UNCHANGED <<netResults, netCallbacks, netState>>
            \/ /\ netPending' = netPending \ {w} /\ WaiterIsValid(w)
               /\ \E outcome \in NetOutcomes :
                    NetDeliver(w, outcome) /\ (outcome = "ok" => SameSocket(w))
<1>1. CASE ~WaiterIsValid(w)
  BY <1>1 DEF PumpProbe
<1>2. CASE WaiterIsValid(w)
  <2>1. PICK said \in ProbeSays(w) :
          IF said = "pending"
          THEN UNCHANGED <<netPending, netResults, netCallbacks, netState>>
          ELSE netPending' = netPending \ {w} /\ NetDeliver(w, FinalOutcome(w, said))
    BY <1>2 DEF PumpProbe
  <2>2. w.forced \in NetOutcomes \cup {"none"}
    BY DEF NetInv, NetTypeOK, NetWork
  <2>3. /\ said \in NetOutcomes \cup {"pending"}
        /\ said = "ok" => w.kind = "connect" \/ SameSocket(w)
    BY <2>1, <2>2 DEF ProbeSays, NetOutcomes, NetInv, ForcedInv
  <2>4. said # "pending" =>
          /\ FinalOutcome(w, said) \in NetOutcomes
          /\ FinalOutcome(w, said) = "ok" => SameSocket(w)
    BY <2>3 DEF FinalOutcome, NetOutcomes
  <2> QED BY <1>2, <2>1, <2>4
<1> QED BY <1>1, <1>2

LEMMA ProbeKeeps ==
  ASSUME NetInv, RequestsAssumption, NEW w \in netPending, PumpProbe(w)
  PROVE  NetInv'
<1> USE DEF netSockets, netHost
<1>1. /\ pumping /\ netReady = <<>> /\ netRest' = netRest \ {w.token}
      /\ UNCHANGED <<sockets, opened, cookie, nextToken, resolvers, resolved, pumping, netReady>>
  BY DEF PumpProbe
<1>2. /\ LookupsIn(netReady)' = LookupsIn(netReady)
      /\ LookupsOnce(netReady)' = LookupsOnce(netReady)
      /\ LookupsIn(resolved)' = LookupsIn(resolved)
      /\ LookupsOnce(resolved)' = LookupsOnce(resolved)
  BY <1>1 DEF LookupsIn, LookupsOnce
<1>3. CASE netPending' = netPending /\ UNCHANGED <<netResults, netCallbacks, netState>>
  <2>1. Flying' = Flying
    BY <1>1, <1>2, <1>3 DEF Flying
  <2>2. NetTypeOK'
    BY <1>1, <1>3 DEF NetInv, NetTypeOK
  <2>3. NetPlaced' /\ ForcedInv'
    BY <1>1, <1>2, <1>3, <2>1 DEF NetInv, NetPlaced, ForcedInv
  <2>4. AnswersInv' /\ CookieInv' /\ WokenHasResult' /\ NoLostWaiter'
    BY <1>1, <1>3, <2>1, SameRequests DEF NetInv
  <2> QED BY <2>2, <2>3, <2>4 DEF NetInv
<1>4. CASE /\ netPending' = netPending \ {w}
           /\ \/ ~WaiterIsValid(w) /\ UNCHANGED <<netResults, netCallbacks, netState>>
              \/ WaiterIsValid(w) /\ \E outcome \in NetOutcomes : NetDeliver(w, outcome)
  <2>1. w \in Flying /\ Flying' = Flying \ {w}
    BY <1>1, <1>2, <1>4 DEF Flying, NetInv, NetPlaced
  <2>2. /\ AnswersInv' /\ CookieInv' /\ WokenHasResult' /\ NoLostWaiter'
        /\ netResults' \subseteq NetAnswer /\ netCallbacks' \in Seq(NetAnswer)
        /\ netState' \in [NetThreads -> {"running", "waiting", "woken", "refused", "dead"}]
    BY <1>1, <1>4, <2>1, RequestEnds
  <2>3. netRest' \subseteq {x.token : x \in netPending'}
    BY <1>1, <1>4 DEF NetInv, NetTypeOK
  <2>4. NetTypeOK'
    BY <1>1, <1>4, <2>2, <2>3 DEF NetInv, NetTypeOK
  <2>5. NetPlaced' /\ ForcedInv'
    BY <1>1, <1>2, <1>4, <2>1 DEF NetInv, NetPlaced, ForcedInv
  <2> QED BY <2>2, <2>4, <2>5 DEF NetInv
<1> QED BY <1>3, <1>4, ProbeSaid

LEMMA ThreadLifeKeeps ==
  ASSUME NetInv, NEW t \in NetThreads, NetThreadDies(t) \/ NetThreadBorn(t)
  PROVE  NetInv'
<1> USE DEF netSockets
<1>1. \E s \in {"dead", "running"} : netState' = [netState EXCEPT ![t] = s]
  BY DEF NetThreadDies, NetThreadBorn
<1>2. /\ netState' \in [NetThreads -> {"running", "waiting", "woken", "refused", "dead"}]
      /\ \A u \in NetThreads :
           netState'[u] \in {"waiting", "woken"} => netState'[u] = netState[u]
  BY <1>1 DEF NetInv, NetTypeOK
<1>3. UNCHANGED <<netSockets, cookie, nextToken, netHost, netPending, netAnswers, pumpWork>>
  BY DEF NetThreadDies, NetThreadBorn
<1>4. NetTypeOK'
  BY <1>2, <1>3 DEF NetInv, NetTypeOK, netHost, netAnswers, pumpWork
<1> QED BY <1>2, <1>3, <1>4, QuietKeeps

LEMMA NetStays ==
  ASSUME NetInv, UNCHANGED netVars
  PROVE  NetInv'
<1> USE DEF netVars, netSockets, netGuest, netHost, netAnswers, pumpWork
<1>1. Flying' = Flying /\ NetInFlight' = NetInFlight
  BY DEF Flying, NetInFlight, LookupsIn, TokensOf
<1>2. /\ LookupsIn(netReady)' = LookupsIn(netReady) /\ LookupsIn(resolved)' = LookupsIn(resolved)
      /\ LookupsOnce(netReady)' = LookupsOnce(netReady)
      /\ LookupsOnce(resolved)' = LookupsOnce(resolved)
  BY DEF LookupsIn, LookupsOnce
<1>3. NetPlaced'
  BY <1>1, <1>2 DEF NetInv, NetPlaced
<1>4. NetTypeOK'
  BY DEF NetInv, NetTypeOK
<1> QED BY <1>1, <1>3, <1>4
        DEF NetInv, AnswersInv, CookieInv, ForcedInv, WokenHasResult, NoLostWaiter

LEMMA NetKeeps ==
  ASSUME NetInv, RequestsAssumption, [NetNext]_netVars
  PROVE  NetInv'
<1>1. CASE \E fd \in Fds :
             OpenSocket(fd) \/ CloseSocket(fd) \/ ShutdownSocket(fd) \/ ReconnectSocket(fd)
  BY <1>1, SocketsKeep, AbortKeeps
<1>2. CASE \E t \in NetThreads, kind \in NetKinds, fd \in Fds, parks \in BOOLEAN :
             StartSync(t, kind, fd, parks)
  BY <1>2, StartSyncKeeps
<1>3. CASE \E kind \in NetKinds, fd \in Fds : StartAsync(kind, fd)
  BY <1>3, StartAsyncKeeps
<1>4. CASE \E t \in NetThreads : FinishWait(t) \/ NetThreadDies(t) \/ NetThreadBorn(t)
  BY <1>4, FinishKeeps, ThreadLifeKeeps
<1>5. CASE NetCallBack
  BY <1>5, CallBackKeeps
<1>6. CASE \E w \in resolvers : Resolve(w)
  BY <1>6, ResolveKeeps
<1>7. CASE \E w \in netPending : NetExpire(w)
  BY <1>7, ExpireKeeps
<1>8. CASE NetPump
  BY <1>8, NetPumpBeginsKeeps, LookupKeeps, ProbeKeeps, NetPumpEndsKeeps DEF NetPump
<1>9. CASE UNCHANGED netVars
  BY <1>9, NetStays
<1> QED BY <1>1, <1>2, <1>3, <1>4, <1>5, <1>6, <1>7, <1>8, <1>9 DEF NetNext

LEMMA AnsweredOnceHolds ==
  ASSUME NetInv
  PROVE  AnsweredOnce
<1>1. NetInFlight = {w.token : w \in Flying}
  BY InFlightIs
<1> QED BY <1>1 DEF NetInv, AnswersInv, AnsweredOnce

-----------------------------------------------------------------------------
(* Success is about the socket that was asked.                             *)

Answers == netResults \cup {netCallbacks[i] : i \in 1 .. Len(netCallbacks)}

\* A parked request has no answer yet.
LEMMA ParkedIsOpen ==
  ASSUME NetInv, NEW w \in netPending, NEW a \in Answers
  PROVE  a.token # w.token
  BY DEF NetInv, AnswersInv, Flying, Answers

\* Only the pump answers.
LEMMA OnlyPumpAnswers ==
  ASSUME NetInv, [NetNext]_netVars, ~PumpLookup, ~\E w \in netPending : PumpProbe(w)
  PROVE  Answers' \subseteq Answers
<1>1. CASE UNCHANGED netAnswers
  BY <1>1 DEF netAnswers, Answers
<1>2. CASE NetCallBack
  <2>1. netResults' = netResults
    BY <1>2 DEF NetCallBack
  <2> QED BY <1>2, <2>1, CallBackKeeps DEF Answers
<1>3. CASE \E t \in NetThreads : FinishWait(t)
  BY <1>3 DEF FinishWait, Answers
<1>4. UNCHANGED netAnswers \/ NetCallBack \/ \E t \in NetThreads : FinishWait(t)
  BY DEF NetNext, NetPump, OpenSocket, CloseSocket, ShutdownSocket, ReconnectSocket, StartSync,
         StartAsync, NetThreadDies, NetThreadBorn, Resolve, NetExpire, NetPumpBegins,
         NetPumpEnds, netVars
<1> QED BY <1>1, <1>2, <1>3, <1>4

LEMMA SuccessStep ==
  ASSUME NetInv, RequestsAssumption, [NetNext]_netVars,
         NEW w \in netPending \ netPending',
         [token |-> w.token, outcome |-> "ok"] \in Answers'
  PROVE  w.generation # 0 /\ sockets[w.fd] = w.generation
<1> DEFINE ok == [token |-> w.token, outcome |-> "ok"]
<1>1. ok \notin Answers /\ ok.token = w.token /\ ok.outcome = "ok"
  BY ParkedIsOpen
<1> HIDE DEF ok
<1>2. ok \in Answers'
  BY DEF ok
<1>3. ~PumpLookup
  BY LookupKeeps
<1>4. PICK x \in netPending : PumpProbe(x)
  BY <1>1, <1>2, <1>3, OnlyPumpAnswers
<1>5. PICK outcome \in NetOutcomes :
        netPending' = netPending \ {x} /\ NetDeliver(x, outcome)
        /\ (outcome = "ok" => SameSocket(x))
  BY <1>1, <1>2, <1>4, ProbeSaid DEF Answers
<1>6. w = x
  BY <1>5
<1>7. ok = [token |-> x.token, outcome |-> outcome]
  <2> DEFINE answer == [token |-> x.token, outcome |-> outcome]
  <2>1. CASE x.thread # NoCaller
    BY <1>1, <1>2, <1>5, <2>1 DEF NetDeliver, Answers
  <2>2. CASE x.thread = NoCaller
    <3>1. netCallbacks' = Append(netCallbacks, answer) /\ netResults' = netResults
      BY <1>5, <2>2 DEF NetDeliver
    <3>2. netCallbacks \in Seq(NetAnswer)
      BY DEF NetInv, NetTypeOK
    <3> HIDE DEF answer
    <3>3. \A i \in 1 .. Len(netCallbacks') :
            \/ netCallbacks'[i] = answer
            \/ i \in 1 .. Len(netCallbacks) /\ netCallbacks'[i] = netCallbacks[i]
      BY <3>1, <3>2
    <3>4. ok \in netResults \/ \E i \in 1 .. Len(netCallbacks') : ok = netCallbacks'[i]
      BY <1>2, <3>1 DEF Answers
    <3>5. ok \notin netResults /\ \A i \in 1 .. Len(netCallbacks) : ok # netCallbacks[i]
      BY <1>1 DEF Answers
    <3>6. ok = answer
      BY <3>3, <3>4, <3>5
    <3> QED BY <3>6 DEF answer
  <2> QED BY <2>1, <2>2
<1>8. outcome = "ok"
  BY <1>1, <1>7
<1> QED BY <1>5, <1>6, <1>8 DEF SameSocket

\* However many threads, sockets and requests there are: whatever the guest closes, reopens,
\* cancels or creates between them, DeliverDeferredNetworkResult wakes a thread only with
\* the answer to its own last request, the request of a thread that waits is still with a
\* host thread or on a list of network_deferred.cpp, no request is answered twice, and
\* Network_HLE_ProcessCompletions reports success only for a socket that is the one the
\* request was made on.
THEOREM RequestsAreAnswered ==
  ASSUME RequestsAssumption
  PROVE  NetSpec => AnswersReachTheirThread
<1>1. NetInit => NetInv
  BY NetBegins
<1>2. NetInv /\ [NetNext]_netVars => NetInv'
  BY NetKeeps
<1>3. NetInv => WokenHasResult /\ NoLostWaiter /\ AnsweredOnce
  BY AnsweredOnceHolds DEF NetInv
<1>4. NetInv /\ [NetNext]_netVars =>
        [\A w \in netPending \ netPending' :
           [token |-> w.token, outcome |-> "ok"]
               \in netResults' \cup {netCallbacks'[i] : i \in 1 .. Len(netCallbacks')}
             => w.generation # 0 /\ sockets[w.fd] = w.generation]_netVars
  BY SuccessStep DEF Answers
<1> QED BY <1>1, <1>2, <1>3, <1>4, PTL DEF NetSpec, AnswersReachTheirThread, SuccessIsCurrent

\* The state of the deferred requests has its type in every behaviour: tokens stay within
\* the requests made, and the pump still has to probe only requests that are parked.
THEOREM RequestTypesCorrect ==
  ASSUME RequestsAssumption
  PROVE  NetSpec => []NetTypeOK
<1>1. NetInit => NetInv
  BY NetBegins
<1>2. NetInv /\ [NetNext]_netVars => NetInv'
  BY NetKeeps
<1>3. NetInv => NetTypeOK
  BY DEF NetInv
<1> QED BY <1>1, <1>2, <1>3, PTL DEF NetSpec

-----------------------------------------------------------------------------
(* The card file system: the chains of its files and both copies of its    *)
(* directory and table.                                                    *)

DirFiles == [DirSlots -> {NoFile} \cup FileRecords]

\* No two files of a directory have one number, and none has one not given out yet.
UidsOnce(files, ops) ==
  /\ \A s \in EntriesOf(files) : files[s].uid <= ops
  /\ \A s, t \in EntriesOf(files) : files[s].uid = files[t].uid => s = t

\* DataIsOwn of any contents.
OwnData(files, bat, data, wr) ==
  \A s \in EntriesOf(files) : \A k \in 1..files[s].count :
    wr[<<files[s].uid, k>>] # 0 =>
      data[BlockOf(bat.map, files[s], k)] = wr[<<files[s].uid, k>>]

\* All that is promised of a directory and a table that belong together.
TidyCard(files, bat, data, wr, ops) ==
  /\ ChainsWhole(files, bat) /\ OwnData(files, bat, data, wr)
  /\ NamesOnce(files) /\ UidsOnce(files, ops)

\* Only names have changed since the last commit, and files have gone: the blocks of those
\* that are left are where they were.
OnlyRenamed(files, map, files0, map0) ==
  \A s \in EntriesOf(files) :
    LET e == files[s]
        f == files0[s]
    IN /\ f # NoFile
       /\ f.uid = e.uid /\ f.first = e.first /\ f.count = e.count
       /\ \A i \in 1..f.count : map[BlockOf(map0, f, i)] = map0[BlockOf(map0, f, i)]

\* A pair as memory and as the file have it; what is counted is a number.
Counted(X) == \A x \in X : x.ctr \in Nat
MemPairs(X) == [{0, 1} -> X]
FilePairs(X) == [{0, 1} -> [ok : BOOLEAN, is : X]]

\* No valid copy is newer than was, and one as new is the same.
UpTo(pair, was) ==
  \A i \in {0, 1} : pair[i].ok =>
    pair[i].is.ctr <= was.ctr /\ (pair[i].is.ctr = was.ctr => pair[i].is = was)

\* What memory and file say of a pair of copies, pend updates after was was saved.
PairInv(mem, cur, pair, was, pend) ==
  /\ OpensAs(pair) = was /\ UpTo(pair, was)
  /\ pend = 0 => mem = Copies(pair) /\ cur = Newer(Copies(pair))
  /\ pend > 0 => mem[cur].ctr = was.ctr + pend /\ mem[1 - cur].ctr = was.ctr + pend - 1
  /\ pend = 1 => mem[1 - cur] = was /\ (AllValid(pair) => pair[1 - cur].is = was)

\* The types of what a property does not speak of, too.
ImageTypesInv ==
  /\ curDir \in {0, 1} /\ curBat \in {0, 1}
  /\ imgDirty \in BOOLEAN /\ imgOwed \in BOOLEAN
  /\ dirs \in MemPairs(Directories) /\ bats \in MemPairs(Tables)
  /\ image \in [dirs : FilePairs(Directories), bats : FilePairs(Tables)]
  /\ saved \in [dir : Directories, bat : Tables]
  /\ imgData \in [Blocks -> 0..MaxBlockWrites]
  /\ wrote \in [(1..MaxUpdates) \X (1..MaxCount) -> 0..MaxBlockWrites]
  /\ imgPending \in Nat /\ imgOps \in 0..MaxUpdates /\ imgWrites \in 0..MaxBlockWrites
  /\ tears \in 0..MaxTears

\* Counters do not run ahead of the updates.
CountersInv ==
  /\ \A i \in {0, 1} : /\ dirs[i].ctr <= imgOps /\ bats[i].ctr <= imgOps
                       /\ image.dirs[i].is.ctr <= imgOps /\ image.bats[i].is.ctr <= imgOps
  /\ imgPending <= imgOps
  /\ \A u \in 1..MaxUpdates, k \in 1..MaxCount : u > imgOps => wrote[<<u, k>>] = 0

CopiesInv ==
  /\ imgPending = 0 <=> ~ imgDirty
  /\ PairInv(dirs, curDir, image.dirs, saved.dir, imgPending)
  /\ PairInv(bats, curBat, image.bats, saved.bat, imgPending)

\* The names of every copy, whichever an image that cannot be read is opened as.
NamesInv ==
  \A i \in {0, 1} : NamesOnce(dirs[i].files) /\ NamesOnce(image.dirs[i].is.files)

\* What a torn commit may leave: the card takes no more calls.
ImageLost == CopiesSplit \/ ~ ImageReadable

ContentsInv ==
  /\ ImageLost => ~ imgOwed /\ ~ imgDirty
  /\ ~ ImageLost =>
       /\ TidyCard(Dir.files, Bat, imgData, wrote, imgOps)
       /\ TidyCard(saved.dir.files, saved.bat, imgData, wrote, imgOps)
       /\ saved.dir.ctr = saved.bat.ctr
  /\ ~ ImageLost /\ ~ imgOwed =>
       OnlyRenamed(Dir.files, Bat.map, saved.dir.files, saved.bat.map)

ImageInv == ImageTypesInv /\ CountersInv /\ CopiesInv /\ NamesInv /\ ContentsInv

-----------------------------------------------------------------------------
(* Chains.                                                                 *)

\* A set of naturals that is not empty has a least element.
LEMMA LeastNatural ==
  ASSUME NEW T \in SUBSET Nat, T # {}
  PROVE  \E p \in T : \A r \in T : p <= r
<1>1. PICK x \in T : \A y \in T : ~(<<y, x>> \in OpToRel(<, Nat))
  BY NatLessThanWellFounded, WFMin
<1>2. \A y \in T : <<y, x>> \in OpToRel(<, Nat) <=> y < x
  BY DEF OpToRel
<1>3. x \in Nat /\ \A y \in T : y \in Nat /\ ~(y < x)
  BY <1>1, <1>2
<1> QED BY <1>3

\* A chain is what its definition says, for any number of blocks.
LEMMA ChainIs ==
  ASSUME NEW map, NEW b, NEW n \in Nat
  PROVE  Chain(map, b, n) =
           [i \in 1..n |-> IF i = 1 THEN b ELSE Following(map, Chain(map, b, n)[i - 1])]
<1> DEFINE Is(f, m) == f = [i \in 1..m |-> IF i = 1 THEN b ELSE Following(map, f[i - 1])]
           Lacks == {m \in Nat : ~ \E f : Is(f, m)}
<1>1. Lacks = {}
  <2>1. SUFFICES ASSUME Lacks # {} PROVE FALSE
    OBVIOUS
  <2>2. PICK m \in Lacks : \A k \in Lacks : m <= k
    <3>1. Lacks \in SUBSET Nat
      OBVIOUS
    <3> HIDE DEF Lacks
    <3> QED BY <2>1, <3>1, LeastNatural
  <2>3. m # 0
    <3>1. Is([i \in 1..0 |-> b], 0)
      OBVIOUS
    <3> QED BY <3>1
  <2>4. m \in Nat /\ m - 1 \in Nat /\ m - 1 \notin Lacks
    <3>1. m \in Nat
      OBVIOUS
    <3> HIDE DEF Lacks
    <3> QED BY <2>2, <2>3, <3>1
  <2>5. PICK f : Is(f, m - 1)
    BY <2>4
  <2> DEFINE g == [i \in 1..m |-> IF i < m THEN f[i] ELSE IF i = 1 THEN b
                                  ELSE Following(map, f[i - 1])]
  <2>6. \A i \in 1..m : g[i] = IF i = 1 THEN b ELSE Following(map, g[i - 1])
    <3>1. SUFFICES ASSUME NEW i \in 1..m
                   PROVE  g[i] = IF i = 1 THEN b ELSE Following(map, g[i - 1])
      OBVIOUS
    <3>2. i # 1 => i - 1 \in 1..m /\ i - 1 < m /\ g[i - 1] = f[i - 1]
      BY <2>4
    <3>3. CASE i = m
      BY <3>2, <3>3, <2>4
    <3>4. CASE i # m
      <4>1. i \in 1..(m - 1) /\ g[i] = f[i]
        BY <3>4, <2>4
      <4>2. f[i] = IF i = 1 THEN b ELSE Following(map, f[i - 1])
        BY <4>1, <2>5
      <4> QED BY <4>1, <4>2, <3>2
    <3> QED BY <3>3, <3>4
  <2>7. Is(g, m)
    <3> HIDE DEF g
    <3>1. \A i \in 1..m : g[i] = IF i = 1 THEN b ELSE Following(map, g[i - 1])
      BY <2>6
    <3>2. g = [i \in 1..m |-> g[i]]
      BY DEF g
    <3> QED BY <3>1, <3>2
  <2> QED BY <2>7, <2>2
<1>2. PICK f : Is(f, n)
  BY <1>1
<1> QED BY <1>2 DEF Chain

\* What it is made of, block by block.
LEMMA ChainSteps ==
  ASSUME NEW map, NEW b, NEW n \in Nat
  PROVE  /\ n > 0 => Chain(map, b, n)[1] = b
         /\ \A i \in 1..n : i + 1 <= n =>
              Chain(map, b, n)[i + 1] = Following(map, Chain(map, b, n)[i])
<1> DEFINE c == Chain(map, b, n)
<1>1. c = [i \in 1..n |-> IF i = 1 THEN b ELSE Following(map, c[i - 1])]
  BY ChainIs
<1> HIDE DEF c
<1>2. n > 0 => c[1] = b
  BY <1>1
<1>3. ASSUME NEW i \in 1..n, i + 1 <= n PROVE c[i + 1] = Following(map, c[i])
  <2>1. i + 1 \in 1..n /\ i + 1 # 1 /\ (i + 1) - 1 = i
    BY <1>3
  <2>2. c[i + 1] = IF i + 1 = 1 THEN b ELSE Following(map, c[(i + 1) - 1])
    BY <1>1, <2>1
  <2> QED BY <2>1, <2>2
<1> QED BY <1>2, <1>3 DEF c

\* Two walks that start together and go on alike are one.
LEMMA SamePath ==
  ASSUME NEW n \in Nat, NEW f, NEW g, n > 0 => f[1] = g[1],
         \A i \in 1..n : i + 1 <= n /\ f[i] = g[i] => f[i + 1] = g[i + 1]
  PROVE  \A i \in 1..n : f[i] = g[i]
<1> DEFINE Apart == {i \in 1..n : f[i] # g[i]}
<1>1. SUFFICES ASSUME Apart # {} PROVE FALSE
  OBVIOUS
<1>2. PICK i \in Apart : \A k \in Apart : i <= k
  <2>1. Apart \in SUBSET Nat
    OBVIOUS
  <2> QED BY <2>1, <1>1, LeastNatural
<1>3. i # 1
  BY <1>2
<1>4. i - 1 \in 1..n /\ i - 1 \notin Apart /\ (i - 1) + 1 = i /\ i <= n
  BY <1>2, <1>3
<1> QED BY <1>2, <1>4

\* A file's first block, and how each leads to the next.
LEMMA BlockSteps ==
  ASSUME CardImageAssumption, NEW map, NEW e \in FileRecords
  PROVE  /\ e.count \in Nat /\ e.count >= 1 /\ BlockOf(map, e, 1) = e.first
         /\ \A i \in 1..e.count : i + 1 <= e.count =>
              BlockOf(map, e, i + 1) = Following(map, BlockOf(map, e, i))
<1>1. e.count \in Nat /\ e.count >= 1
  BY DEF FileRecords, CardImageAssumption
<1> QED BY <1>1, ChainSteps DEF BlockOf

\* Where the entries of a file's blocks stay, its blocks do.
LEMMA BlocksKept ==
  ASSUME CardImageAssumption, NEW map, NEW map2, NEW e \in FileRecords, NEW f \in FileRecords,
         f.first = e.first, f.count = e.count,
         \A i \in 1..e.count : /\ BlockOf(map, e, i) \in Blocks
                               /\ map2[BlockOf(map, e, i)] = map[BlockOf(map, e, i)]
  PROVE  \A i \in 1..e.count : BlockOf(map2, f, i) = BlockOf(map, e, i)
<1> DEFINE x == Chain(map, e.first, e.count)
           y == Chain(map2, e.first, e.count)
<1>1. e.count \in Nat /\ \A i \in 1..e.count : x[i] = BlockOf(map, e, i) /\ y[i] = BlockOf(map2, f, i)
  BY BlockSteps DEF BlockOf
<1>2. e.count > 0 => x[1] = y[1]
  BY <1>1, ChainSteps
<1>3. \A i \in 1..e.count : i + 1 <= e.count => x[i + 1] = Following(map, x[i])
                                              /\ y[i + 1] = Following(map2, y[i])
  BY <1>1, ChainSteps
<1>4. \A i \in 1..e.count : x[i] \in Blocks /\ map2[x[i]] = map[x[i]]
  BY <1>1
<1> HIDE DEF x, y
<1>5. \A i \in 1..e.count : i + 1 <= e.count /\ x[i] = y[i] => x[i + 1] = y[i + 1]
  BY <1>3, <1>4 DEF Following
<1>6. \A i \in 1..e.count : x[i] = y[i]
  BY <1>1, <1>2, <1>5, SamePath
<1> QED BY <1>1, <1>6

\* The k-th block from a file's first on is the file's k-th, and none beyond its last.
LEMMA BlockReached ==
  ASSUME CardImageAssumption, NEW map, NEW e \in FileRecords, NEW k \in Nat \ {0},
         \A i \in 1..e.count : BlockOf(map, e, i) \in Blocks,
         map[BlockOf(map, e, e.count)] = End
  PROVE  Chain(map, e.first, k)[k] = IF k <= e.count THEN BlockOf(map, e, k) ELSE End
<1> DEFINE x == Chain(map, e.first, k)
           c == Chain(map, e.first, e.count)
           y == [i \in 1..k |-> IF i <= e.count THEN c[i] ELSE End]
<1>1. e.count \in Nat /\ e.count >= 1 /\ End \notin Blocks
  BY BlockSteps DEF CardImageAssumption, End, Blocks
<1>2. \A i \in 1..e.count : c[i] = BlockOf(map, e, i)
  BY DEF BlockOf
<1>3. /\ c[1] = e.first /\ \A i \in 1..e.count : i + 1 <= e.count => c[i + 1] = Following(map, c[i])
      /\ \A i \in 1..k : i + 1 <= k => x[i + 1] = Following(map, x[i])
      /\ x[1] = e.first
  BY <1>1, ChainSteps
<1>4. \A i \in 1..k : i + 1 <= k => y[i + 1] = Following(map, y[i])
  <2>1. SUFFICES ASSUME NEW i \in 1..k, i + 1 <= k PROVE y[i + 1] = Following(map, y[i])
    OBVIOUS
  <2>2. i + 1 \in 1..k
    BY <2>1
  <2>3. CASE i + 1 <= e.count
    <3>1. i \in 1..e.count /\ y[i + 1] = c[i + 1] /\ y[i] = c[i]
      BY <2>3, <2>2, <1>1
    <3> QED BY <3>1, <1>3, <2>3
  <2>4. CASE i = e.count
    <3>1. y[i + 1] = End /\ y[i] = c[e.count] /\ e.count \in 1..e.count
      BY <2>4, <2>2, <1>1
    <3>2. c[e.count] = BlockOf(map, e, e.count) /\ BlockOf(map, e, e.count) \in Blocks
      BY <3>1, <1>2
    <3> QED BY <3>1, <3>2 DEF Following
  <2>5. CASE i > e.count
    <3>1. y[i + 1] = End /\ y[i] = End
      BY <2>5, <2>2, <1>1
    <3> QED BY <3>1, <1>1 DEF Following
  <2> QED BY <2>3, <2>4, <2>5, <1>1
<1>5. y[1] = x[1] /\ y[k] = IF k <= e.count THEN BlockOf(map, e, k) ELSE End
  BY <1>1, <1>2, <1>3
<1> HIDE DEF x, y, c
<1>6. \A i \in 1..k : x[i] = y[i]
  <2>1. k \in Nat /\ (k > 0 => x[1] = y[1])
    BY <1>3, <1>5, <1>1, <1>2
  <2>2. \A i \in 1..k : i + 1 <= k /\ x[i] = y[i] => x[i + 1] = y[i + 1]
    BY ONLY <1>3, <1>4
  <2> QED BY ONLY <2>1, <2>2, SamePath
<1> QED BY <1>5, <1>6 DEF x

-----------------------------------------------------------------------------
(* Directories and tables.                                                 *)

\* Where a table leads from the blocks of a file.
LEMMA ChainLeads ==
  ASSUME CardImageAssumption, NEW files \in DirFiles, NEW bat \in Tables,
         ChainsWhole(files, bat), NEW s \in EntriesOf(files)
  PROVE  LET e == files[s]
         IN /\ s \in DirSlots /\ e \in FileRecords /\ e.count \in Nat /\ e.count >= 1
            /\ \A i \in 1..e.count :
                 /\ BlockOf(bat.map, e, i) \in Blocks
                 /\ bat.map[BlockOf(bat.map, e, i)] =
                      IF i = e.count THEN End ELSE BlockOf(bat.map, e, i + 1)
                 /\ bat.map[BlockOf(bat.map, e, i)] # 0
                 /\ bat.map[BlockOf(bat.map, e, i)] = End <=> i = e.count
<1> DEFINE e == files[s]
<1>1. s \in DirSlots /\ e \in FileRecords
  BY DEF EntriesOf, DirFiles
<1>2. /\ e.count \in Nat /\ e.count >= 1
      /\ \A i \in 1..e.count : i + 1 <= e.count =>
           BlockOf(bat.map, e, i + 1) = Following(bat.map, BlockOf(bat.map, e, i))
  BY <1>1, BlockSteps
<1>3. /\ \A i \in 1..e.count : BlockOf(bat.map, e, i) \in Blocks
      /\ bat.map[BlockOf(bat.map, e, e.count)] = End
  BY DEF ChainsWhole
<1>4. End # 0 /\ End \notin Blocks /\ 0 \notin Blocks
  BY DEF CardImageAssumption, End, Blocks
<1> HIDE DEF e
<1>5. ASSUME NEW i \in 1..e.count
      PROVE  /\ bat.map[BlockOf(bat.map, e, i)] =
                  IF i = e.count THEN End ELSE BlockOf(bat.map, e, i + 1)
             /\ i # e.count => BlockOf(bat.map, e, i + 1) \in Blocks
  <2>1. CASE i = e.count
    BY <2>1, <1>3
  <2>2. CASE i # e.count
    <3>1. i + 1 <= e.count /\ i + 1 \in 1..e.count
      BY <2>2, <1>2
    <3> QED BY <3>1, <2>2, <1>2, <1>3 DEF Following
  <2> QED BY <2>1, <2>2
<1>6. \A i \in 1..e.count :
        /\ bat.map[BlockOf(bat.map, e, i)] # 0
        /\ bat.map[BlockOf(bat.map, e, i)] = End <=> i = e.count
  BY <1>4, <1>5
<1> QED BY <1>1, <1>2, <1>3, <1>5, <1>6 DEF e

\* What was tidy stays so where files only go or change their names and the chains of
\* those that are left stay.
LEMMA KeptTidy ==
  ASSUME CardImageAssumption, NEW files \in DirFiles, NEW files2 \in DirFiles,
         NEW bat \in Tables, NEW bat2 \in Tables, NEW data, NEW wr,
         NEW ops \in Nat, NEW ops2 \in Nat, ops <= ops2,
         TidyCard(files, bat, data, wr, ops),
         OnlyRenamed(files2, bat2.map, files, bat.map), NamesOnce(files2),
         bat2.free = Cardinality(FreeBlocks(bat2.map))
  PROVE  /\ TidyCard(files2, bat2, data, wr, ops2)
         /\ \A t \in EntriesOf(files2) :
              /\ t \in EntriesOf(files) /\ files2[t].count = files[t].count
              /\ files2[t].uid = files[t].uid /\ files2[t].first = files[t].first
              /\ \A i \in 1..files[t].count :
                   BlockOf(bat2.map, files2[t], i) = BlockOf(bat.map, files[t], i)
<1>1. ASSUME NEW t \in EntriesOf(files2)
      PROVE  /\ t \in EntriesOf(files) /\ files2[t].count = files[t].count
             /\ files2[t].uid = files[t].uid /\ files2[t].first = files[t].first
             /\ \A i \in 1..files[t].count :
                  /\ BlockOf(bat2.map, files2[t], i) = BlockOf(bat.map, files[t], i)
                  /\ bat2.map[BlockOf(bat.map, files[t], i)] = bat.map[BlockOf(bat.map, files[t], i)]
  <2>1. /\ t \in EntriesOf(files) /\ files2[t].count = files[t].count
        /\ files2[t].uid = files[t].uid /\ files2[t].first = files[t].first
        /\ \A i \in 1..files[t].count :
             bat2.map[BlockOf(bat.map, files[t], i)] = bat.map[BlockOf(bat.map, files[t], i)]
    BY DEF OnlyRenamed, EntriesOf
  <2>2. files2[t] \in FileRecords /\ files[t] \in FileRecords
    BY <2>1 DEF EntriesOf, DirFiles
  <2>3. \A i \in 1..files[t].count : BlockOf(bat.map, files[t], i) \in Blocks
    BY <2>1, ChainLeads DEF TidyCard
  <2>4. \A i \in 1..files[t].count :
          BlockOf(bat2.map, files2[t], i) = BlockOf(bat.map, files[t], i)
    BY <2>1, <2>2, <2>3, BlocksKept
  <2> QED BY <2>1, <2>4
<1>2. ChainsWhole(files2, bat2)
  <2>1. ASSUME NEW s \in EntriesOf(files2)
        PROVE  /\ \A i \in 1..files2[s].count : BlockOf(bat2.map, files2[s], i) \in Blocks
               /\ bat2.map[BlockOf(bat2.map, files2[s], files2[s].count)] = End
    <3>1. /\ files[s].count \in 1..files[s].count
          /\ \A i \in 1..files[s].count : BlockOf(bat.map, files[s], i) \in Blocks
          /\ bat.map[BlockOf(bat.map, files[s], files[s].count)] = End
      <4>1. s \in EntriesOf(files)
        BY <1>1
      <4> QED BY <4>1, ChainLeads DEF TidyCard
    <3> QED BY <3>1, <1>1
  <2>2. ASSUME NEW s \in EntriesOf(files2), NEW t \in EntriesOf(files2),
               NEW i \in 1..files2[s].count, NEW j \in 1..files2[t].count,
               BlockOf(bat2.map, files2[s], i) = BlockOf(bat2.map, files2[t], j)
        PROVE  s = t /\ i = j
    <3>1. BlockOf(bat.map, files[s], i) = BlockOf(bat.map, files[t], j)
      BY <2>2, <1>1
    <3> QED BY <3>1, <1>1 DEF TidyCard, ChainsWhole
  <2> QED BY <2>1, <2>2 DEF ChainsWhole
<1>3. OwnData(files2, bat2, data, wr)
  <2>1. SUFFICES ASSUME NEW s \in EntriesOf(files2), NEW k \in 1..files2[s].count,
                        wr[<<files2[s].uid, k>>] # 0
                 PROVE  data[BlockOf(bat2.map, files2[s], k)] = wr[<<files2[s].uid, k>>]
    BY DEF OwnData
  <2>2. /\ s \in EntriesOf(files) /\ k \in 1..files[s].count /\ files2[s].uid = files[s].uid
        /\ BlockOf(bat2.map, files2[s], k) = BlockOf(bat.map, files[s], k)
    BY <1>1
  <2> QED BY <2>1, <2>2 DEF TidyCard, OwnData
<1>4. UidsOnce(files2, ops2)
  <2>1. \A s \in EntriesOf(files) : files[s].uid \in Nat
    BY DEF EntriesOf, DirFiles, FileRecords
  <2> QED BY <1>1, <2>1 DEF TidyCard, UidsOnce
<1> QED BY <1>1, <1>2, <1>3, <1>4 DEF TidyCard

\* The blocks of the card are as many as their numbers say.
LEMMA BlocksFinite ==
  ASSUME CardImageAssumption
  PROVE  IsFiniteSet(Blocks) /\ Cardinality(Blocks) = MaxBlock - FSTBlocks
<1>1. FSTBlocks \in Int /\ MaxBlock \in Int /\ MaxBlock - 1 \in Int /\ FSTBlocks <= MaxBlock - 1
  BY DEF CardImageAssumption
<1>2. /\ IsFiniteSet(FSTBlocks..(MaxBlock - 1))
      /\ Cardinality(FSTBlocks..(MaxBlock - 1)) = (MaxBlock - 1) - FSTBlocks + 1
  BY <1>1, FS_Interval
<1> QED BY <1>1, <1>2 DEF Blocks

\* Deleting frees one block, the last of the file: the others stay where they are, in use
\* but of no file.
LEMMA DeleteFrees ==
  ASSUME CardImageAssumption, NEW files \in DirFiles, NEW bat \in Tables,
         ChainsWhole(files, bat), NEW s \in EntriesOf(files), NEW bat2,
         bat2 = Deleted(bat, files[s])
  PROVE  /\ bat2 \in Tables /\ bat2.free = Cardinality(FreeBlocks(bat2.map))
         /\ bat2.ctr = bat.ctr
         /\ \A t \in EntriesOf(files) \ {s} : \A i \in 1..files[t].count :
              bat2.map[BlockOf(bat.map, files[t], i)] = bat.map[BlockOf(bat.map, files[t], i)]
<1> DEFINE e == files[s]
           x == BlockOf(bat.map, e, e.count)
<1>1. /\ s \in DirSlots /\ e \in FileRecords /\ e.count \in Nat /\ e.count >= 1
      /\ \A i \in 1..e.count : /\ BlockOf(bat.map, e, i) \in Blocks
                               /\ bat.map[BlockOf(bat.map, e, i)] = End <=> i = e.count
                               /\ bat.map[BlockOf(bat.map, e, i)] # 0
  BY ChainLeads
<1>2. x \in Blocks /\ bat.map[x] = End /\ bat.map[x] # 0 /\ e.count \in 1..e.count
  BY <1>1
<1>3. Freed(bat.map, e) = {x}
  BY <1>1, <1>2 DEF Freed
<1>4. bat2 = [bat EXCEPT !.map = [b \in Blocks |-> IF b \in {x} THEN 0 ELSE @[b]], !.free = @ + 1]
  BY <1>3, FS_Singleton DEF Deleted
<1>5. /\ bat.ctr \in 0..MaxUpdates /\ bat.map \in [Blocks -> {0, End} \cup Blocks]
      /\ bat.free \in Nat
  BY DEF Tables
<1> HIDE DEF x, e
<1>6. /\ bat2.map = [b \in Blocks |-> IF b = x THEN 0 ELSE bat.map[b]]
      /\ bat2.free = bat.free + 1 /\ bat2.ctr = bat.ctr /\ bat2.last = bat.last
      /\ bat2 = [ctr |-> bat2.ctr, map |-> bat2.map, free |-> bat2.free, last |-> bat2.last]
  BY <1>4 DEF Tables
<1>7. FreeBlocks(bat2.map) = FreeBlocks(bat.map) \cup {x} /\ x \notin FreeBlocks(bat.map)
  BY <1>2, <1>6 DEF FreeBlocks
<1>8. IsFiniteSet(Blocks) /\ Cardinality(Blocks) = MaxBlock - FSTBlocks
  BY BlocksFinite
<1>9. IsFiniteSet(FreeBlocks(bat.map))
  BY <1>8, FS_Subset DEF FreeBlocks
<1>10. bat2.free = Cardinality(FreeBlocks(bat2.map))
  BY <1>7, <1>9, <1>6, FS_AddElement DEF ChainsWhole
<1>11. bat2.free \in 0..(MaxBlock - FSTBlocks)
  <2>1. FreeBlocks(bat2.map) \in SUBSET Blocks
    BY DEF FreeBlocks
  <2>2. bat2.free <= MaxBlock - FSTBlocks
    BY <2>1, <1>8, <1>10, FS_Subset
  <2> QED BY <2>2, <1>6, <1>5 DEF CardImageAssumption
<1>12. bat2 \in Tables
  <2>1. bat2.map \in [Blocks -> {0, End} \cup Blocks]
    BY <1>5, <1>6
  <2> QED BY <2>1, <1>6, <1>11 DEF Tables
<1>13. ASSUME NEW t \in EntriesOf(files) \ {s}, NEW i \in 1..files[t].count
       PROVE  bat2.map[BlockOf(bat.map, files[t], i)] = bat.map[BlockOf(bat.map, files[t], i)]
  <2>1. BlockOf(bat.map, files[t], i) \in Blocks
    BY ChainLeads
  <2>2. BlockOf(bat.map, files[t], i) # x
    BY <1>1, <1>2 DEF ChainsWhole, x, e
  <2> QED BY <2>1, <2>2, <1>6
<1> QED BY <1>6, <1>10, <1>12, <1>13

\* The places looked at are blocks, and no two of them the same.
LEMMA PlacesApart ==
  ASSUME CardImageAssumption, NEW bat \in Tables
  PROVE  /\ \A i \in 1..UsedBlocks : /\ Place(bat, i) \in Blocks
                                     /\ Place(bat, i) \in FSTBlocks..(FSTBlocks + UsedBlocks - 1)
         /\ \A i, j \in 1..UsedBlocks : Place(bat, i) = Place(bat, j) => i = j
<1>1. /\ bat.last \in Int /\ bat.last >= FSTBlocks - 1 /\ bat.last <= FSTBlocks + UsedBlocks - 1
      /\ FSTBlocks \in Nat /\ UsedBlocks \in Nat /\ FSTBlocks > 0
      /\ MaxBlock \in Nat /\ FSTBlocks + UsedBlocks <= MaxBlock
  BY DEF CardImageAssumption, Tables, UsedBlocks
<1>2. ASSUME NEW i \in 1..UsedBlocks
      PROVE  Place(bat, i) = IF bat.last + i < FSTBlocks + UsedBlocks THEN bat.last + i
                             ELSE bat.last + i - UsedBlocks
  BY <1>1 DEF Place
<1>3. ASSUME NEW i \in 1..UsedBlocks
      PROVE  Place(bat, i) \in FSTBlocks..(FSTBlocks + UsedBlocks - 1) /\ Place(bat, i) \in Blocks
  BY <1>1, <1>2 DEF Blocks
<1>4. ASSUME NEW i \in 1..UsedBlocks, NEW j \in 1..UsedBlocks, Place(bat, i) = Place(bat, j)
      PROVE  i = j
  BY <1>1, <1>2, <1>4
<1> QED BY <1>3, <1>4

\* What allocateBlocks hands out: as many free blocks as asked for, each leading to the next.
LEMMA AllocateTakes ==
  ASSUME CardImageAssumption, NEW bat \in Tables, NEW n \in 1..MaxCount, n <= bat.free,
         bat.free = Cardinality(FreeBlocks(bat.map)),
         NEW new \in FreePlaces(bat, n), NEW bat2, bat2 = Allocated(bat, n, new)
  PROVE  /\ bat2 \in Tables /\ bat2.free = Cardinality(FreeBlocks(bat2.map))
         /\ bat2.ctr = bat.ctr
         /\ \A i \in 1..n :
              /\ Place(bat, new[i]) \in Blocks /\ bat.map[Place(bat, new[i])] = 0
              /\ bat2.map[Place(bat, new[i])] = IF i = n THEN End ELSE Place(bat, new[i + 1])
              /\ \A j \in 1..n : Place(bat, new[i]) = Place(bat, new[j]) => i = j
         /\ \A b \in Blocks : bat.map[b] # 0 => bat2.map[b] = bat.map[b]
<1> DEFINE c == [i \in 1..n |-> Place(bat, new[i])]
           New(b) == {i \in 1..n : Place(bat, new[i]) = b}
           After(i) == IF i = n THEN End ELSE Place(bat, new[i + 1])
<1>1. n \in Nat /\ n >= 1 /\ n \in 1..n
  BY DEF CardImageAssumption
<1>2. /\ new \in [1..n -> 1..UsedBlocks] /\ \A i, j \in 1..n : i < j => new[i] < new[j]
      /\ \A i \in 1..new[n] : bat.map[Place(bat, i)] = 0 <=> \E j \in 1..n : new[j] = i
  BY DEF FreePlaces
<1>3. UsedBlocks \in Nat
  BY DEF UsedBlocks, CardImageAssumption
<1>4. ASSUME NEW i \in 1..n
      PROVE  /\ new[i] \in 1..UsedBlocks /\ new[i] \in 1..new[n]
             /\ Place(bat, new[i]) \in Blocks /\ bat.map[Place(bat, new[i])] = 0
             /\ Place(bat, new[i]) \in FSTBlocks..(FSTBlocks + UsedBlocks - 1)
  <2>1. new[i] \in 1..UsedBlocks /\ new[n] \in 1..UsedBlocks
    BY <1>1, <1>2
  <2>2. i < n \/ i = n
    BY <1>1
  <2>3. new[i] \in 1..new[n]
    <3>1. new[i] < new[n] \/ new[i] = new[n]
      BY <2>2, <1>1, <1>2
    <3> QED BY <3>1, <2>1, <1>3
  <2> QED BY <2>1, <2>3, <1>2, PlacesApart
<1>5. ASSUME NEW i \in 1..n, NEW j \in 1..n, Place(bat, new[i]) = Place(bat, new[j]) PROVE i = j
  <2>1. new[i] = new[j]
    BY <1>4, <1>5, PlacesApart
  <2>2. new[i] \in Nat /\ new[j] \in Nat
    BY <1>4, <1>3
  <2> QED BY <2>1, <2>2, <1>2, <1>1
<1>6. ASSUME NEW i \in 1..n PROVE New(Place(bat, new[i])) = {i}
  BY <1>5
<1>7. /\ bat2 = [bat EXCEPT !.map = [b \in Blocks |->
                                       IF New(b) = {} THEN @[b] ELSE After(CHOOSE i \in New(b) : TRUE)],
                            !.free = @ - n, !.last = Place(bat, new[n])]
  BY DEF Allocated
<1> HIDE DEF New, After
<1>8. /\ bat2.map = [b \in Blocks |-> IF New(b) = {} THEN bat.map[b]
                                      ELSE After(CHOOSE i \in New(b) : TRUE)]
      /\ bat2.free = bat.free - n /\ bat2.ctr = bat.ctr /\ bat2.last = Place(bat, new[n])
      /\ bat2 = [ctr |-> bat2.ctr, map |-> bat2.map, free |-> bat2.free, last |-> bat2.last]
  BY <1>7 DEF Tables
<1>9. ASSUME NEW i \in 1..n PROVE bat2.map[Place(bat, new[i])] = After(i)
  <2>1. New(Place(bat, new[i])) = {i} /\ (CHOOSE k \in {i} : TRUE) = i
    BY <1>6
  <2> QED BY <2>1, <1>8, <1>4
<1>10. ASSUME NEW b \in Blocks, \A i \in 1..n : Place(bat, new[i]) # b
       PROVE  bat2.map[b] = bat.map[b]
  <2>1. New(b) = {}
    BY <1>10 DEF New
  <2> QED BY <2>1, <1>8
<1>11. ASSUME NEW i \in 1..n PROVE After(i) # 0 /\ After(i) \in {End} \cup Blocks
  <2>1. i # n => i + 1 \in 1..n
    BY <1>1
  <2>2. End # 0 /\ 0 \notin Blocks
    BY DEF End, Blocks, CardImageAssumption
  <2> QED BY <2>1, <2>2, <1>4 DEF After
<1> DEFINE Taken == {b \in Blocks : \E i \in 1..n : Place(bat, new[i]) = b}
<1>12. IsFiniteSet(Taken) /\ Cardinality(Taken) = n
  <2>1. c \in [1..n -> Taken] /\ \A i, j \in 1..n : c[i] = c[j] => i = j
    BY <1>4, <1>5
  <2>2. \A b \in Taken : \E i \in 1..n : c[i] = b
    OBVIOUS
  <2>3. ExistsBijection(1..n, Taken)
    <3> HIDE DEF c, Taken
    <3> QED BY <2>1, <2>2 DEF ExistsBijection, Bijection, Injection, Surjection, IsInjective
  <2>4. IsFiniteSet(1..n) /\ Cardinality(1..n) = n
    BY <1>1, FS_Interval
  <2> QED BY <2>3, <2>4, FS_Bijection
<1>13. FreeBlocks(bat2.map) = FreeBlocks(bat.map) \ Taken /\ FreeBlocks(bat.map) \cap Taken = Taken
  <2>1. ASSUME NEW b \in Taken PROVE b \in FreeBlocks(bat.map) /\ b \notin FreeBlocks(bat2.map)
    <3>1. PICK i \in 1..n : Place(bat, new[i]) = b
      OBVIOUS
    <3>2. bat2.map[b] = After(i)
      BY <3>1, <1>9
    <3> QED BY <3>1, <3>2, <1>4, <1>11 DEF FreeBlocks
  <2>2. ASSUME NEW b \in Blocks \ Taken PROVE bat2.map[b] = bat.map[b]
    BY <1>10
  <2> HIDE DEF Taken
  <2> QED BY <2>1, <2>2 DEF FreeBlocks
<1>14. IsFiniteSet(FreeBlocks(bat.map))
  BY BlocksFinite, FS_Subset DEF FreeBlocks
<1>15. Cardinality(FreeBlocks(bat2.map)) = bat.free - n
  <2> HIDE DEF Taken
  <2>1. Cardinality(FreeBlocks(bat.map) \ Taken) =
          Cardinality(FreeBlocks(bat.map)) - Cardinality(FreeBlocks(bat.map) \cap Taken)
    BY <1>14, FS_Difference
  <2> QED BY <2>1, <1>12, <1>13
<1>16. bat2 \in Tables
  <2>1. bat2.map \in [Blocks -> {0, End} \cup Blocks]
    <3>1. bat.map \in [Blocks -> {0, End} \cup Blocks]
      BY DEF Tables
    <3>2. ASSUME NEW b \in Blocks PROVE bat2.map[b] \in {0, End} \cup Blocks
      <4>1. CASE \E i \in 1..n : Place(bat, new[i]) = b
        BY <4>1, <1>9, <1>11
      <4>2. CASE \A i \in 1..n : Place(bat, new[i]) # b
        BY <4>2, <1>10, <3>1
      <4> QED BY <4>1, <4>2
    <3>3. bat2.map = [b \in Blocks |-> bat2.map[b]]
      BY <1>8
    <3> QED BY <3>2, <3>3
  <2>2. bat2.free \in 0..(MaxBlock - FSTBlocks) /\ bat2.ctr \in 0..MaxUpdates
    <3>1. bat.free \in 0..(MaxBlock - FSTBlocks) /\ bat.ctr \in 0..MaxUpdates
      BY DEF Tables
    <3> QED BY <3>1, <1>8, <1>1 DEF CardImageAssumption
  <2>3. bat2.last \in (FSTBlocks - 1)..(FSTBlocks + UsedBlocks - 1)
    BY <1>1, <1>4, <1>8, <1>3 DEF CardImageAssumption
  <2> QED BY <2>1, <2>2, <2>3, <1>8 DEF Tables
<1>17. \A b \in Blocks : bat.map[b] # 0 => bat2.map[b] = bat.map[b]
  BY <1>4, <1>10
<1> QED BY <1>4, <1>5, <1>8, <1>9, <1>15, <1>16, <1>17 DEF After

\* A new file takes blocks no other has.
LEMMA CreateTidy ==
  ASSUME CardImageAssumption, NEW files \in DirFiles, NEW bat \in Tables, NEW data, NEW wr,
         NEW ops \in Nat, ops < MaxUpdates, TidyCard(files, bat, data, wr, ops),
         \A k \in 1..MaxCount : wr[<<ops + 1, k>>] = 0,
         NEW n \in 1..MaxCount, n <= bat.free, NEW new \in FreePlaces(bat, n),
         NEW s \in DirSlots, s \notin EntriesOf(files), NEW name \in CardNames,
         \A t \in EntriesOf(files) : files[t].name # name,
         NEW files2, NEW bat2, bat2 = Allocated(bat, n, new),
         files2 = [files EXCEPT ![s] = FileEntry(name, ops + 1, Place(bat, new[1]), n)]
  PROVE  files2 \in DirFiles /\ bat2 \in Tables /\ bat2.ctr = bat.ctr
         /\ TidyCard(files2, bat2, data, wr, ops + 1)
<1> DEFINE e == FileEntry(name, ops + 1, Place(bat, new[1]), n)
<1>1. bat.free = Cardinality(FreeBlocks(bat.map)) /\ ChainsWhole(files, bat)
  BY DEF TidyCard, ChainsWhole
<1>2. /\ bat2 \in Tables /\ bat2.free = Cardinality(FreeBlocks(bat2.map))
      /\ bat2.ctr = bat.ctr
      /\ \A i \in 1..n :
           /\ Place(bat, new[i]) \in Blocks /\ bat.map[Place(bat, new[i])] = 0
           /\ bat2.map[Place(bat, new[i])] = IF i = n THEN End ELSE Place(bat, new[i + 1])
           /\ \A j \in 1..n : Place(bat, new[i]) = Place(bat, new[j]) => i = j
      /\ \A b \in Blocks : bat.map[b] # 0 => bat2.map[b] = bat.map[b]
  BY <1>1, AllocateTakes
<1>3. n \in Nat /\ n >= 1 /\ 1 \in 1..n /\ n \in 1..n
  BY DEF CardImageAssumption
<1>4. /\ e \in FileRecords /\ e # NoFile /\ e.count = n /\ e.name = name /\ e.uid = ops + 1
      /\ e.first = Place(bat, new[1])
  <2>1. ops + 1 \in 1..MaxUpdates /\ ops + 1 # 0
    BY DEF CardImageAssumption
  <2>2. Place(bat, new[1]) \in Blocks
    BY <1>2, <1>3
  <2> QED BY <2>1, <2>2 DEF FileEntry, FileRecords, NoFile
<1> HIDE DEF e
<1>5. /\ files2 = [files EXCEPT ![s] = e] /\ files2 \in DirFiles
      /\ EntriesOf(files2) = EntriesOf(files) \cup {s} /\ files2[s] = e
      /\ \A t \in EntriesOf(files) : t # s /\ files2[t] = files[t]
  BY <1>4 DEF DirFiles, EntriesOf, e
<1>6. \A i \in 1..n : BlockOf(bat2.map, e, i) = Place(bat, new[i])
  <2> DEFINE f == [i \in 1..n |-> BlockOf(bat2.map, e, i)]
             g == [i \in 1..n |-> Place(bat, new[i])]
  <2>1. f[1] = g[1] /\ \A i \in 1..n : i + 1 <= n => f[i + 1] = Following(bat2.map, f[i])
    BY <1>3, <1>4, BlockSteps
  <2>2. \A i \in 1..n : i + 1 <= n => g[i + 1] = Following(bat2.map, g[i])
    <3>1. SUFFICES ASSUME NEW i \in 1..n, i + 1 <= n PROVE g[i + 1] = Following(bat2.map, g[i])
      OBVIOUS
    <3>2. i + 1 \in 1..n /\ i # n
      BY <3>1, <1>3
    <3>3. g[i] \in Blocks /\ bat2.map[g[i]] = g[i + 1]
      BY <3>2, <1>2
    <3> HIDE DEF g
    <3> QED BY <3>3 DEF Following
  <2> HIDE DEF f, g
  <2>3. \A i \in 1..n : f[i] = g[i]
    BY <2>1, <2>2, <1>3, SamePath
  <2> QED BY <2>3 DEF f, g
<1>7. ASSUME NEW t \in EntriesOf(files)
      PROVE  /\ files[t] \in FileRecords /\ files[t].count \in 1..files[t].count
             /\ \A i \in 1..files[t].count :
                  /\ BlockOf(bat2.map, files[t], i) = BlockOf(bat.map, files[t], i)
                  /\ bat2.map[BlockOf(bat.map, files[t], i)] = bat.map[BlockOf(bat.map, files[t], i)]
                  /\ bat.map[BlockOf(bat.map, files[t], i)] # 0
                  /\ BlockOf(bat.map, files[t], i) \in Blocks
             /\ bat.map[BlockOf(bat.map, files[t], files[t].count)] = End
  <2>1. /\ files[t] \in FileRecords /\ files[t].count \in 1..files[t].count
        /\ \A i \in 1..files[t].count : BlockOf(bat.map, files[t], i) \in Blocks
                                        /\ bat.map[BlockOf(bat.map, files[t], i)] # 0
        /\ bat.map[BlockOf(bat.map, files[t], files[t].count)] = End
    BY <1>1, ChainLeads
  <2>2. \A i \in 1..files[t].count :
          bat2.map[BlockOf(bat.map, files[t], i)] = bat.map[BlockOf(bat.map, files[t], i)]
    BY <2>1, <1>2
  <2>3. \A i \in 1..files[t].count : BlockOf(bat2.map, files[t], i) = BlockOf(bat.map, files[t], i)
    BY <2>1, <2>2, BlocksKept
  <2> QED BY <2>1, <2>2, <2>3
<1>8. ChainsWhole(files2, bat2)
  <2>1. ASSUME NEW t \in EntriesOf(files2)
        PROVE  /\ \A i \in 1..files2[t].count : BlockOf(bat2.map, files2[t], i) \in Blocks
               /\ bat2.map[BlockOf(bat2.map, files2[t], files2[t].count)] = End
    <3>1. CASE t = s
      BY <3>1, <1>5, <1>4, <1>6, <1>2, <1>3
    <3>2. CASE t # s
      <4>1. t \in EntriesOf(files) /\ files2[t] = files[t]
        BY <3>2, <1>5
      <4> QED BY <4>1, <1>7
    <3> QED BY <3>1, <3>2
  <2>2. ASSUME NEW t \in EntriesOf(files2), NEW r \in EntriesOf(files2),
               NEW i \in 1..files2[t].count, NEW j \in 1..files2[r].count,
               BlockOf(bat2.map, files2[t], i) = BlockOf(bat2.map, files2[r], j)
        PROVE  t = r /\ i = j
    <3>1. CASE t = s /\ r = s
      BY <3>1, <2>2, <1>2, <1>4, <1>5, <1>6
    <3>2. CASE t = s /\ r # s
      <4>1. r \in EntriesOf(files) /\ files2[r] = files[r]
        BY <3>2, <1>5
      <4>2. bat.map[BlockOf(bat2.map, files2[r], j)] # 0
        BY <4>1, <1>7
      <4>3. bat.map[BlockOf(bat2.map, files2[t], i)] = 0
        BY <3>2, <1>5, <1>4, <1>6, <1>2
      <4> QED BY <4>2, <4>3, <2>2
    <3>3. CASE t # s /\ r = s
      <4>1. t \in EntriesOf(files) /\ files2[t] = files[t]
        BY <3>3, <1>5
      <4>2. bat.map[BlockOf(bat2.map, files2[t], i)] # 0
        BY <4>1, <1>7
      <4>3. bat.map[BlockOf(bat2.map, files2[r], j)] = 0
        BY <3>3, <1>5, <1>4, <1>6, <1>2
      <4> QED BY <4>2, <4>3, <2>2
    <3>4. CASE t # s /\ r # s
      <4>1. t \in EntriesOf(files) /\ files2[t] = files[t] /\ r \in EntriesOf(files) /\ files2[r] = files[r]
        BY <3>4, <1>5
      <4>2. BlockOf(bat.map, files[t], i) = BlockOf(bat.map, files[r], j)
        BY <4>1, <1>7, <2>2
      <4> QED BY <4>1, <4>2, <1>1 DEF ChainsWhole
    <3> QED BY <3>1, <3>2, <3>3, <3>4
  <2> QED BY <2>1, <2>2, <1>2 DEF ChainsWhole
<1>9. OwnData(files2, bat2, data, wr)
  <2>1. SUFFICES ASSUME NEW t \in EntriesOf(files2), NEW k \in 1..files2[t].count,
                        wr[<<files2[t].uid, k>>] # 0
                 PROVE  data[BlockOf(bat2.map, files2[t], k)] = wr[<<files2[t].uid, k>>]
    BY DEF OwnData
  <2>2. t # s
    <3>1. SUFFICES ASSUME t = s PROVE FALSE
      OBVIOUS
    <3>2. files2[t].uid = ops + 1 /\ k \in 1..n
      BY <3>1, <1>4, <1>5
    <3>3. k \in 1..MaxCount
      BY <3>2 DEF CardImageAssumption
    <3> QED BY <3>2, <3>3, <2>1
  <2>3. t \in EntriesOf(files) /\ files2[t] = files[t]
    BY <2>2, <1>5
  <2>4. BlockOf(bat2.map, files[t], k) = BlockOf(bat.map, files[t], k)
    BY <2>3, <1>7
  <2> QED BY <2>1, <2>3, <2>4 DEF TidyCard, OwnData
<1>10. NamesOnce(files2)
  BY <1>4, <1>5 DEF TidyCard, NamesOnce
<1>11. UidsOnce(files2, ops + 1)
  <2>1. \A t \in EntriesOf(files) : files[t].uid \in Nat /\ files[t].uid <= ops
    BY DEF TidyCard, UidsOnce, EntriesOf, DirFiles, FileRecords
  <2>2. ASSUME NEW t \in EntriesOf(files2)
        PROVE  /\ t = s => files2[t].uid = ops + 1
               /\ t # s => /\ t \in EntriesOf(files) /\ files2[t].uid = files[t].uid
                           /\ files2[t].uid \in Nat /\ files2[t].uid <= ops
                           /\ files2[t].uid # ops + 1
    <3>1. CASE t = s
      BY <3>1, <1>4, <1>5
    <3>2. CASE t # s
      <4>1. t \in EntriesOf(files) /\ files2[t].uid = files[t].uid
        BY <3>2, <1>5
      <4>2. \A u \in Nat : u <= ops => u # ops + 1
        OBVIOUS
      <4>3. files[t].uid \in Nat /\ files[t].uid <= ops
        BY <4>1, <2>1
      <4> QED BY <3>2, <4>1, <4>2, <4>3
    <3> QED BY <3>1, <3>2
  <2>3. ASSUME NEW t \in EntriesOf(files2), NEW r \in EntriesOf(files2), files2[t].uid = files2[r].uid
        PROVE  t = r
    <3>1. t = s <=> r = s
      BY <2>2, <2>3
    <3>2. t # s => files[t].uid = files[r].uid /\ t \in EntriesOf(files) /\ r \in EntriesOf(files)
      BY <3>1, <2>2, <2>3
    <3> QED BY <3>1, <3>2 DEF TidyCard, UidsOnce
  <2>4. \A t \in EntriesOf(files2) : files2[t].uid <= ops + 1
    BY <2>1, <2>2
  <2> QED BY <2>3, <2>4 DEF UidsOnce
<1> QED BY <1>2, <1>5, <1>8, <1>9, <1>10, <1>11 DEF TidyCard

-----------------------------------------------------------------------------
(* Pairs of copies.                                                        *)

\* What a file opens as is of the kind it holds; what is valid opens as it is.
LEMMA PairOpens ==
  ASSUME NEW X, Counted(X), NEW pair \in FilePairs(X)
  PROVE  /\ Copies(pair) \in MemPairs(X) /\ Newer(Copies(pair)) \in {0, 1}
         /\ OpensAs(pair) \in X
         /\ \A i \in {0, 1} : \E j \in {0, 1} : Copies(pair)[i] = pair[j].is
         /\ AllValid(pair) => \A i \in {0, 1} : Copies(pair)[i] = pair[i].is
         /\ OpensAs(pair) = Copies(pair)[Newer(Copies(pair))]
<1>1. \A i \in {0, 1} : 1 - i \in {0, 1} /\ pair[i].is \in X /\ pair[i].ok \in BOOLEAN
  BY DEF FilePairs
<1>2. /\ Copies(pair) = [i \in {0, 1} |-> IF ~ pair[i].ok /\ pair[1 - i].ok THEN pair[1 - i].is
                                           ELSE pair[i].is]
      /\ Newer(Copies(pair)) \in {0, 1}
  BY DEF Copies, Newer
<1>3. \A i \in {0, 1} : Copies(pair)[i] \in X /\ \E j \in {0, 1} : Copies(pair)[i] = pair[j].is
  BY <1>1, <1>2
<1>4. Copies(pair) \in MemPairs(X)
  BY <1>2, <1>3 DEF MemPairs
<1>5. AllValid(pair) => \A i \in {0, 1} : Copies(pair)[i] = pair[i].is
  BY <1>2 DEF AllValid
<1> QED BY <1>2, <1>3, <1>4, <1>5 DEF OpensAs

\* Right after it is opened.
LEMMA PairAsOpened ==
  ASSUME NEW pair, UpTo(pair, OpensAs(pair))
  PROVE  PairInv(Copies(pair), Newer(Copies(pair)), pair, OpensAs(pair), 0)
BY DEF PairInv

\* One more update, of the older copy.
LEMMA PairUpdated ==
  ASSUME NEW X, Counted(X), NEW mem \in MemPairs(X), NEW cur \in {0, 1},
         NEW pair \in FilePairs(X), NEW was, NEW pend \in Nat,
         PairInv(mem, cur, pair, was, pend), NEW new \in X, new.ctr = mem[cur].ctr + 1,
         NEW mem2 \in MemPairs(X), NEW cur2, cur2 = 1 - cur, mem2[cur2] = new, mem2[cur] = mem[cur]
  PROVE  PairInv(mem2, cur2, pair, was, pend + 1)
<1>1. 1 - cur \in {0, 1} /\ 1 - cur # cur /\ 1 - cur2 = cur /\ cur2 \in {0, 1}
  OBVIOUS
<1>2. mem2[cur2] = new /\ mem2[1 - cur2] = mem[cur] /\ mem[cur].ctr \in Nat /\ was.ctr \in Nat
  <2>1. mem[cur].ctr \in Nat
    BY DEF Counted, MemPairs
  <2>2. was \in X
    BY PairOpens DEF PairInv
  <2> QED BY <1>1, <2>1, <2>2 DEF Counted
<1>3. pend = 0 => mem[cur] = was /\ Newer(Copies(pair)) = cur
  BY DEF PairInv, OpensAs
<1>4. mem[cur].ctr = was.ctr + pend
  BY <1>2, <1>3 DEF PairInv
<1>5. pend = 0 /\ AllValid(pair) => pair[cur].is = was
  <2>1. AllValid(pair) => Copies(pair)[cur] = pair[cur].is
    BY PairOpens
  <2>2. pend = 0 => Copies(pair)[cur] = was
    BY <1>3 DEF PairInv, OpensAs
  <2> QED BY <2>1, <2>2
<1>6. OpensAs(pair) = was /\ UpTo(pair, was)
  BY DEF PairInv
<1> QED BY ONLY <1>1, <1>2, <1>3, <1>4, <1>5, <1>6, pend \in Nat, new.ctr = mem[cur].ctr + 1
           DEF PairInv

\* All of it written: what the file holds then opens as what is in memory.
LEMMA PairCommitted ==
  ASSUME NEW X, Counted(X), NEW mem \in MemPairs(X), NEW cur \in {0, 1},
         NEW pair \in FilePairs(X), NEW was, NEW pend \in Nat, pend # 0,
         PairInv(mem, cur, pair, was, pend),
         NEW new \in FilePairs(X), AllValid(new), \A i \in {0, 1} : new[i].is = mem[i]
  PROVE  PairInv(mem, cur, new, mem[cur], 0) /\ Readable(new)
<1>1. new \in FilePairs(X) /\ AllValid(new) /\ \A i \in {0, 1} : new[i].is = mem[i]
  OBVIOUS
<1>2. Readable(new)
  BY ONLY <1>1 DEF AllValid, Readable
<1>3. Copies(new) = mem
  <2>1. Copies(new) \in MemPairs(X) /\ \A i \in {0, 1} : Copies(new)[i] = new[i].is
    BY ONLY Counted(X), <1>1, PairOpens
  <2> QED BY ONLY <2>1, <1>1, mem \in MemPairs(X) DEF MemPairs
<1>4. Newer(mem) = cur
  <2>1. mem[cur].ctr > mem[1 - cur].ctr
    <3>1. was.ctr \in Nat
      BY PairOpens DEF PairInv, Counted
    <3> QED BY <3>1 DEF PairInv
  <2>2. mem[0].ctr \in Nat /\ mem[1].ctr \in Nat
    BY ONLY mem \in MemPairs(X), Counted(X) DEF Counted, MemPairs
  <2> QED BY ONLY <2>1, <2>2, cur \in {0, 1} DEF Newer
<1>5. UpTo(new, mem[cur])
  <2>1. mem[0].ctr \in Nat /\ mem[1].ctr \in Nat /\ mem[cur].ctr \in Nat
    BY ONLY mem \in MemPairs(X), cur \in {0, 1}, Counted(X) DEF Counted, MemPairs
  <2>2. \A i \in {0, 1} : i = cur \/ mem[i].ctr < mem[cur].ctr
    <3>1. was.ctr \in Nat
      BY PairOpens DEF PairInv, Counted
    <3>2. mem[cur].ctr = was.ctr + pend /\ mem[1 - cur].ctr = was.ctr + pend - 1
      BY DEF PairInv
    <3> QED BY <3>1, <3>2
  <2> QED BY ONLY <1>1, <2>1, <2>2 DEF UpTo
<1> QED BY ONLY <1>2, <1>3, <1>4, <1>5 DEF PairInv, OpensAs

\* Only part of it written. If it can be read it opens as one of the copies that was valid
\* or that was being written; one as old as the last save is that save, and one as new as
\* what was being saved is that.
LEMMA PairTorn ==
  ASSUME NEW X, Counted(X), NEW mem \in MemPairs(X), NEW cur \in {0, 1},
         NEW pair \in FilePairs(X), NEW was, NEW pend \in Nat, pend # 0,
         PairInv(mem, cur, pair, was, pend), NEW n \in Int, NEW torn \in BOOLEAN,
         NEW new, new = PutPair(pair, mem, n, torn)
  PROVE  /\ new \in FilePairs(X) /\ UpTo(new, OpensAs(new))
         /\ AllValid(pair) => Readable(new)
         /\ Readable(new) =>
              /\ OpensAs(new).ctr = was.ctr => OpensAs(new) = was
              /\ OpensAs(new).ctr = mem[cur].ctr => OpensAs(new) = mem[cur]
              /\ pend = 1 => OpensAs(new) \in {was, mem[cur]}
         /\ \A i \in {0, 1} : new[i].is \in {pair[i].is, mem[i]}
<1> DEFINE old == 1 - cur
<1>1. old \in {0, 1} /\ old # cur /\ 1 - old = cur /\ {0, 1} = {cur, old}
  OBVIOUS
<1>2. ASSUME NEW i \in {0, 1}
      PROVE  /\ new[i].is = (IF i < n THEN mem[i] ELSE pair[i].is)
             /\ i < n => new[i].ok
             /\ ~ (i < n) => /\ new[i].ok => pair[i].ok
                             /\ pair[i].ok /\ (i # n \/ pair[i].is = mem[i]) => new[i].ok
             /\ new[i] \in [ok : BOOLEAN, is : X]
             /\ mem[i] \in X /\ pair[i].is \in X
  <2>1. mem[i] \in X /\ pair[i].is \in X /\ pair[i].ok \in BOOLEAN
    BY DEF MemPairs, FilePairs
  <2>2. CASE i < n
    <3>1. new[i] = [ok |-> TRUE, is |-> mem[i]]
      BY <2>2 DEF PutPair
    <3> QED BY <3>1, <2>1, <2>2
  <2>3. CASE ~ (i < n)
    <3> DEFINE ok == pair[i].ok /\ ~ (torn /\ i = n /\ pair[i].is # mem[i])
    <3>1. new[i] = [ok |-> ok, is |-> pair[i].is]
      BY <2>3 DEF PutPair
    <3>2. /\ ok \in BOOLEAN /\ (ok => pair[i].ok)
          /\ pair[i].ok /\ (i # n \/ pair[i].is = mem[i]) => ok
      BY <2>1
    <3> HIDE DEF ok
    <3> QED BY <3>1, <3>2, <2>1, <2>3
  <2> QED BY <2>2, <2>3
<1>3. new \in FilePairs(X) /\ \A i \in {0, 1} : new[i].is \in {pair[i].is, mem[i]}
  <2>1. new = [i \in {0, 1} |-> new[i]]
    BY DEF PutPair
  <2> QED BY <2>1, <1>2 DEF FilePairs
<1>4. /\ mem[cur].ctr = was.ctr + pend /\ mem[old].ctr = was.ctr + pend - 1
      /\ pend = 1 => mem[old] = was /\ (AllValid(pair) => pair[old].is = was)
      /\ UpTo(pair, was) /\ OpensAs(pair) = was
  BY DEF PairInv
<1>5. was \in X /\ was.ctr \in Nat
  BY <1>4, PairOpens DEF Counted
<1>6. \A i \in {0, 1} : new[i].is.ctr \in Nat /\ mem[i].ctr \in Nat /\ pair[i].is.ctr \in Nat
  BY <1>2 DEF Counted
<1>7. AllValid(pair) => Readable(new)
  <2>1. ASSUME AllValid(pair) PROVE Readable(new)
    <3>1. PICK i \in {0, 1} : i # n
      OBVIOUS
    <3> QED BY <2>1, <3>1, <1>2 DEF AllValid, Readable
  <2> QED BY <2>1
\* Copies of one age are the same.
<1>8. ASSUME NEW i \in {0, 1}, new[i].ok
      PROVE  \/ i = cur /\ new[i].is = mem[cur]
             \/ i = old /\ new[i].is = mem[old]
             \/ pair[i].ok /\ new[i].is = pair[i].is /\ new[i].is.ctr <= was.ctr
                /\ (new[i].is.ctr = was.ctr => new[i].is = was)
  BY <1>8, <1>1, <1>2, <1>4 DEF UpTo
<1>9. ASSUME new[0].ok, new[1].ok, new[0].is.ctr = new[1].is.ctr
      PROVE  new[0].is = new[1].is
  <2>1. /\ new[cur].ok /\ new[old].ok /\ new[cur].is.ctr = new[old].is.ctr
    BY <1>9, <1>1
  <2>2. new[cur].is = new[old].is
    <3>1. CASE new[cur].is = mem[cur]
      BY <3>1, <2>1, <1>1, <1>4, <1>5, <1>8
    <3>2. CASE /\ pair[cur].ok /\ new[cur].is = pair[cur].is /\ new[cur].is.ctr <= was.ctr
               /\ new[cur].is.ctr = was.ctr => new[cur].is = was
      <4>1. CASE new[old].is = mem[old]
        BY <3>2, <4>1, <2>1, <1>4, <1>5, <1>6
      <4>2. CASE pair[old].ok /\ new[old].is = pair[old].is
        <5>1. AllValid(pair)
          BY <3>2, <4>2, <1>1 DEF AllValid
        <5>2. \A i \in {0, 1} : Copies(pair)[i] = pair[i].is
          BY <5>1, PairOpens
        <5>3. was \in {pair[cur].is, pair[old].is}
          BY <5>2, <1>1, <1>4, PairOpens
        <5> QED BY <5>3, <3>2, <4>2, <2>1, <1>1, <1>4 DEF UpTo
      <4> QED BY <4>1, <4>2, <2>1, <1>1, <1>8
    <3> QED BY <3>1, <3>2, <2>1, <1>1, <1>8
  <2> QED BY <2>2, <1>1
<1>10. \A i \in {0, 1} : Copies(new)[i] = IF ~ new[i].ok /\ new[1 - i].ok THEN new[1 - i].is
                                           ELSE new[i].is
  BY DEF Copies
<1>11. OpensAs(new) = IF Copies(new)[0].ctr > Copies(new)[1].ctr THEN Copies(new)[0]
                      ELSE Copies(new)[1]
  BY DEF OpensAs, Newer
<1>12. UpTo(new, OpensAs(new))
  <2>1. CASE new[0].ok /\ new[1].ok
    <3>1. Copies(new)[0] = new[0].is /\ Copies(new)[1] = new[1].is
      BY <2>1, <1>10
    <3> QED BY <2>1, <3>1, <1>6, <1>9, <1>11 DEF UpTo
  <2>2. ASSUME NEW i \in {0, 1}, new[i].ok, ~ new[1 - i].ok PROVE UpTo(new, OpensAs(new))
    <3>1. OpensAs(new) = new[i].is
      BY <2>2, <1>10, <1>11
    <3> QED BY <2>2, <3>1, <1>6 DEF UpTo
  <2>3. CASE ~ new[0].ok /\ ~ new[1].ok
    BY <2>3 DEF UpTo
  <2> QED BY <2>1, <2>2, <2>3
<1>13. ASSUME Readable(new)
       PROVE  \E i \in {0, 1} : new[i].ok /\ OpensAs(new) = new[i].is
  BY <1>13, <1>10, <1>11 DEF Readable
<1>14. ASSUME Readable(new), OpensAs(new).ctr = was.ctr PROVE OpensAs(new) = was
  BY <1>14, <1>13, <1>8, <1>4, <1>5
<1>15. ASSUME Readable(new), OpensAs(new).ctr = mem[cur].ctr PROVE OpensAs(new) = mem[cur]
  BY <1>15, <1>13, <1>8, <1>4, <1>5
<1>16. ASSUME Readable(new), pend = 1 PROVE OpensAs(new) \in {was, mem[cur]}
  <2>1. PICK i \in {0, 1} : new[i].ok /\ OpensAs(new) = new[i].is
    BY <1>16, <1>13
  <2>2. CASE new[i].is \in {mem[cur], mem[old]}
    BY <2>1, <2>2, <1>4, <1>16
  \* A valid copy older than the last save is not the newer one.
  <2>3. CASE pair[i].ok /\ new[i].is = pair[i].is
    <3>1. CASE AllValid(pair)
      <4>1. new[old].ok /\ new[old].is = was
        BY <3>1, <1>1, <1>2, <1>4, <1>16 DEF AllValid
      <4>2. was.ctr <= OpensAs(new).ctr
        BY <4>1, <1>12, <1>1 DEF UpTo
      <4>3. pair[i].is.ctr <= was.ctr /\ (pair[i].is.ctr = was.ctr => pair[i].is = was)
        BY <2>3, <1>4 DEF UpTo
      <4> QED BY <4>2, <4>3, <2>1, <2>3, <1>5, <1>6
    <3>2. CASE ~ AllValid(pair)
      <4>1. ~ pair[1 - i].ok
        BY <3>2, <2>3 DEF AllValid
      <4>2. Copies(pair)[0] = pair[i].is /\ Copies(pair)[1] = pair[i].is
        BY <4>1, <2>3 DEF Copies
      <4>3. OpensAs(pair) = pair[i].is
        BY <4>2, PairOpens
      <4> QED BY <4>3, <2>1, <2>3, <1>4
    <3> QED BY <3>1, <3>2
  <2> QED BY <2>1, <2>2, <2>3, <1>8
<1> QED BY <1>3, <1>7, <1>12, <1>14, <1>15, <1>16

\* A pair of which nothing is written, and one of which all is.
LEMMA PairPast ==
  ASSUME NEW X, NEW mem \in MemPairs(X), NEW pair \in FilePairs(X), NEW n \in Int,
         NEW torn \in BOOLEAN, NEW new, new = PutPair(pair, mem, n, torn)
  PROVE  /\ n < 0 => new = pair
         /\ n >= 2 => AllValid(new) /\ \A i \in {0, 1} : new[i].is = mem[i]
<1>1. new = [i \in {0, 1} |->
               IF i < n THEN [ok |-> TRUE, is |-> mem[i]]
               ELSE [ok |-> pair[i].ok /\ ~ (torn /\ i = n /\ pair[i].is # mem[i]),
                     is |-> pair[i].is]]
  BY DEF PutPair
<1>2. ASSUME n < 0 PROVE new = pair
  <2>1. \A i \in {0, 1} : ~ (i < n) /\ i # n
    BY <1>2
  <2>2. \A i \in {0, 1} : pair[i] = [ok |-> pair[i].ok, is |-> pair[i].is] /\ pair[i].ok \in BOOLEAN
    BY DEF FilePairs
  <2>3. \A i \in {0, 1} : new[i] = pair[i]
    BY <1>1, <2>1, <2>2
  <2>4. pair = [i \in {0, 1} |-> pair[i]] /\ new = [i \in {0, 1} |-> new[i]]
    BY <1>1 DEF FilePairs
  <2> QED BY <2>3, <2>4
<1>3. ASSUME n >= 2 PROVE AllValid(new) /\ \A i \in {0, 1} : new[i].is = mem[i]
  BY <1>1, <1>3 DEF AllValid
<1> QED BY <1>2, <1>3

\* A pair made anew.
LEMMA PairFresh ==
  ASSUME NEW X, NEW x \in X, x.ctr \in Nat
  PROVE  /\ [i \in {0, 1} |-> x] \in MemPairs(X)
         /\ [i \in {0, 1} |-> [ok |-> TRUE, is |-> x]] \in FilePairs(X)
         /\ PairInv([i \in {0, 1} |-> x], 1, [i \in {0, 1} |-> [ok |-> TRUE, is |-> x]], x, 0)
         /\ Readable([i \in {0, 1} |-> [ok |-> TRUE, is |-> x]])
<1> DEFINE mem == [i \in {0, 1} |-> x]
           pair == [i \in {0, 1} |-> [ok |-> TRUE, is |-> x]]
<1>1. Copies(pair) = mem
  BY DEF Copies
<1>2. Newer(mem) = 1 /\ mem[1] = x
  BY DEF Newer
<1>3. UpTo(pair, x) /\ Readable(pair)
  BY DEF UpTo, Readable
<1>4. mem \in MemPairs(X) /\ pair \in FilePairs(X)
  BY DEF MemPairs, FilePairs
<1> HIDE DEF mem, pair
<1>5. PairInv(mem, 1, pair, x, 0)
  BY <1>1, <1>2, <1>3 DEF PairInv, OpensAs
<1> QED BY <1>3, <1>4, <1>5 DEF mem, pair

-----------------------------------------------------------------------------
(* The steps.                                                              *)

\* What is counted in a pair is a number.
LEMMA KindsCounted ==
  ASSUME CardImageAssumption
  PROVE  /\ Counted(Directories) /\ Counted(Tables)
         /\ \A d \in Directories : d.files \in DirFiles
BY DEF Counted, Directories, Tables, DirFiles, CardImageAssumption

\* The current copies are of their kind.
LEMMA CurrentTyped ==
  ASSUME CardImageAssumption, ImageTypesInv
  PROVE  /\ Dir \in Directories /\ Bat \in Tables /\ Dir.files \in DirFiles
         /\ saved.dir \in Directories /\ saved.bat \in Tables /\ saved.dir.files \in DirFiles
         /\ image.dirs \in FilePairs(Directories) /\ image.bats \in FilePairs(Tables)
<1>1. /\ saved.dir \in Directories /\ saved.bat \in Tables
      /\ image.dirs \in FilePairs(Directories) /\ image.bats \in FilePairs(Tables)
  BY DEF ImageTypesInv
<1>2. Dir \in Directories /\ Bat \in Tables
  BY DEF ImageTypesInv, Dir, Bat, MemPairs
<1> QED BY <1>1, <1>2, KindsCounted

\* What is tidy does not depend on the counter of the table, and stays so as more numbers
\* are given out.
LEMMA TidyCounts ==
  ASSUME CardImageAssumption, NEW files \in DirFiles, NEW bat, NEW bat2, NEW data, NEW wr,
         NEW ops \in Nat, NEW ops2 \in Nat, ops <= ops2,
         TidyCard(files, bat, data, wr, ops), bat2.map = bat.map, bat2.free = bat.free
  PROVE  TidyCard(files, bat2, data, wr, ops2)
<1>1. ChainsWhole(files, bat2)
  BY DEF TidyCard, ChainsWhole
<1>2. OwnData(files, bat2, data, wr)
  BY DEF TidyCard, OwnData
<1>3. UidsOnce(files, ops2)
  <2>1. \A s \in EntriesOf(files) : files[s].uid \in Nat
    BY DEF EntriesOf, DirFiles, FileRecords
  <2> QED BY <2>1 DEF TidyCard, UidsOnce
<1> QED BY <1>1, <1>2, <1>3 DEF TidyCard

\* A table in which nothing has changed but the counter.
LEMMA OnlyRenamedSelf ==
  ASSUME NEW files, NEW map
  PROVE  OnlyRenamed(files, map, files, map)
BY DEF OnlyRenamed, EntriesOf

\* Renames after renames are renames.
LEMMA OnlyRenamedOn ==
  ASSUME CardImageAssumption, NEW files0 \in DirFiles, NEW files \in DirFiles,
         NEW bat0 \in Tables, NEW bat \in Tables, NEW data, NEW wr, NEW ops \in Nat,
         TidyCard(files0, bat0, data, wr, ops), TidyCard(files, bat, data, wr, ops),
         OnlyRenamed(files, bat.map, files0, bat0.map),
         NEW files2 \in DirFiles, NEW map2, OnlyRenamed(files2, map2, files, bat.map)
  PROVE  OnlyRenamed(files2, map2, files0, bat0.map)
<1>1. \A t \in EntriesOf(files) :
        /\ t \in EntriesOf(files0) /\ files[t].count = files0[t].count
        /\ files[t].uid = files0[t].uid /\ files[t].first = files0[t].first
        /\ \A i \in 1..files0[t].count :
             BlockOf(bat.map, files[t], i) = BlockOf(bat0.map, files0[t], i)
  BY KeptTidy DEF TidyCard, ChainsWhole
<1>2. \A t \in EntriesOf(files) : \A i \in 1..files0[t].count :
        bat.map[BlockOf(bat0.map, files0[t], i)] = bat0.map[BlockOf(bat0.map, files0[t], i)]
  BY DEF OnlyRenamed
<1>3. ASSUME NEW t \in EntriesOf(files2)
      PROVE  /\ t \in EntriesOf(files) /\ files[t].uid = files2[t].uid
             /\ files[t].first = files2[t].first /\ files[t].count = files2[t].count
             /\ \A i \in 1..files[t].count :
                  map2[BlockOf(bat.map, files[t], i)] = bat.map[BlockOf(bat.map, files[t], i)]
  BY DEF OnlyRenamed, EntriesOf
<1>4. ASSUME NEW t \in EntriesOf(files2), NEW i \in 1..files0[t].count
      PROVE  map2[BlockOf(bat0.map, files0[t], i)] = bat0.map[BlockOf(bat0.map, files0[t], i)]
  <2>1. /\ t \in EntriesOf(files) /\ i \in 1..files[t].count
        /\ BlockOf(bat.map, files[t], i) = BlockOf(bat0.map, files0[t], i)
    BY <1>1, <1>3
  <2> QED BY <2>1, <1>2, <1>3
<1>5. \A t \in EntriesOf(files0) : files0[t] # NoFile
  BY DEF EntriesOf
<1> QED BY <1>1, <1>3, <1>4, <1>5 DEF OnlyRenamed

\* An update to a directory and a table that are tidy together.
LEMMA ImageUpdateKeeps ==
  ASSUME CardImageAssumption, ImageInv, CardCalls, NEW files \in DirFiles, NEW bat \in Tables,
         bat.ctr = Bat.ctr, NEW commits \in BOOLEAN, UpdateDirAndBat(files, bat, commits),
         TidyCard(files, bat, imgData, wrote, imgOps + 1),
         commits \/ OnlyRenamed(files, bat.map, saved.dir.files, saved.bat.map)
  PROVE  ImageInv'
<1> DEFINE d == [ctr |-> Dir.ctr + 1, files |-> files]
           b == [bat EXCEPT !.ctr = @ + 1]
<1>1. ImageTypesInv /\ CountersInv /\ CopiesInv /\ NamesInv /\ ContentsInv
  BY DEF ImageInv
<1>2. /\ Dir \in Directories /\ Bat \in Tables /\ saved.dir.files \in DirFiles
      /\ image.dirs \in FilePairs(Directories) /\ image.bats \in FilePairs(Tables)
  BY <1>1, CurrentTyped
<1>3. /\ imgOps \in Nat /\ imgOps < MaxUpdates /\ imgOps' = imgOps + 1 /\ imgPending \in Nat
      /\ curDir \in {0, 1} /\ curBat \in {0, 1} /\ curDir' = 1 - curDir /\ curBat' = 1 - curBat
      /\ dirs' = [dirs EXCEPT ![1 - curDir] = d] /\ bats' = [bats EXCEPT ![1 - curBat] = b]
      /\ imgDirty' = TRUE /\ imgOwed' = commits /\ imgPending' = imgPending + 1
      /\ UNCHANGED <<image, imgData, wrote, saved, imgWrites, tears>>
      /\ dirs \in MemPairs(Directories) /\ bats \in MemPairs(Tables)
  BY <1>1 DEF UpdateDirAndBat, ImageTypesInv
<1>4. /\ Dir.ctr <= imgOps /\ Bat.ctr <= imgOps /\ Dir.ctr \in Nat /\ Bat.ctr \in Nat
      /\ MaxUpdates \in Nat
  <2>1. Dir.ctr <= imgOps /\ Bat.ctr <= imgOps
    BY <1>1, <1>3 DEF CountersInv, Dir, Bat
  <2> QED BY <2>1, <1>2, KindsCounted DEF Counted, CardImageAssumption
<1>5. /\ d \in Directories /\ d.ctr = Dir.ctr + 1 /\ d.files = files
      /\ b \in Tables /\ b.ctr = Bat.ctr + 1 /\ b.map = bat.map /\ b.free = bat.free
  <2>1. d \in Directories
    BY <1>3, <1>4 DEF Directories, DirFiles
  <2>2. b \in Tables /\ b.ctr = Bat.ctr + 1 /\ b.map = bat.map /\ b.free = bat.free
    BY <1>3, <1>4 DEF Tables
  <2> QED BY <2>1, <2>2
<1> HIDE DEF d, b
<1>6. /\ PairInv(dirs', curDir', image.dirs, saved.dir, imgPending + 1)
      /\ dirs' \in MemPairs(Directories) /\ Dir' = d
  <2>1. /\ PairInv(dirs, curDir, image.dirs, saved.dir, imgPending)
        /\ d \in Directories /\ d.ctr = dirs[curDir].ctr + 1 /\ Counted(Directories)
    BY <1>1, <1>5, KindsCounted DEF CopiesInv, Dir
  <2>2. /\ dirs' = [dirs EXCEPT ![1 - curDir] = d] /\ curDir' = 1 - curDir
        /\ dirs \in MemPairs(Directories) /\ curDir \in {0, 1} /\ image.dirs \in FilePairs(Directories)
        /\ imgPending \in Nat
    BY <1>2, <1>3
  <2>3. dirs' \in MemPairs(Directories) /\ dirs'[curDir'] = d /\ dirs'[curDir] = dirs[curDir]
    BY <2>1, <2>2 DEF MemPairs
  <2>4. PairInv(dirs', curDir', image.dirs, saved.dir, imgPending + 1)
    BY ONLY <2>1, <2>2, <2>3, PairUpdated
  <2> QED BY <2>3, <2>4 DEF Dir
<1>7. /\ PairInv(bats', curBat', image.bats, saved.bat, imgPending + 1)
      /\ bats' \in MemPairs(Tables) /\ Bat' = b
  <2>1. /\ PairInv(bats, curBat, image.bats, saved.bat, imgPending)
        /\ b \in Tables /\ b.ctr = bats[curBat].ctr + 1 /\ Counted(Tables)
    BY <1>1, <1>5, KindsCounted DEF CopiesInv, Bat
  <2>2. /\ bats' = [bats EXCEPT ![1 - curBat] = b] /\ curBat' = 1 - curBat
        /\ bats \in MemPairs(Tables) /\ curBat \in {0, 1} /\ image.bats \in FilePairs(Tables)
        /\ imgPending \in Nat
    BY <1>2, <1>3
  <2>3. bats' \in MemPairs(Tables) /\ bats'[curBat'] = b /\ bats'[curBat] = bats[curBat]
    BY <2>1, <2>2 DEF MemPairs
  <2>4. PairInv(bats', curBat', image.bats, saved.bat, imgPending + 1)
    BY ONLY <2>1, <2>2, <2>3, PairUpdated
  <2> QED BY <2>3, <2>4 DEF Bat
<1>8. ImageTypesInv'
  <2>1. curDir' \in {0, 1} /\ curBat' \in {0, 1} /\ imgOps' \in 0..MaxUpdates /\ imgPending' \in Nat
    BY <1>3, <1>4
  <2> QED BY <2>1, <1>1, <1>3, <1>6, <1>7 DEF ImageTypesInv
<1>9. CountersInv'
  <2>1. \A i \in {0, 1} : dirs[i].ctr \in Nat /\ bats[i].ctr \in Nat
                          /\ image.dirs[i].is.ctr \in Nat /\ image.bats[i].is.ctr \in Nat
    BY <1>2, <1>3, KindsCounted DEF Counted, MemPairs, FilePairs
  <2>2. \A i \in {0, 1} : dirs'[i].ctr <= imgOps + 1 /\ bats'[i].ctr <= imgOps + 1
    <3>1. \A i \in {0, 1} : dirs'[i] \in {dirs[i], d} /\ bats'[i] \in {bats[i], b}
      BY <1>3 DEF MemPairs
    <3> QED BY <3>1, <2>1, <1>1, <1>3, <1>4, <1>5 DEF CountersInv
  <2>3. \A i \in {0, 1} : image'.dirs[i].is.ctr <= imgOps' /\ image'.bats[i].is.ctr <= imgOps'
    BY <2>1, <1>1, <1>3 DEF CountersInv
  <2>4. \A u \in 1..MaxUpdates, k \in 1..MaxCount : u > imgOps' => wrote'[<<u, k>>] = 0
    BY <1>1, <1>3 DEF CountersInv
  <2>5. imgPending' <= imgOps'
    BY <1>1, <1>3 DEF CountersInv
  <2> QED BY <2>2, <2>3, <2>4, <2>5, <1>3 DEF CountersInv
<1>10. CopiesInv'
  <2>1. imgPending' # 0
    BY <1>3
  <2> QED BY <2>1, <1>3, <1>6, <1>7 DEF CopiesInv
<1>11. ContentsInv'
  <2>1. ~ CopiesSplit /\ TidyCard(saved.dir.files, saved.bat, imgData, wrote, imgOps)
        /\ saved.dir.ctr = saved.bat.ctr /\ Dir.ctr = Bat.ctr /\ ImageReadable
    BY <1>1 DEF CardCalls, ContentsInv, CopiesSplit, ImageLost
  <2>2. /\ TidyCard(files, b, imgData, wrote, imgOps + 1)
        /\ TidyCard(saved.dir.files, saved.bat, imgData, wrote, imgOps + 1)
    BY <2>1, <1>2, <1>3, <1>5, TidyCounts
  <2>3. ~ ImageLost'
    BY <2>1, <1>3, <1>5, <1>6, <1>7 DEF CopiesSplit, ImageLost, ImageReadable
  <2>5. /\ Dir'.files = files /\ Bat' = b /\ saved' = saved /\ imgData' = imgData
        /\ wrote' = wrote /\ imgOps' = imgOps + 1 /\ Bat'.map = bat.map
    BY <1>3, <1>5, <1>6, <1>7
  <2> QED BY <2>1, <2>2, <2>3, <2>5, <1>3 DEF ContentsInv
<1>12. NamesInv'
  <2>1. NamesOnce(d.files)
    BY <1>5 DEF TidyCard
  <2>2. \A i \in {0, 1} : dirs'[i] \in {dirs[i], d}
    BY <1>3 DEF MemPairs
  <2> QED BY <2>1, <2>2, <1>1, <1>3 DEF NamesInv
<1> QED BY <1>8, <1>9, <1>10, <1>11, <1>12 DEF ImageInv

\* A new file.
LEMMA ImageCreateKeeps ==
  ASSUME CardImageAssumption, ImageInv, NEW n \in CardNames, NEW count \in 1..MaxCount,
         CreateFile(n, count)
  PROVE  ImageInv'
<1>1. ImageTypesInv /\ CountersInv /\ ContentsInv
  BY DEF ImageInv
<1>2. PICK s \in DirSlots, new \in FreePlaces(Bat, count) :
        /\ FirstFree(s)
        /\ UpdateDirAndBat(
             [Dir.files EXCEPT ![s] = FileEntry(n, imgOps + 1, Place(Bat, new[1]), count)],
             Allocated(Bat, count, new), TRUE)
  BY DEF CreateFile
<1> DEFINE files == [Dir.files EXCEPT ![s] = FileEntry(n, imgOps + 1, Place(Bat, new[1]), count)]
           bat == Allocated(Bat, count, new)
<1>3. CardCalls /\ NamedSo(n) = {} /\ count <= Bat.free
  BY DEF CreateFile
<1>4. /\ Dir.files \in DirFiles /\ Bat \in Tables
      /\ TidyCard(Dir.files, Bat, imgData, wrote, imgOps)
  BY <1>1, <1>3, CurrentTyped DEF CardCalls, ContentsInv, ImageLost
<1>5. imgOps \in Nat /\ imgOps < MaxUpdates
  BY <1>1, <1>2 DEF ImageTypesInv, UpdateDirAndBat
<1>6. \A k \in 1..MaxCount : wrote[<<imgOps + 1, k>>] = 0
  <2>1. imgOps + 1 \in 1..MaxUpdates /\ imgOps + 1 > imgOps
    BY <1>5 DEF CardImageAssumption
  <2> QED BY <2>1, <1>1 DEF CountersInv
<1>7. s \notin EntriesOf(Dir.files) /\ \A t \in EntriesOf(Dir.files) : Dir.files[t].name # n
  BY <1>2, <1>3 DEF FirstFree, NamedSo, Held
<1>8. files \in DirFiles /\ bat \in Tables /\ bat.ctr = Bat.ctr
      /\ TidyCard(files, bat, imgData, wrote, imgOps + 1)
  BY <1>3, <1>4, <1>5, <1>6, <1>7, CreateTidy
<1>9. UpdateDirAndBat(files, bat, TRUE)
  BY <1>2
<1> HIDE DEF files, bat
<1> QED BY <1>3, <1>8, <1>9, ImageUpdateKeeps

\* One file less, or a name another: with the blocks of the file o freed, or with the table as
\* it was.
LEMMA ImageLessKeeps ==
  ASSUME CardImageAssumption, ImageInv, CardCalls, NEW files \in DirFiles, NEW bat,
         NEW commits \in BOOLEAN, UpdateDirAndBat(files, bat, commits), NamesOnce(files),
         \A t \in EntriesOf(files) :
           /\ t \in Held /\ files[t].uid = Dir.files[t].uid
           /\ files[t].first = Dir.files[t].first /\ files[t].count = Dir.files[t].count,
         \/ bat = Bat
         \/ \E o \in Held \ EntriesOf(files) : bat = Deleted(Bat, Dir.files[o])
  PROVE  ImageInv'
<1>1. ImageTypesInv /\ ContentsInv
  BY DEF ImageInv
<1>2. /\ Dir.files \in DirFiles /\ Bat \in Tables /\ saved.dir.files \in DirFiles
      /\ saved.bat \in Tables /\ imgOps \in Nat
      /\ TidyCard(Dir.files, Bat, imgData, wrote, imgOps)
      /\ TidyCard(saved.dir.files, saved.bat, imgData, wrote, imgOps)
      /\ OnlyRenamed(Dir.files, Bat.map, saved.dir.files, saved.bat.map)
  BY <1>1, CurrentTyped DEF CardCalls, ContentsInv, ImageTypesInv, ImageLost
<1>3. ChainsWhole(Dir.files, Bat) /\ Held = EntriesOf(Dir.files)
  BY <1>2 DEF TidyCard, Held
<1>4. /\ bat \in Tables /\ bat.free = Cardinality(FreeBlocks(bat.map)) /\ bat.ctr = Bat.ctr
      /\ \A t \in EntriesOf(files) : \A i \in 1..Dir.files[t].count :
           bat.map[BlockOf(Bat.map, Dir.files[t], i)] = Bat.map[BlockOf(Bat.map, Dir.files[t], i)]
  <2>1. CASE bat = Bat
    BY <2>1, <1>2, <1>3 DEF ChainsWhole
  <2>2. ASSUME NEW o \in Held \ EntriesOf(files), bat = Deleted(Bat, Dir.files[o])
        PROVE  /\ bat \in Tables /\ bat.free = Cardinality(FreeBlocks(bat.map)) /\ bat.ctr = Bat.ctr
               /\ \A t \in EntriesOf(files) : \A i \in 1..Dir.files[t].count :
                    bat.map[BlockOf(Bat.map, Dir.files[t], i)] =
                      Bat.map[BlockOf(Bat.map, Dir.files[t], i)]
    <3>1. /\ bat \in Tables /\ bat.free = Cardinality(FreeBlocks(bat.map)) /\ bat.ctr = Bat.ctr
          /\ \A t \in EntriesOf(Dir.files) \ {o} : \A i \in 1..Dir.files[t].count :
               bat.map[BlockOf(Bat.map, Dir.files[t], i)] =
                 Bat.map[BlockOf(Bat.map, Dir.files[t], i)]
      BY <2>2, <1>2, <1>3, DeleteFrees
    <3>2. \A t \in EntriesOf(files) : t \in EntriesOf(Dir.files) \ {o}
      BY <1>3
    <3> QED BY <3>1, <3>2
  <2> QED BY <2>1, <2>2
<1>5. OnlyRenamed(files, bat.map, Dir.files, Bat.map)
  BY <1>3, <1>4 DEF OnlyRenamed, EntriesOf
<1>6. TidyCard(files, bat, imgData, wrote, imgOps + 1)
  <2>1. imgOps + 1 \in Nat /\ imgOps <= imgOps + 1
    BY <1>2
  <2> QED BY <2>1, <1>2, <1>4, <1>5, KeptTidy
<1>7. OnlyRenamed(files, bat.map, saved.dir.files, saved.bat.map)
  BY <1>2, <1>5, OnlyRenamedOn
<1> QED BY <1>4, <1>6, <1>7, ImageUpdateKeeps

\* CARDDelete keeps the invariant.
LEMMA ImageDeleteKeeps ==
  ASSUME CardImageAssumption, ImageInv, NEW s \in DirSlots, DeleteFile(s)
  PROVE  ImageInv'
<1> DEFINE files == [Dir.files EXCEPT ![s] = NoFile]
           bat == IF Dir.files[s] = NoFile THEN Bat ELSE Deleted(Bat, Dir.files[s])
<1>1. CardCalls /\ UpdateDirAndBat(files, bat, TRUE)
  BY DEF DeleteFile
<1>2. Dir.files \in DirFiles /\ NamesOnce(Dir.files)
  BY CurrentTyped DEF ImageInv, ImageTypesInv, NamesInv, Dir
<1>3. /\ files \in DirFiles /\ EntriesOf(files) = Held \ {s}
      /\ \A t \in EntriesOf(files) : files[t] = Dir.files[t]
  BY <1>2 DEF DirFiles, EntriesOf, Held
<1>4. \/ bat = Bat
      \/ s \in Held \ EntriesOf(files) /\ bat = Deleted(Bat, Dir.files[s])
  BY <1>3 DEF Held, EntriesOf
<1> HIDE DEF files, bat
<1>5. NamesOnce(files)
  BY <1>2, <1>3 DEF NamesOnce, Held
<1> QED BY <1>1, <1>3, <1>4, <1>5, ImageLessKeeps

\* CARDRename, over another file too.
LEMMA ImageRenameKeeps ==
  ASSUME CardImageAssumption, ImageInv, NEW s \in DirSlots, NEW n \in CardNames, RenameFile(s, n)
  PROVE  ImageInv'
<1> DEFINE renamed == [Dir.files EXCEPT ![s].name = n]
<1>1. CardCalls /\ s \in Held /\ Dir.files[s].name # n
  BY DEF RenameFile
<1>2. Dir.files \in DirFiles /\ NamesOnce(Dir.files)
  BY CurrentTyped DEF ImageInv, ImageTypesInv, NamesInv, Dir
<1>3. /\ renamed \in DirFiles /\ EntriesOf(renamed) = Held
      /\ \A t \in Held : /\ renamed[t].uid = Dir.files[t].uid
                         /\ renamed[t].first = Dir.files[t].first
                         /\ renamed[t].count = Dir.files[t].count
                         /\ renamed[t].name = IF t = s THEN n ELSE Dir.files[t].name
  <2>1. Dir.files[s] \in FileRecords /\ s \in DirSlots
    BY <1>1, <1>2 DEF DirFiles, Held, EntriesOf
  <2> DEFINE e == [Dir.files[s] EXCEPT !.name = n]
  <2>2. /\ e \in FileRecords /\ e # NoFile /\ e.name = n /\ e.uid = Dir.files[s].uid
        /\ e.first = Dir.files[s].first /\ e.count = Dir.files[s].count
    BY <2>1 DEF FileRecords, NoFile
  <2>3. renamed = [Dir.files EXCEPT ![s] = e]
    OBVIOUS
  <2> HIDE DEF e, renamed
  <2>4. renamed \in DirFiles /\ renamed[s] = e /\ \A t \in DirSlots \ {s} : renamed[t] = Dir.files[t]
    BY <2>1, <2>2, <2>3, <1>2 DEF DirFiles
  <2>5. EntriesOf(renamed) = Held
    BY <2>2, <2>4, <1>1 DEF EntriesOf, Held
  <2>6. Held \subseteq DirSlots
    BY DEF Held, EntriesOf
  <2> QED BY <2>2, <2>4, <2>5, <2>6
<1>4. CASE NamedSo(n) = {} /\ UpdateDirAndBat(renamed, Bat, FALSE)
  <2> HIDE DEF renamed
  <2>1. NamesOnce(renamed)
    BY <1>2, <1>3, <1>4 DEF NamesOnce, NamedSo, Held
  <2> QED BY <1>1, <1>3, <1>4, <2>1, ImageLessKeeps
<1>5. ASSUME NEW old \in NamedSo(n),
             UpdateDirAndBat([renamed EXCEPT ![old] = NoFile], Deleted(Bat, Dir.files[old]), FALSE)
      PROVE  ImageInv'
  <2> DEFINE files == [renamed EXCEPT ![old] = NoFile]
  <2> HIDE DEF renamed
  <2>1. old \in Held /\ old \in DirSlots /\ old # s /\ \A t \in Held : Dir.files[t].name = n => t = old
    BY <1>1, <1>2 DEF NamedSo, Held, EntriesOf, NamesOnce
  <2>2. /\ files \in DirFiles /\ EntriesOf(files) = Held \ {old}
        /\ \A t \in EntriesOf(files) : files[t] = renamed[t]
    BY <1>3, <2>1 DEF DirFiles, EntriesOf
  <2> HIDE DEF files
  <2>3. NamesOnce(files)
    BY <1>2, <1>3, <2>1, <2>2 DEF NamesOnce, Held
  <2> DEFINE bat == Deleted(Bat, Dir.files[old])
  <2>4. UpdateDirAndBat(files, bat, FALSE)
    BY <1>5 DEF files
  <2>5. \E o \in Held \ EntriesOf(files) : bat = Deleted(Bat, Dir.files[o])
    BY <2>1, <2>2
  <2>6. \A t \in EntriesOf(files) :
          /\ t \in Held /\ files[t].uid = Dir.files[t].uid
          /\ files[t].first = Dir.files[t].first /\ files[t].count = Dir.files[t].count
    BY <1>3, <2>2
  <2> HIDE DEF bat
  <2>7. CardCalls /\ files \in DirFiles
    BY <1>1, <2>2
  <2> QED BY ONLY CardImageAssumption, ImageInv, <2>3, <2>4, <2>5, <2>6, <2>7, ImageLessKeeps
<1> QED BY <1>4, <1>5 DEF RenameFile

\* CARDSetStatus.
LEMMA ImageStatusKeeps ==
  ASSUME CardImageAssumption, ImageInv, NEW s \in DirSlots, SetFileStatus(s)
  PROVE  ImageInv'
<1>1. Dir.files \in DirFiles /\ NamesOnce(Dir.files)
  BY CurrentTyped DEF ImageInv, ImageTypesInv, NamesInv, Dir
<1>2. CardCalls /\ UpdateDirAndBat(Dir.files, Bat, TRUE)
  BY DEF SetFileStatus
<1>3. Held = EntriesOf(Dir.files)
  BY DEF Held
<1> QED BY <1>1, <1>2, <1>3, ImageLessKeeps

\* A block written, of a file that a directory and a table have.
LEMMA TidyWritten ==
  ASSUME CardImageAssumption, NEW files \in DirFiles, NEW bat \in Tables, NEW ops \in Nat,
         NEW data, DOMAIN data = Blocks, NEW wr, DOMAIN wr = (1..MaxUpdates) \X (1..MaxCount),
         TidyCard(files, bat, data, wr, ops), NEW s \in EntriesOf(files),
         NEW k \in 1..files[s].count, NEW v, NEW b, b = BlockOf(bat.map, files[s], k), NEW u,
         u = files[s].uid
  PROVE  TidyCard(files, bat, [data EXCEPT ![b] = v], [wr EXCEPT ![<<u, k>>] = v], ops)
<1> DEFINE data2 == [data EXCEPT ![b] = v]
           wr2 == [wr EXCEPT ![<<u, k>>] = v]
<1>1. ChainsWhole(files, bat) /\ OwnData(files, bat, data, wr) /\ UidsOnce(files, ops)
  BY DEF TidyCard
<1>2. \A t \in EntriesOf(files) : /\ files[t] \in FileRecords /\ files[t].count \in 1..MaxCount
                                  /\ files[t].uid \in 1..MaxUpdates
  BY DEF EntriesOf, DirFiles, FileRecords
<1>3. ASSUME NEW t \in EntriesOf(files), NEW j \in 1..files[t].count
      PROVE  /\ BlockOf(bat.map, files[t], j) \in Blocks
             /\ <<files[t].uid, j>> \in (1..MaxUpdates) \X (1..MaxCount)
             /\ BlockOf(bat.map, files[t], j) = b <=> t = s /\ j = k
             /\ <<files[t].uid, j>> = <<u, k>> <=> t = s /\ j = k
  <2>1. BlockOf(bat.map, files[t], j) \in Blocks
    BY <1>1, ChainLeads
  <2>2. j \in 1..MaxCount
    BY <1>2 DEF CardImageAssumption
  <2>3. BlockOf(bat.map, files[t], j) = b <=> t = s /\ j = k
    BY <1>1 DEF ChainsWhole
  <2>4. <<files[t].uid, j>> = <<u, k>> <=> t = s /\ j = k
    BY <1>1 DEF UidsOnce
  <2> QED BY <2>1, <2>2, <2>3, <2>4, <1>2
<1>4. OwnData(files, bat, data2, wr2)
  <2>1. SUFFICES ASSUME NEW t \in EntriesOf(files), NEW j \in 1..files[t].count,
                        wr2[<<files[t].uid, j>>] # 0
                 PROVE  data2[BlockOf(bat.map, files[t], j)] = wr2[<<files[t].uid, j>>]
    BY DEF OwnData
  <2>2. CASE t = s /\ j = k
    <3>1. data2[b] = v /\ wr2[<<u, k>>] = v
      BY <1>3
    <3> QED BY <2>2, <3>1, <1>3
  <2>3. CASE ~ (t = s /\ j = k)
    <3>1. /\ data2[BlockOf(bat.map, files[t], j)] = data[BlockOf(bat.map, files[t], j)]
          /\ wr2[<<files[t].uid, j>>] = wr[<<files[t].uid, j>>]
      BY <2>3, <1>3
    <3> HIDE DEF data2, wr2
    <3> QED BY <3>1, <2>1, <1>1 DEF OwnData
  <2> QED BY <2>2, <2>3
<1> QED BY <1>4 DEF TidyCard

\* CARDWrite of a block, past the end of the file too.
LEMMA ImageWriteKeeps ==
  ASSUME CardImageAssumption, ImageInv, NEW s \in DirSlots, NEW k \in 1..MaxCount, WriteBlock(s, k)
  PROVE  ImageInv'
<1> DEFINE e == Dir.files[s]
           b == Chain(Bat.map, e.first, k)[k]
<1>1. ImageTypesInv /\ CountersInv /\ CopiesInv /\ NamesInv /\ ContentsInv
  BY DEF ImageInv
<1>2. /\ CardCalls /\ s \in Held /\ imgWrites < MaxBlockWrites /\ b # End
      /\ imgWrites' = imgWrites + 1 /\ imgOwed' = TRUE
      /\ imgData' = [imgData EXCEPT ![b] = imgWrites + 1]
      /\ wrote' = [wrote EXCEPT ![<<e.uid, k>>] = imgWrites + 1]
      /\ UNCHANGED <<dirs, bats, curDir, curBat, imgDirty, image, saved, imgPending, imgOps,
                     tears>>
  BY DEF WriteBlock
<1>3. /\ Dir.files \in DirFiles /\ Bat \in Tables /\ saved.dir.files \in DirFiles
      /\ saved.bat \in Tables /\ imgOps \in Nat /\ ~ ImageLost
      /\ TidyCard(Dir.files, Bat, imgData, wrote, imgOps)
      /\ TidyCard(saved.dir.files, saved.bat, imgData, wrote, imgOps)
      /\ OnlyRenamed(Dir.files, Bat.map, saved.dir.files, saved.bat.map)
      /\ s \in EntriesOf(Dir.files)
  BY <1>1, <1>2, CurrentTyped DEF CardCalls, ContentsInv, ImageTypesInv, Held, ImageLost
<1>4. /\ e \in FileRecords /\ e.count \in Nat /\ e.uid \in 1..MaxUpdates /\ e.uid <= imgOps
      /\ \A i \in 1..e.count : BlockOf(Bat.map, e, i) \in Blocks
      /\ Bat.map[BlockOf(Bat.map, e, e.count)] = End
  <2>1. ChainsWhole(Dir.files, Bat) /\ UidsOnce(Dir.files, imgOps)
    BY <1>3 DEF TidyCard
  <2> QED BY <2>1, <1>3, ChainLeads DEF ChainsWhole, UidsOnce, FileRecords
<1>5. k \in Nat \ {0} /\ k <= e.count /\ b = BlockOf(Bat.map, e, k) /\ k \in 1..e.count /\ b \in Blocks
  <2>1. k \in Nat \ {0}
    OBVIOUS
  <2>2. b = IF k <= e.count THEN BlockOf(Bat.map, e, k) ELSE End
    BY <2>1, <1>4, BlockReached
  <2> QED BY <2>1, <2>2, <1>2, <1>4
<1>6. DOMAIN imgData = Blocks /\ DOMAIN wrote = (1..MaxUpdates) \X (1..MaxCount)
  BY <1>1 DEF ImageTypesInv
<1>7. TidyCard(Dir.files, Bat, imgData', wrote', imgOps)
  BY <1>2, <1>3, <1>5, <1>6, TidyWritten
<1>8. TidyCard(saved.dir.files, saved.bat, imgData', wrote', imgOps)
  <2>1. /\ s \in EntriesOf(saved.dir.files) /\ saved.dir.files[s].count = e.count
        /\ saved.dir.files[s].uid = e.uid
        /\ BlockOf(saved.bat.map, saved.dir.files[s], k) = b
    <3>1. Bat.free = Cardinality(FreeBlocks(Bat.map)) /\ NamesOnce(Dir.files)
      BY <1>3 DEF TidyCard, ChainsWhole
    <3>2. \A t \in EntriesOf(Dir.files) :
            /\ t \in EntriesOf(saved.dir.files) /\ Dir.files[t].count = saved.dir.files[t].count
            /\ Dir.files[t].uid = saved.dir.files[t].uid
            /\ \A i \in 1..saved.dir.files[t].count :
                 BlockOf(Bat.map, Dir.files[t], i) = BlockOf(saved.bat.map, saved.dir.files[t], i)
      BY <1>3, <3>1, KeptTidy
    <3> QED BY <3>2, <1>3, <1>5
  <2> QED BY <2>1, <1>2, <1>3, <1>5, <1>6, TidyWritten
<1> HIDE DEF b, e
<1>9. ImageTypesInv'
  <2>1. imgWrites + 1 \in 0..MaxBlockWrites
    BY <1>1, <1>2 DEF ImageTypesInv, CardImageAssumption
  <2>2. /\ imgData' \in [Blocks -> 0..MaxBlockWrites]
        /\ wrote' \in [(1..MaxUpdates) \X (1..MaxCount) -> 0..MaxBlockWrites]
    BY <2>1, <1>1, <1>2 DEF ImageTypesInv
  <2> QED BY <2>1, <2>2, <1>1, <1>2 DEF ImageTypesInv
<1>10. CountersInv'
  <2>1. ASSUME NEW u \in 1..MaxUpdates, NEW j \in 1..MaxCount, u > imgOps
        PROVE  wrote'[<<u, j>>] = 0
    <3>1. <<u, j>> # <<e.uid, k>>
      BY <2>1, <1>3, <1>4
    <3>2. wrote[<<u, j>>] = 0
      BY <2>1, <1>1 DEF CountersInv
    <3>3. <<u, j>> \in DOMAIN wrote
      BY <1>6
    <3> QED BY <3>1, <3>2, <3>3, <1>2
  <2> QED BY <2>1, <1>1, <1>2 DEF CountersInv
<1>11. CopiesInv'
  BY <1>1, <1>2 DEF CopiesInv
<1>12. ContentsInv'
  <2>1. Dir' = Dir /\ Bat' = Bat /\ saved' = saved /\ imgOps' = imgOps /\ imgOwed' = TRUE
    BY <1>2 DEF Dir, Bat
  <2>2. ~ ImageLost'
    BY <2>1, <1>2, <1>3 DEF CopiesSplit, ImageLost, ImageReadable
  <2> QED BY <2>1, <2>2, <1>1, <1>3, <1>7, <1>8 DEF ContentsInv
<1>13. NamesInv'
  BY <1>1, <1>2 DEF NamesInv
<1> QED BY <1>9, <1>10, <1>11, <1>12, <1>13 DEF ImageInv

\* A commit to its end leaves the copies of the file as those in memory, and what is current
\* is saved.
LEMMA SyncedCopies ==
  ASSUME CardImageAssumption, ImageInv, Synced, ~ ImageLost
  PROVE  /\ image' \in [dirs : FilePairs(Directories), bats : FilePairs(Tables)]
         /\ PairInv(dirs, curDir, image'.dirs, Dir, 0) /\ PairInv(bats, curBat, image'.bats, Bat, 0)
         /\ saved'.dir = Dir /\ saved'.bat = Bat /\ saved' \in [dir : Directories, bat : Tables]
         /\ \A i \in {0, 1} : image'.dirs[i].is.ctr <= imgOps /\ image'.bats[i].is.ctr <= imgOps
         /\ Readable(image'.dirs) /\ Readable(image'.bats)
         /\ \A i \in {0, 1} : NamesOnce(image'.dirs[i].is.files)
<1>1. ImageTypesInv /\ CountersInv /\ CopiesInv /\ NamesInv /\ ContentsInv
  BY DEF ImageInv
<1>2. /\ Dir \in Directories /\ Bat \in Tables
      /\ saved \in [dir : Directories, bat : Tables]
      /\ image \in [dirs : FilePairs(Directories), bats : FilePairs(Tables)]
      /\ image.dirs \in FilePairs(Directories) /\ image.bats \in FilePairs(Tables)
      /\ dirs \in MemPairs(Directories) /\ bats \in MemPairs(Tables)
      /\ curDir \in {0, 1} /\ curBat \in {0, 1} /\ imgPending \in Nat
      /\ Counted(Directories) /\ Counted(Tables)
  BY <1>1, CurrentTyped, KindsCounted DEF ImageTypesInv
<1>3. /\ PairInv(dirs, curDir, image.dirs, saved.dir, imgPending)
      /\ PairInv(bats, curBat, image.bats, saved.bat, imgPending)
  BY <1>1 DEF CopiesInv
<1>4. CASE imgDirty
  <2> DEFINE ds == image'.dirs
             bs == image'.bats
  <2>1. imgPending \in Nat /\ imgPending # 0
    BY <1>1, <1>2, <1>4 DEF CopiesInv
  <2>2. /\ image' = [dirs |-> ds, bats |-> bs] /\ saved' = [dir |-> Dir, bat |-> Bat]
        /\ ds = PutPair(image.dirs, dirs, 4, FALSE) /\ bs = PutPair(image.bats, bats, 2, FALSE)
    <3> HIDE DEF ds, bs
    <3>1. /\ image' = [dirs |-> PutPair(image.dirs, dirs, 4, FALSE),
                       bats |-> PutPair(image.bats, bats, 4 - 2, FALSE)]
          /\ saved' = [dir |-> Dir, bat |-> Bat]
      BY ONLY Synced, <1>4 DEF Synced, Committed
    <3>2. 4 - 2 = 2
      OBVIOUS
    <3>3. PutPair(image.bats, bats, 4 - 2, FALSE) = PutPair(image.bats, bats, 2, FALSE)
      BY ONLY <3>2, Zenon
    <3>4. /\ ds = PutPair(image.dirs, dirs, 4, FALSE)
          /\ bs = PutPair(image.bats, bats, 4 - 2, FALSE)
      BY ONLY <3>1 DEF ds, bs
    <3>5. image' = [dirs |-> ds, bats |-> bs]
      BY ONLY <3>1, <3>4
    <3> QED BY ONLY <3>1, <3>3, <3>4, <3>5
  <2>3. /\ ds \in FilePairs(Directories) /\ PairInv(dirs, curDir, ds, Dir, 0) /\ Readable(ds)
        /\ \A i \in {0, 1} : ds[i].is = dirs[i]
    <3> HIDE DEF ds
    <3>1. dirs \in MemPairs(Directories)
      BY ONLY <1>2
    <3>2. ds = PutPair(image.dirs, dirs, 4, FALSE)
      BY ONLY <2>2
    <3>3. ds \in FilePairs(Directories) /\ AllValid(ds) /\ \A i \in {0, 1} : ds[i].is = dirs[i]
      <4>1. ds = [i \in {0, 1} |-> [ok |-> TRUE, is |-> dirs[i]]]
        BY ONLY <3>2 DEF PutPair
      <4>2. \A i \in {0, 1} : dirs[i] \in Directories
        BY ONLY <3>1 DEF MemPairs
      <4>3. ds \in FilePairs(Directories)
        BY ONLY <4>1, <4>2 DEF FilePairs
      <4> QED BY ONLY <4>1, <4>3 DEF AllValid
    <3>4. PairInv(dirs, curDir, ds, dirs[curDir], 0) /\ Readable(ds)
      <4>1. /\ image.dirs \in FilePairs(Directories) /\ curDir \in {0, 1} /\ Counted(Directories)
            /\ PairInv(dirs, curDir, image.dirs, saved.dir, imgPending)
        BY ONLY <1>2, <1>3
      <4> QED BY ONLY <4>1, <3>1, <3>3, <2>1, PairCommitted
    <3> QED BY ONLY <3>3, <3>4 DEF Dir
  <2>4. /\ bs \in FilePairs(Tables) /\ PairInv(bats, curBat, bs, Bat, 0) /\ Readable(bs)
        /\ \A i \in {0, 1} : bs[i].is = bats[i]
    <3> HIDE DEF bs
    <3>1. bats \in MemPairs(Tables)
      BY ONLY <1>2
    <3>2. bs = PutPair(image.bats, bats, 2, FALSE)
      BY ONLY <2>2
    <3>3. bs \in FilePairs(Tables) /\ AllValid(bs) /\ \A i \in {0, 1} : bs[i].is = bats[i]
      <4>1. bs = [i \in {0, 1} |-> [ok |-> TRUE, is |-> bats[i]]]
        BY ONLY <3>2 DEF PutPair
      <4>2. \A i \in {0, 1} : bats[i] \in Tables
        BY ONLY <3>1 DEF MemPairs
      <4>3. bs \in FilePairs(Tables)
        BY ONLY <4>1, <4>2 DEF FilePairs
      <4> QED BY ONLY <4>1, <4>3 DEF AllValid
    <3>4. PairInv(bats, curBat, bs, bats[curBat], 0) /\ Readable(bs)
      <4>1. /\ image.bats \in FilePairs(Tables) /\ curBat \in {0, 1} /\ Counted(Tables)
            /\ PairInv(bats, curBat, image.bats, saved.bat, imgPending)
        BY ONLY <1>2, <1>3
      <4> QED BY ONLY <4>1, <3>1, <3>3, <2>1, PairCommitted
    <3> QED BY ONLY <3>3, <3>4 DEF Bat
  <2>5. \A i \in {0, 1} : ds[i].is.ctr <= imgOps /\ bs[i].is.ctr <= imgOps
    BY <2>3, <2>4, <1>1 DEF CountersInv
  <2>6. /\ image' \in [dirs : FilePairs(Directories), bats : FilePairs(Tables)]
        /\ saved'.dir = Dir /\ saved'.bat = Bat /\ saved' \in [dir : Directories, bat : Tables]
    BY <2>2, <2>3, <2>4, <1>2
  <2>7. \A i \in {0, 1} : NamesOnce(ds[i].is.files)
    BY <2>3, <1>1 DEF NamesInv
  <2> QED BY <2>3, <2>4, <2>5, <2>6, <2>7
<1>5. CASE ~ imgDirty
  <2>1. imgPending = 0 /\ image' = image /\ saved' = saved
    BY <1>1, <1>5 DEF CopiesInv, Synced
  <2>2. saved.dir = Dir /\ saved.bat = Bat
    BY <2>1, <1>3 DEF PairInv, OpensAs, Dir, Bat
  <2>3. Readable(image'.dirs) /\ Readable(image'.bats)
    BY <2>1 DEF ImageLost, ImageReadable
  <2> QED BY <2>1, <2>2, <2>3, <1>1, <1>2, <1>3 DEF CountersInv, NamesInv
<1> QED BY <1>4, <1>5

\* A commit to its end.
LEMMA ImageCommitKeeps ==
  ASSUME CardImageAssumption, ImageInv, CommitImage
  PROVE  ImageInv'
<1>1. ImageTypesInv /\ CountersInv /\ CopiesInv /\ NamesInv /\ ContentsInv
  BY DEF ImageInv
<1>2. /\ imgOwed /\ imgOwed' = FALSE /\ Synced /\ imgDirty' = FALSE /\ imgPending' = 0
      /\ UNCHANGED <<dirs, bats, curDir, curBat, imgData, wrote, imgOps, imgWrites, tears>>
  BY DEF CommitImage
<1>3. ~ ImageLost /\ Dir' = Dir /\ Bat' = Bat
  BY <1>1, <1>2 DEF ContentsInv, Dir, Bat
<1>4. /\ image' \in [dirs : FilePairs(Directories), bats : FilePairs(Tables)]
      /\ PairInv(dirs, curDir, image'.dirs, Dir, 0) /\ PairInv(bats, curBat, image'.bats, Bat, 0)
      /\ saved'.dir = Dir /\ saved'.bat = Bat /\ saved' \in [dir : Directories, bat : Tables]
      /\ \A i \in {0, 1} : image'.dirs[i].is.ctr <= imgOps /\ image'.bats[i].is.ctr <= imgOps
      /\ ImageReadable' /\ \A i \in {0, 1} : NamesOnce(image'.dirs[i].is.files)
  BY <1>2, <1>3, SyncedCopies DEF ImageReadable
<1>5. ImageTypesInv'
  BY <1>1, <1>2, <1>4 DEF ImageTypesInv
<1>6. CountersInv'
  <2>1. 0 <= imgOps
    BY <1>1 DEF ImageTypesInv
  <2> QED BY <2>1, <1>1, <1>2, <1>4 DEF CountersInv
<1>7. CopiesInv'
  BY <1>2, <1>4 DEF CopiesInv
<1>8. ContentsInv'
  <2>1. TidyCard(Dir.files, Bat, imgData, wrote, imgOps) /\ Dir.ctr = Bat.ctr
    BY <1>1, <1>3 DEF ContentsInv, CopiesSplit, ImageLost
  <2>2. OnlyRenamed(Dir.files, Bat.map, Dir.files, Bat.map)
    BY OnlyRenamedSelf
  <2> QED BY <2>1, <2>2, <1>2, <1>3, <1>4 DEF ContentsInv, CopiesSplit, ImageLost
<1>9. NamesInv'
  BY <1>1, <1>2, <1>4 DEF NamesInv
<1> QED BY <1>5, <1>6, <1>7, <1>8, <1>9 DEF ImageInv

\* A file opened: what was saved is what it opens as.
LEMMA ImageOpenKeeps ==
  ASSUME CardImageAssumption, ImageInv,
         image' \in [dirs : FilePairs(Directories), bats : FilePairs(Tables)],
         UpTo(image'.dirs, saved'.dir), UpTo(image'.bats, saved'.bat), Opened(image'),
         saved' \in [dir : Directories, bat : Tables],
         saved'.dir = OpensAs(image'.dirs), saved'.bat = OpensAs(image'.bats),
         \A i \in {0, 1} : image'.dirs[i].is.ctr <= imgOps /\ image'.bats[i].is.ctr <= imgOps,
         UNCHANGED <<imgData, wrote, imgOps, imgWrites>>, tears' \in 0..MaxTears,
         \A i \in {0, 1} : NamesOnce(image'.dirs[i].is.files),
         ImageReadable' /\ saved'.dir.ctr = saved'.bat.ctr =>
           TidyCard(saved'.dir.files, saved'.bat, imgData, wrote, imgOps)
  PROVE  ImageInv' /\ Dir' = saved'.dir /\ Bat' = saved'.bat
<1>1. ImageTypesInv /\ CountersInv
  BY DEF ImageInv
<1>2. /\ dirs' = Copies(image'.dirs) /\ curDir' = Newer(Copies(image'.dirs))
      /\ bats' = Copies(image'.bats) /\ curBat' = Newer(Copies(image'.bats))
      /\ imgDirty' = FALSE /\ imgOwed' = FALSE /\ imgPending' = 0
  BY DEF Opened
<1>3. image'.dirs \in FilePairs(Directories) /\ image'.bats \in FilePairs(Tables)
  OBVIOUS
<1>4. /\ dirs' \in MemPairs(Directories) /\ curDir' \in {0, 1}
      /\ \A i \in {0, 1} : \E j \in {0, 1} : dirs'[i] = image'.dirs[j].is
  BY <1>2, <1>3, KindsCounted, PairOpens
<1>5. /\ bats' \in MemPairs(Tables) /\ curBat' \in {0, 1}
      /\ \A i \in {0, 1} : \E j \in {0, 1} : bats'[i] = image'.bats[j].is
  BY <1>2, <1>3, KindsCounted, PairOpens
<1>6. Dir' = saved'.dir /\ Bat' = saved'.bat
  BY <1>2 DEF Dir, Bat, OpensAs
<1>7. ImageTypesInv'
  BY <1>1, <1>2, <1>4, <1>5 DEF ImageTypesInv
<1>8. CountersInv'
  <2>1. \A i \in {0, 1} : dirs'[i].ctr <= imgOps /\ bats'[i].ctr <= imgOps
    BY <1>4, <1>5
  <2>2. 0 <= imgOps
    BY <1>1 DEF ImageTypesInv
  <2> QED BY <2>1, <2>2, <1>1, <1>2 DEF CountersInv
<1>9. CopiesInv'
  <2>1. /\ PairInv(dirs', curDir', image'.dirs, saved'.dir, 0)
        /\ PairInv(bats', curBat', image'.bats, saved'.bat, 0)
    BY <1>2, PairAsOpened
  <2> QED BY <2>1, <1>2 DEF CopiesInv
<1>10. ContentsInv'
  <2>1. /\ imgData' = imgData /\ wrote' = wrote /\ imgOps' = imgOps
        /\ imgOwed' = FALSE /\ imgDirty' = FALSE
    BY <1>2
  <2>2. OnlyRenamed(Dir'.files, Bat'.map, saved'.dir.files, saved'.bat.map)
    BY <1>6, OnlyRenamedSelf
  <2>3. CopiesSplit' <=> saved'.dir.ctr # saved'.bat.ctr
    BY <1>6 DEF CopiesSplit
  <2> QED BY <2>1, <2>2, <2>3, <1>6 DEF ContentsInv, ImageLost
<1>11. NamesInv'
  BY <1>4 DEF NamesInv
<1> QED BY <1>6, <1>7, <1>8, <1>9, <1>10, <1>11 DEF ImageInv

\* The file closed and opened again.
LEMMA ImageReopenKeeps ==
  ASSUME CardImageAssumption, ImageInv, ReopenImage
  PROVE  ImageInv'
<1>1. /\ ~ ImageLost /\ Synced /\ Opened(image')
      /\ UNCHANGED <<imgData, wrote, imgOps, imgWrites, tears>>
  BY DEF ReopenImage, CardCalls, ImageLost
<1>2. TidyCard(Dir.files, Bat, imgData, wrote, imgOps) /\ tears \in 0..MaxTears
  BY <1>1 DEF ImageInv, ContentsInv, ImageTypesInv
<1>3. /\ image' \in [dirs : FilePairs(Directories), bats : FilePairs(Tables)]
      /\ PairInv(dirs, curDir, image'.dirs, Dir, 0) /\ PairInv(bats, curBat, image'.bats, Bat, 0)
      /\ saved'.dir = Dir /\ saved'.bat = Bat /\ saved' \in [dir : Directories, bat : Tables]
      /\ \A i \in {0, 1} : image'.dirs[i].is.ctr <= imgOps /\ image'.bats[i].is.ctr <= imgOps
      /\ \A i \in {0, 1} : NamesOnce(image'.dirs[i].is.files)
  BY <1>1, SyncedCopies
<1>4. /\ UpTo(image'.dirs, saved'.dir) /\ UpTo(image'.bats, saved'.bat)
      /\ saved'.dir = OpensAs(image'.dirs) /\ saved'.bat = OpensAs(image'.bats)
  BY <1>3 DEF PairInv
<1> QED BY <1>1, <1>2, <1>3, <1>4, ImageOpenKeeps

\* The process dies between calls.
LEMMA ImageCrashKeeps ==
  ASSUME CardImageAssumption, ImageInv, CrashImage
  PROVE  ImageInv'
<1>1. /\ ~ ImageLost /\ Opened(image)
      /\ UNCHANGED <<image, imgData, wrote, saved, imgOps, imgWrites, tears>>
  BY DEF CrashImage, CardCalls, ImageLost
<1>2. /\ ImageTypesInv /\ CountersInv /\ NamesInv
      /\ TidyCard(saved.dir.files, saved.bat, imgData, wrote, imgOps)
      /\ PairInv(dirs, curDir, image.dirs, saved.dir, imgPending)
      /\ PairInv(bats, curBat, image.bats, saved.bat, imgPending)
  BY <1>1 DEF ImageInv, ContentsInv, CopiesInv
<1>3. /\ UpTo(image.dirs, saved.dir) /\ UpTo(image.bats, saved.bat)
      /\ OpensAs(image.dirs) = saved.dir /\ OpensAs(image.bats) = saved.bat
  BY <1>2 DEF PairInv
<1>4. /\ image' = image /\ saved' = saved /\ tears' \in 0..MaxTears /\ Opened(image')
      /\ image \in [dirs : FilePairs(Directories), bats : FilePairs(Tables)]
      /\ saved \in [dir : Directories, bat : Tables]
      /\ \A i \in {0, 1} : image.dirs[i].is.ctr <= imgOps /\ image.bats[i].is.ctr <= imgOps
      /\ \A i \in {0, 1} : NamesOnce(image.dirs[i].is.files)
  <2>1. image' = image /\ saved' = saved
    BY <1>1
  <2>2. Opened(image')
    BY <1>1, <2>1 DEF Opened
  <2> QED BY <2>1, <2>2, <1>1, <1>2 DEF ImageTypesInv, CountersInv, NamesInv
<1> QED BY <1>1, <1>2, <1>3, <1>4, ImageOpenKeeps

\* A commit cut short.
LEMMA ImageTearKeeps ==
  ASSUME CardImageAssumption, ImageInv, NEW n \in 0..3, NEW torn \in BOOLEAN,
         TearCommit(n, torn)
  PROVE  /\ ImageInv'
         /\ AllValid(image.dirs) /\ AllValid(image.bats) => ImageReadable'
         /\ ImageReadable' /\ (imgPending = 1 \/ ~ CopiesSplit') =>
              Dir' \in {saved.dir, Dir} /\ Bat' \in {saved.bat, Bat}
<1> DEFINE ds == PutPair(image.dirs, dirs, n, torn)
           bs == PutPair(image.bats, bats, n - 2, torn)
<1>1. /\ imgOwed /\ imgDirty /\ image' = [dirs |-> ds, bats |-> bs] /\ Opened(image')
      /\ saved' = [dir |-> Dir', bat |-> Bat']
      /\ UNCHANGED <<imgData, wrote, imgOps, imgWrites>>
      /\ tears < MaxTears /\ tears' = tears + 1
  BY DEF TearCommit, Committed
<1>2. ImageTypesInv /\ CountersInv /\ CopiesInv /\ NamesInv /\ ContentsInv
  BY DEF ImageInv
<1>3. /\ Dir \in Directories /\ Bat \in Tables /\ saved.dir \in Directories /\ saved.bat \in Tables
      /\ image.dirs \in FilePairs(Directories) /\ image.bats \in FilePairs(Tables)
      /\ dirs \in MemPairs(Directories) /\ bats \in MemPairs(Tables)
      /\ curDir \in {0, 1} /\ curBat \in {0, 1}
      /\ Counted(Directories) /\ Counted(Tables)
  BY <1>2, CurrentTyped, KindsCounted DEF ImageTypesInv
<1>4. /\ PairInv(dirs, curDir, image.dirs, saved.dir, imgPending)
      /\ PairInv(bats, curBat, image.bats, saved.bat, imgPending)
      /\ imgPending \in Nat /\ imgPending # 0
  BY <1>1, <1>2 DEF CopiesInv, ImageTypesInv
<1>5. n \in Int /\ n - 2 \in Int
  OBVIOUS
<1>6. /\ ds \in FilePairs(Directories) /\ UpTo(ds, OpensAs(ds))
      /\ AllValid(image.dirs) => Readable(ds)
      /\ Readable(ds) => /\ OpensAs(ds).ctr = saved.dir.ctr => OpensAs(ds) = saved.dir
                         /\ OpensAs(ds).ctr = Dir.ctr => OpensAs(ds) = Dir
                         /\ imgPending = 1 => OpensAs(ds) \in {saved.dir, Dir}
      /\ \A i \in {0, 1} : ds[i].is \in {image.dirs[i].is, dirs[i]}
      /\ n >= 2 => OpensAs(ds) = Dir
  <2>0. ds = PutPair(image.dirs, dirs, n, torn)
    OBVIOUS
  <2> HIDE DEF ds
  <2>1. /\ ds \in FilePairs(Directories) /\ UpTo(ds, OpensAs(ds))
        /\ AllValid(image.dirs) => Readable(ds)
        /\ Readable(ds) =>
             /\ OpensAs(ds).ctr = saved.dir.ctr => OpensAs(ds) = saved.dir
             /\ OpensAs(ds).ctr = dirs[curDir].ctr => OpensAs(ds) = dirs[curDir]
             /\ imgPending = 1 => OpensAs(ds) \in {saved.dir, dirs[curDir]}
        /\ \A i \in {0, 1} : ds[i].is \in {image.dirs[i].is, dirs[i]}
    BY ONLY <2>0, <1>3, <1>4, <1>5, torn \in BOOLEAN, PairTorn
  <2>2. ASSUME n >= 2 PROVE OpensAs(ds) = dirs[curDir]
    <3>1. AllValid(ds) /\ \A i \in {0, 1} : ds[i].is = dirs[i]
      BY ONLY <2>0, <2>2, <1>3, <1>5, torn \in BOOLEAN, PairPast
    <3>2. PairInv(dirs, curDir, ds, dirs[curDir], 0)
      BY ONLY <3>1, <2>1, <1>3, <1>4, PairCommitted
    <3> QED BY <3>2 DEF PairInv
  <2> QED BY <2>1, <2>2 DEF Dir
<1>7. /\ bs \in FilePairs(Tables) /\ UpTo(bs, OpensAs(bs))
      /\ AllValid(image.bats) => Readable(bs)
      /\ Readable(bs) => /\ OpensAs(bs).ctr = saved.bat.ctr => OpensAs(bs) = saved.bat
                         /\ OpensAs(bs).ctr = Bat.ctr => OpensAs(bs) = Bat
                         /\ imgPending = 1 => OpensAs(bs) \in {saved.bat, Bat}
      /\ \A i \in {0, 1} : bs[i].is \in {image.bats[i].is, bats[i]}
      /\ n < 2 => OpensAs(bs) = saved.bat
  <2>0. bs = PutPair(image.bats, bats, n - 2, torn)
    OBVIOUS
  <2> HIDE DEF bs
  <2>1. /\ bs \in FilePairs(Tables) /\ UpTo(bs, OpensAs(bs))
        /\ AllValid(image.bats) => Readable(bs)
        /\ Readable(bs) =>
             /\ OpensAs(bs).ctr = saved.bat.ctr => OpensAs(bs) = saved.bat
             /\ OpensAs(bs).ctr = bats[curBat].ctr => OpensAs(bs) = bats[curBat]
             /\ imgPending = 1 => OpensAs(bs) \in {saved.bat, bats[curBat]}
        /\ \A i \in {0, 1} : bs[i].is \in {image.bats[i].is, bats[i]}
    BY ONLY <2>0, <1>3, <1>4, <1>5, torn \in BOOLEAN, PairTorn
  <2>2. ASSUME n < 2 PROVE OpensAs(bs) = saved.bat
    <3>1. n - 2 < 0
      BY <2>2
    <3>2. bs = image.bats
      BY ONLY <2>0, <3>1, <1>3, <1>5, torn \in BOOLEAN, PairPast
    <3> QED BY <3>2, <1>4 DEF PairInv
  <2> QED BY <2>1, <2>2 DEF Bat
<1> HIDE DEF ds, bs
<1>8. /\ image'.dirs = ds /\ image'.bats = bs
      /\ image' \in [dirs : FilePairs(Directories), bats : FilePairs(Tables)]
      /\ ImageReadable' <=> Readable(ds) /\ Readable(bs)
  BY <1>1, <1>6, <1>7 DEF ImageReadable
<1>9. Dir' = OpensAs(ds) /\ Bat' = OpensAs(bs)
  BY <1>1, <1>8 DEF Opened, Dir, Bat, OpensAs
<1>10. /\ saved' \in [dir : Directories, bat : Tables]
       /\ saved'.dir = OpensAs(ds) /\ saved'.bat = OpensAs(bs)
  <2>1. OpensAs(ds) \in Directories /\ OpensAs(bs) \in Tables
    BY <1>3, <1>6, <1>7, PairOpens
  <2> QED BY <2>1, <1>1, <1>9
<1>11. \A i \in {0, 1} : image'.dirs[i].is.ctr <= imgOps /\ image'.bats[i].is.ctr <= imgOps
  BY <1>2, <1>6, <1>7, <1>8 DEF CountersInv
<1>12. tears' \in 0..MaxTears
  BY <1>1, <1>2 DEF ImageTypesInv, CardImageAssumption
<1>13. /\ Dir.ctr = Bat.ctr /\ saved.dir.ctr = saved.bat.ctr
       /\ TidyCard(Dir.files, Bat, imgData, wrote, imgOps)
       /\ TidyCard(saved.dir.files, saved.bat, imgData, wrote, imgOps)
  BY <1>1, <1>2 DEF ContentsInv, CopiesSplit, ImageLost
<1>14. \A i \in {0, 1} : NamesOnce(image'.dirs[i].is.files)
  BY <1>2, <1>6, <1>8 DEF NamesInv
\* What has one counter is of one save.
<1>15. ASSUME ImageReadable', OpensAs(ds).ctr = OpensAs(bs).ctr
       PROVE  \/ OpensAs(ds) = saved.dir /\ OpensAs(bs) = saved.bat
              \/ OpensAs(ds) = Dir /\ OpensAs(bs) = Bat
  <2>1. CASE n < 2
    BY <2>1, <1>6, <1>7, <1>8, <1>13, <1>15
  <2>2. CASE n >= 2
    BY <2>2, <1>6, <1>7, <1>8, <1>13, <1>15
  <2> QED BY <2>1, <2>2, <1>5
<1>16. ImageReadable' /\ saved'.dir.ctr = saved'.bat.ctr =>
         TidyCard(saved'.dir.files, saved'.bat, imgData, wrote, imgOps)
  BY <1>10, <1>13, <1>15
<1>17. ImageInv'
  <2>1. UpTo(image'.dirs, saved'.dir) /\ UpTo(image'.bats, saved'.bat)
    BY <1>6, <1>7, <1>8, <1>10
  <2> QED BY <2>1, <1>1, <1>8, <1>10, <1>11, <1>12, <1>14, <1>16, ImageOpenKeeps
<1>18. AllValid(image.dirs) /\ AllValid(image.bats) => ImageReadable'
  BY <1>6, <1>7, <1>8
<1>19. ImageReadable' /\ (imgPending = 1 \/ ~ CopiesSplit') =>
         Dir' \in {saved.dir, Dir} /\ Bat' \in {saved.bat, Bat}
  BY <1>6, <1>7, <1>8, <1>9, <1>15 DEF CopiesSplit
<1> QED BY <1>17, <1>18, <1>19

\* A card without files.
LEMMA FreshIs ==
  ASSUME CardImageAssumption, NEW ops \in Nat, NEW data, NEW wr
  PROVE  /\ Formatted.dir \in Directories /\ Formatted.bat \in Tables
         /\ Formatted.dir.ctr = 0 /\ Formatted.bat.ctr = 0
         /\ TidyCard(Formatted.dir.files, Formatted.bat, data, wr, ops)
         /\ Formatted \in [dir : Directories, bat : Tables]
<1>1. /\ MaxUpdates \in Nat /\ MaxBlock - FSTBlocks \in Nat /\ FSTBlocks \in Nat
      /\ UsedBlocks \in Nat
  BY DEF CardImageAssumption, UsedBlocks
<1>2. Formatted.dir \in Directories /\ Formatted.dir.ctr = 0 /\ EntriesOf(Formatted.dir.files) = {}
  BY <1>1 DEF Formatted, Directories, EntriesOf
<1>3. Formatted.bat \in Tables /\ Formatted.bat.ctr = 0 /\ Formatted.bat.free = MaxBlock - FSTBlocks
  BY <1>1 DEF Formatted, Tables
<1>4. FreeBlocks(Formatted.bat.map) = Blocks
  BY DEF Formatted, FreeBlocks
<1>5. ChainsWhole(Formatted.dir.files, Formatted.bat)
  BY <1>2, <1>3, <1>4, BlocksFinite DEF ChainsWhole
<1>6. /\ OwnData(Formatted.dir.files, Formatted.bat, data, wr)
      /\ NamesOnce(Formatted.dir.files) /\ UidsOnce(Formatted.dir.files, ops)
  BY <1>2 DEF OwnData, NamesOnce, UidsOnce
<1> QED BY <1>2, <1>3, <1>5, <1>6 DEF TidyCard, Formatted

\* What holds of a card just formatted.
LEMMA FreshCopies ==
  ASSUME CardImageAssumption, NEW d, NEW b, NEW f, FreshImage(d, b, f)
  PROVE  /\ d \in MemPairs(Directories) /\ b \in MemPairs(Tables)
         /\ f \in [dirs : FilePairs(Directories), bats : FilePairs(Tables)]
         /\ PairInv(d, 1, f.dirs, Formatted.dir, 0) /\ PairInv(b, 1, f.bats, Formatted.bat, 0)
         /\ Readable(f.dirs) /\ Readable(f.bats)
         /\ \A i \in {0, 1} : /\ d[i] = Formatted.dir /\ b[i] = Formatted.bat
                              /\ f.dirs[i].is = Formatted.dir /\ f.bats[i].is = Formatted.bat
<1>1. /\ Formatted.dir \in Directories /\ Formatted.bat \in Tables
      /\ Formatted.dir.ctr \in Nat /\ Formatted.bat.ctr \in Nat
  BY FreshIs
<1>2. /\ d = [i \in {0, 1} |-> Formatted.dir] /\ b = [i \in {0, 1} |-> Formatted.bat]
      /\ f.dirs = [i \in {0, 1} |-> [ok |-> TRUE, is |-> Formatted.dir]]
      /\ f.bats = [i \in {0, 1} |-> [ok |-> TRUE, is |-> Formatted.bat]]
      /\ f = [dirs |-> f.dirs, bats |-> f.bats]
  BY DEF FreshImage
<1>3. d \in MemPairs(Directories) /\ f.dirs \in FilePairs(Directories)
      /\ PairInv(d, 1, f.dirs, Formatted.dir, 0) /\ Readable(f.dirs)
  BY <1>1, <1>2, PairFresh
<1>4. b \in MemPairs(Tables) /\ f.bats \in FilePairs(Tables)
      /\ PairInv(b, 1, f.bats, Formatted.bat, 0) /\ Readable(f.bats)
  BY <1>1, <1>2, PairFresh
<1>5. \A i \in {0, 1} : /\ d[i] = Formatted.dir /\ b[i] = Formatted.bat
                         /\ f.dirs[i].is = Formatted.dir /\ f.bats[i].is = Formatted.bat
  <2> HIDE DEF Formatted
  <2> QED BY <1>2
<1>6. f \in [dirs : FilePairs(Directories), bats : FilePairs(Tables)]
  BY ONLY <1>2, <1>3, <1>4
<1> QED BY <1>3, <1>4, <1>5, <1>6

\* CARDFormat.
LEMMA ImageFormatKeeps ==
  ASSUME CardImageAssumption, ImageInv, FormatImage
  PROVE  ImageInv'
<1>1. /\ FreshImage(dirs', bats', image') /\ curDir' = 1 /\ curBat' = 1
      /\ imgDirty' = FALSE /\ imgOwed' = FALSE /\ imgPending' = 0 /\ saved' = Formatted
      /\ imgData' = [b \in Blocks |-> 0] /\ wrote' = wrote /\ imgWrites' = imgWrites
      /\ tears' = tears /\ imgOps' = imgOps + 1 /\ imgOps < MaxUpdates
  BY DEF FormatImage
<1>2. ImageTypesInv /\ CountersInv /\ NamesInv
  BY DEF ImageInv
<1>3. imgOps + 1 \in 0..MaxUpdates /\ imgOps + 1 \in Nat /\ imgOps \in Nat
      /\ 0 \in 0..MaxBlockWrites
  BY <1>1, <1>2 DEF ImageTypesInv, CardImageAssumption
<1>4. /\ dirs' \in MemPairs(Directories) /\ bats' \in MemPairs(Tables)
      /\ image' \in [dirs : FilePairs(Directories), bats : FilePairs(Tables)]
      /\ PairInv(dirs', 1, image'.dirs, Formatted.dir, 0)
      /\ PairInv(bats', 1, image'.bats, Formatted.bat, 0) /\ ImageReadable'
      /\ \A i \in {0, 1} : /\ dirs'[i] = Formatted.dir /\ bats'[i] = Formatted.bat
                           /\ image'.dirs[i].is = Formatted.dir /\ image'.bats[i].is = Formatted.bat
  BY <1>1, FreshCopies DEF ImageReadable
<1>5. /\ Formatted.dir.ctr = 0 /\ Formatted.bat.ctr = 0
      /\ TidyCard(Formatted.dir.files, Formatted.bat, imgData', wrote', imgOps')
      /\ Formatted \in [dir : Directories, bat : Tables]
  BY <1>1, <1>3, FreshIs
<1>6. ImageTypesInv'
  BY <1>1, <1>2, <1>3, <1>4, <1>5 DEF ImageTypesInv
<1>7. CountersInv'
  <2>1. \A u \in 1..MaxUpdates, k \in 1..MaxCount : u > imgOps + 1 => wrote[<<u, k>>] = 0
    BY <1>2, <1>3 DEF CountersInv
  <2>2. 0 <= imgOps + 1
    BY <1>3
  <2> QED BY <2>1, <2>2, <1>1, <1>4, <1>5 DEF CountersInv
<1>8. CopiesInv'
  BY <1>1, <1>4 DEF CopiesInv
<1>9. ContentsInv'
  <2>1. Dir' = Formatted.dir /\ Bat' = Formatted.bat
    BY <1>1, <1>4 DEF Dir, Bat
  <2>2. OnlyRenamed(Formatted.dir.files, Formatted.bat.map, Formatted.dir.files, Formatted.bat.map)
    BY OnlyRenamedSelf
  <2> QED BY <2>1, <2>2, <1>1, <1>4, <1>5 DEF ContentsInv, CopiesSplit, ImageLost
<1>10. NamesInv'
  BY <1>4, <1>5 DEF NamesInv, TidyCard
<1> QED BY <1>6, <1>7, <1>8, <1>9, <1>10 DEF ImageInv

\* A card made anew.
LEMMA ImageBegins ==
  ASSUME CardImageAssumption, ImageInit
  PROVE  ImageInv
<1>1. /\ FreshImage(dirs, bats, image) /\ curDir = 1 /\ curBat = 1
      /\ imgDirty = FALSE /\ imgOwed = FALSE /\ imgPending = 0 /\ saved = Formatted
      /\ imgData = [b \in Blocks |-> 0] /\ imgWrites = 0 /\ tears = 0 /\ imgOps = 0
      /\ wrote = [f \in (1..MaxUpdates) \X (1..MaxCount) |-> 0]
  BY DEF ImageInit
<1>2. 0 \in 0..MaxUpdates /\ 0 \in Nat /\ 0 \in 0..MaxBlockWrites /\ 0 \in 0..MaxTears /\ 0 <= 0
  BY DEF CardImageAssumption
<1>3. /\ dirs \in MemPairs(Directories) /\ bats \in MemPairs(Tables)
      /\ image \in [dirs : FilePairs(Directories), bats : FilePairs(Tables)]
      /\ PairInv(dirs, 1, image.dirs, Formatted.dir, 0)
      /\ PairInv(bats, 1, image.bats, Formatted.bat, 0) /\ ImageReadable
      /\ \A i \in {0, 1} : /\ dirs[i] = Formatted.dir /\ bats[i] = Formatted.bat
                           /\ image.dirs[i].is = Formatted.dir /\ image.bats[i].is = Formatted.bat
  BY <1>1, FreshCopies DEF ImageReadable
<1>4. /\ Formatted.dir.ctr = 0 /\ Formatted.bat.ctr = 0
      /\ TidyCard(Formatted.dir.files, Formatted.bat, imgData, wrote, imgOps)
      /\ Formatted \in [dir : Directories, bat : Tables]
  BY <1>1, <1>2, FreshIs
<1>5. ImageTypesInv
  BY <1>1, <1>2, <1>3, <1>4 DEF ImageTypesInv
<1>6. CountersInv
  <2>1. \A u \in 1..MaxUpdates, k \in 1..MaxCount : wrote[<<u, k>>] = 0
    BY <1>1
  <2> QED BY <2>1, <1>1, <1>2, <1>3, <1>4 DEF CountersInv
<1>7. CopiesInv
  BY <1>1, <1>3 DEF CopiesInv
<1>8. ContentsInv
  <2>1. Dir = Formatted.dir /\ Bat = Formatted.bat
    BY <1>1, <1>3 DEF Dir, Bat
  <2>2. OnlyRenamed(Formatted.dir.files, Formatted.bat.map, Formatted.dir.files, Formatted.bat.map)
    BY OnlyRenamedSelf
  <2> QED BY <2>1, <2>2, <1>1, <1>3, <1>4 DEF ContentsInv, CopiesSplit, ImageLost
<1>9. NamesInv
  BY <1>3, <1>4 DEF NamesInv, TidyCard
<1> QED BY <1>5, <1>6, <1>7, <1>8, <1>9 DEF ImageInv

\* The invariant is inductive.
LEMMA ImageKeeps ==
  ASSUME CardImageAssumption, ImageInv, [ImageNext]_imgVars
  PROVE  ImageInv'
<1>1. ASSUME NEW n \in CardNames, NEW c \in 1..MaxCount, CreateFile(n, c) PROVE ImageInv'
  BY <1>1, ImageCreateKeeps
<1>2. ASSUME NEW s \in DirSlots, DeleteFile(s) \/ SetFileStatus(s) PROVE ImageInv'
  BY <1>2, ImageDeleteKeeps, ImageStatusKeeps
<1>3. ASSUME NEW s \in DirSlots, NEW n \in CardNames, RenameFile(s, n) PROVE ImageInv'
  BY <1>3, ImageRenameKeeps
<1>4. ASSUME NEW s \in DirSlots, NEW k \in 1..MaxCount, WriteBlock(s, k) PROVE ImageInv'
  BY <1>4, ImageWriteKeeps
<1>5. CASE CommitImage
  BY <1>5, ImageCommitKeeps
<1>6. CASE FormatImage
  BY <1>6, ImageFormatKeeps
<1>7. CASE ReopenImage
  BY <1>7, ImageReopenKeeps
<1>8. CASE CrashImage
  BY <1>8, ImageCrashKeeps
<1>9. ASSUME NEW n \in 0..3, NEW torn \in BOOLEAN, TearCommit(n, torn) PROVE ImageInv'
  BY <1>9, ImageTearKeeps
<1>10. CASE UNCHANGED imgVars
  <2>1. UNCHANGED <<dirs, bats, curDir, curBat, imgDirty, image, imgOwed, imgData, wrote, saved,
                    imgPending, imgOps, imgWrites, tears>>
    BY <1>10 DEF imgVars
  <2>2. Dir' = Dir /\ Bat' = Bat /\ (ImageLost' <=> ImageLost)
    BY <2>1 DEF Dir, Bat, CopiesSplit, ImageLost, ImageReadable
  <2> QED BY <2>1, <2>2 DEF ImageInv, ImageTypesInv, CountersInv, CopiesInv, NamesInv, ContentsInv
<1> QED BY <1>1, <1>2, <1>3, <1>4, <1>5, <1>6, <1>7, <1>8, <1>9, <1>10 DEF ImageNext

\* Every behaviour keeps the invariant.
LEMMA ImageInvariance ==
  ASSUME CardImageAssumption
  PROVE  ImageSpec => []ImageInv
<1>1. ImageInit => ImageInv
  BY ImageBegins
<1>2. ImageInv /\ [ImageNext]_imgVars => ImageInv'
  BY ImageKeeps
<1> QED BY <1>1, <1>2, PTL DEF ImageSpec

-----------------------------------------------------------------------------

\* Every variable of the card image keeps its type: the counters, the table's links and its
\* count of free blocks.
THEOREM ImageTypesCorrect ==
  ASSUME CardImageAssumption
  PROVE  ImageSpec => []ImageTypeOK
<1>1. ImageInv => ImageTypeOK
  <2>1. SUFFICES ASSUME ImageInv PROVE ImageTypeOK
    OBVIOUS
  <2>2. ImageTypesInv /\ CountersInv
    BY <2>1 DEF ImageInv
  <2>3. imgPending \in 0..MaxUpdates
    BY <2>2 DEF ImageTypesInv, CountersInv, CardImageAssumption
  <2>4. \A i \in {0, 1} : dirs[i] \in Directories /\ bats[i] \in Tables
    BY <2>2 DEF ImageTypesInv, MemPairs
  <2> QED BY <2>2, <2>3, <2>4 DEF ImageTypesInv, ImageTypeOK
<1> QED BY <1>1, ImageInvariance, PTL

\* However often a commit is torn, and whatever was renamed before it: files have one name
\* each, and are whole and apart and hold what was last written to them while the image can be
\* read and its two halves are of one save; with nothing to commit the file opens as what is in
\* memory; and a commit that is torn over an image of which no copy was spoilt leaves one that
\* can be read, whose directory and table, if they are of one save or only one update was
\* pending, are what was last saved or what was being saved.
THEOREM CardIsWhole ==
  ASSUME CardImageAssumption
  PROVE  ImageSpec => CardStaysWhole
<1>1. ImageInv => /\ NamesOnce(Dir.files) /\ CommittedIsCurrent
                  /\ ImageReadable /\ ~ CopiesSplit =>
                       ChainsWhole(Dir.files, Bat) /\ DataIsOwn(Dir.files, Bat)
  <2>1. SUFFICES ASSUME ImageInv
                 PROVE  /\ NamesOnce(Dir.files) /\ CommittedIsCurrent
                        /\ ImageReadable /\ ~ CopiesSplit =>
                             ChainsWhole(Dir.files, Bat) /\ DataIsOwn(Dir.files, Bat)
    OBVIOUS
  <2>2. ImageTypesInv /\ CopiesInv /\ NamesInv /\ ContentsInv
    BY <2>1 DEF ImageInv
  <2>3. CommittedIsCurrent
    BY <2>2 DEF CopiesInv, PairInv, OpensAs, CommittedIsCurrent, Dir, Bat
  <2>4. ImageReadable /\ ~ CopiesSplit =>
          ChainsWhole(Dir.files, Bat) /\ OwnData(Dir.files, Bat, imgData, wrote)
    BY <2>2 DEF ContentsInv, TidyCard, ImageLost
  <2>5. NamesOnce(Dir.files)
    BY <2>2 DEF ImageTypesInv, NamesInv, Dir
  <2> QED BY <2>3, <2>4, <2>5 DEF OwnData, DataIsOwn
<1>2. ImageInv /\ [ImageNext]_imgVars =>
        [\A n \in 0..3, torn \in BOOLEAN : TearCommit(n, torn) =>
           /\ AllValid(image.dirs) /\ AllValid(image.bats) => ImageReadable'
           /\ ImageReadable' /\ (imgPending = 1 \/ ~ CopiesSplit') =>
                Dir' \in {saved.dir, Dir} /\ Bat' \in {saved.bat, Bat}]_imgVars
  BY ImageTearKeeps
<1> QED BY <1>1, <1>2, ImageInvariance, PTL DEF ImageSpec, CardStaysWhole, CommitOrNot

=============================================================================
