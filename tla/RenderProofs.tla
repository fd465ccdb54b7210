---------------------------- MODULE RenderProofs -----------------------------
(***************************************************************************)
(* Proofs about what renders the picture: the frame worker, the cache of   *)
(* render pipelines and the presenter.                                     *)
(*                                                                         *)
(* FramesHandedOver, for any number of draws, frames, splits and shifts of *)
(* the window. The invariant says what the producer counts on at each step *)
(* of a call (PlanInv), which phases the worker has published and may not  *)
(* withdraw (Phase), whose the recorded passes are (PassInv) and of which  *)
(* guest frame (AgeInv). From these the draws only ever move along one     *)
(* line, from the fifo to the encoded ones.                                *)
(*                                                                         *)
(* DrawsFindPipelines, for any pipelines, workers, capacity and order of   *)
(* the rows of the cache. The queues have no entry twice and none in       *)
(* common (RowsApart), each worker builds what is its own (BuildersApart)  *)
(* and the two counters count the workers too (CountsExact). A draw that   *)
(* is recorded refers to what is ready, in the queue of first uses or      *)
(* being built, never to the queue that gives way (DrawsBacked). A first   *)
(* use is in one of the hands between the recorder and the database, and   *)
(* the writer leaves when nothing can come any more (UsesOnTheWay).        *)
(*                                                                         *)
(* ShowsInOrder, for any pools, frames, retraces and changes of the        *)
(* window. What is encoded and not queued are the images of the sealed     *)
(* frame in their order (GroupInv), all else is older, also the images of  *)
(* the slots the frame has not reached (AgesInv), and where the VI owns    *)
(* the scanout nothing comes after what is latched (LatchInv).             *)
(***************************************************************************)
EXTENDS FrameWorker, PipelineCache, Presenter, SequenceTheorems, FiniteSetTheorems,
        WellFoundedInduction, TLAPS

-----------------------------------------------------------------------------
(* The frame worker: what the producer has before it.                      *)

Then(x, s) == <<x>> \o s

LEMMA ThenIs ==
  ASSUME NEW S, NEW s \in Seq(S), NEW x \in S
  PROVE  /\ Then(x, s) \in Seq(S) /\ Then(x, s) # <<>>
         /\ Head(Then(x, s)) = x /\ Tail(Then(x, s)) = s
<1>1. Then(x, s) \in Seq(S) /\ Then(x, s) # <<>> /\ Head(Then(x, s)) = x
  BY DEF Then
<1>2. Tail(Then(x, s)) = s
  BY DEF Then
<1> QED BY <1>1, <1>2

LEMMA ThenTwo ==
  ASSUME NEW S, NEW s \in Seq(S), NEW x \in S, NEW y \in S
  PROVE  <<x, y>> \o s = Then(x, Then(y, s))
<1>1. <<x>> \in Seq(S) /\ <<y>> \in Seq(S) /\ <<x, y>> \in Seq(S)
  OBVIOUS
<1>2. <<x, y>> = <<x>> \o <<y>>
  <2> DEFINE b == <<x>> \o <<y>>
  <2>1. b \in Seq(S) /\ Len(b) = 2
    OBVIOUS
  <2>2. b[1] = x /\ b[2] = y
    OBVIOUS
  <2> HIDE DEF b
  <2>3. \A i \in 1 .. 2 : b[i] = <<x, y>>[i]
    BY <2>2
  <2>4. Len(<<x, y>>) = 2
    OBVIOUS
  <2>5. <<x, y>> = b
    BY <1>1, <2>1, <2>3, <2>4, SeqEqual
  <2> QED BY <2>5 DEF b
<1>3. (<<x>> \o <<y>>) \o s = <<x>> \o (<<y>> \o s)
  BY <1>1, ConcatAssociative
<1> QED BY <1>2, <1>3 DEF Then

\* A call of the producer drains the commands at most once; these are what comes after.
AfterScreen == <<"unlock", "join", "post", "begin">>
AfterCopy == <<"join", "overlay">> \o Present
AfterFlush == <<"prefix">>
Rests == {AfterScreen, AfterCopy, AfterFlush}

StepName == {"lock", "drain", "unlock", "join", "post", "begin", "overlay", "prefix", "split",
             "decode", "result", "thread"}

\* A step's name is not built from characters.
LEMMA Names ==
  /\ "lock" \in StepName /\ "drain" \in StepName /\ "unlock" \in StepName /\ "join" \in StepName
  /\ "post" \in StepName /\ "begin" \in StepName /\ "overlay" \in StepName
  /\ "prefix" \in StepName /\ "split" \in StepName /\ "decode" \in StepName
BY DEF StepName

LEMMA Unfolds ==
  ASSUME NEW S, NEW s \in Seq(S), s # <<>>
  PROVE  s = Then(Head(s), Tail(s))
<1> DEFINE t == Then(Head(s), Tail(s))
<1>1. Tail(s) \in Seq(S) /\ Head(s) \in S /\ Len(s) \in Nat \ {0} /\ Len(Tail(s)) = Len(s) - 1
  OBVIOUS
<1>2. t \in Seq(S) /\ Len(t) = Len(s)
  BY <1>1 DEF Then
<1>3. ASSUME NEW i \in 1 .. Len(s)
      PROVE  s[i] = t[i]
  <2>1. CASE i = 1
    BY <1>1, <2>1 DEF Then
  <2>2. CASE i # 1
    <3>1. i - 1 \in 1 .. Len(Tail(s)) /\ Tail(s)[i - 1] = s[i]
      BY <1>1, <2>2
    <3>2. t[i] = Tail(s)[i - 1]
      BY <1>1, <2>2, <3>1 DEF Then
    <3> QED BY <3>1, <3>2
  <2> QED BY <2>1, <2>2
<1> HIDE DEF t
<1>4. s = t
  BY <1>2, <1>3, SeqEqual
<1> QED BY <1>4 DEF t

LEMMA PlansAre ==
  /\ Rests \subseteq Seq(StepName) /\ Present \in Seq(StepName)
  /\ Present = Then("lock", Then("drain", AfterScreen))
  /\ CopyDisp = Then("drain", AfterCopy)
  /\ FlushEfb = Then("join", Then("drain", AfterFlush))
  /\ AfterCopy = Then("join", Then("overlay", Present))
  /\ AfterScreen # <<>> /\ Head(AfterScreen) = "unlock" /\ Tail(AfterScreen) = <<"join", "post", "begin">>
  /\ AfterFlush # <<>> /\ Head(AfterFlush) = "prefix" /\ Tail(AfterFlush) = <<>>
<1>1. /\ AfterScreen \in Seq(StepName) /\ AfterFlush \in Seq(StepName) /\ Present \in Seq(StepName)
      /\ FlushEfb \in Seq(StepName)
  BY DEF AfterScreen, AfterFlush, Present, FlushEfb, StepName
<1>2. Present = Then("lock", Then("drain", AfterScreen))
  <2> DEFINE t == Tail(Present)
  <2>1. Present # <<>> /\ Head(Present) = "lock"
    BY DEF Present
  <2>2. t = <<"drain", "unlock", "join", "post", "begin">>
    BY DEF Present
  <2> HIDE DEF t
  <2>3. t \in Seq(StepName) /\ t # <<>> /\ Head(t) = "drain"
    <3>1. <<"drain", "unlock", "join", "post", "begin">> \in Seq(StepName)
      BY DEF StepName
    <3>2. <<"drain", "unlock", "join", "post", "begin">> # <<>> /\ Head(<<"drain", "unlock", "join", "post", "begin">>) = "drain"
      OBVIOUS
    <3> QED BY <2>2, <3>1, <3>2
  <2>4. Tail(t) = AfterScreen
    <3>1. Tail(<<"drain", "unlock", "join", "post", "begin">>) = AfterScreen
      BY DEF AfterScreen
    <3> QED BY <2>2, <3>1
  <2>5. t = Then("drain", AfterScreen)
    BY <2>3, <2>4, Unfolds
  <2>6. Present = Then("lock", t)
    BY <1>1, <2>1, Unfolds DEF t
  <2> QED BY <2>5, <2>6
<1>3. AfterCopy = Then("join", Then("overlay", Present))
  BY <1>1, Names, ThenTwo DEF AfterCopy
<1>4. AfterCopy \in Seq(StepName)
  <2>1. Then("overlay", Present) \in Seq(StepName)
    BY <1>1, Names, ThenIs
  <2> QED BY <1>3, <2>1, Names, ThenIs
<1>5. CopyDisp = Then("drain", AfterCopy)
  <2>1. <<"drain", "join", "overlay">> \o Present = Then("drain", <<"join", "overlay">> \o Present)
    <3> DEFINE u == <<"drain", "join", "overlay">>
               v == <<"join", "overlay">>
    <3>1. u = <<"drain">> \o v
      <4> DEFINE w == <<"drain">> \o v
      <4>1. w \in Seq(StepName) /\ Len(w) = 3 /\ u \in Seq(StepName) /\ Len(u) = 3
        BY DEF StepName
      <4>2. w[1] = u[1] /\ w[2] = u[2] /\ w[3] = u[3]
        OBVIOUS
      <4> HIDE DEF w, u
      <4>3. u = w
        BY <4>1, <4>2, SeqEqual
      <4> QED BY <4>3 DEF w
    <3>2. <<"drain">> \in Seq(StepName) /\ v \in Seq(StepName)
      BY DEF StepName
    <3> HIDE DEF u, v
    <3>3. u \o Present = <<"drain">> \o (v \o Present)
      BY <1>1, <3>1, <3>2, ConcatAssociative
    <3> QED BY <3>3 DEF u, v, Then
  <2> QED BY <2>1 DEF CopyDisp, AfterCopy
<1>6. FlushEfb = Then("join", Then("drain", AfterFlush))
  <2> DEFINE t == Tail(FlushEfb)
  <2>1. FlushEfb # <<>> /\ Head(FlushEfb) = "join"
    BY DEF FlushEfb
  <2>2. t = <<"drain", "prefix">>
    BY DEF FlushEfb
  <2> HIDE DEF t
  <2>3. t \in Seq(StepName) /\ t # <<>> /\ Head(t) = "drain"
    <3>1. <<"drain", "prefix">> \in Seq(StepName)
      BY DEF StepName
    <3>2. <<"drain", "prefix">> # <<>> /\ Head(<<"drain", "prefix">>) = "drain"
      OBVIOUS
    <3> QED BY <2>2, <3>1, <3>2
  <2>4. Tail(t) = AfterFlush
    <3>1. Tail(<<"drain", "prefix">>) = AfterFlush
      BY DEF AfterFlush
    <3> QED BY <2>2, <3>1
  <2>5. t = Then("drain", AfterFlush)
    BY <2>3, <2>4, Unfolds
  <2>6. FlushEfb = Then("join", t)
    BY <1>1, <2>1, Unfolds DEF t
  <2> QED BY <2>5, <2>6
<1>7. AfterScreen # <<>> /\ Head(AfterScreen) = "unlock" /\ Tail(AfterScreen) = <<"join", "post", "begin">>
  BY DEF AfterScreen
<1>8. AfterFlush # <<>> /\ Head(AfterFlush) = "prefix" /\ Tail(AfterFlush) = <<>>
  BY DEF AfterFlush
<1> QED BY <1>1, <1>2, <1>3, <1>4, <1>5, <1>6, <1>7, <1>8 DEF Rests

\* The first step of each plan, and what is left after it.
LEMMA FirstSteps ==
  /\ \A r \in Rests :
       LET d == Then("decode", r)
           s == Then("split", d)
       IN /\ r # <<>>
          /\ Then("drain", r) # <<>> /\ Head(Then("drain", r)) = "drain" /\ Tail(Then("drain", r)) = r
          /\ d # <<>> /\ Head(d) = "decode" /\ Tail(d) = r
          /\ s # <<>> /\ Head(s) = "split" /\ Tail(s) = d
          /\ Then("join", s) # <<>> /\ Head(Then("join", s)) = "join" /\ Tail(Then("join", s)) = s
          /\ <<"join", "split">> \o d = Then("join", s)
  /\ Present # <<>> /\ Head(Present) = "lock" /\ Tail(Present) = Then("drain", AfterScreen)
  /\ FlushEfb # <<>> /\ Head(FlushEfb) = "join" /\ Tail(FlushEfb) = Then("drain", AfterFlush)
  /\ Head(AfterCopy) = "join" /\ Tail(AfterCopy) = Then("overlay", Present)
  /\ Then("overlay", Present) # <<>> /\ Head(Then("overlay", Present)) = "overlay"
  /\ Tail(Then("overlay", Present)) = Present
<1>1. ASSUME NEW r \in Rests
      PROVE  LET d == Then("decode", r)
                 s == Then("split", d)
             IN /\ r # <<>>
                /\ Then("drain", r) # <<>> /\ Head(Then("drain", r)) = "drain" /\ Tail(Then("drain", r)) = r
                /\ d # <<>> /\ Head(d) = "decode" /\ Tail(d) = r
                /\ s # <<>> /\ Head(s) = "split" /\ Tail(s) = d
                /\ Then("join", s) # <<>> /\ Head(Then("join", s)) = "join" /\ Tail(Then("join", s)) = s
                /\ <<"join", "split">> \o d = Then("join", s)
  <2> DEFINE d == Then("decode", r)
             s == Then("split", d)
  <2>1. /\ {"decode", "split", "join", "drain", "overlay"} \subseteq StepName
        /\ r \in Seq(StepName) /\ Present \in Seq(StepName)
    BY PlansAre DEF StepName
  <2>2. r # <<>>
    <3>1. Then("join", Then("overlay", Present)) # <<>>
      BY <2>1, ThenIs
    <3> QED BY <3>1, PlansAre DEF Rests
  <2>3. d \in Seq(StepName) /\ d # <<>> /\ Head(d) = "decode" /\ Tail(d) = r
    BY <2>1, ThenIs
  <2>4. Then("drain", r) # <<>> /\ Head(Then("drain", r)) = "drain" /\ Tail(Then("drain", r)) = r
    BY <2>1, ThenIs
  <2> HIDE DEF d
  <2>5. s \in Seq(StepName) /\ s # <<>> /\ Head(s) = "split" /\ Tail(s) = d
    BY <2>1, <2>3, ThenIs
  <2>6. <<"join", "split">> \o d = Then("join", s)
    BY <2>1, <2>3, ThenTwo
  <2> HIDE DEF s
  <2>7. Then("join", s) # <<>> /\ Head(Then("join", s)) = "join" /\ Tail(Then("join", s)) = s
    BY <2>1, <2>5, ThenIs
  <2> QED BY <2>2, <2>3, <2>4, <2>5, <2>6, <2>7 DEF d, s
<1>2. /\ {"lock", "join", "drain", "overlay"} \subseteq StepName
      /\ AfterScreen \in Seq(StepName) /\ AfterFlush \in Seq(StepName) /\ Present \in Seq(StepName)
  BY PlansAre DEF Rests, StepName
<1>3. /\ Then("drain", AfterScreen) \in Seq(StepName) /\ Then("drain", AfterFlush) \in Seq(StepName)
      /\ Then("overlay", Present) \in Seq(StepName)
      /\ Then("overlay", Present) # <<>> /\ Head(Then("overlay", Present)) = "overlay"
      /\ Tail(Then("overlay", Present)) = Present
  BY <1>2, ThenIs
<1>4. Present # <<>> /\ Head(Present) = "lock" /\ Tail(Present) = Then("drain", AfterScreen)
  <2> DEFINE t == Then("drain", AfterScreen)
  <2>1. t \in Seq(StepName)
    BY <1>3
  <2>2. Present = Then("lock", t)
    BY PlansAre
  <2> HIDE DEF t
  <2>3. Present # <<>> /\ Head(Present) = "lock" /\ Tail(Present) = t
    BY <2>1, <2>2, Names, ThenIs
  <2> QED BY <2>3 DEF t
<1>5. FlushEfb # <<>> /\ Head(FlushEfb) = "join" /\ Tail(FlushEfb) = Then("drain", AfterFlush)
  <2> DEFINE t == Then("drain", AfterFlush)
  <2>1. t \in Seq(StepName)
    BY <1>3
  <2>2. FlushEfb = Then("join", t)
    BY PlansAre
  <2> HIDE DEF t
  <2>3. FlushEfb # <<>> /\ Head(FlushEfb) = "join" /\ Tail(FlushEfb) = t
    BY <2>1, <2>2, Names, ThenIs
  <2> QED BY <2>3 DEF t
<1>6. Head(AfterCopy) = "join" /\ Tail(AfterCopy) = Then("overlay", Present)
  <2> DEFINE t == Then("overlay", Present)
  <2>1. t \in Seq(StepName)
    BY <1>3
  <2>2. AfterCopy = Then("join", t)
    BY PlansAre
  <2> HIDE DEF t
  <2>3. Head(AfterCopy) = "join" /\ Tail(AfterCopy) = t
    BY <2>1, <2>2, Names, ThenIs
  <2> QED BY <2>3 DEF t
<1> QED BY <1>1, <1>3, <1>4, <1>5, <1>6
Call(r, n) ==
  (r = AfterScreen /\ n = 1) \/ (r = AfterCopy /\ n = 0) \/ (r = AfterFlush /\ n = 0 /\ ctl.ready)
AtDrain(r, n) == todo = Then("drain", r) /\ levels = n
AtDecode(r, n) == todo = Then("decode", r) /\ ctl.sealed /\ levels = n + 1
AtSplit(r, n) == todo = Then("split", Then("decode", r)) /\ ctl.ready /\ levels = n
AtPressure(r, n) == todo = Then("join", Then("split", Then("decode", r))) /\ ctl.sealed /\ levels = n
AtRest(r, n) == todo = r /\ fifo = <<>> /\ levels = n
Drains(r, n) ==
  AtDrain(r, n) \/ AtDecode(r, n) \/ AtSplit(r, n) \/ AtPressure(r, n) \/ AtRest(r, n)

MayBegin == ctl.ready \/ (~ctl.allowed /\ (ctl.job \/ worker \in {"seals", "asks"}))
Between ==
  \/ todo = <<>> /\ (active \/ ctl.ready)
  \/ todo = <<"thread">> /\ ctl.stop
  \/ /\ ~ctl.stop /\ ~active
     /\ \/ todo = <<"begin">> /\ MayBegin
        \/ todo = <<"join", "result">>
        \/ todo = <<"result">> /\ ctl.ready
Called ==
  \/ levels = 0 /\ todo \in {Present, FlushEfb}
  \/ \E r \in Rests, n \in 0 .. 1 : Call(r, n) /\ Drains(r, n)
  \/ levels = 0 /\ todo = Then("overlay", Present) /\ ctl.ready
  \/ levels = 0 /\ fifo = <<>> /\ todo = <<"join", "post", "begin">>
  \/ levels = 0 /\ fifo = <<>> /\ todo = <<"post", "begin">> /\ ctl.ready

\* Where the producer is in a call and what it counts on there.
PlanInv == (levels = 0 /\ Between) \/ (~ctl.stop /\ active /\ Called)

\* What PlanInv says of each step.
Calling == ~ctl.stop /\ active
Doing ==
  /\ Idle => levels = 0 /\ (active \/ ctl.ready)
  /\ Does("lock") => Calling /\ todo = Present /\ levels = 0
  /\ Does("drain") => Calling /\ \E r \in Rests, n \in 0 .. 1 : Call(r, n) /\ AtDrain(r, n)
  /\ Does("decode") => Calling /\ \E r \in Rests, n \in 0 .. 1 : Call(r, n) /\ AtDecode(r, n)
  /\ Does("split") => Calling /\ ctl.ready /\ \E r \in Rests, n \in 0 .. 1 : Call(r, n) /\ AtSplit(r, n)
  /\ Does("unlock") => Calling /\ AtRest(AfterScreen, 1)
  /\ Does("prefix") => Calling /\ ctl.ready /\ AtRest(AfterFlush, 0)
  /\ Does("overlay") => Calling /\ ctl.ready /\ levels = 0 /\ todo = Then("overlay", Present)
  /\ Does("post") => Calling /\ ctl.ready /\ levels = 0 /\ fifo = <<>> /\ todo = <<"post", "begin">>
  /\ Does("join") =>
       \/ Calling /\ levels = 0 /\ todo = FlushEfb
       \/ Calling /\ \E r \in Rests, n \in 0 .. 1 : Call(r, n) /\ AtPressure(r, n)
       \/ Calling /\ AtRest(AfterCopy, 0)
       \/ Calling /\ levels = 0 /\ fifo = <<>> /\ todo = <<"join", "post", "begin">>
       \/ ~ctl.stop /\ ~active /\ levels = 0 /\ todo = <<"join", "result">>
  /\ Does("begin") => ~ctl.stop /\ ~active /\ levels = 0 /\ todo = <<"begin">> /\ MayBegin
  /\ Does("result") => ~ctl.stop /\ ~active /\ levels = 0 /\ todo = <<"result">> /\ ctl.ready
  /\ Does("thread") => levels = 0 /\ todo = <<"thread">> /\ ctl.stop


LEMMA ShortSteps ==
  /\ <<"begin">> # <<>> /\ Head(<<"begin">>) = "begin" /\ Tail(<<"begin">>) = <<>>
  /\ <<"thread">> # <<>> /\ Head(<<"thread">>) = "thread" /\ Tail(<<"thread">>) = <<>>
  /\ <<"result">> # <<>> /\ Head(<<"result">>) = "result" /\ Tail(<<"result">>) = <<>>
  /\ <<"join", "result">> # <<>> /\ Head(<<"join", "result">>) = "join"
  /\ Tail(<<"join", "result">>) = <<"result">>
  /\ <<"post", "begin">> # <<>> /\ Head(<<"post", "begin">>) = "post"
  /\ Tail(<<"post", "begin">>) = <<"begin">>
  /\ <<"join", "post", "begin">> # <<>> /\ Head(<<"join", "post", "begin">>) = "join"
  /\ Tail(<<"join", "post", "begin">>) = <<"post", "begin">>
OBVIOUS

LEMMA PlanDoes == ASSUME PlanInv PROVE Doing
<1> USE DEF Idle, Does, Calling
<1>1. CASE levels = 0 /\ Between
  BY <1>1, ShortSteps DEF Between, Doing
<1>2. ASSUME ~ctl.stop, active, Called PROVE Doing
  <2>1. CASE levels = 0 /\ todo \in {Present, FlushEfb}
    BY <1>2, <2>1, FirstSteps DEF Doing
  <2>2. CASE \E r \in Rests, n \in 0 .. 1 : Call(r, n) /\ Drains(r, n)
    <3>1. PICK r \in Rests, n \in 0 .. 1 : Call(r, n) /\ Drains(r, n)
      BY <2>2
    <3>2. CASE AtDrain(r, n)
      BY <1>2, <3>1, <3>2, FirstSteps DEF Doing, AtDrain
    <3>3. CASE AtDecode(r, n)
      BY <1>2, <3>1, <3>3, FirstSteps DEF Doing, AtDecode
    <3>4. CASE AtSplit(r, n)
      BY <1>2, <3>1, <3>4, FirstSteps DEF Doing, AtSplit
    <3>5. CASE AtPressure(r, n)
      BY <1>2, <3>1, <3>5, FirstSteps DEF Doing, AtPressure
    <3>6. CASE AtRest(r, n)
      <4>1. r # <<>>
        BY FirstSteps
      <4>2. CASE r = AfterScreen /\ n = 1
        BY <1>2, <3>6, <4>1, <4>2, PlansAre DEF Doing, AtRest
      <4>3. CASE r = AfterCopy /\ n = 0
        BY <1>2, <3>6, <4>1, <4>3, FirstSteps DEF Doing, AtRest
      <4>4. CASE r = AfterFlush /\ n = 0 /\ ctl.ready
        BY <1>2, <3>6, <4>1, <4>4, PlansAre DEF Doing, AtRest
      <4> QED BY <3>1, <4>2, <4>3, <4>4 DEF Call
    <3> QED BY <3>1, <3>2, <3>3, <3>4, <3>5, <3>6 DEF Drains
  <2>3. CASE levels = 0 /\ todo = Then("overlay", Present) /\ ctl.ready
    BY <1>2, <2>3, FirstSteps DEF Doing
  <2>4. CASE levels = 0 /\ fifo = <<>> /\ todo = <<"join", "post", "begin">>
    BY <1>2, <2>4, ShortSteps DEF Doing
  <2>5. CASE levels = 0 /\ fifo = <<>> /\ todo = <<"post", "begin">> /\ ctl.ready
    BY <1>2, <2>5, ShortSteps DEF Doing
  <2> QED BY <1>2, <2>1, <2>2, <2>3, <2>4, <2>5 DEF Called
<1> QED BY <1>1, <1>2 DEF PlanInv

Early == ctl.job \/ worker \in {"seals", "asks", "prepares"}
Unsealed == ctl.job \/ worker = "seals"

\* The worker's cycle and the phases that it publishes.
Phase ==
  /\ ctl.job => worker \in {"waits", "gone"}
  /\ worker = "none" => ctl.ready
  /\ worker # "gone" => (ctl.sealed <=> ~Early) /\ (ctl.ready <=> ~ctl.job /\ worker \notin Cycle)
  /\ worker = "gone" => ctl.sealed /\ ctl.ready /\ ctl.stop
  /\ ctl.ready => ctl.sealed
  /\ Early => ~ctl.prepared
  /\ owed => worker \in {"encodes", "opens"}
  /\ ctl.prepared => (ui \/ owed)
  /\ active \/ ctl.prepared => worker # "none"

Flags == [stop : BOOLEAN, job : BOOLEAN, sealed : BOOLEAN, ready : BOOLEAN,
          prepared : BOOLEAN, allowed : BOOLEAN]
SmallTypes ==
  /\ ctl \in Flags /\ worker \in {"none", "waits", "gone"} \cup Cycle
  /\ {owed, active, ui} \subseteq BOOLEAN /\ window \in {"fits", "resized", "hidden"}

\* Steps that leave the plan alone may publish more and withdraw nothing.
LEMMA PlanKept ==
  ASSUME PlanInv, UNCHANGED <<todo, levels, active, fifo>>, ctl'.stop = ctl.stop,
         ctl.ready => ctl'.ready, ctl.sealed => ctl'.sealed, MayBegin => MayBegin'
  PROVE  PlanInv'
<1>1. Between => Between'
  BY DEF Between
<1>2. \A r, n : Call(r, n) /\ Drains(r, n) => Call(r, n)' /\ Drains(r, n)'
  BY DEF Call, Drains, AtDrain, AtDecode, AtSplit, AtPressure, AtRest
<1>3. Called => Called'
  BY <1>2 DEF Called
<1> QED BY <1>1, <1>3 DEF PlanInv

LEMMA WorkerKeepsPlan == ASSUME SmallTypes, Phase, PlanInv, WorkerRuns PROVE PlanInv'
<1> USE DEF SmallTypes, Flags, Phase, MayBegin, Early, Cycle
<1>1. CASE Takes
  BY <1>1, PlanKept DEF Takes, passes
<1>2. CASE Seals
  BY <1>2, PlanKept DEF Seals
<1>3. CASE MayPrepare
  BY <1>3, PlanKept DEF MayPrepare, passes
<1>4. CASE Prepares
  BY <1>4, PlanKept DEF Prepares
<1>5. CASE Encodes
  BY <1>5, PlanKept DEF Encodes
<1>6. CASE OpensUi
  BY <1>6, PlanKept DEF OpensUi
<1>7. CASE Tells
  BY <1>7, PlanKept DEF Tells, passes
<1>8. CASE Leaves
  BY <1>8, PlanKept DEF Leaves, passes
<1> QED BY <1>1, <1>2, <1>3, <1>4, <1>5, <1>6, <1>7, <1>8 DEF WorkerRuns

LEMMA ProducerKeepsPlan ==
  ASSUME SmallTypes, Phase, PlanInv, Chooses \/ Proceeds \/ Pressure
  PROVE  PlanInv'
<1> USE DEF SmallTypes, Flags, Goes
<1> Doing
  BY PlanDoes
<1>1. CASE Ensure
  <2>1. Between' /\ levels' = 0
    BY <1>1 DEF Ensure, Doing, Idle, Between, MayBegin
  <2> QED BY <2>1 DEF PlanInv
<1>2. CASE Issue
  <2>1. Between' /\ levels' = 0
    BY <1>2 DEF Issue, Doing, Idle, Between
  <2> QED BY <2>1 DEF PlanInv
<1>3. CASE MakesCalls
  <2>1. ctl' = ctl /\ active' = active /\ ~ctl.stop /\ active /\ levels' = 0
    BY <1>3 DEF MakesCalls, Doing, Idle
  <2>2. CASE todo' \in {Present, FlushEfb}
    BY <2>1, <2>2 DEF PlanInv, Called
  <2>3. CASE todo' = CopyDisp
    <3>1. AtDrain(AfterCopy, 0)'
      BY <2>1, <2>3, PlansAre DEF AtDrain
    <3> QED BY <2>1, <3>1 DEF PlanInv, Called, Call, Drains, Rests
  <2> QED BY <1>3, <2>2, <2>3 DEF MakesCalls
<1>4. CASE Stop
  <2>1. Between' /\ levels' = 0
    BY <1>4 DEF Stop, Doing, Idle, Between
  <2> QED BY <2>1 DEF PlanInv
<1>5. CASE \E w \in {"resized", "hidden", "fits"} : Shift(w)
  BY <1>5, PlanKept DEF Shift, passes, MayBegin
<1>6. CASE Lock
  <2>1. ctl' = ctl /\ active' = active /\ ~ctl.stop /\ active /\ AtDrain(AfterScreen, 1)'
    BY <1>6, FirstSteps DEF Lock, Doing, Calling, AtDrain
  <2> QED BY <2>1 DEF PlanInv, Called, Call, Drains, Rests
<1>7. CASE Unlock
  BY <1>7, PlansAre DEF Unlock, Doing, Calling, AtRest, PlanInv, Called, passes
<1>8. CASE DrainFifo
  <2>1. PICK r \in Rests, n \in 0 .. 1 : Call(r, n) /\ AtDrain(r, n)
    BY <1>8 DEF DrainFifo, Doing
  <2>2. ctl' = ctl /\ active' = active /\ fifo' = fifo /\ ~ctl.stop /\ active
    BY <1>8 DEF DrainFifo, Doing, Calling, passes
  <2>3. AtRest(r, n)' \/ AtDecode(r, n)'
    BY <1>8, <2>1, <2>2, FirstSteps DEF DrainFifo, AtDrain, AtRest, AtDecode, Then
  <2> QED BY <2>1, <2>2, <2>3 DEF PlanInv, Called, Call, Drains
<1>9. CASE Decode
  <2>1. PICK r \in Rests, n \in 0 .. 1 : Call(r, n) /\ AtDecode(r, n)
    BY <1>9 DEF Decode, Doing
  <2>2. ctl' = ctl /\ active' = active /\ ~ctl.stop /\ active /\ AtDecode(r, n)'
    BY <1>9, <2>1 DEF Decode, Doing, Calling, AtDecode
  <2> QED BY <2>1, <2>2 DEF PlanInv, Called, Call, Drains
<1>10. CASE Decoded
  <2>1. PICK r \in Rests, n \in 0 .. 1 : Call(r, n) /\ AtDecode(r, n)
    BY <1>10 DEF Decoded, Doing
  <2>2. ctl' = ctl /\ active' = active /\ ~ctl.stop /\ active /\ AtRest(r, n)'
    BY <1>10, <2>1, FirstSteps DEF Decoded, Doing, Calling, AtDecode, AtRest, passes
  <2> QED BY <2>1, <2>2 DEF PlanInv, Called, Call, Drains
<1>11. CASE Pressure
  <2>1. PICK r \in Rests, n \in 0 .. 1 : Call(r, n) /\ AtDecode(r, n)
    BY <1>11 DEF Pressure, Doing
  <2>2. ctl' = ctl /\ active' = active /\ ~ctl.stop /\ active /\ AtPressure(r, n)'
    <3>1. todo = Then("decode", r) /\ todo' = <<"join", "split">> \o todo
      BY <1>11, <2>1 DEF Pressure, AtDecode
    <3>2. <<"join", "split">> \o Then("decode", r) = Then("join", Then("split", Then("decode", r)))
      BY FirstSteps
    <3>3. todo' = Then("join", Then("split", Then("decode", r)))
      BY <3>1, <3>2
    <3>4. ctl' = ctl /\ active' = active /\ ~ctl.stop /\ active /\ ctl.sealed /\ levels' = n
      BY <1>11, <2>1 DEF Pressure, Doing, Calling, AtDecode
    <3> QED BY <3>3, <3>4 DEF AtPressure
  <2> QED BY <2>1, <2>2 DEF PlanInv, Called, Call, Drains
<1>12. CASE Join
  <2>1. /\ ctl' = ctl /\ active' = active /\ levels' = levels /\ fifo' = fifo /\ ctl.ready
        /\ todo' = Tail(todo)
    BY <1>12 DEF Join, passes
  <2>2. CASE Calling /\ levels = 0 /\ todo = FlushEfb
    <3>1. AtDrain(AfterFlush, 0)'
      BY <2>1, <2>2, FirstSteps DEF AtDrain
    <3> QED BY <2>1, <2>2, <3>1 DEF PlanInv, Called, Call, Drains, Rests, Calling
  <2>3. CASE Calling /\ \E r \in Rests, n \in 0 .. 1 : Call(r, n) /\ AtPressure(r, n)
    <3>1. PICK r \in Rests, n \in 0 .. 1 : Call(r, n) /\ AtPressure(r, n)
      BY <2>3
    <3>2. AtSplit(r, n)'
      BY <2>1, <3>1, FirstSteps DEF AtPressure, AtSplit
    <3> QED BY <2>1, <2>3, <3>1, <3>2 DEF PlanInv, Called, Call, Drains, Calling
  <2>4. CASE Calling /\ AtRest(AfterCopy, 0)
    BY <2>1, <2>4, FirstSteps DEF AtRest, PlanInv, Called, Calling
  <2>5. CASE Calling /\ levels = 0 /\ fifo = <<>> /\ todo = <<"join", "post", "begin">>
    BY <2>1, <2>5, ShortSteps DEF PlanInv, Called, Calling
  <2>6. CASE ~ctl.stop /\ ~active /\ levels = 0 /\ todo = <<"join", "result">>
    BY <2>1, <2>6, ShortSteps DEF PlanInv, Between
  <2> QED BY <1>12, <2>2, <2>3, <2>4, <2>5, <2>6 DEF Join, Doing
<1>13. CASE Split
  <2>1. PICK r \in Rests, n \in 0 .. 1 : Call(r, n) /\ AtSplit(r, n)
    BY <1>13 DEF Split, Doing
  <2>2. ctl' = ctl /\ active' = active /\ ~ctl.stop /\ active /\ AtDecode(r, n)'
    BY <1>13, <2>1, FirstSteps DEF Split, RenderPrefix, Doing, Calling, AtSplit, AtDecode, Phase
  <2> QED BY <2>1, <2>2 DEF PlanInv, Called, Call, Drains
<1>14. CASE Prefix
  <2>1. Between' /\ levels' = 0
    BY <1>14, PlansAre DEF Prefix, RenderPrefix, Doing, Calling, AtRest, Between
  <2> QED BY <2>1 DEF PlanInv
<1>15. CASE Overlay
  BY <1>15, FirstSteps DEF Overlay, Doing, Calling, PlanInv, Called
<1>16. CASE Post
  <2>1. todo' = <<"begin">> /\ levels' = 0 /\ ~ctl'.stop /\ ~active' /\ MayBegin'
    BY <1>16, ShortSteps DEF Post, Doing, Calling, MayBegin
  <2> QED BY <2>1 DEF PlanInv, Between
<1>17. CASE BeginLater
  <2>1. Between' /\ levels' = 0
    BY <1>17, ShortSteps DEF BeginLater, Doing, Between
  <2> QED BY <2>1 DEF PlanInv
<1>18. CASE BeginResult
  <2>1. Between' /\ levels' = 0
    BY <1>18, ShortSteps DEF BeginResult, Doing, Between
  <2> QED BY <2>1 DEF PlanInv
<1>19. CASE BeginNow
  <2>1. Between' /\ levels' = 0
    BY <1>19, ShortSteps DEF BeginNow, Doing, Between
  <2> QED BY <2>1 DEF PlanInv
<1>20. CASE Stopped
  <2>1. Between' /\ levels' = 0
    BY <1>20, ShortSteps DEF Stopped, Doing, Between, Phase
  <2> QED BY <2>1 DEF PlanInv
<1> QED BY <1>1, <1>2, <1>3, <1>4, <1>5, <1>6, <1>7, <1>8, <1>9, <1>10, <1>11, <1>12, <1>13,
           <1>14, <1>15, <1>16, <1>17, <1>18, <1>19, <1>20 DEF Chooses, Proceeds

LEMMA PhaseKept ==
  ASSUME SmallTypes, Phase, PlanInv, FrameNext
  PROVE  SmallTypes' /\ Phase'
<1> USE DEF SmallTypes, Flags, Phase, Early, Cycle
<1> Doing
  BY PlanDoes
<1>1. CASE Ensure \/ Issue \/ MakesCalls
  BY <1>1 DEF Ensure, Issue, MakesCalls, passes
<1>2. CASE Stop
  BY <1>2 DEF Stop, Doing, passes
<1>3. CASE \E w \in {"resized", "hidden", "fits"} : Shift(w)
  BY <1>3 DEF Shift, passes
<1>4. CASE Lock \/ Unlock \/ DrainFifo \/ Overlay
  BY <1>4 DEF Lock, Unlock, DrainFifo, Overlay, passes, counts
<1>5. CASE Decode \/ Decoded \/ Pressure \/ Join
  BY <1>5 DEF Decode, Decoded, Pressure, Join, passes, counts
<1>6. CASE Split \/ Prefix
  BY <1>6 DEF Split, Prefix, RenderPrefix
<1>7. CASE Post
  BY <1>7 DEF Post, passes, Doing, Calling
<1>8. CASE BeginLater
  BY <1>8 DEF BeginLater, passes
<1>9. CASE BeginResult
  BY <1>9 DEF BeginResult, passes
<1>10. CASE BeginNow
  <2>1. ~ctl.stop
    BY <1>10 DEF BeginNow, Doing
  <2> QED BY <1>10, <2>1 DEF BeginNow, Begins, Fitted
<1>11. CASE Stopped
  BY <1>11 DEF Stopped, passes
<1>12. CASE Takes
  BY <1>12 DEF Takes, passes
<1>13. CASE Seals
  BY <1>13 DEF Seals
<1>14. CASE MayPrepare
  BY <1>14 DEF MayPrepare, passes
<1>15. CASE Prepares
  BY <1>15 DEF Prepares, Begins, Fitted
<1>16. CASE Encodes
  BY <1>16 DEF Encodes
<1>17. CASE OpensUi
  BY <1>17 DEF OpensUi
<1>18. CASE Tells
  BY <1>18 DEF Tells, passes
<1>19. CASE Leaves
  BY <1>19 DEF Leaves, passes
<1> QED BY <1>1, <1>2, <1>3, <1>4, <1>5, <1>6, <1>7, <1>8, <1>9, <1>10, <1>11, <1>12, <1>13,
           <1>14, <1>15, <1>16, <1>17, <1>18, <1>19
           DEF FrameNext, Chooses, Proceeds, WorkerRuns, FrameTypeOK

DrawTypes ==
  /\ {ended, shown, splits, shifts} \subseteq Nat /\ of \in Seq(0 .. ended)
  /\ {fifo, taken, out, Drawn(pass)} \subseteq Seq(1 .. Len(of)) /\ lost \subseteq 1 .. Len(of)

\* Whose the recorded passes are.
PassInv ==
  /\ pass # None => active \/ ctl.prepared \/ Unsealed
  /\ worker \in {"asks", "prepares"} => pass = None
  /\ taken # <<>> => worker \in {"asks", "prepares", "encodes", "gone"}
  /\ shifts = 0 => window = "fits"
  /\ ctl.prepared => pass # None
  /\ shifts = 0 /\ active /\ ctl.sealed /\ ~ctl.stop => pass # None
  /\ todo \in {<<>>, <<"thread">>} => active \/ (ctl.ready /\ ~ctl.prepared)
  /\ worker \in {"encodes", "opens", "tells"} /\ shifts = 0 => ctl.prepared

\* The guest frames that meet in the hand-over.
AgeInv ==
  /\ \A d \in ToSet(Drawn(pass)) : of[d] = IF Unsealed THEN ended - 1 ELSE ended
  /\ \A d \in ToSet(taken) : of[d] = ended - 1
  /\ \A d \in ToSet(fifo) : of[d] = ended
  /\ shown \in {ended, ended - 1}
  /\ worker = "gone" \/ shown = IF Early \/ worker = "encodes" THEN ended - 1 ELSE ended

LEMMA DrawnIs ==
  /\ Drawn(None) = <<>> /\ Drawn(<<>>) = <<>> /\ <<>> # None
  /\ \A n \in Nat : \A s \in Seq(1 .. n) : s # None /\ Drawn(s) = s
<1>1. <<>> # None
  BY DEF None
<1>2. ASSUME NEW n \in Nat, NEW s \in Seq(1 .. n), s = None PROVE FALSE
  <2>1. Len(s) = 1 /\ s[1] = 0
    BY <1>2 DEF None
  <2>2. s[1] \in 1 .. n
    BY <2>1
  <2> QED BY <2>1, <2>2
<1> QED BY <1>1, <1>2 DEF Drawn

LEMMA AppendIs ==
  ASSUME NEW S, NEW s \in Seq(S), NEW x \in S
  PROVE  Append(s, x) \in Seq(S) /\ ToSet(Append(s, x)) = ToSet(s) \cup {x}
<1> DEFINE t == Append(s, x)
<1>1. /\ t \in Seq(S) /\ Len(t) = Len(s) + 1 /\ Len(s) \in Nat
      /\ \A i \in 1 .. Len(s) : t[i] = s[i]
      /\ t[Len(s) + 1] = x
  OBVIOUS
<1> HIDE DEF t
<1>2. DOMAIN t = 1 .. Len(s) + 1 /\ DOMAIN s = 1 .. Len(s)
  BY <1>1
<1>3. ASSUME NEW i \in DOMAIN t
      PROVE  t[i] \in ToSet(s) \cup {x}
  <2>1. CASE i = Len(s) + 1
    BY <1>1, <2>1
  <2>2. CASE i \in DOMAIN s
    BY <1>1, <1>2, <2>2 DEF ToSet
  <2> QED BY <1>1, <1>2, <2>1, <2>2
<1>4. \A i \in DOMAIN s : i \in DOMAIN t /\ t[i] = s[i]
  BY <1>1, <1>2
<1>5. Len(s) + 1 \in DOMAIN t
  BY <1>1, <1>2
<1>6. ToSet(t) \subseteq ToSet(s) \cup {x}
  BY <1>3 DEF ToSet
<1>7. ToSet(s) \subseteq ToSet(t)
  BY <1>4 DEF ToSet
<1>8. x \in ToSet(t)
  BY <1>1, <1>5 DEF ToSet
<1>9. t \in Seq(S) /\ ToSet(t) = ToSet(s) \cup {x}
  BY <1>1, <1>6, <1>7, <1>8
<1> QED BY <1>9 DEF t

LEMMA HeadAndTail ==
  ASSUME NEW S, NEW s \in Seq(S), s # <<>>
  PROVE  /\ Head(s) \in S /\ Tail(s) \in Seq(S)
         /\ Head(s) \in ToSet(s) /\ ToSet(Tail(s)) \subseteq ToSet(s)
<1>1. /\ Len(s) \in Nat \ {0} /\ Head(s) = s[1] /\ Head(s) \in S /\ Tail(s) \in Seq(S)
      /\ Len(Tail(s)) = Len(s) - 1 /\ \A i \in 1 .. Len(Tail(s)) : Tail(s)[i] = s[i + 1]
  OBVIOUS
<1>2. DOMAIN s = 1 .. Len(s) /\ DOMAIN Tail(s) = 1 .. Len(Tail(s))
  BY <1>1
<1>3. \A i \in DOMAIN Tail(s) : i + 1 \in DOMAIN s
  BY <1>1, <1>2
<1> QED BY <1>1, <1>2, <1>3 DEF ToSet

LEMMA ToSetJoins ==
  ASSUME NEW S, NEW s \in Seq(S), NEW t \in Seq(S)
  PROVE  s \o t \in Seq(S) /\ ToSet(s \o t) = ToSet(s) \cup ToSet(t)
<1> DEFINE u == s \o t
<1>1. /\ u \in Seq(S) /\ Len(u) = Len(s) + Len(t) /\ Len(s) \in Nat /\ Len(t) \in Nat
      /\ \A i \in 1 .. Len(s) : u[i] = s[i]
      /\ \A i \in 1 .. Len(t) : u[Len(s) + i] = t[i]
  OBVIOUS
<1> HIDE DEF u
<1>2. /\ DOMAIN u = 1 .. Len(s) + Len(t) /\ DOMAIN s = 1 .. Len(s) /\ DOMAIN t = 1 .. Len(t)
  BY <1>1
<1>3. ASSUME NEW i \in DOMAIN u
      PROVE  u[i] \in ToSet(s) \cup ToSet(t)
  <2>1. CASE i \in DOMAIN s
    BY <1>1, <1>2, <2>1 DEF ToSet
  <2>2. CASE i \notin DOMAIN s
    <3>1. i - Len(s) \in DOMAIN t /\ Len(s) + (i - Len(s)) = i
      BY <1>1, <1>2, <2>2
    <3>2. u[i] = t[i - Len(s)]
      BY <1>1, <1>2, <3>1
    <3> QED BY <3>1, <3>2 DEF ToSet
  <2> QED BY <2>1, <2>2
<1>4. ToSet(u) \subseteq ToSet(s) \cup ToSet(t)
  BY <1>3 DEF ToSet
<1>5. ToSet(s) \subseteq ToSet(u)
  <2>1. \A i \in DOMAIN s : i \in DOMAIN u /\ u[i] = s[i]
    BY <1>1, <1>2
  <2> QED BY <2>1 DEF ToSet
<1>6. ToSet(t) \subseteq ToSet(u)
  <2>1. \A i \in DOMAIN t : Len(s) + i \in DOMAIN u /\ u[Len(s) + i] = t[i]
    BY <1>1, <1>2
  <2> QED BY <2>1 DEF ToSet
<1>7. u \in Seq(S) /\ ToSet(u) = ToSet(s) \cup ToSet(t)
  BY <1>1, <1>4, <1>5, <1>6
<1> QED BY <1>7 DEF u

LEMMA DrawTypesKept ==
  ASSUME SmallTypes, Phase, PlanInv, DrawTypes, PassInv, FrameNext
  PROVE  DrawTypes'
<1> USE DEF DrawTypes
<1>0. Len(of) \in Nat
  OBVIOUS
<1>1. CASE UNCHANGED <<passes, counts>>
  BY <1>1 DEF passes, counts
<1>2. CASE Issue
  <2>1. of' \in Seq(0 .. ended) /\ Len(of') = Len(of) + 1 /\ ended' = ended
    BY <1>2, AppendIs DEF Issue
  <2>2. \A s \in Seq(1 .. Len(of)) : s \in Seq(1 .. Len(of'))
    BY <1>0, <2>1
  <2>3. fifo' \in Seq(1 .. Len(of'))
    BY <1>0, <1>2, <2>1, <2>2, AppendIs DEF Issue
  <2> QED BY <1>0, <1>2, <2>1, <2>2, <2>3 DEF Issue
<1>3. CASE Decode
  <2>1. Head(fifo) \in 1 .. Len(of) /\ fifo' \in Seq(1 .. Len(of))
    BY <1>3, HeadAndTail DEF Decode
  <2>2. Drawn(pass') \in Seq(1 .. Len(of))
    <3>1. CASE pass = None
      BY <1>3, <3>1 DEF Decode
    <3>2. CASE pass # None
      <4>1. pass \in Seq(1 .. Len(of))
        BY <3>2 DEF Drawn
      <4>2. pass' = Append(pass, Head(fifo))
        BY <1>3, <3>2 DEF Decode
      <4>3. pass' \in Seq(1 .. Len(of))
        BY <2>1, <4>1, <4>2, AppendIs
      <4> QED BY <1>0, <4>3, DrawnIs
    <3> QED BY <3>1, <3>2
  <2> QED BY <1>3, <2>1, <2>2 DEF Decode, counts
<1>4. CASE Pressure
  <2>1. UNCHANGED <<passes, of, ended, shown, shifts>> /\ splits' = splits + 1
    BY <1>4 DEF Pressure
  <2> QED BY <2>1 DEF passes
<1>5. CASE Split \/ Prefix
  <2>1. out' = out \o Drawn(pass) /\ pass' = <<>> /\ UNCHANGED <<counts, fifo, taken, lost>>
    BY <1>5 DEF Split, Prefix, RenderPrefix
  <2>2. out \o Drawn(pass) \in Seq(1 .. Len(of)) /\ <<>> \in Seq(1 .. Len(of))
    OBVIOUS
  <2> QED BY <2>1, <2>2, DrawnIs DEF counts
<1>6. CASE Post
  <2>1. of' \in Seq(0 .. ended')
    BY <1>6 DEF Post
  <2> QED BY <1>6, <2>1 DEF Post, passes
<1>7. CASE BeginNow
  <2>1. pass' \in {pass, <<>>} /\ UNCHANGED <<counts, fifo, taken, lost, out>>
    BY <1>7 DEF BeginNow, Recorded
  <2>2. <<>> \in Seq(1 .. Len(of))
    OBVIOUS
  <2> QED BY <2>1, <2>2, DrawnIs DEF counts
<1>8. CASE \E w \in {"resized", "hidden", "fits"} : Shift(w)
  BY <1>8 DEF Shift, passes
<1>9. CASE Seals
  <2>1. taken' = Drawn(pass) /\ pass' = None /\ UNCHANGED <<counts, fifo, lost, out>>
    BY <1>9 DEF Seals
  <2>2. <<>> \in Seq(1 .. Len(of))
    OBVIOUS
  <2> QED BY <2>1, <2>2, DrawnIs DEF counts
<1>10. CASE Prepares
  <2>1. pass' \in {pass, <<>>} /\ UNCHANGED <<counts, fifo, taken, lost, out>>
    BY <1>10 DEF Prepares, Recorded
  <2>2. <<>> \in Seq(1 .. Len(of))
    OBVIOUS
  <2> QED BY <2>1, <2>2, DrawnIs DEF counts
<1>11. CASE Encodes
  BY <1>11, ToSetJoins DEF Encodes
<1>12. CASE OpensUi
  BY <1>12 DEF OpensUi, counts
<1> QED
  BY <1>1, <1>2, <1>3, <1>4, <1>5, <1>6, <1>7, <1>8, <1>9, <1>10, <1>11, <1>12
     DEF FrameNext, Chooses, Proceeds, WorkerRuns, Ensure, MakesCalls, Stop, Lock, Unlock, DrainFifo,
         Decoded, Join, Overlay, BeginLater, BeginResult, Stopped, Takes, MayPrepare, Tells, Leaves

LEMMA PassKept ==
  ASSUME SmallTypes, Phase, PlanInv, DrawTypes, PassInv, FrameNext
  PROVE  PassInv'
<1> USE DEF SmallTypes, Flags, Phase, Early, Unsealed, Cycle, PassInv
<1> Doing
  BY PlanDoes
<1> <<>> # <<"thread">> /\ <<>> # None
  BY ShortSteps, DrawnIs
<1>1. CASE Ensure
  <2>1. todo' \notin {<<>>, <<"thread">>}
    BY <1>1, ShortSteps DEF Ensure
  <2> QED BY <1>1, <2>1 DEF Ensure, passes, counts
<1>2. CASE Issue
  BY <1>2 DEF Issue, Idle
<1>3. CASE MakesCalls
  BY <1>3 DEF MakesCalls, Idle, passes, counts
<1>4. CASE Stop
  BY <1>4 DEF Stop, Idle, passes, counts
<1>5. CASE \E w \in {"resized", "hidden", "fits"} : Shift(w)
  <2>1. shifts' # 0 /\ UNCHANGED <<ctl, todo, worker, active, pass, taken>>
    BY <1>5 DEF Shift, passes, DrawTypes
  <2> QED BY <2>1
<1>6. CASE Lock \/ Unlock \/ DrainFifo \/ Decoded \/ Overlay \/ Pressure
  <2>1. active /\ UNCHANGED <<ctl, worker, active, pass, taken, window, shifts>>
    BY <1>6 DEF Lock, Unlock, DrainFifo, Decoded, Overlay, Pressure, Doing, Calling, passes, counts
  <2> QED BY <2>1
<1>7. CASE Decode
  <2>1. active /\ ~ctl.stop /\ ctl.sealed /\ UNCHANGED <<ctl, worker, active, taken, window, shifts>>
    BY <1>7 DEF Decode, Doing, Calling, AtDecode, counts
  <2>2. pass # None => pass' # None
    <3>1. ASSUME pass # None PROVE pass' # None
      <4>1. pass \in Seq(1 .. Len(of)) /\ Len(of) \in Nat
        BY <3>1 DEF Drawn, DrawTypes
      <4>2. pass' = Append(pass, Head(fifo)) /\ Head(fifo) \in 1 .. Len(of)
        BY <1>7, <3>1, HeadAndTail DEF Decode, DrawTypes
      <4>3. pass' \in Seq(1 .. Len(of))
        BY <4>1, <4>2, AppendIs
      <4> QED BY <4>1, <4>3, DrawnIs
    <3> QED BY <3>1
  <2>3. pass = None => pass' = None
    BY <1>7 DEF Decode
  <2> QED BY <2>1, <2>2, <2>3
<1>8. CASE Join
  <2>1. UNCHANGED <<ctl, worker, active, pass, taken, window, shifts>>
    BY <1>8 DEF Join, passes, counts
  <2>2. active \/ todo' = <<"result">>
    BY <1>8, ShortSteps DEF Join, Goes, Doing, Calling
  <2>3. <<"result">> \notin {<<>>, <<"thread">>}
    BY ShortSteps
  <2> QED BY <2>1, <2>2, <2>3
<1>9. CASE Split \/ Prefix
  <2>1. /\ active /\ ~ctl.stop /\ ctl.ready /\ pass' = <<>>
        /\ UNCHANGED <<ctl, worker, active, taken, window, shifts>>
    BY <1>9 DEF Split, Prefix, RenderPrefix, Doing, Calling, counts
  <2> QED BY <2>1
<1>10. CASE Post
  <2>1. /\ active /\ ~ctl.stop /\ ctl.ready /\ UNCHANGED <<worker, pass, taken, window, shifts>>
        /\ ctl'.job /\ ~ctl'.prepared /\ ~active' /\ ~ctl'.sealed
    BY <1>10 DEF Post, Doing, Calling, passes
  <2>2. todo' \notin {<<>>, <<"thread">>}
    BY <1>10, ShortSteps DEF Post, Goes, Doing
  <2> QED BY <2>1, <2>2
<1>11. CASE BeginLater
  <2>1. /\ ~ctl.stop /\ ~ctl.ready /\ UNCHANGED <<worker, pass, taken, window, shifts>>
        /\ ctl' = [ctl EXCEPT !.allowed = TRUE]
        /\ (active' /\ todo' = <<>>) \/ (active' = active /\ todo' = <<"join", "result">>)
    BY <1>11, ShortSteps DEF BeginLater, Goes, Doing, passes, counts
  <2>2. <<"join", "result">> \notin {<<>>, <<"thread">>}
    BY ShortSteps
  <2>3. /\ ctl'.sealed = ctl.sealed /\ ctl'.ready = ctl.ready /\ ctl'.stop = ctl.stop
        /\ ctl'.prepared = ctl.prepared /\ ctl'.job = ctl.job
    BY <2>1
  <2>4. shifts = 0 /\ ctl.sealed => pass # None
    BY <2>1
  <2>5. active => active'
    BY <2>1
  <2>6. todo' \in {<<>>, <<"thread">>} => active'
    BY <2>1, <2>2
  <2> QED BY <2>1, <2>3, <2>4, <2>5, <2>6
<1>12. CASE BeginResult
  <2>1. /\ ~ctl.stop /\ ctl.ready /\ ~active /\ UNCHANGED <<ctl, worker, pass, taken, window, shifts>>
        /\ active' = ctl.prepared
    BY <1>12 DEF BeginResult, Doing, passes, counts
  <2> QED BY <2>1
<1>13. CASE BeginNow
  <2>1. /\ ~ctl.stop /\ ctl.ready /\ ~active /\ UNCHANGED <<taken, shifts>>
        /\ worker' = IF worker = "none" THEN "waits" ELSE worker
    BY <1>13 DEF BeginNow, Doing, counts
  <2>2. worker \in {"none", "waits"} /\ ~ctl.job
    BY <2>1
  <2>3. CASE ctl.prepared
    BY <1>13, <2>1, <2>2, <2>3 DEF BeginNow
  <2>4. CASE ~ctl.prepared
    <3>1. pass = None
      BY <2>1, <2>2, <2>4
    <3>2. /\ ctl' = [ctl EXCEPT !.prepared = Begins] /\ active' = Begins
          /\ pass' = Recorded /\ window' = Fitted
      BY <1>13, <2>4 DEF BeginNow
    <3> QED BY <2>1, <2>2, <3>1, <3>2 DEF Begins, Recorded, Fitted
  <2> QED BY <2>3, <2>4
<1>14. CASE Stopped
  <2>1. /\ worker = "gone" /\ todo = <<"thread">> /\ UNCHANGED <<worker, active, pass, taken, window, shifts>>
        /\ ctl' = [ctl EXCEPT !.prepared = FALSE]
    BY <1>14 DEF Stopped, Doing, passes, counts
  <2> QED BY <2>1
<1>15. CASE Takes
  BY <1>15 DEF Takes, passes, counts
<1>16. CASE Seals
  <2>1. taken = <<>>
    BY <1>16 DEF Seals
  <2> QED BY <1>16, <2>1 DEF Seals, counts
<1>17. CASE MayPrepare
  BY <1>17 DEF MayPrepare, passes, counts
<1>18. CASE Prepares
  <2>1. pass = None /\ ~ctl.ready /\ ~ctl.job
    BY <1>18 DEF Prepares
  <2>2. todo \in {<<>>, <<"thread">>} => active
    BY <2>1
  <2> QED BY <1>18, <2>1, <2>2 DEF Prepares, Recorded, Fitted, Begins, counts
<1>19. CASE Encodes
  BY <1>19 DEF Encodes
<1>20. CASE OpensUi
  BY <1>20 DEF OpensUi, counts
<1>21. CASE Tells
  BY <1>21 DEF Tells, passes, counts
<1>22. CASE Leaves
  BY <1>22 DEF Leaves, passes, counts
<1> QED BY <1>1, <1>2, <1>3, <1>4, <1>5, <1>6, <1>7, <1>8, <1>9, <1>10, <1>11, <1>12, <1>13,
           <1>14, <1>15, <1>16, <1>17, <1>18, <1>19, <1>20, <1>21, <1>22
           DEF FrameNext, Chooses, Proceeds, WorkerRuns

LEMMA AgeKept ==
  ASSUME SmallTypes, Phase, PlanInv, DrawTypes, PassInv, AgeInv, FrameNext
  PROVE  AgeInv'
<1> USE DEF SmallTypes, Flags, Phase, Early, Unsealed, Cycle, AgeInv
<1> Doing
  BY PlanDoes
<1> /\ <<>> # None /\ Drawn(None) = <<>> /\ Drawn(<<>>) = <<>>
    /\ ToSet(<<>>) = {}
  BY DrawnIs DEF ToSet
<1>1. CASE /\ UNCHANGED <<passes, worker, of, ended, shown>>
           /\ ctl'.job = ctl.job
  BY <1>1 DEF passes
<1>2. CASE Issue
  <2>1. /\ UNCHANGED <<ctl, worker, pass, taken, ended, shown>>
        /\ of' = Append(of, ended) /\ fifo' = Append(fifo, Len(of) + 1)
    BY <1>2 DEF Issue
  <2>2. /\ Len(of) \in Nat /\ Len(of') = Len(of) + 1 /\ of'[Len(of) + 1] = ended
        /\ \A d \in 1 .. Len(of) : of'[d] = of[d]
    BY <2>1 DEF DrawTypes
  <2>3. \A s \in Seq(1 .. Len(of)) : ToSet(s) \subseteq 1 .. Len(of)
    BY DEF ToSet
  <2>4. fifo \in Seq(1 .. Len(of')) /\ Len(of) + 1 \in 1 .. Len(of')
    BY <2>2 DEF DrawTypes
  <2>5. ToSet(fifo') = ToSet(fifo) \cup {Len(of) + 1}
    BY <2>1, <2>4, AppendIs
  <2>6. \A d \in ToSet(fifo') : of'[d] = ended
    BY <2>2, <2>3, <2>5 DEF DrawTypes
  <2>7. \A d \in ToSet(Drawn(pass)) : of'[d] = of[d]
    BY <2>2, <2>3 DEF DrawTypes
  <2>8. \A d \in ToSet(taken) : of'[d] = of[d]
    BY <2>2, <2>3 DEF DrawTypes
  <2> QED BY <2>1, <2>6, <2>7, <2>8
<1>3. CASE Decode
  <2>1. /\ ~ctl.stop /\ ctl.sealed /\ fifo # <<>> /\ fifo' = Tail(fifo)
        /\ UNCHANGED <<ctl, worker, taken, of, ended, shown>>
        /\ pass' = pass \/ (pass # None /\ pass' = Append(pass, Head(fifo)))
    BY <1>3 DEF Decode, Doing, Calling, AtDecode, counts
  <2>2. /\ Head(fifo) \in 1 .. Len(of) /\ Len(of) \in Nat
        /\ Head(fifo) \in ToSet(fifo) /\ ToSet(fifo') \subseteq ToSet(fifo)
    BY <2>1, HeadAndTail DEF DrawTypes
  <2>3. ToSet(Drawn(pass')) \subseteq ToSet(Drawn(pass)) \cup {Head(fifo)}
    <3>1. ASSUME pass # None, pass' = Append(pass, Head(fifo))
          PROVE  ToSet(Drawn(pass')) \subseteq ToSet(Drawn(pass)) \cup {Head(fifo)}
      <4>1. pass \in Seq(1 .. Len(of)) /\ Drawn(pass) = pass
        BY <3>1 DEF Drawn, DrawTypes
      <4>2. pass' \in Seq(1 .. Len(of)) /\ ToSet(pass') = ToSet(pass) \cup {Head(fifo)}
        BY <2>2, <3>1, <4>1, AppendIs
      <4> QED BY <2>2, <4>1, <4>2, DrawnIs
    <3> QED BY <2>1, <3>1
  <2>4. ~Unsealed /\ ~Unsealed'
    BY <2>1
  <2>5. \A d \in ToSet(Drawn(pass)') : of'[d] = IF Unsealed' THEN ended' - 1 ELSE ended'
    BY <2>1, <2>2, <2>3, <2>4
  <2>6. \A d \in ToSet(fifo') : of'[d] = ended'
    BY <2>1, <2>2
  <2> QED BY <2>1, <2>5, <2>6
<1>4. CASE Split \/ Prefix
  <2>1. pass' = <<>> /\ UNCHANGED <<ctl, worker, fifo, taken, of, ended, shown>>
    BY <1>4 DEF Split, Prefix, RenderPrefix, counts
  <2> QED BY <2>1
<1>5. CASE Post
  <2>1. /\ ~ctl.stop /\ ctl.ready /\ fifo = <<>> /\ active
        /\ ctl' = [ctl EXCEPT !.prepared = FALSE, !.sealed = FALSE, !.ready = FALSE, !.job = TRUE,
                              !.allowed = FALSE]
        /\ ended' = ended + 1 /\ UNCHANGED <<worker, pass, taken, fifo, of, shown>>
    BY <1>5 DEF Post, Doing, Calling, passes
  <2>2. worker = "waits" /\ ~Early /\ taken = <<>> /\ shown = ended
    BY <2>1 DEF PassInv
  <2>3. ended' - 1 = ended /\ Unsealed' /\ Early'
    BY <2>1 DEF DrawTypes
  <2>4. \A d \in ToSet(Drawn(pass)') : of'[d] = ended' - 1
    BY <2>1, <2>2, <2>3
  <2> QED BY <2>1, <2>2, <2>3, <2>4
<1>6. CASE BeginNow
  <2>1. /\ ~ctl.stop /\ ctl.ready /\ pass' \in {pass, <<>>} /\ ctl'.job = ctl.job
        /\ worker' = IF worker = "none" THEN "waits" ELSE worker
        /\ UNCHANGED <<fifo, taken, of, ended, shown>>
    BY <1>6 DEF BeginNow, Doing, Recorded, counts
  <2>2. worker \in {"none", "waits"}
    BY <2>1
  <2>3. Early' = Early /\ Unsealed' = Unsealed
    BY <2>1, <2>2
  <2>4. \A d \in ToSet(Drawn(pass)') : of'[d] = IF Unsealed' THEN ended' - 1 ELSE ended'
    BY <2>1, <2>3
  <2>5. worker' = "gone" \/ shown' = IF Early' \/ worker' = "encodes" THEN ended' - 1 ELSE ended'
    BY <2>1, <2>2, <2>3
  <2> QED BY <2>1, <2>4, <2>5
<1>7. CASE Takes
  BY <1>7 DEF Takes, passes, counts
<1>8. CASE Seals
  <2>1. ~ctl.job /\ taken' = Drawn(pass) /\ pass' = None /\ UNCHANGED <<ctl, fifo, of, ended, shown>>
    BY <1>8 DEF Seals, counts
  <2> QED BY <1>8, <2>1 DEF Seals
<1>9. CASE MayPrepare
  BY <1>9 DEF MayPrepare, passes, counts
<1>10. CASE Prepares
  <2>1. /\ ~ctl.job /\ pass' \in {pass, <<>>} /\ ctl'.job = ctl.job /\ worker' = "encodes"
        /\ UNCHANGED <<taken, fifo, of, ended, shown>>
    BY <1>10 DEF Prepares, Recorded, counts
  <2> QED BY <1>10, <2>1 DEF Prepares
<1>11. CASE Encodes
  <2>1. shown' = ended
    BY <1>11 DEF Encodes, DrawTypes
  <2> QED BY <1>11, <2>1 DEF Encodes
<1>12. CASE OpensUi
  BY <1>12 DEF OpensUi, counts
<1>13. CASE Tells
  BY <1>13 DEF Tells, passes, counts
<1>14. CASE Leaves
  BY <1>14 DEF Leaves, passes, counts
<1>15. CASE \E w \in {"resized", "hidden", "fits"} : Shift(w)
  BY <1>1, <1>15 DEF Shift
<1>16. CASE Pressure
  BY <1>1, <1>16 DEF Pressure, passes
<1>17. CASE Ensure \/ MakesCalls \/ Stop \/ Lock \/ Unlock \/ DrainFifo \/ Decoded \/ Join \/ Overlay
            \/ BeginLater \/ BeginResult \/ Stopped
  BY <1>1, <1>17 DEF Ensure, MakesCalls, Stop, Lock, Unlock, DrainFifo, Decoded, Join, Overlay,
                     BeginLater, BeginResult, Stopped, counts
<1> QED BY <1>2, <1>3, <1>4, <1>5, <1>6, <1>7, <1>8, <1>9, <1>10, <1>11, <1>12, <1>13, <1>14,
           <1>15, <1>16, <1>17 DEF FrameNext, Chooses, Proceeds, WorkerRuns

\* Where each draw is, from those encoded to those not yet decoded.
Line == out \o taken \o Drawn(pass) \o fifo
Rising(s) == \A i, j \in DOMAIN s : i < j => s[i] < s[j]

LEMMA LineIs ==
  ASSUME DrawTypes
  PROVE  Line \in Seq(1 .. Len(of)) /\ Len(of) \in Nat
         /\ out \o taken \o Drawn(pass) \in Seq(1 .. Len(of))
         /\ out \o taken \in Seq(1 .. Len(of))
<1> DEFINE S == 1 .. Len(of)
<1>1. out \in Seq(S) /\ taken \in Seq(S) /\ Drawn(pass) \in Seq(S) /\ fifo \in Seq(S)
  BY DEF DrawTypes
<1> HIDE DEF S
<1>2. out \o taken \in Seq(S)
  BY <1>1, ConcatProperties
<1>3. out \o taken \o Drawn(pass) \in Seq(S)
  BY <1>1, <1>2, ConcatProperties
<1>4. Line \in Seq(S)
  BY <1>1, <1>3, ConcatProperties DEF Line
<1>5. Len(of) \in Nat
  BY DEF DrawTypes
<1> QED BY <1>2, <1>3, <1>4, <1>5 DEF S

\* A draw issued comes last; one that is lost leaves the others as they were.
LEMMA IssuedLast ==
  ASSUME NEW n \in Nat, NEW s \in Seq(1 .. n), Rising(s)
  PROVE  Rising(Append(s, n + 1))
<1> DEFINE t == Append(s, n + 1)
<1>1. /\ Len(s) \in Nat /\ DOMAIN t = 1 .. Len(s) + 1 /\ DOMAIN s = 1 .. Len(s)
      /\ t[Len(s) + 1] = n + 1 /\ \A i \in 1 .. Len(s) : t[i] = s[i] /\ s[i] \in 1 .. n
  OBVIOUS
<1> HIDE DEF t
<1>2. ASSUME NEW i \in DOMAIN t, NEW j \in DOMAIN t, i < j
      PROVE  t[i] < t[j]
  <2>1. i \in 1 .. Len(s)
    BY <1>1, <1>2
  <2>2. CASE j = Len(s) + 1
    BY <1>1, <2>1, <2>2
  <2>3. CASE j \in DOMAIN s
    BY <1>1, <1>2, <2>1, <2>3 DEF Rising
  <2> QED BY <1>1, <2>2, <2>3
<1>3. Rising(t)
  BY <1>2 DEF Rising
<1> QED BY <1>3 DEF t

LEMMA OneLeaves ==
  ASSUME NEW n \in Nat, NEW c \in Nat, NEW k \in 1 .. c + 1,
         NEW u \in Seq(1 .. n), NEW v \in Seq(1 .. n), Len(u) = c + 1, Len(v) = c, Rising(u),
         \A i \in 1 .. c : v[i] = u[IF i < k THEN i ELSE i + 1]
  PROVE  Rising(v) /\ ToSet(v) \cup {u[k]} = ToSet(u) /\ u[k] \notin ToSet(v)
<1> DEFINE from(i) == IF i < k THEN i ELSE i + 1
<1>1. DOMAIN u = 1 .. c + 1 /\ DOMAIN v = 1 .. c
  OBVIOUS
<1>2. /\ \A i \in 1 .. c : v[i] = u[from(i)] /\ from(i) \in 1 .. c + 1 /\ from(i) # k
      /\ \A i, j \in 1 .. c : i < j => from(i) < from(j)
  OBVIOUS
<1>3. \A p \in 1 .. c + 1 : p # k => \E i \in 1 .. c : from(i) = p
  <2>1. ASSUME NEW p \in 1 .. c + 1, p < k PROVE p \in 1 .. c /\ from(p) = p
    BY <2>1
  <2>2. ASSUME NEW p \in 1 .. c + 1, p > k PROVE p - 1 \in 1 .. c /\ from(p - 1) = p
    BY <2>2
  <2>3. \A p \in 1 .. c + 1 : p # k => p < k \/ p > k
    OBVIOUS
  <2> QED BY <2>1, <2>2, <2>3
<1>4. \A p \in 1 .. c + 1 : u[p] \in Int
  BY <1>1
<1> HIDE DEF from
<1>5. Rising(v)
  BY <1>1, <1>2 DEF Rising
<1>6. ToSet(v) \cup {u[k]} = ToSet(u)
  <2>1. ToSet(v) \cup {u[k]} \subseteq ToSet(u)
    <3>1. \A i \in 1 .. c + 1 : u[i] \in ToSet(u)
      BY <1>1 DEF ToSet
    <3>2. \A i \in 1 .. c : v[i] \in ToSet(u)
      BY <1>2, <3>1
    <3>3. ToSet(v) \subseteq ToSet(u)
      BY <1>1, <3>2 DEF ToSet
    <3> QED BY <3>1, <3>3
  <2>2. ASSUME NEW p \in 1 .. c + 1, p # k
        PROVE  u[p] \in ToSet(v)
    <3>1. PICK i \in 1 .. c : from(i) = p
      BY <1>3, <2>2
    <3>2. v[i] = u[p]
      BY <1>2, <3>1
    <3> QED BY <1>1, <3>2 DEF ToSet
  <2>3. ToSet(u) \subseteq ToSet(v) \cup {u[k]}
    BY <1>1, <2>2 DEF ToSet
  <2> QED BY <2>1, <2>3
<1>7. u[k] \notin ToSet(v)
  <2>1. ASSUME NEW i \in 1 .. c, v[i] = u[k]
        PROVE  FALSE
    <3>1. from(i) \in 1 .. c + 1 /\ u[from(i)] = u[k] /\ (from(i) < k \/ k < from(i))
      BY <1>2, <2>1
    <3>2. u[from(i)] < u[k] \/ u[k] < u[from(i)]
      BY <1>1, <3>1 DEF Rising
    <3> QED BY <1>4, <3>1, <3>2
  <2> QED BY <1>1, <2>1 DEF ToSet
<1> QED BY <1>5, <1>6, <1>7

LEMMA LostLeaves ==
  ASSUME NEW n \in Nat, NEW s \in Seq(1 .. n), NEW t \in Seq(1 .. n), t # <<>>, Rising(s \o t)
  PROVE  /\ Rising(s \o Tail(t))
         /\ ToSet(s \o Tail(t)) \cup {Head(t)} = ToSet(s \o t)
         /\ Head(t) \notin ToSet(s \o Tail(t))
<1> DEFINE u == s \o t
           v == s \o Tail(t)
           a == Len(s)
           b == Len(t)
           c == a + b - 1
<1>1. /\ a \in Nat /\ b \in Nat \ {0} /\ Tail(t) \in Seq(1 .. n) /\ Len(Tail(t)) = b - 1
      /\ Head(t) = t[1]
      /\ \A i \in 1 .. b - 1 : Tail(t)[i] = t[i + 1]
  OBVIOUS
<1>2. u \in Seq(1 .. n) /\ v \in Seq(1 .. n) /\ Len(u) = a + b /\ Len(v) = a + (b - 1)
  BY <1>1, ConcatProperties
<1>3. /\ \A i \in 1 .. a + b : u[i] = IF i <= a THEN s[i] ELSE t[i - a]
      /\ \A i \in 1 .. a + (b - 1) : v[i] = IF i <= a THEN s[i] ELSE Tail(t)[i - a]
  <2>1. \A i \in 1 .. a + b : u[i] = IF i <= a THEN s[i] ELSE t[i - a]
    BY ConcatProperties
  <2>2. \A i \in 1 .. a + (b - 1) : v[i] = IF i <= a THEN s[i] ELSE Tail(t)[i - a]
    BY <1>1, ConcatProperties
  <2> QED BY <2>1, <2>2
<1>4. Rising(u)
  OBVIOUS
<1> HIDE DEF u, v, a, b
<1>5. c \in Nat /\ a + 1 \in 1 .. c + 1 /\ Len(u) = c + 1 /\ Len(v) = c
  BY <1>1, <1>2
<1>6. \A i \in 1 .. c : v[i] = u[IF i < a + 1 THEN i ELSE i + 1]
  <2>1. ASSUME NEW i \in 1 .. c, i <= a
        PROVE  v[i] = u[i]
    BY <1>1, <1>3, <2>1
  <2>2. ASSUME NEW i \in 1 .. c, i > a
        PROVE  v[i] = u[i + 1]
    <3>1. i - a \in 1 .. b - 1 /\ (i - a) + 1 = (i + 1) - a
      BY <1>1, <2>2
    <3>2. v[i] = Tail(t)[i - a]
      BY <1>1, <1>3, <2>2
    <3>3. u[i + 1] = t[(i + 1) - a]
      BY <1>1, <1>3, <2>2
    <3> QED BY <1>1, <3>1, <3>2, <3>3
  <2>3. \A i \in 1 .. c : (i <= a <=> i < a + 1) /\ (i <= a \/ i > a)
    BY <1>1
  <2> QED BY <2>1, <2>2, <2>3
<1>7. u[a + 1] = Head(t)
  <2>1. a + 1 \in 1 .. a + b /\ ~(a + 1 <= a) /\ (a + 1) - a = 1
    BY <1>1
  <2>2. u[a + 1] = t[(a + 1) - a]
    BY <1>3, <2>1
  <2> QED BY <1>1, <2>1, <2>2
<1> HIDE DEF c
<1>8. Rising(v) /\ ToSet(v) \cup {u[a + 1]} = ToSet(u) /\ u[a + 1] \notin ToSet(v)
  BY <1>2, <1>4, <1>5, <1>6, OneLeaves
<1> QED BY <1>7, <1>8 DEF u, v

\* A draw decoded into a frame goes from one end of the fifo to that of the pass.
LEMMA DecodedKeepsLine ==
  ASSUME DrawTypes, Decode, pass # None
  PROVE  Line' = Line
<1> DEFINE S == 1 .. Len(of)
           h == Head(fifo)
           r == Tail(fifo)
           y == out \o taken
<1>1. /\ fifo # <<>> /\ fifo' = r /\ out' = out /\ taken' = taken /\ pass' = Append(pass, h)
      /\ Drawn(pass) = pass
  BY DEF Decode, Drawn
<1>2. y \in Seq(S) /\ pass \in Seq(S) /\ fifo \in Seq(S) /\ Len(of) \in Nat
  BY <1>1, LineIs DEF DrawTypes
<1>3. h \in S /\ r \in Seq(S)
  BY <1>1, <1>2, HeadAndTail
<1>4. pass' \in Seq(S)
  BY <1>1, <1>2, <1>3, AppendIs
<1>5. Drawn(pass') = pass'
  BY <1>2, <1>4, DrawnIs
<1>6. Line' = (y \o Append(pass, h)) \o r
  BY <1>1, <1>5 DEF Line
<1>7. Line = (y \o pass) \o fifo
  BY <1>1 DEF Line
<1> HIDE DEF S, h, r, y
<1>8. <<h>> \in Seq(S)
  BY <1>3
<1>9. Append(pass, h) = pass \o <<h>>
  BY <1>2, <1>3, AppendIsConcat
<1>10. fifo = <<h>> \o r
  BY <1>1, <1>2, Unfolds DEF Then, h, r
<1>11. y \o (pass \o <<h>>) = (y \o pass) \o <<h>>
  BY <1>2, <1>8, ConcatAssociative
<1>12. y \o pass \in Seq(S)
  BY <1>2, ConcatProperties
<1>13. ((y \o pass) \o <<h>>) \o r = (y \o pass) \o (<<h>> \o r)
  BY <1>3, <1>8, <1>12, ConcatAssociative
<1> QED BY <1>6, <1>7, <1>9, <1>10, <1>11, <1>13

\* The draws keep their place when they change hands.
LEMMA LineKept ==
  ASSUME SmallTypes, Phase, PlanInv, DrawTypes, PassInv, FrameNext, ~Issue,
         Decode => pass # None
  PROVE  Line' = Line
<1> DEFINE S == 1 .. Len(of)
           D == Drawn(pass)
<1> USE DEF SmallTypes, Flags, Phase, Early, Unsealed, Cycle, PassInv
<1> Doing
  BY PlanDoes
<1>0. out \in Seq(S) /\ taken \in Seq(S) /\ D \in Seq(S) /\ fifo \in Seq(S) /\ Len(of) \in Nat
  BY DEF DrawTypes
<1> Drawn(None) = <<>> /\ Drawn(<<>>) = <<>> /\ <<>> # None
  BY DrawnIs
<1>1. CASE UNCHANGED <<out, taken, pass, fifo>>
  BY <1>1 DEF Line
<1>3. CASE Decode
  BY <1>3, DecodedKeepsLine
<1>4. CASE Split \/ Prefix
  <2>1. /\ ~ctl.stop /\ ctl.ready /\ active
        /\ out' = out \o D /\ pass' = <<>> /\ UNCHANGED <<fifo, taken>>
    BY <1>4 DEF Split, Prefix, RenderPrefix, Doing, Calling
  <2>2. taken = <<>>
    BY <2>1
  <2> HIDE DEF S, D
  <2>3. out \o D \in Seq(S)
    BY <1>0, ConcatProperties
  <2>4. Line = (out \o D) \o fifo
    BY <1>0, <2>2, ConcatEmptySeq DEF Line, D
  <2>5. Line' = (((out \o D) \o <<>>) \o <<>>) \o fifo
    BY <2>1, <2>2 DEF Line
  <2> QED BY <2>3, <2>4, <2>5, ConcatEmptySeq
<1>5. CASE BeginNow
  <2>1. /\ ~ctl.stop /\ ctl.ready /\ ~active /\ UNCHANGED <<fifo, taken, out>>
        /\ pass' = pass \/ (~ctl.prepared /\ pass' = <<>>)
    BY <1>5 DEF BeginNow, Doing, Recorded
  <2>2. pass' = pass \/ (pass = None /\ pass' = <<>>)
    BY <2>1
  <2> QED BY <2>1, <2>2 DEF Line
<1>6. CASE Seals
  <2>1. taken = <<>> /\ taken' = D /\ pass' = None /\ UNCHANGED <<fifo, out>>
    BY <1>6 DEF Seals
  <2> HIDE DEF S, D
  <2>2. out \o D \in Seq(S)
    BY <1>0, ConcatProperties
  <2>3. Line = (out \o D) \o fifo
    BY <1>0, <2>1, ConcatEmptySeq DEF Line, D
  <2>4. Line' = ((out \o D) \o <<>>) \o fifo
    BY <2>1 DEF Line
  <2> QED BY <2>2, <2>3, <2>4, ConcatEmptySeq
<1>7. CASE Prepares
  <2>1. pass = None /\ (pass' = pass \/ pass' = <<>>) /\ UNCHANGED <<fifo, taken, out>>
    BY <1>7 DEF Prepares, Recorded
  <2> QED BY <2>1 DEF Line
<1>8. CASE Encodes
  <2>1. out' = out \o taken /\ taken' = <<>> /\ UNCHANGED <<fifo, pass>>
    BY <1>8 DEF Encodes
  <2> HIDE DEF S, D
  <2>2. out \o taken \in Seq(S)
    BY <1>0, ConcatProperties
  <2>3. Line' = ((out \o taken) \o <<>>) \o D \o fifo
    BY <2>1 DEF Line, D
  <2> QED BY <2>2, <2>3, ConcatEmptySeq DEF Line, D
<1>9. CASE Pressure
  BY <1>1, <1>9 DEF Pressure, passes
<1>10. CASE \E w \in {"resized", "hidden", "fits"} : Shift(w)
  BY <1>1, <1>10 DEF Shift, passes
<1>11. CASE OpensUi
  BY <1>1, <1>11 DEF OpensUi
<1>12. CASE UNCHANGED passes
  BY <1>1, <1>12 DEF passes
<1> QED
  BY <1>3, <1>4, <1>5, <1>6, <1>7, <1>8, <1>9, <1>10, <1>11, <1>12
     DEF FrameNext, Chooses, Proceeds, WorkerRuns, Ensure, MakesCalls, Stop, Lock, Unlock, DrainFifo,
         Decoded, Join, Overlay, Post, BeginLater, BeginResult, Stopped, Takes, MayPrepare, Tells, Leaves

LEMMA DrawsKept ==
  ASSUME SmallTypes, Phase, PlanInv, DrawTypes, PassInv, DrawsInOrder, FrameNext
  PROVE  DrawsInOrder'
<1> Doing
  BY PlanDoes
<1>1. Rising(Line) /\ ToSet(Line) \cup lost = 1 .. Len(of) /\ ToSet(Line) \cap lost = {}
  BY DEF DrawsInOrder, Line, Rising
<1>2. Line \in Seq(1 .. Len(of)) /\ Len(of) \in Nat
  BY LineIs
<1>3. ASSUME Rising(Line'), ToSet(Line') \cup lost' = 1 .. Len(of'), ToSet(Line') \cap lost' = {},
             shifts' = 0 => lost' = {}
      PROVE  DrawsInOrder'
  BY <1>3 DEF DrawsInOrder, Line, Rising
<1>4. shifts = 0 => lost = {}
  BY DEF DrawsInOrder
<1>5. CASE Issue
  <2> DEFINE y == out \o taken \o Drawn(pass)
             d == Len(of) + 1
             T == 1 .. Len(of) + 1
  <2>1. /\ fifo' = Append(fifo, d) /\ of' = Append(of, ended)
        /\ UNCHANGED <<pass, taken, out, lost, shifts>>
    BY <1>5 DEF Issue
  <2>2. Len(of') = Len(of) + 1
    BY <2>1 DEF DrawTypes
  <2>3. /\ \A s \in Seq(1 .. Len(of)) : s \in Seq(T)
        /\ d \in T
    BY <1>2
  <2>4. y \in Seq(T) /\ fifo \in Seq(T) /\ Line \in Seq(T)
    BY <1>2, <2>3, LineIs DEF DrawTypes
  <2>5. Line = y \o fifo /\ Line' = y \o Append(fifo, d)
    BY <2>1 DEF Line
  <2>6. d \notin 1 .. Len(of) /\ T = 1 .. Len(of) \cup {d}
    BY <1>2
  <2>7. Rising(Append(Line, d))
    BY <1>1, <1>2, IssuedLast
  <2> HIDE DEF y, d, T
  <2>8. Line' = Append(Line, d)
    <3>1. <<d>> \in Seq(T)
      BY <2>3
    <3>2. Append(fifo, d) = fifo \o <<d>> /\ Append(Line, d) = Line \o <<d>>
      BY <2>3, <2>4, AppendIsConcat
    <3>3. (y \o fifo) \o <<d>> = y \o (fifo \o <<d>>)
      BY <2>4, <3>1, ConcatAssociative
    <3> QED BY <2>5, <3>2, <3>3
  <2>9. ToSet(Line') = ToSet(Line) \cup {d}
    BY <2>3, <2>4, <2>8, AppendIs
  <2>10. ToSet(Line') \cup lost' = T /\ ToSet(Line') \cap lost' = {}
    <3>1. d \notin lost
      BY <2>6 DEF DrawTypes
    <3> QED BY <1>1, <2>1, <2>6, <2>9, <3>1
  <2>11. 1 .. Len(of') = T
    BY <2>2 DEF T
  <2> QED BY <1>3, <1>4, <2>1, <2>7, <2>8, <2>10, <2>11
<1>6. CASE Decode /\ pass = None
  <2> DEFINE y == out \o taken \o Drawn(pass)
  <2>1. /\ fifo # <<>> /\ fifo' = Tail(fifo) /\ lost' = lost \cup {Head(fifo)}
        /\ UNCHANGED <<pass, taken, out, of, shifts>>
    BY <1>6 DEF Decode, counts
  <2>2. y \in Seq(1 .. Len(of)) /\ fifo \in Seq(1 .. Len(of))
    BY LineIs DEF DrawTypes
  <2>3. Line = y \o fifo /\ Line' = y \o Tail(fifo)
    BY <2>1 DEF Line
  <2>4. active /\ ~ctl.stop /\ ctl.sealed
    BY <1>6 DEF Decode, Doing, Calling, AtDecode
  <2>5. shifts # 0
    BY <1>6, <2>4 DEF PassInv
  <2> HIDE DEF y
  <2>6. Rising(Line') /\ ToSet(Line') \cup {Head(fifo)} = ToSet(Line) /\ Head(fifo) \notin ToSet(Line')
    BY <1>1, <1>2, <2>1, <2>2, <2>3, LostLeaves
  <2> QED BY <1>1, <1>3, <2>1, <2>5, <2>6
<1>7. CASE ~Issue /\ (Decode => pass # None)
  <2>1. Line' = Line
    BY <1>7, LineKept
  <2>2. lost' = lost /\ of' = of /\ (shifts' = 0 => shifts = 0)
    <3>1. CASE UNCHANGED <<passes, of, shifts>>
      BY <3>1 DEF passes
    <3>2. CASE Decode
      BY <1>7, <3>2 DEF Decode, counts
    <3>3. CASE Split \/ Prefix
      BY <3>3 DEF Split, Prefix, RenderPrefix, counts
    <3>4. CASE BeginNow
      BY <3>4 DEF BeginNow, counts
    <3>5. CASE Seals
      BY <3>5 DEF Seals, counts
    <3>6. CASE Prepares
      BY <3>6 DEF Prepares, counts
    <3>7. CASE Encodes
      BY <3>7 DEF Encodes
    <3>8. CASE OpensUi
      BY <3>8 DEF OpensUi, counts
    <3>9. CASE \E w \in {"resized", "hidden", "fits"} : Shift(w)
      BY <3>9 DEF Shift, passes, DrawTypes
    <3>10. CASE Pressure
      BY <3>1, <3>10 DEF Pressure
    <3>11. CASE Post
      BY <3>1, <3>11 DEF Post
    <3> QED
      BY <1>7, <3>1, <3>2, <3>3, <3>4, <3>5, <3>6, <3>7, <3>8, <3>9, <3>10, <3>11
         DEF FrameNext, Chooses, Proceeds, WorkerRuns, Ensure, MakesCalls, Stop, Lock, Unlock,
             DrainFifo, Decoded, Join, Overlay, BeginLater, BeginResult, Stopped, Takes, MayPrepare,
             Tells, Leaves, counts
  <2> QED BY <1>1, <1>3, <1>4, <2>1, <2>2
<1> QED BY <1>5, <1>6, <1>7

-----------------------------------------------------------------------------
FrameInv ==
  /\ SmallTypes /\ Phase /\ PlanInv /\ DrawTypes /\ PassInv /\ AgeInv /\ DrawsInOrder

LEMMA FrameInitHolds == ASSUME FrameInit PROVE FrameInv
<1> USE DEF FrameInit
<1> /\ Drawn(None) = <<>> /\ Drawn(<<>>) = <<>> /\ ToSet(<<>>) = {}
  BY DrawnIs DEF ToSet
<1>1. SmallTypes /\ Phase
  BY DEF SmallTypes, Flags, Phase, Early, Cycle
<1>2. PlanInv
  BY DEF PlanInv, Between
<1>3. DrawTypes
  <2>1. \A S : <<>> \in Seq(S)
    OBVIOUS
  <2> QED BY <2>1 DEF DrawTypes
<1>4. PassInv /\ AgeInv
  BY DEF PassInv, AgeInv, Early, Unsealed
<1>5. DrawsInOrder
  <2>1. <<>> \o <<>> \o <<>> \o <<>> = <<>> /\ DOMAIN <<>> = {} /\ Len(<<>>) = 0 /\ 1 .. 0 = {}
    OBVIOUS
  <2> QED BY <2>1 DEF DrawsInOrder
<1> QED BY <1>1, <1>2, <1>3, <1>4, <1>5 DEF FrameInv

LEMMA FrameNextKeeps == ASSUME FrameInv, [FrameNext]_frameVars PROVE FrameInv'
<1>1. CASE FrameNext
  <2>1. PlanInv'
    BY <1>1, ProducerKeepsPlan, WorkerKeepsPlan DEF FrameInv, FrameNext
  <2> QED BY <1>1, <2>1, PhaseKept, DrawTypesKept, PassKept, AgeKept, DrawsKept DEF FrameInv
<1>2. CASE UNCHANGED frameVars
  <2>1. UNCHANGED <<ctl, todo, levels, worker, owed, active, fifo, pass, taken, ui, out, lost,
                    of, ended, shown, splits, shifts, window>>
    BY <1>2 DEF frameVars, passes, counts
  <2>2. SmallTypes' /\ Phase'
    BY <2>1 DEF FrameInv, SmallTypes, Phase, Early
  <2>3. PlanInv'
    BY <2>1, PlanKept DEF FrameInv, MayBegin
  <2>4. DrawTypes'
    BY <2>1 DEF FrameInv, DrawTypes
  <2>5. PassInv'
    BY <2>1 DEF FrameInv, PassInv, Unsealed
  <2>6. AgeInv'
    BY <2>1 DEF FrameInv, AgeInv, Unsealed, Early
  <2>7. DrawsInOrder'
    BY <2>1 DEF FrameInv, DrawsInOrder
  <2> QED BY <2>2, <2>3, <2>4, <2>5, <2>6, <2>7 DEF FrameInv
<1> QED BY <1>1, <1>2

LEMMA FrameInvShows == ASSUME FrameInv PROVE FrameTypeOK /\ FramesHandedOver
<1> USE DEF FrameInv
<1> Doing
  BY PlanDoes
<1>1. levels \in 0 .. 2
  BY DEF PlanInv, Called, Drains, AtDrain, AtDecode, AtSplit, AtPressure, AtRest
<1>2. FrameTypeOK
  <2>1. ended - 1 \in Int /\ shown \in {ended, ended - 1}
    BY DEF DrawTypes, AgeInv
  <2> QED BY <1>1, <2>1 DEF FrameTypeOK, SmallTypes, Flags, DrawTypes
<1>3. FramesApart
  <2>1. worker \in {"asks", "prepares", "encodes"} => ~Unsealed
    BY DEF Unsealed, Phase
  <2> QED BY <2>1 DEF FramesApart, AgeInv
<1>4. EncodesAlone
  <2>1. ASSUME NEW step \in {"split", "prefix", "overlay", "post"}, Does(step)
        PROVE  ~ctl.stop /\ active /\ ctl.ready
    BY <2>1 DEF Doing, Calling
  <2>2. ASSUME ~ctl.stop, active, ctl.ready
        PROVE  worker = "waits" /\ ~ctl.job /\ ~owed
    BY <2>2 DEF Phase, SmallTypes, Cycle
  <2>3. ctl.prepared /\ ~owed => ui
    BY DEF Phase
  <2> QED BY <2>1, <2>2, <2>3 DEF EncodesAlone
<1> QED BY <1>2, <1>3, <1>4 DEF FramesHandedOver

\* What the hand-over of frames promises holds for any number of draws, frames, splits and
\* shifts: every draw is encoded once and in order, unless it came while no frame could be
\* recorded; a frame has its own draws; and nobody encodes beside the worker.
THEOREM FramesAreHandedOver == FrameSpec => []FramesHandedOver
<1>1. FrameInit => FrameInv
  BY FrameInitHolds
<1>2. FrameInv /\ [FrameNext]_frameVars => FrameInv'
  BY FrameNextKeeps
<1>3. FrameInv => FramesHandedOver
  BY FrameInvShows
<1> QED BY <1>1, <1>2, <1>3, PTL DEF FrameSpec

\* The frame worker's state keeps its types; the guest is one frame ahead of it at most.
THEOREM FramesAreTyped == FrameSpec => []FrameTypeOK
<1>1. FrameInit => FrameInv
  BY FrameInitHolds
<1>2. FrameInv /\ [FrameNext]_frameVars => FrameInv'
  BY FrameNextKeeps
<1>3. FrameInv => FrameTypeOK
  BY FrameInvShows
<1> QED BY <1>1, <1>2, <1>3, PTL DEF FrameSpec

-----------------------------------------------------------------------------
(* Sequences without repetitions.                                          *)

Once(q, S) == q \in Seq(S) /\ IsInjective(q)

\* Its indices.
LEMMA OnceIs ==
  ASSUME NEW S, NEW q, Once(q, S)
  PROVE  /\ q \in Seq(S) /\ Len(q) \in Nat /\ DOMAIN q = 1 .. Len(q)
         /\ \A i \in 1 .. Len(q) : q[i] \in S
         /\ \A i, j \in 1 .. Len(q) : q[i] = q[j] => i = j
         /\ ToSet(q) = {q[i] : i \in 1 .. Len(q)} /\ ToSet(q) \subseteq S
         /\ (q = <<>> <=> Len(q) = 0)
<1>1. q \in Seq(S) /\ Len(q) \in Nat /\ DOMAIN q = 1 .. Len(q)
      /\ (\A i \in 1 .. Len(q) : q[i] \in S) /\ (q = <<>> <=> Len(q) = 0)
  BY DEF Once
<1>2. \A i, j \in 1 .. Len(q) : q[i] = q[j] => i = j
  BY <1>1 DEF Once, IsInjective
<1>3. ToSet(q) = {q[i] : i \in 1 .. Len(q)}
  BY <1>1 DEF ToSet
<1> QED BY <1>1, <1>2, <1>3

\* A row whose entries differ has no entry twice.
LEMMA OnceIf ==
  ASSUME NEW S, NEW q \in Seq(S), \A i, j \in 1 .. Len(q) : q[i] = q[j] => i = j
  PROVE  Once(q, S)
<1>1. DOMAIN q = 1 .. Len(q)
  OBVIOUS
<1> QED BY <1>1 DEF Once, IsInjective

\* What is in a row is at one of its indices.
LEMMA InRow ==
  ASSUME NEW S, NEW q \in Seq(S)
  PROVE  \A x : x \in ToSet(q) <=> \E i \in 1 .. Len(q) : q[i] = x
<1>1. DOMAIN q = 1 .. Len(q)
  OBVIOUS
<1> QED BY <1>1 DEF ToSet

\* The empty row.
LEMMA OnceEmpty ==
  ASSUME NEW S
  PROVE  Once(<<>>, S) /\ ToSet(<<>>) = {}
<1>1. <<>> \in Seq(S) /\ Len(<<>>) = 0
  OBVIOUS
<1>2. Once(<<>>, S)
  <2>1. \A i, j \in 1 .. Len(<<>>) : <<>>[i] = <<>>[j] => i = j
    BY <1>1
  <2> QED BY <1>1, <2>1, OnceIf
<1>3. DOMAIN <<>> = {}
  BY <1>1
<1>4. ToSet(<<>>) = {}
  BY <1>3 DEF ToSet
<1> QED BY <1>2, <1>4

\* It has as many members as entries.
LEMMA OnceCount ==
  ASSUME NEW S, NEW q, Once(q, S)
  PROVE  IsFiniteSet(ToSet(q)) /\ Cardinality(ToSet(q)) = Len(q)
<1> DEFINE n == Len(q)
           f == [i \in 1 .. n |-> q[i]]
<1>0. n \in Nat /\ ToSet(q) = {q[i] : i \in 1 .. n} /\ \A i, j \in 1 .. n : q[i] = q[j] => i = j
  BY OnceIs
<1> HIDE DEF n
<1>1. IsFiniteSet(1 .. n) /\ Cardinality(1 .. n) = n
  BY <1>0, FS_Interval
<1>2. f \in [1 .. n -> ToSet(q)]
  BY <1>0
<1>3. f \in Injection(1 .. n, ToSet(q))
  BY <1>0, <1>2 DEF Injection, IsInjective
<1>4. f \in Surjection(1 .. n, ToSet(q))
  BY <1>0, <1>2 DEF Surjection
<1>5. IsFiniteSet(ToSet(q)) /\ Cardinality(ToSet(q)) = Cardinality(1 .. n)
  BY <1>1, <1>3, <1>4, FS_Surjection
<1> QED BY <1>1, <1>5 DEF n

\* Taking the first entry.
LEMMA OnceTail ==
  ASSUME NEW S, NEW q, Once(q, S), q # <<>>
  PROVE  /\ Head(q) \in S /\ Head(q) \in ToSet(q)
         /\ Once(Tail(q), S) /\ ToSet(Tail(q)) = ToSet(q) \ {Head(q)}
<1> DEFINE t == Tail(q)
           h == Head(q)
<1>1. /\ Len(q) \in Nat \ {0} /\ h = q[1] /\ t \in Seq(S) /\ Len(t) = Len(q) - 1
      /\ \A i \in 1 .. Len(q) - 1 : t[i] = q[i + 1]
  BY OnceIs
<1> HIDE DEF t, h
<1>2. /\ \A i \in 1 .. Len(q) : q[i] \in S
      /\ \A i, j \in 1 .. Len(q) : q[i] = q[j] => i = j
  BY OnceIs
<1>3. Once(t, S)
  BY <1>1, <1>2, OnceIf
<1>4. h \in S /\ h \in ToSet(q)
  BY <1>1, <1>2, OnceIs
<1>5. ASSUME NEW x
      PROVE  x \in ToSet(t) <=> x \in ToSet(q) /\ x # h
  <2>1. x \in ToSet(t) <=> \E i \in 1 .. Len(q) - 1 : q[i + 1] = x
    BY <1>1, InRow
  <2>2. x \in ToSet(q) <=> \E i \in 1 .. Len(q) : q[i] = x
    BY OnceIs
  <2>3. \A i \in 1 .. Len(q) - 1 : i + 1 \in 1 .. Len(q) /\ i + 1 # 1
    BY <1>1
  <2>4. \A i \in 1 .. Len(q) : i # 1 => i - 1 \in 1 .. Len(q) - 1 /\ (i - 1) + 1 = i
    BY <1>1
  <2>5. 1 \in 1 .. Len(q)
    BY <1>1
  <2>6. x \in ToSet(q) /\ x # h => x \in ToSet(t)
    BY <1>1, <2>1, <2>2, <2>4
  <2>7. x \in ToSet(t) => x \in ToSet(q) /\ x # h
    BY <1>1, <1>2, <2>1, <2>2, <2>3, <2>5
  <2> QED BY <2>6, <2>7
<1>6. ToSet(t) = ToSet(q) \ {h}
  BY <1>5
<1> QED BY <1>3, <1>4, <1>6 DEF t, h

\* Giving up the last entry.
LEMMA OnceFront ==
  ASSUME NEW S, NEW q, Once(q, S), q # <<>>
  PROVE  /\ Last(q) \in S /\ Last(q) \in ToSet(q)
         /\ Once(Front(q), S) /\ ToSet(Front(q)) = ToSet(q) \ {Last(q)}
<1> DEFINE t == SubSeq(q, 1, Len(q) - 1)
           h == Last(q)
<1>0. Front(q) = t /\ Last(q) = h /\ h = q[Len(q)]
  BY DEF Front, Last
<1>1. /\ q \in Seq(S) /\ Len(q) \in Nat \ {0}
      /\ \A i \in 1 .. Len(q) : q[i] \in S
      /\ \A i, j \in 1 .. Len(q) : q[i] = q[j] => i = j
  BY OnceIs
<1>2. t \in Seq(S) /\ Len(t) = Len(q) - 1 /\ \A i \in 1 .. Len(q) - 1 : t[i] = q[i]
  <2>1. \A i \in 1 .. Len(q) - 1 : q[i] \in S
    BY <1>1
  <2>2. /\ t \in Seq(S) /\ Len(t) = IF 1 <= Len(q) - 1 THEN (Len(q) - 1) - 1 + 1 ELSE 0
        /\ \A i \in 1 .. (Len(q) - 1) - 1 + 1 : t[i] = q[1 + i - 1]
    BY <1>1, <2>1, SubSeqProperties
  <2> HIDE DEF t
  <2>3. (Len(q) - 1) - 1 + 1 = Len(q) - 1 /\ \A i \in 1 .. Len(q) - 1 : 1 + i - 1 = i
    BY <1>1
  <2>4. ASSUME NEW i \in 1 .. Len(q) - 1 PROVE t[i] = q[i]
    <3>1. i \in 1 .. (Len(q) - 1) - 1 + 1
      BY <2>3, Zenon
    <3>2. t[i] = q[1 + i - 1]
      BY <2>2, <3>1, Zenon
    <3> QED BY <2>3, <3>2, Zenon
  <2>5. Len(t) = Len(q) - 1
    <3>1. PICK n \in Nat : n = Len(q) - 1
      BY <1>1
    <3>2. (IF 1 <= n THEN n - 1 + 1 ELSE 0) = n
      BY <3>1
    <3> QED BY <2>2, <3>1, <3>2
  <2> QED BY <2>2, <2>4, <2>5
<1> HIDE DEF t, h
<1>3. Once(t, S)
  BY <1>1, <1>2, OnceIf
<1>4. h \in S /\ h \in ToSet(q)
  BY <1>0, <1>1, OnceIs
<1>5. ASSUME NEW x
      PROVE  x \in ToSet(t) <=> x \in ToSet(q) /\ x # h
  <2>1. x \in ToSet(t) <=> \E i \in 1 .. Len(q) - 1 : q[i] = x
    BY <1>2, InRow
  <2>2. x \in ToSet(q) <=> \E i \in 1 .. Len(q) : q[i] = x
    BY OnceIs
  <2>3. \A i \in 1 .. Len(q) - 1 : i \in 1 .. Len(q) /\ i # Len(q)
    BY <1>1
  <2>4. \A i \in 1 .. Len(q) : i # Len(q) => i \in 1 .. Len(q) - 1
    BY <1>1
  <2>5. Len(q) \in 1 .. Len(q)
    BY <1>1
  <2> QED BY <1>0, <1>1, <2>1, <2>2, <2>3, <2>4, <2>5
<1>6. ToSet(t) = ToSet(q) \ {h}
  BY <1>5
<1>7. Front(q) = t /\ Last(q) = h
  BY <1>0
<1> QED BY <1>3, <1>4, <1>6, <1>7

\* Two rows with nothing in common make one.
LEMMA OnceJoined ==
  ASSUME NEW S, NEW q, Once(q, S), NEW r, Once(r, S), ToSet(q) \cap ToSet(r) = {}
  PROVE  Once(q \o r, S) /\ ToSet(q \o r) = ToSet(q) \cup ToSet(r)
         /\ Len(q \o r) = Len(q) + Len(r)
<1> DEFINE u == q \o r
<1>1. /\ q \in Seq(S) /\ r \in Seq(S) /\ Len(q) \in Nat /\ Len(r) \in Nat
      /\ \A i, j \in 1 .. Len(q) : q[i] = q[j] => i = j
      /\ \A i, j \in 1 .. Len(r) : r[i] = r[j] => i = j
  BY OnceIs
<1>2. /\ u \in Seq(S) /\ Len(u) = Len(q) + Len(r)
      /\ \A i \in 1 .. Len(q) : u[i] = q[i]
      /\ \A i \in 1 .. Len(r) : u[Len(q) + i] = r[i]
  BY <1>1
<1> HIDE DEF u
<1>3. \A i \in 1 .. Len(u) : i \notin 1 .. Len(q) =>
        i - Len(q) \in 1 .. Len(r) /\ Len(q) + (i - Len(q)) = i
  BY <1>1, <1>2
<1>4. \A i \in 1 .. Len(u) : i \notin 1 .. Len(q) => u[i] = r[i - Len(q)]
  BY <1>2, <1>3
<1>5. \A i \in 1 .. Len(q), j \in 1 .. Len(r) : q[i] # r[j]
  <2>1. \A i \in 1 .. Len(q) : q[i] \in ToSet(q)
    BY <1>1, InRow
  <2>2. \A i \in 1 .. Len(r) : r[i] \in ToSet(r)
    BY <1>1, InRow
  <2> QED BY <2>1, <2>2
<1>6. ASSUME NEW i \in 1 .. Len(u), NEW j \in 1 .. Len(u), u[i] = u[j]
      PROVE  i = j
  <2>1. CASE i \in 1 .. Len(q) /\ j \in 1 .. Len(q)
    BY <1>1, <1>2, <1>6, <2>1
  <2>2. CASE i \notin 1 .. Len(q) /\ j \notin 1 .. Len(q)
    <3>1. r[i - Len(q)] = r[j - Len(q)]
      BY <1>4, <1>6, <2>2
    <3>2. i - Len(q) = j - Len(q)
      BY <1>1, <1>3, <2>2, <3>1
    <3>3. Len(q) + (i - Len(q)) = i /\ Len(q) + (j - Len(q)) = j
      BY <1>3, <2>2
    <3> QED BY <3>2, <3>3
  <2>3. CASE i \in 1 .. Len(q) /\ j \notin 1 .. Len(q)
    BY <1>2, <1>3, <1>4, <1>5, <1>6, <2>3
  <2>4. CASE i \notin 1 .. Len(q) /\ j \in 1 .. Len(q)
    BY <1>2, <1>3, <1>4, <1>5, <1>6, <2>4
  <2> QED BY <2>1, <2>2, <2>3, <2>4
<1>7. Once(u, S)
  BY <1>2, <1>6, OnceIf
<1>8. ASSUME NEW x
      PROVE  x \in ToSet(u) <=> x \in ToSet(q) \/ x \in ToSet(r)
  <2>1. x \in ToSet(u) <=> \E i \in 1 .. Len(u) : u[i] = x
    BY <1>2, InRow
  <2>2. x \in ToSet(q) <=> \E i \in 1 .. Len(q) : q[i] = x
    BY <1>1, InRow
  <2>3. x \in ToSet(r) <=> \E i \in 1 .. Len(r) : r[i] = x
    BY <1>1, InRow
  <2>4. \A i \in 1 .. Len(q) : i \in 1 .. Len(u)
    BY <1>1, <1>2
  <2>5. \A i \in 1 .. Len(r) : Len(q) + i \in 1 .. Len(u)
    BY <1>1, <1>2
  <2> QED BY <1>2, <1>3, <1>4, <2>1, <2>2, <2>3, <2>4, <2>5
<1> QED BY <1>2, <1>7, <1>8 DEF u

\* A row of one.
LEMMA OnceOne ==
  ASSUME NEW S, NEW x \in S
  PROVE  Once(<<x>>, S) /\ ToSet(<<x>>) = {x}
<1>1. <<x>> \in Seq(S) /\ Len(<<x>>) = 1 /\ <<x>>[1] = x
  OBVIOUS
<1>2. \A i, j \in 1 .. Len(<<x>>) : i = j
  BY <1>1
<1>3. Once(<<x>>, S)
  BY <1>1, <1>2, OnceIf
<1>4. \A y : y \in ToSet(<<x>>) <=> \E i \in 1 .. Len(<<x>>) : <<x>>[i] = y
  BY <1>1, InRow
<1>5. \A y : y \in ToSet(<<x>>) <=> y = x
  BY <1>1, <1>4
<1> QED BY <1>3, <1>5

\* One more entry.
LEMMA OnceAppended ==
  ASSUME NEW S, NEW q, Once(q, S), NEW x \in S \ ToSet(q)
  PROVE  Once(Append(q, x), S) /\ ToSet(Append(q, x)) = ToSet(q) \cup {x}
<1>1. q \in Seq(S)
  BY DEF Once
<1>2. Append(q, x) = q \o <<x>>
  BY <1>1, AppendIsConcat
<1>3. Once(<<x>>, S) /\ ToSet(<<x>>) = {x}
  BY OnceOne
<1>4. ToSet(q) \cap ToSet(<<x>>) = {}
  BY <1>3
<1> QED BY <1>2, <1>3, <1>4, OnceJoined

\* What is left when the entry of a hash is erased.
LEMMA OnceErased ==
  ASSUME NEW S, NEW q, Once(q, S), NEW h
  PROVE  Once(Erased(q, h), S) /\ ToSet(Erased(q, h)) = ToSet(q) \ {h}
<1>1. CASE h \notin ToSet(q)
  BY <1>1 DEF Erased
<1>2. CASE h \in ToSet(q)
  <2> DEFINE k == CHOOSE i \in DOMAIN q : q[i] = h
             a == SubSeq(q, 1, k - 1)
             b == SubSeq(q, k + 1, Len(q))
  <2>1. k \in 1 .. Len(q) /\ q[k] = h
    BY <1>2, OnceIs
  <2> HIDE DEF k
  <2>2. /\ q \in Seq(S) /\ Len(q) \in Nat
        /\ \A i \in 1 .. Len(q) : q[i] \in S
        /\ \A i, j \in 1 .. Len(q) : q[i] = q[j] => i = j
    BY OnceIs
  <2>3. a \in Seq(S) /\ Len(a) = k - 1 /\ \A i \in 1 .. k - 1 : a[i] = q[i]
    BY <2>1, <2>2, SubSeqProperties
  <2>4. b \in Seq(S) /\ Len(b) = Len(q) - k /\ \A i \in 1 .. Len(q) - k : b[i] = q[k + i]
    BY <2>1, <2>2, SubSeqProperties, SMTT(30)
  <2>5. Erased(q, h) = a \o b
    BY <1>2 DEF Erased, RemoveAt, k
  <2> HIDE DEF a, b
  <2>6. \A i \in 1 .. k - 1 : i \in 1 .. Len(q) /\ i # k
    BY <2>1, <2>2
  <2>7. \A i \in 1 .. Len(q) - k : k + i \in 1 .. Len(q) /\ k + i # k
    BY <2>1, <2>2
  <2>8. \A i \in 1 .. k - 1, j \in 1 .. Len(q) - k : i # k + j
    BY <2>1, <2>2
  <2>9. Once(a, S)
    BY <2>2, <2>3, <2>6, OnceIf
  <2>10. Once(b, S)
    <3>1. ASSUME NEW i \in 1 .. Len(b), NEW j \in 1 .. Len(b), b[i] = b[j]
          PROVE  i = j
      <4>1. q[k + i] = q[k + j]
        BY <2>4, <3>1
      <4>2. i \in 1 .. Len(q) - k /\ j \in 1 .. Len(q) - k
        BY <2>4
      <4>3. k + i = k + j
        BY <2>2, <2>7, <4>1, <4>2
      <4> QED BY <4>2, <4>3, <2>1, <2>2
    <3> QED BY <2>4, <3>1, OnceIf
  <2>11. \A x : x \in ToSet(a) <=> \E i \in 1 .. k - 1 : q[i] = x
    BY <2>3, InRow
  <2>12. \A x : x \in ToSet(b) <=> \E i \in 1 .. Len(q) - k : q[k + i] = x
    BY <2>4, InRow
  <2>13. ToSet(a) \cap ToSet(b) = {}
    BY <2>2, <2>6, <2>7, <2>8, <2>11, <2>12
  <2>14. Once(a \o b, S) /\ ToSet(a \o b) = ToSet(a) \cup ToSet(b)
    BY <2>9, <2>10, <2>13, OnceJoined
  <2>15. ASSUME NEW x
         PROVE  x \in ToSet(a) \cup ToSet(b) <=> x \in ToSet(q) /\ x # h
    <3>1. x \in ToSet(q) <=> \E i \in 1 .. Len(q) : q[i] = x
      BY <2>2, InRow
    <3>2. ASSUME NEW i \in 1 .. Len(q), i # k
          PROVE  i \in 1 .. k - 1 \/ \E j \in 1 .. Len(q) - k : k + j = i
      <4>1. CASE i < k
        BY <2>1, <2>2, <4>1
      <4>2. CASE ~(i < k)
        <5>1. i - k \in 1 .. Len(q) - k /\ k + (i - k) = i
          BY <2>1, <2>2, <3>2, <4>2
        <5> QED BY <5>1
      <4> QED BY <4>1, <4>2
    <3> QED BY <2>1, <2>2, <2>6, <2>7, <2>11, <2>12, <3>1, <3>2
  <2> QED BY <2>5, <2>14, <2>15
<1> QED BY <1>1, <1>2

\* What is left when the first n entries are taken.
LEMMA OnceSuffix ==
  ASSUME NEW S, NEW q, Once(q, S), NEW n \in 0 .. Len(q)
  PROVE  Once(SubSeq(q, n + 1, Len(q)), S)
<1> DEFINE b == SubSeq(q, n + 1, Len(q))
<1>1. q \in Seq(S) /\ Len(q) \in Nat /\ \A i, j \in 1 .. Len(q) : q[i] = q[j] => i = j
  BY OnceIs
<1>2. b \in Seq(S) /\ Len(b) = Len(q) - n /\ \A i \in 1 .. Len(q) - n : b[i] = q[n + i]
  BY <1>1, SubSeqProperties, SMTT(30)
<1> HIDE DEF b
<1>3. ASSUME NEW i \in 1 .. Len(b), NEW j \in 1 .. Len(b), b[i] = b[j]
      PROVE  i = j
  <2>1. i \in 1 .. Len(q) - n /\ j \in 1 .. Len(q) - n
    BY <1>2
  <2>2. n + i \in 1 .. Len(q) /\ n + j \in 1 .. Len(q)
    BY <1>1, <2>1
  <2>3. q[n + i] = q[n + j]
    BY <1>2, <1>3, <2>1
  <2>4. n + i = n + j
    BY <1>1, <2>2, <2>3
  <2> QED BY <2>1, <2>4, <1>1
<1>4. Once(b, S)
  BY <1>2, <1>3, OnceIf
<1> QED BY <1>4 DEF b

-----------------------------------------------------------------------------
(* Render pipelines.                                                       *)

States == {"looks", "sleeps", "builds", "tells", "leaves", "gone"}

\* The types of what the other parts do not speak of.
PipelineTypes ==
  /\ pipelines \subseteq Hashes /\ asleep \subseteq Started \cup {Renderer}
  /\ Started \in {{}, Builders} /\ builder \in [Started -> States]
  /\ item \in [Started -> Hashes \cup {NoHash}] /\ isBack \in [Started -> BOOLEAN]
  /\ skips \in BOOLEAN /\ inFrame \in BOOLEAN /\ pipelinesEnd \in BOOLEAN
  /\ creating \subseteq Draws /\ recorded \subseteq Draws /\ built \in Nat /\ finds \in Nat

\* What is pending is in one of the two queues, or being built, and only once.
RowsApart ==
  /\ Once(prio, Hashes) /\ Once(back, Hashes) /\ Once(deferred, Hashes)
  /\ ToSet(prio) \cap ToSet(back) = {}
  /\ compiling \cap (ToSet(prio) \cup ToSet(back)) = {}
  /\ toBuild = ToSet(prio) \cup ToSet(back) \cup compiling

\* The workers in some states, and those whose build counts as a background build.
In(states) == {w \in Started : builder[w] \in states}
FromBack == {w \in In({"builds", "tells", "leaves"}) : isBack[w]}

\* What is being built is what the workers build, each its own.
BuildersApart ==
  /\ compiling = {item[w] : w \in In({"builds"})} /\ compiling \subseteq Hashes
  /\ \A w, v \in In({"builds"}) : item[w] = item[v] => w = v
  /\ \A w \in In({"leaves"}) : isBack[w]

\* The counters count what is pending and the workers that have yet to count down.
CountsExact ==
  /\ IsFiniteSet(toBuild) /\ queued = Cardinality(toBuild) + Cardinality(In({"tells"}))
  /\ activeBack = Cardinality(FromBack) /\ activeBack <= MaxBack

\* A recorded draw is only ever left to the queue of first uses, which gives up nothing.
DrawsBacked ==
  /\ \A draw \in recorded : draw.ref \in pipelines \cup ToSet(prio) \cup compiling
  /\ missing = FALSE

\* A first use is on its way to the database, and nothing new comes when the writer ends.
UsesOnTheWay ==
  /\ {writerStop, broken} \subseteq BOOLEAN /\ writer \in {"waits", "writes", "gone"}
  /\ writes \cup batch \cup stored \cup firstUsed \subseteq Hashes
  /\ ~broken => firstUsed \subseteq writes \cup batch \cup stored
  /\ writer # "writes" => batch = {}
  /\ writer = "gone" /\ ~broken => writes = {}
  /\ writer = "gone" /\ ~broken => writerStop
  /\ writerStop => pipelinesEnd
  /\ pipelinesEnd => creating = {}

\* The inductive invariant of the pipeline cache.
PipelineInv ==
  PipelineTypes /\ RowsApart /\ BuildersApart /\ CountsExact /\ DrawsBacked /\ UsesOnTheWay

LEMMA PipelineInitHolds == ASSUME PipelineAssumption, PipelineInit PROVE PipelineInv
<1>1. PICK W \in {{}, Builders} :
        /\ builder = [w \in W |-> "looks"]
        /\ item = [w \in W |-> NoHash] /\ isBack = [w \in W |-> FALSE]
  BY DEF PipelineInit
<1>2. Started = W
  BY <1>1 DEF Started
<1>3. PipelineTypes
  BY <1>1, <1>2 DEF PipelineInit, PipelineTypes, PipelineAssumption, States
<1>4. Once(Cached, Hashes) /\ Once(Deferred, Hashes)
  BY DEF PipelineAssumption, Once
<1>5. RowsApart
  BY <1>4, OnceEmpty DEF PipelineInit, RowsApart
<1>6. In({"builds"}) = {} /\ In({"tells"}) = {} /\ In({"leaves"}) = {} /\ FromBack = {}
  BY <1>1, <1>2 DEF In, FromBack
<1>7. BuildersApart
  BY <1>6 DEF BuildersApart, PipelineInit
<1>8. CountsExact
  <2>1. IsFiniteSet(toBuild) /\ Cardinality(toBuild) = queued /\ queued \in Nat
    BY <1>4, OnceCount, OnceIs DEF PipelineInit
  <2>2. Cardinality({}) = 0
    BY FS_EmptySet
  <2>3. queued = Cardinality(toBuild) + 0
    BY <2>1
  <2>4. activeBack = 0 /\ activeBack <= MaxBack
    BY DEF PipelineInit, PipelineAssumption
  <2> QED BY <2>1, <2>2, <2>3, <2>4, <1>6 DEF CountsExact
<1>9. DrawsBacked
  BY DEF DrawsBacked, PipelineInit
<1>10. UsesOnTheWay
  <2>1. ToSet(Cached) \subseteq Hashes /\ ToSet(Deferred) \subseteq Hashes
    BY <1>4, OnceIs
  <2> QED BY <2>1 DEF UsesOnTheWay, PipelineInit
<1> QED BY <1>3, <1>5, <1>7, <1>8, <1>9, <1>10 DEF PipelineInv

-----------------------------------------------------------------------------
(* The queues.                                                             *)

\* What is queued is what is pending and not being built.
LEMMA RowsAre ==
  ASSUME RowsApart
  PROVE  /\ ToSet(prio) \subseteq Hashes /\ ToSet(back) \subseteq Hashes
         /\ \A h : InQueue(h) <=> h \in toBuild /\ h \notin compiling
  BY OnceIs DEF RowsApart, InQueue

\* A queued hash is erased and may be put in the queue of first uses.
LEMMA ErasedRows ==
  ASSUME RowsApart, NEW h \in Hashes
  PROVE  /\ Once(Erased(prio, h), Hashes) /\ ToSet(Erased(prio, h)) = ToSet(prio) \ {h}
         /\ Once(Erased(back, h), Hashes) /\ ToSet(Erased(back, h)) = ToSet(back) \ {h}
  BY OnceErased DEF RowsApart

\* A first use moves, and nothing is lost.
LEMMA TouchedRows ==
  ASSUME RowsApart, NEW h \in Hashes, Touched(h)
  PROVE  /\ Once(prio', Hashes) /\ Once(back', Hashes)
         /\ ToSet(prio') \cap ToSet(back') = {}
         /\ ToSet(prio') \cup ToSet(back') = ToSet(prio) \cup ToSet(back)
         /\ ToSet(prio) \subseteq ToSet(prio')
         /\ InQueue(h) => h \in ToSet(prio')
<1>1. CASE h \in ToSet(back)
  <2>1. prio' = Append(prio, h) /\ back' = Erased(back, h)
    BY <1>1 DEF Touched
  <2>2. Once(prio, Hashes) /\ h \in Hashes \ ToSet(prio)
    BY <1>1 DEF RowsApart
  <2>3. Once(prio', Hashes) /\ ToSet(prio') = ToSet(prio) \cup {h}
    BY <2>1, <2>2, OnceAppended
  <2>4. Once(back', Hashes) /\ ToSet(back') = ToSet(back) \ {h}
    BY <2>1, ErasedRows
  <2> QED BY <1>1, <2>3, <2>4 DEF RowsApart
<1>2. CASE h \notin ToSet(back)
  BY <1>2 DEF Touched, RowsApart, InQueue
<1> QED BY <1>1, <1>2

\* A full queue gives up a background build, and nothing else.
LEMMA KeptRows ==
  ASSUME RowsApart
  PROVE  /\ Once(BackKept, Hashes) /\ ToSet(BackKept) \subseteq ToSet(back)
         /\ PendingKept = ToSet(prio) \cup ToSet(BackKept) \cup compiling
         /\ PendingKept = IF Evicts THEN toBuild \ {Last(back)} ELSE toBuild
         /\ Evicts => Last(back) \in toBuild
<1>1. CASE ~Evicts
  BY <1>1 DEF BackKept, PendingKept, RowsApart
<1>2. CASE Evicts
  <2>1. Once(back, Hashes) /\ back # <<>>
    BY <1>2 DEF RowsApart, Evicts
  <2>2. /\ Last(back) \in ToSet(back)
        /\ Once(Front(back), Hashes) /\ ToSet(Front(back)) = ToSet(back) \ {Last(back)}
    BY <2>1, OnceFront
  <2>3. BackKept = Front(back) /\ PendingKept = toBuild \ {Last(back)}
    BY <1>2 DEF BackKept, PendingKept
  <2> QED BY <1>2, <2>2, <2>3 DEF RowsApart
<1> QED BY <1>1, <1>2

\* What comes near is not there yet, and comes once.
LEMMA NearIs ==
  ASSUME RowsApart, NEW n \in 0 .. Len(deferred), NEW near \in NearRows(n)
  PROVE  Once(near, Hashes) /\ ToSet(near) \cap toBuild = {}
<1> DEFINE Near == {i \in 1 .. n : deferred[i] \notin pipelines \cup toBuild}
           c == Cardinality(Near)
<1>1. /\ deferred \in Seq(Hashes) /\ Len(deferred) \in Nat
      /\ \A i \in 1 .. Len(deferred) : deferred[i] \in Hashes
      /\ \A i, j \in 1 .. Len(deferred) : deferred[i] = deferred[j] => i = j
  BY OnceIs DEF RowsApart
<1>2. c \in Nat
  <2>1. IsFiniteSet(1 .. n)
    BY <1>1, FS_Interval
  <2>2. IsFiniteSet(Near)
    BY <2>1, FS_Subset
  <2> QED BY <2>2, FS_CardinalityType
<1>3. PICK k \in [1 .. c -> Near] :
        /\ \A i, j \in DOMAIN k : i < j => k[i] < k[j]
        /\ near = [i \in DOMAIN k |-> deferred[k[i]]]
  BY DEF NearRows
<1> HIDE DEF c
<1>4. DOMAIN k = 1 .. c /\ near = [i \in 1 .. c |-> deferred[k[i]]]
  BY <1>3
<1>5. \A i \in 1 .. c : /\ k[i] \in 1 .. n /\ k[i] \in 1 .. Len(deferred)
                        /\ deferred[k[i]] \notin toBuild
  BY <1>1, <1>3
<1>6. near \in Seq(Hashes) /\ Len(near) = c
  <2>1. near \in [1 .. c -> Hashes]
    BY <1>1, <1>4, <1>5
  <2> QED BY <1>2, <2>1
<1>7. \A i, j \in 1 .. c : k[i] = k[j] => i = j
  <2> SUFFICES ASSUME NEW i \in 1 .. c, NEW j \in 1 .. c, k[i] = k[j], i # j
               PROVE  FALSE
    OBVIOUS
  <2>1. k[i] \in Nat /\ k[j] \in Nat
    BY <1>5
  <2>2. k[i] < k[j] \/ k[j] < k[i]
    BY <1>2, <1>3, <1>4
  <2> QED BY <2>1, <2>2
<1>8. Once(near, Hashes)
  <2>1. ASSUME NEW i \in 1 .. c, NEW j \in 1 .. c, near[i] = near[j]
        PROVE  i = j
    <3>1. deferred[k[i]] = deferred[k[j]]
      BY <1>4, <2>1
    <3>2. k[i] = k[j]
      BY <1>1, <1>5, <3>1
    <3> QED BY <1>7, <3>2
  <2> QED BY <1>6, <2>1, OnceIf
<1>9. ToSet(near) \cap toBuild = {}
  <2>1. \A x \in ToSet(near) : \E i \in 1 .. c : near[i] = x
    BY <1>6, InRow
  <2> QED BY <1>4, <1>5, <2>1
<1> QED BY <1>8, <1>9

-----------------------------------------------------------------------------
(* What a step leaves alone.                                               *)

\* One lemma for each part of the invariant: it holds on where its variables do not change,
\* or change in the one direction that does it no harm.
LEMMA RowsStay ==
  ASSUME RowsApart, UNCHANGED <<prio, back, deferred, compiling, toBuild>>
  PROVE  RowsApart'
  BY DEF RowsApart

LEMMA BuildersStay ==
  ASSUME BuildersApart, UNCHANGED <<compiling, builder, item, isBack>>
  PROVE  BuildersApart'
  BY DEF BuildersApart, In, Started

LEMMA CountsStay ==
  ASSUME CountsExact, UNCHANGED <<toBuild, queued, builder, isBack, activeBack>>
  PROVE  CountsExact'
  BY DEF CountsExact, In, FromBack, Started

LEMMA TypesStay ==
  ASSUME PipelineTypes, UNCHANGED <<builders, recorder, pipelinesEnd>>,
         pipelines' \subseteq Hashes, asleep' \subseteq Started \cup {Renderer},
         recorded' \subseteq Draws
  PROVE  PipelineTypes'
  BY DEF PipelineTypes, Started, builders, recorder

LEMMA UsesStay ==
  ASSUME UsesOnTheWay, UNCHANGED store, pipelinesEnd' = pipelinesEnd,
         creating' = {} \/ creating' = creating \/ ~pipelinesEnd
  PROVE  UsesOnTheWay'
  BY DEF UsesOnTheWay, store

LEMMA BackedStay ==
  ASSUME DrawsBacked, recorded' \subseteq recorded, missing' = missing,
         \A h : h \in pipelines \cup ToSet(prio) \cup compiling
                  => h \in pipelines' \cup ToSet(prio') \cup compiling'
  PROVE  DrawsBacked'
  BY DEF DrawsBacked

\* A first use is on its way before anything ends.
LEMMA StoredLater ==
  ASSUME UsesOnTheWay, NEW h \in Hashes, StoreLater(h), ~pipelinesEnd,
         pipelinesEnd' = pipelinesEnd
  PROVE  UsesOnTheWay'
<1>1. writer = "gone" => broken
  BY DEF UsesOnTheWay
<1>2. /\ firstUsed' = firstUsed \cup {h}
      /\ writes' = IF broken THEN writes ELSE writes \cup {h}
      /\ UNCHANGED <<batch, stored, writer, writerStop, broken>>
  BY DEF StoreLater
<1> QED BY <1>1, <1>2 DEF UsesOnTheWay

\* A notify only wakes.
LEMMA NotifiedTypes ==
  ASSUME PipelineTypes, NotifyOne \/ NotifyAll
  PROVE  asleep' \subseteq asleep /\ asleep' \subseteq Started \cup {Renderer}
  BY DEF NotifyOne, NotifyAll, PipelineTypes

-----------------------------------------------------------------------------
(* Recording.                                                              *)

LEMMA FindReadyKeeps ==
  ASSUME PipelineInv, NEW draw \in Draws, FindPipeline(draw), FindReady(draw)
  PROVE  PipelineInv'
<1> USE DEF PipelineInv, FindPipeline, FindReady, Records
<1>1. PipelineTypes'
  BY DEF PipelineTypes, Started, builders
<1>2. RowsApart'
  BY RowsStay DEF queues
<1>3. BuildersApart'
  BY BuildersStay DEF queues, builders
<1>4. CountsExact'
  BY CountsStay DEF queues, builders
<1>5. DrawsBacked'
  BY DEF DrawsBacked, queues
<1>6. UsesOnTheWay'
  BY UsesStay
<1> QED BY <1>1, <1>2, <1>3, <1>4, <1>5, <1>6

LEMMA FindPendingKeeps ==
  ASSUME PipelineInv, NEW draw \in Draws, FindPipeline(draw), FindPending(draw)
  PROVE  PipelineInv'
<1> USE DEF PipelineInv
<1> DEFINE h == draw.ref
<1>0. /\ h \in Hashes /\ h \in toBuild /\ ~pipelinesEnd
      /\ UNCHANGED <<deferred, toBuild, compiling, queued, store, pipelines, builders, missing,
                     pipelinesEnd, skips, inFrame, built>>
      /\ finds' = finds + 1
      /\ \/ recorded' = recorded \cup {draw} /\ creating' = creating
         \/ creating' = {draw} /\ recorded' = recorded
  BY DEF FindPipeline, FindPending, Draws, Records, BuildsItself
<1>1. CASE h \in compiling
  <2>1. UNCHANGED <<prio, back, asleep>>
    BY <1>1 DEF FindPending
  <2>2. PipelineTypes'
    BY <1>0, <2>1 DEF PipelineTypes, Started, builders
  <2>3. RowsApart' /\ BuildersApart' /\ CountsExact'
    BY <1>0, <2>1, RowsStay, BuildersStay, CountsStay DEF builders
  <2>4. DrawsBacked'
    BY <1>0, <1>1, <2>1 DEF DrawsBacked
  <2>5. UsesOnTheWay'
    BY <1>0, UsesStay
  <2> QED BY <2>2, <2>3, <2>4, <2>5
<1>2. CASE h \notin compiling
  <2>1. Touched(h) /\ NotifyOne
    BY <1>2 DEF FindPending
  <2>2. InQueue(h)
    BY <1>0, <1>2, RowsAre
  <2>3. /\ Once(prio', Hashes) /\ Once(back', Hashes)
        /\ ToSet(prio') \cap ToSet(back') = {}
        /\ ToSet(prio') \cup ToSet(back') = ToSet(prio) \cup ToSet(back)
        /\ ToSet(prio) \subseteq ToSet(prio') /\ h \in ToSet(prio')
    BY <1>0, <2>1, <2>2, TouchedRows
  <2>4. PipelineTypes'
    BY <1>0, <2>1, NotifiedTypes DEF PipelineTypes, Started, builders
  <2>5. RowsApart'
    BY <1>0, <2>3 DEF RowsApart
  <2>6. BuildersApart' /\ CountsExact'
    BY <1>0, BuildersStay, CountsStay DEF builders
  <2>7. DrawsBacked'
    BY <1>0, <2>3 DEF DrawsBacked
  <2>8. UsesOnTheWay'
    BY <1>0, UsesStay
  <2> QED BY <2>4, <2>5, <2>6, <2>7, <2>8
<1> QED BY <1>1, <1>2

LEMMA FindAtOnceKeeps ==
  ASSUME PipelineInv, NEW draw \in Draws, FindPipeline(draw), FindAtOnce(draw)
  PROVE  PipelineInv'
<1> USE DEF PipelineInv, FindPipeline, FindAtOnce, BuildsItself
<1>1. PipelineTypes'
  BY DEF PipelineTypes, Started, builders
<1>2. RowsApart'
  BY RowsStay DEF queues
<1>3. BuildersApart'
  BY BuildersStay DEF queues, builders
<1>4. CountsExact'
  BY CountsStay DEF queues, builders
<1>5. DrawsBacked'
  BY BackedStay DEF queues
<1>6. UsesOnTheWay'
  BY UsesStay
<1> QED BY <1>1, <1>2, <1>3, <1>4, <1>5, <1>6

\* One build less is queued when one gives way, and one more when the draw is queued.
LEMMA FindNewKeeps ==
  ASSUME PipelineAssumption, PipelineInv, NEW draw \in Draws, FindPipeline(draw), FindNew(draw)
  PROVE  PipelineInv'
<1> USE DEF PipelineInv
<1> DEFINE h == draw.ref
           n == Cardinality(toBuild)
           t == Cardinality(In({"tells"}))
<1>0. /\ h \in Hashes /\ h \notin pipelines \cup toBuild /\ ~pipelinesEnd
      /\ UNCHANGED <<deferred, compiling, pipelines, builders, missing, pipelinesEnd, skips,
                     inFrame, built>>
      /\ finds' = finds + 1 /\ back' = BackKept
  BY DEF FindPipeline, FindNew, Draws
<1>1. /\ Once(BackKept, Hashes) /\ ToSet(BackKept) \subseteq ToSet(back)
      /\ PendingKept = ToSet(prio) \cup ToSet(BackKept) \cup compiling
      /\ PendingKept = IF Evicts THEN toBuild \ {Last(back)} ELSE toBuild
      /\ Evicts => Last(back) \in toBuild
  BY KeptRows
<1>2. IsFiniteSet(toBuild) /\ n \in Nat /\ queued = n + t
  BY FS_CardinalityType DEF CountsExact
<1>3. t \in Nat
  <2>1. In({"tells"}) \subseteq Builders /\ IsFiniteSet(Builders)
    BY DEF In, PipelineTypes, PipelineAssumption
  <2> QED BY <2>1, FS_Subset, FS_CardinalityType
<1>4. /\ IsFiniteSet(PendingKept) /\ Cardinality(PendingKept) \in Nat
      /\ Cardinality(PendingKept) = IF Evicts THEN n - 1 ELSE n
  <2>1. CASE Evicts
    <3>1. PendingKept = toBuild \ {Last(back)} /\ Last(back) \in toBuild
      BY <1>1, <2>1
    <3>2. IsFiniteSet(PendingKept) /\ Cardinality(PendingKept) = n - 1
      BY <1>2, <3>1, FS_RemoveElement
    <3> QED BY <2>1, <3>2, FS_CardinalityType
  <2>2. CASE ~Evicts
    BY <1>1, <1>2, <2>2
  <2> QED BY <2>1, <2>2
<1>5. BuildersApart' /\ In({"tells"})' = In({"tells"}) /\ FromBack' = FromBack
  BY <1>0, BuildersStay DEF builders, In, FromBack, Started
<1>6. activeBack' = Cardinality(FromBack)' /\ activeBack' <= MaxBack
  BY <1>0, <1>5 DEF CountsExact, builders
<1>7. CASE Cardinality(PendingKept) >= Cap /\ ~skips
  <2>1. /\ BuildsItself(draw) /\ toBuild' = PendingKept
        /\ queued' = queued - (IF Evicts THEN 1 ELSE 0)
        /\ UNCHANGED <<prio, asleep, store>>
    BY <1>7 DEF FindNew
  <2>2. PipelineTypes'
    BY <1>0, <2>1 DEF PipelineTypes, Started, builders, BuildsItself
  <2>3. RowsApart'
    BY <1>0, <1>1, <2>1 DEF RowsApart
  <2>4. queued' = Cardinality(toBuild') + t
    BY <1>2, <1>3, <1>4, <2>1
  <2>5. CountsExact'
    BY <1>4, <1>5, <1>6, <2>1, <2>4 DEF CountsExact
  <2>6. DrawsBacked'
    BY <1>0, <2>1, BackedStay DEF BuildsItself
  <2>7. UsesOnTheWay'
    BY <1>0, <2>1, UsesStay
  <2> QED BY <1>5, <2>2, <2>3, <2>5, <2>6, <2>7
<1>8. CASE ~(Cardinality(PendingKept) >= Cap /\ ~skips)
  <2>1. /\ prio' = Append(prio, h) /\ toBuild' = PendingKept \cup {h}
        /\ queued' = queued + (IF Evicts THEN 0 ELSE 1)
        /\ StoreLater(h) /\ NotifyOne /\ Records(draw)
    BY <1>8 DEF FindNew
  <2>2. h \notin PendingKept /\ h \notin ToSet(prio) /\ Once(prio, Hashes)
    BY <1>0, <1>1 DEF RowsApart
  <2>3. Once(prio', Hashes) /\ ToSet(prio') = ToSet(prio) \cup {h}
    BY <1>0, <2>1, <2>2, OnceAppended
  <2>4. PipelineTypes'
    BY <1>0, <2>1, NotifiedTypes DEF PipelineTypes, Started, builders, Records
  <2>5. RowsApart'
    <3>1. h \notin ToSet(BackKept) /\ h \notin compiling
      BY <1>1, <2>2
    <3> QED BY <1>0, <1>1, <2>1, <2>3, <3>1 DEF RowsApart
  <2>6. IsFiniteSet(toBuild') /\ Cardinality(toBuild') = Cardinality(PendingKept) + 1
    BY <1>4, <2>1, <2>2, FS_AddElement
  <2>7. queued' = Cardinality(toBuild') + t
    BY <1>2, <1>3, <1>4, <2>1, <2>6
  <2>8. CountsExact'
    BY <1>5, <1>6, <2>6, <2>7 DEF CountsExact
  <2>9. DrawsBacked'
    BY <1>0, <2>1, <2>3 DEF DrawsBacked, Records
  <2>10. UsesOnTheWay'
    BY <1>0, <2>1, StoredLater
  <2> QED BY <1>5, <2>4, <2>5, <2>8, <2>9, <2>10
<1> QED BY <1>7, <1>8

LEMMA TellingIs ==
  ASSUME PipelineAssumption, PipelineTypes, NEW states
  PROVE  IsFiniteSet(In(states)) /\ Cardinality(In(states)) \in Nat
         /\ IsFiniteSet(FromBack) /\ Cardinality(FromBack) \in Nat
<1>1. In(states) \subseteq Builders /\ FromBack \subseteq Builders /\ IsFiniteSet(Builders)
  BY DEF In, FromBack, PipelineTypes, PipelineAssumption
<1> QED BY <1>1, FS_Subset, FS_CardinalityType

LEMMA FindPipelineKeeps ==
  ASSUME PipelineAssumption, PipelineInv, NEW draw \in Draws, FindPipeline(draw)
  PROVE  PipelineInv'
<1>1. FindReady(draw) \/ FindPending(draw) \/ FindAtOnce(draw) \/ FindNew(draw)
  BY DEF FindPipeline
<1> QED BY <1>1, FindReadyKeeps, FindPendingKeeps, FindAtOnceKeeps, FindNewKeeps

LEMMA PipelineCreatedKeeps ==
  ASSUME PipelineAssumption, PipelineInv, NEW draw \in creating, PipelineCreated(draw)
  PROVE  PipelineInv'
<1> USE DEF PipelineInv
<1> DEFINE h == draw.ref
           n == Cardinality(toBuild)
           t == Cardinality(In({"tells"}))
<1>0. /\ draw \in Draws /\ h \in Hashes
      /\ creating' = {} /\ recorded' = recorded \cup {draw}
      /\ pipelines' = pipelines \cup {h}
      /\ prio' = Erased(prio, h) /\ back' = Erased(back, h)
      /\ toBuild' = IF InQueue(h) THEN toBuild \ {h} ELSE toBuild
      /\ queued' = IF InQueue(h) THEN queued - 1 ELSE queued
      /\ StoreLater(h) /\ NotifyAll
      /\ UNCHANGED <<deferred, compiling, builders, skips, inFrame, built, finds, missing,
                     pipelinesEnd>>
  BY DEF PipelineCreated, PipelineTypes, Draws
<1>1. ~pipelinesEnd
  BY DEF UsesOnTheWay, PipelineTypes
<1>2. /\ Once(prio', Hashes) /\ ToSet(prio') = ToSet(prio) \ {h}
      /\ Once(back', Hashes) /\ ToSet(back') = ToSet(back) \ {h}
  BY <1>0, ErasedRows
<1>3. InQueue(h) <=> h \in toBuild /\ h \notin compiling
  BY RowsAre
<1>4. PipelineTypes'
  BY <1>0, NotifiedTypes DEF PipelineTypes, Started, builders
<1>5. RowsApart'
  BY <1>0, <1>2, <1>3 DEF RowsApart
<1>6. BuildersApart' /\ In({"tells"})' = In({"tells"}) /\ FromBack' = FromBack
  BY <1>0, BuildersStay DEF builders, In, FromBack, Started
<1>7. CountsExact'
  <2>1. IsFiniteSet(toBuild) /\ n \in Nat /\ queued = n + t /\ t \in Nat
    BY TellingIs, FS_CardinalityType DEF CountsExact
  <2>2. activeBack' = Cardinality(FromBack)' /\ activeBack' <= MaxBack
    BY <1>0, <1>6 DEF CountsExact, builders
  <2>3. CASE InQueue(h)
    <3>1. toBuild' = toBuild \ {h} /\ h \in toBuild /\ queued' = queued - 1
      BY <1>0, <1>3, <2>3
    <3>2. IsFiniteSet(toBuild') /\ Cardinality(toBuild') = n - 1
      BY <2>1, <3>1, FS_RemoveElement
    <3>3. queued' = Cardinality(toBuild') + t
      BY <2>1, <3>1, <3>2
    <3> QED BY <1>6, <2>2, <3>2, <3>3 DEF CountsExact
  <2>4. CASE ~InQueue(h)
    BY <1>0, <1>6, <2>1, <2>2, <2>4 DEF CountsExact
  <2> QED BY <2>3, <2>4
<1>8. DrawsBacked'
  BY <1>0, <1>2 DEF DrawsBacked
<1>9. UsesOnTheWay'
  <2>1. CASE TRUE
    BY <1>0, <1>1, StoredLater
  <2> QED BY <2>1
<1> QED BY <1>4, <1>5, <1>6, <1>7, <1>8, <1>9

LEMMA BeginFrameKeeps ==
  ASSUME PipelineAssumption, PipelineInv, BeginPipelineFrame
  PROVE  PipelineInv'
<1> USE DEF PipelineInv
<1>0. /\ inFrame' = TRUE /\ built' = IF HasThreads THEN built ELSE 0
      /\ UNCHANGED <<pipelines, builders, skips, creating, finds, recorded, missing,
                     pipelinesEnd, store>>
  BY DEF BeginPipelineFrame
<1>1. CASE UNCHANGED <<queues, asleep>>
  <2>1. PipelineTypes'
    BY <1>0, <1>1 DEF PipelineTypes, Started, builders
  <2>2. RowsApart' /\ BuildersApart' /\ CountsExact'
    BY <1>0, <1>1, RowsStay, BuildersStay, CountsStay DEF builders, queues
  <2>3. DrawsBacked'
    BY <1>0, <1>1, BackedStay DEF queues
  <2>4. UsesOnTheWay'
    BY <1>0, UsesStay
  <2> QED BY <2>1, <2>2, <2>3, <2>4
<1>2. ASSUME NEW m \in 0 .. Len(deferred), NEW near \in NearRows(m),
             deferred' = SubSeq(deferred, m + 1, Len(deferred)),
             back' = back \o near, toBuild' = toBuild \cup ToSet(near),
             queued' = queued + Len(near), asleep' = asleep \/ NotifyAll,
             UNCHANGED <<prio, compiling>>
      PROVE  PipelineInv'
  <2>1. Once(near, Hashes) /\ ToSet(near) \cap toBuild = {}
    BY <1>2, NearIs
  <2>2. /\ Once(back', Hashes) /\ ToSet(back') = ToSet(back) \cup ToSet(near)
    <3>1. Once(back, Hashes) /\ ToSet(back) \cap ToSet(near) = {}
      BY <2>1 DEF RowsApart
    <3> QED BY <1>2, <2>1, <3>1, OnceJoined
  <2>3. Once(deferred', Hashes)
    BY <1>2, OnceSuffix DEF RowsApart
  <2>4. RowsApart'
    BY <1>2, <2>1, <2>2, <2>3 DEF RowsApart
  <2>5. PipelineTypes'
    <3>1. asleep' \subseteq Started \cup {Renderer}
      BY <1>2, NotifiedTypes DEF PipelineTypes
    <3> QED BY <1>0, <3>1 DEF PipelineTypes, Started, builders
  <2>6. BuildersApart' /\ In({"tells"})' = In({"tells"}) /\ FromBack' = FromBack
    BY <1>0, <1>2, BuildersStay DEF builders, In, FromBack, Started
  <2>7. CountsExact'
    <3> DEFINE n == Cardinality(toBuild)
               t == Cardinality(In({"tells"}))
    <3>1. IsFiniteSet(toBuild) /\ n \in Nat /\ queued = n + t /\ t \in Nat
      BY TellingIs, FS_CardinalityType DEF CountsExact
    <3>2. activeBack' = Cardinality(FromBack)' /\ activeBack' <= MaxBack
      BY <1>0, <2>6 DEF CountsExact, builders
    <3>3. IsFiniteSet(ToSet(near)) /\ Cardinality(ToSet(near)) = Len(near) /\ Len(near) \in Nat
      BY <2>1, OnceCount, OnceIs
    <3>4. IsFiniteSet(toBuild') /\ Cardinality(toBuild') = n + Len(near)
      <4>1. toBuild \cap ToSet(near) = {}
        BY <2>1
      <4>2. Cardinality(toBuild \cap ToSet(near)) = 0
        BY <4>1, FS_EmptySet
      <4>3. /\ IsFiniteSet(toBuild \cup ToSet(near))
            /\ Cardinality(toBuild \cup ToSet(near))
                 = n + Cardinality(ToSet(near)) - Cardinality(toBuild \cap ToSet(near))
        BY <3>1, <3>3, FS_Union
      <4> QED BY <1>2, <3>1, <3>3, <4>2, <4>3
    <3>5. queued' = Cardinality(toBuild') + t
      BY <1>2, <3>1, <3>3, <3>4
    <3> QED BY <2>6, <3>2, <3>4, <3>5 DEF CountsExact
  <2>8. DrawsBacked'
    BY <1>0, <1>2, BackedStay
  <2>9. UsesOnTheWay'
    BY <1>0, UsesStay
  <2> QED BY <2>4, <2>5, <2>6, <2>7, <2>8, <2>9
<1>3. CASE HasThreads /\ deferred # <<>> /\ ~UNCHANGED <<queues, asleep>>
  <2>1. PICK m \in 0 .. Len(deferred) : \E near \in NearRows(m) :
          /\ deferred' = SubSeq(deferred, m + 1, Len(deferred))
          /\ back' = back \o near /\ toBuild' = toBuild \cup ToSet(near)
          /\ queued' = queued + Len(near)
          /\ IF near = <<>> THEN UNCHANGED asleep ELSE NotifyAll
          /\ UNCHANGED <<prio, compiling>>
    BY <1>3 DEF BeginPipelineFrame
  <2> QED BY <2>1, <1>2
<1>4. UNCHANGED <<queues, asleep>> \/ (HasThreads /\ deferred # <<>>)
  BY DEF BeginPipelineFrame
<1> QED BY <1>1, <1>3, <1>4

LEMMA EndFrameKeeps == ASSUME PipelineInv, EndPipelineFrame PROVE PipelineInv'
<1> USE DEF PipelineInv, EndPipelineFrame
<1>1. PipelineTypes'
  BY DEF PipelineTypes, Started, builders
<1>2. RowsApart' /\ BuildersApart' /\ CountsExact'
  BY RowsStay, BuildersStay, CountsStay DEF builders, queues
<1>3. DrawsBacked'
  BY BackedStay DEF queues
<1>4. UsesOnTheWay'
  BY UsesStay
<1> QED BY <1>1, <1>2, <1>3, <1>4

LEMMA SetSkipsKeeps == ASSUME PipelineInv, SetSkips PROVE PipelineInv'
<1> USE DEF PipelineInv, SetSkips
<1>1. PipelineTypes'
  BY DEF PipelineTypes, Started, builders
<1>2. RowsApart' /\ BuildersApart' /\ CountsExact'
  BY RowsStay, BuildersStay, CountsStay DEF builders, queues
<1>3. DrawsBacked'
  BY BackedStay DEF queues
<1>4. UsesOnTheWay'
  BY UsesStay
<1> QED BY <1>1, <1>2, <1>3, <1>4

\* The first of both queues, those of first uses before the others.
LEMMA FirstOfBoth ==
  ASSUME RowsApart, prio \o back # <<>>
  PROVE  LET h == Head(prio \o back)
             p == IF prio = <<>> THEN prio ELSE Tail(prio)
             b == IF prio = <<>> THEN Tail(back) ELSE back
         IN  /\ h \in Hashes /\ h \in ToSet(prio) \cup ToSet(back)
             /\ Once(p, Hashes) /\ Once(b, Hashes)
             /\ ToSet(p) = ToSet(prio) \ {h} /\ ToSet(b) = ToSet(back) \ {h}
<1>1. Once(prio, Hashes) /\ Once(back, Hashes) /\ ToSet(prio) \cap ToSet(back) = {}
  BY DEF RowsApart
<1>2. prio \in Seq(Hashes) /\ back \in Seq(Hashes)
  BY <1>1 DEF Once
<1>3. CASE prio = <<>>
  <2>1. prio \o back = back
    BY <1>2, <1>3
  <2>2. ToSet(prio) = {}
    BY <1>3, OnceEmpty
  <2>3. back # <<>>
    BY <2>1
  <2>4. /\ Head(back) \in Hashes /\ Head(back) \in ToSet(back)
        /\ Once(Tail(back), Hashes) /\ ToSet(Tail(back)) = ToSet(back) \ {Head(back)}
    BY <1>1, <2>3, OnceTail
  <2> QED BY <1>1, <1>3, <2>1, <2>2, <2>4
<1>4. CASE prio # <<>>
  <2>1. Head(prio \o back) = Head(prio)
    BY <1>2, <1>4
  <2>2. /\ Head(prio) \in Hashes /\ Head(prio) \in ToSet(prio)
        /\ Once(Tail(prio), Hashes) /\ ToSet(Tail(prio)) = ToSet(prio) \ {Head(prio)}
    BY <1>1, <1>4, OnceTail
  <2> QED BY <1>1, <1>4, <2>1, <2>2
<1> QED BY <1>3, <1>4

LEMMA BuildSynchronouslyKeeps ==
  ASSUME PipelineAssumption, PipelineInv, BuildSynchronously
  PROVE  PipelineInv'
<1> USE DEF PipelineInv
<1> DEFINE h == Head(prio \o back)
           n == Cardinality(toBuild)
           t == Cardinality(In({"tells"}))
<1>0. /\ prio \o back # <<>> /\ built' = built + 1 /\ NotifyAll /\ ~pipelinesEnd
      /\ pipelines' = pipelines \cup {h} /\ toBuild' = toBuild \ {h} /\ queued' = queued - 1
      /\ prio' = IF prio = <<>> THEN prio ELSE Tail(prio)
      /\ back' = IF prio = <<>> THEN Tail(back) ELSE back
      /\ UNCHANGED <<deferred, compiling, builders, skips, inFrame, creating, finds, recorded,
                     missing, pipelinesEnd, store>>
  BY DEF BuildSynchronously, BuildsOn
<1>1. /\ h \in Hashes /\ h \in ToSet(prio) \cup ToSet(back)
      /\ Once(prio', Hashes) /\ Once(back', Hashes)
      /\ ToSet(prio') = ToSet(prio) \ {h} /\ ToSet(back') = ToSet(back) \ {h}
  BY <1>0, FirstOfBoth
<1> HIDE DEF h
<1>2. h \in toBuild /\ h \notin compiling
  BY <1>1 DEF RowsApart
<1>3. PipelineTypes'
  BY <1>0, <1>1, NotifiedTypes DEF PipelineTypes, Started, builders
<1>4. RowsApart'
  BY <1>0, <1>1, <1>2 DEF RowsApart
<1>5. BuildersApart' /\ In({"tells"})' = In({"tells"}) /\ FromBack' = FromBack
  BY <1>0, BuildersStay DEF builders, In, FromBack, Started
<1>6. CountsExact'
  <2>1. IsFiniteSet(toBuild) /\ n \in Nat /\ queued = n + t /\ t \in Nat
    BY TellingIs, FS_CardinalityType DEF CountsExact
  <2>2. activeBack' = Cardinality(FromBack)' /\ activeBack' <= MaxBack
    BY <1>0, <1>5 DEF CountsExact, builders
  <2>3. IsFiniteSet(toBuild') /\ Cardinality(toBuild') = n - 1
    BY <1>0, <1>2, <2>1, FS_RemoveElement
  <2>4. queued' = Cardinality(toBuild') + t
    BY <1>0, <2>1, <2>3
  <2> QED BY <1>5, <2>2, <2>3, <2>4 DEF CountsExact
<1>7. DrawsBacked'
  BY <1>0, <1>1, BackedStay
<1>8. UsesOnTheWay'
  BY <1>0, UsesStay
<1> QED BY <1>3, <1>4, <1>5, <1>6, <1>7, <1>8

-----------------------------------------------------------------------------
(* Building.                                                               *)

\* Where one worker has moved to.
LEMMA BuilderMoved ==
  ASSUME PipelineTypes, NEW w \in Started, NEW s \in States,
         builder' = [builder EXCEPT ![w] = s]
  PROVE  /\ Started' = Started /\ builder' \in [Started' -> States]
         /\ \A v \in Started : builder'[v] = IF v = w THEN s ELSE builder[v]
  BY DEF PipelineTypes, Started

\* The worker takes a queued build: it is queued no more and is being built.
LEMMA BuilderTakesKeeps ==
  ASSUME PipelineAssumption, PipelineInv, NEW w \in Started, BuilderTakes(w)
  PROVE  PipelineInv'
<1> USE DEF PipelineInv
<1> DEFINE h == IF prio = <<>> THEN Head(back) ELSE Head(prio)
           s == prio = <<>>
<1>0. /\ builder[w] = "looks" /\ MayTake /\ ~pipelinesEnd
      /\ builder' = [builder EXCEPT ![w] = "builds"]
      /\ isBack' = [isBack EXCEPT ![w] = s]
      /\ item' = [item EXCEPT ![w] = h] /\ compiling' = compiling \cup {h}
      /\ prio' = IF prio = <<>> THEN prio ELSE Tail(prio)
      /\ back' = IF prio = <<>> THEN Tail(back) ELSE back
      /\ activeBack' = IF prio = <<>> THEN activeBack + 1 ELSE activeBack
      /\ UNCHANGED <<pipelines, deferred, toBuild, queued, asleep, recorder, recorded, missing,
                     pipelinesEnd, store>>
  BY DEF BuilderTakes
<1>1. prio \o back # <<>> /\ h = Head(prio \o back)
  <2>1. prio \in Seq(Hashes) /\ back \in Seq(Hashes)
    BY DEF RowsApart, Once
  <2>2. CASE prio = <<>>
    <3>1. prio \o back = back
      BY <2>1, <2>2
    <3> QED BY <1>0, <2>2, <3>1 DEF MayTake
  <2>3. CASE prio # <<>>
    BY <2>1, <2>3
  <2> QED BY <2>2, <2>3
<1>2. /\ h \in Hashes /\ h \in ToSet(prio) \cup ToSet(back)
      /\ Once(prio', Hashes) /\ Once(back', Hashes)
      /\ ToSet(prio') = ToSet(prio) \ {h} /\ ToSet(back') = ToSet(back) \ {h}
  BY <1>0, <1>1, FirstOfBoth
<1> HIDE DEF h
<1>3. h \notin compiling
  BY <1>2 DEF RowsApart
<1>4. /\ Started' = Started /\ builder' \in [Started' -> States]
      /\ \A v \in Started : builder'[v] = IF v = w THEN "builds" ELSE builder[v]
  BY <1>0, BuilderMoved DEF States
<1>5. /\ \A v \in Started : item'[v] = IF v = w THEN h ELSE item[v]
      /\ item' \in [Started -> Hashes \cup {NoHash}]
      /\ \A v \in Started : isBack'[v] = IF v = w THEN s ELSE isBack[v]
      /\ isBack' \in [Started -> BOOLEAN]
  BY <1>0, <1>2 DEF PipelineTypes
<1>6. PipelineTypes'
  BY <1>0, <1>4, <1>5 DEF PipelineTypes, recorder
<1>7. RowsApart'
  BY <1>0, <1>2, <1>3 DEF RowsApart
<1>8. /\ In({"tells"})' = In({"tells"}) /\ In({"leaves"})' = In({"leaves"})
      /\ In({"builds"})' = In({"builds"}) \cup {w} /\ w \notin In({"builds"})
  BY <1>0, <1>4 DEF In
<1>9. BuildersApart'
  <2>1. /\ \A v \in In({"builds"}) : item'[v] = item[v] /\ v # w /\ item[v] \in compiling
        /\ item'[w] = h
    BY <1>5, <1>8 DEF BuildersApart, In
  <2>2. compiling' = {item'[v] : v \in In({"builds"})'}
    BY <1>0, <1>8, <2>1 DEF BuildersApart
  <2>3. \A u, v \in In({"builds"})' : item'[u] = item'[v] => u = v
    BY <1>3, <1>8, <2>1 DEF BuildersApart
  <2>4. \A v \in In({"leaves"})' : isBack'[v]
    <3>1. \A v \in In({"leaves"}) : v # w
      BY <1>0 DEF In
    <3> QED BY <1>5, <1>8, <3>1 DEF BuildersApart, In
  <2>5. compiling' \subseteq Hashes
    BY <1>0, <1>2 DEF BuildersApart
  <2> QED BY <2>2, <2>3, <2>4, <2>5 DEF BuildersApart
<1>10. CountsExact'
  <2>1. w \notin FromBack /\ FromBack' = IF s THEN FromBack \cup {w} ELSE FromBack
    <3>1. w \notin FromBack
      BY <1>0 DEF FromBack, In
    <3>2. \A v \in Started : v # w => builder'[v] = builder[v] /\ isBack'[v] = isBack[v]
      BY <1>4, <1>5
    <3>3. builder'[w] = "builds" /\ isBack'[w] = s
      BY <1>4, <1>5
    <3>4. \A v : v \in FromBack' <=> v \in FromBack \/ (v = w /\ s)
      BY <1>4, <3>1, <3>2, <3>3 DEF FromBack, In
    <3> HIDE DEF s
    <3> QED BY <3>1, <3>4
  <2>2. activeBack = Cardinality(FromBack) /\ activeBack \in Nat /\ IsFiniteSet(FromBack)
    BY TellingIs DEF CountsExact
  <2>3. activeBack' = Cardinality(FromBack')
    <3>1. s => Cardinality(FromBack \cup {w}) = activeBack + 1
      BY <2>1, <2>2, FS_AddElement
    <3> QED BY <1>0, <2>1, <2>2, <3>1
  <2>4. activeBack' <= MaxBack
    BY <1>0, <2>2 DEF CountsExact, MayTake, PipelineAssumption
  <2> QED BY <1>0, <1>8, <2>3, <2>4 DEF CountsExact
<1>11. DrawsBacked'
  BY <1>0, <1>2, BackedStay
<1>12. UsesOnTheWay'
  BY <1>0, UsesStay DEF recorder
<1> QED BY <1>6, <1>7, <1>9, <1>10, <1>11, <1>12

LEMMA BuilderBuildsKeeps ==
  ASSUME PipelineAssumption, PipelineInv, NEW w \in Started, BuilderBuilds(w)
  PROVE  PipelineInv'
<1> USE DEF PipelineInv
<1> DEFINE h == item[w]
<1>0. /\ builder[w] = "builds" /\ builder' = [builder EXCEPT ![w] = "tells"]
      /\ pipelines' = pipelines \cup {h}
      /\ compiling' = compiling \ {h} /\ toBuild' = toBuild \ {h}
      /\ UNCHANGED <<prio, back, deferred, queued, activeBack, item, isBack, asleep, recorder,
                     recorded, missing, pipelinesEnd, store>>
  BY DEF BuilderBuilds
<1>1. w \in In({"builds"}) /\ h \in compiling /\ h \in Hashes
  BY <1>0 DEF In, BuildersApart
<1>2. h \in toBuild /\ h \notin ToSet(prio) \cup ToSet(back)
  BY <1>1 DEF RowsApart
<1>4. /\ Started' = Started /\ builder' \in [Started' -> States]
      /\ \A v \in Started : builder'[v] = IF v = w THEN "tells" ELSE builder[v]
  BY <1>0, BuilderMoved DEF States
<1>6. PipelineTypes'
  BY <1>0, <1>1, <1>4 DEF PipelineTypes, recorder
<1>7. RowsApart'
  BY <1>0, <1>2 DEF RowsApart
<1>8. /\ In({"tells"})' = In({"tells"}) \cup {w} /\ In({"leaves"})' = In({"leaves"})
      /\ In({"builds"})' = In({"builds"}) \ {w} /\ w \notin In({"tells"}) /\ FromBack' = FromBack
  BY <1>0, <1>4 DEF In, FromBack
<1>9. BuildersApart'
  <2>1. \A v \in In({"builds"}) : v # w => item[v] # h
    BY <1>1 DEF BuildersApart
  <2>2. compiling' = {item'[v] : v \in In({"builds"})'}
    BY <1>0, <1>1, <1>8, <2>1 DEF BuildersApart
  <2> QED BY <1>0, <1>8, <2>2 DEF BuildersApart
<1>10. CountsExact'
  <2> DEFINE n == Cardinality(toBuild)
             t == Cardinality(In({"tells"}))
  <2>1. IsFiniteSet(toBuild) /\ n \in Nat /\ queued = n + t /\ t \in Nat
        /\ IsFiniteSet(In({"tells"}))
    BY TellingIs, FS_CardinalityType DEF CountsExact
  <2>2. IsFiniteSet(toBuild') /\ Cardinality(toBuild') = n - 1
    BY <1>0, <1>2, <2>1, FS_RemoveElement
  <2>3. Cardinality(In({"tells"})') = t + 1
    BY <1>8, <2>1, FS_AddElement
  <2>4. queued' = Cardinality(toBuild') + Cardinality(In({"tells"})')
    BY <1>0, <2>1, <2>2, <2>3
  <2> QED BY <1>0, <1>8, <2>2, <2>4 DEF CountsExact
<1>11. DrawsBacked'
  BY <1>0, BackedStay
<1>12. UsesOnTheWay'
  BY <1>0, UsesStay DEF recorder
<1> QED BY <1>6, <1>7, <1>9, <1>10, <1>11, <1>12

LEMMA BuilderTellsKeeps ==
  ASSUME PipelineAssumption, PipelineInv, NEW w \in Started, BuilderTells(w)
  PROVE  PipelineInv'
<1> USE DEF PipelineInv
<1> DEFINE s == IF isBack[w] THEN "leaves" ELSE "looks"
<1>0. /\ builder[w] = "tells" /\ NotifyAll /\ builder' = [builder EXCEPT ![w] = s]
      /\ queued' = queued - 1
      /\ UNCHANGED <<pipelines, prio, back, deferred, toBuild, compiling, activeBack, item, isBack,
                     recorder, recorded, missing, pipelinesEnd, store>>
  BY DEF BuilderTells
<1>4. /\ Started' = Started /\ builder' \in [Started' -> States]
      /\ \A v \in Started : builder'[v] = IF v = w THEN s ELSE builder[v]
  BY <1>0, BuilderMoved DEF States
<1>6. PipelineTypes'
  BY <1>0, <1>4, NotifiedTypes DEF PipelineTypes, recorder
<1>7. RowsApart'
  BY <1>0, RowsStay
<1>8. /\ In({"tells"})' = In({"tells"}) \ {w} /\ w \in In({"tells"})
      /\ In({"builds"})' = In({"builds"}) /\ FromBack' = FromBack
  BY <1>0, <1>4 DEF In, FromBack
<1>9. BuildersApart'
  <2>1. \A v \in In({"leaves"})' : isBack[v]
    BY <1>0, <1>4 DEF In, BuildersApart
  <2> QED BY <1>0, <1>8, <2>1 DEF BuildersApart
<1>10. CountsExact'
  <2> DEFINE n == Cardinality(toBuild)
             t == Cardinality(In({"tells"}))
  <2>1. IsFiniteSet(toBuild) /\ n \in Nat /\ queued = n + t /\ t \in Nat
        /\ IsFiniteSet(In({"tells"}))
    BY TellingIs, FS_CardinalityType DEF CountsExact
  <2>3. Cardinality(In({"tells"})') = t - 1
    BY <1>8, <2>1, FS_RemoveElement
  <2>4. queued' = n + Cardinality(In({"tells"})')
    BY <1>0, <2>1, <2>3
  <2> QED BY <1>0, <1>8, <2>1, <2>4 DEF CountsExact
<1>11. DrawsBacked'
  BY <1>0, BackedStay
<1>12. UsesOnTheWay'
  BY <1>0, UsesStay DEF recorder
<1> QED BY <1>6, <1>7, <1>9, <1>10, <1>11, <1>12

LEMMA BuilderLeavesKeeps ==
  ASSUME PipelineAssumption, PipelineInv, NEW w \in Started, BuilderLeaves(w)
  PROVE  PipelineInv'
<1> USE DEF PipelineInv
<1>0. /\ builder[w] = "leaves" /\ builder' = [builder EXCEPT ![w] = "looks"]
      /\ activeBack' = activeBack - 1 /\ NotifyAll
      /\ UNCHANGED <<pipelines, queues, item, isBack, recorder, recorded, missing,
                     pipelinesEnd, store>>
  BY DEF BuilderLeaves
<1>4. /\ Started' = Started /\ builder' \in [Started' -> States]
      /\ \A v \in Started : builder'[v] = IF v = w THEN "looks" ELSE builder[v]
  BY <1>0, BuilderMoved DEF States
<1>6. PipelineTypes'
  BY <1>0, <1>4, NotifiedTypes DEF PipelineTypes, recorder
<1>7. RowsApart'
  BY <1>0, RowsStay DEF queues
<1>8. /\ In({"tells"})' = In({"tells"}) /\ In({"builds"})' = In({"builds"})
      /\ In({"leaves"})' \subseteq In({"leaves"})
  BY <1>0, <1>4 DEF In
<1>9. BuildersApart'
  BY <1>0, <1>8 DEF BuildersApart, queues
<1>10. CountsExact'
  <2>1. w \in FromBack /\ FromBack' = FromBack \ {w}
    <3>1. isBack[w]
      BY <1>0 DEF BuildersApart, In
    <3> QED BY <1>0, <1>4, <3>1 DEF FromBack, In
  <2>2. activeBack = Cardinality(FromBack) /\ activeBack \in Nat /\ IsFiniteSet(FromBack)
    BY TellingIs DEF CountsExact
  <2>3. activeBack' = Cardinality(FromBack') /\ activeBack' <= MaxBack
    <3>1. Cardinality(FromBack \ {w}) = activeBack - 1
      BY <2>1, <2>2, FS_RemoveElement
    <3>2. activeBack - 1 <= MaxBack
      BY <2>2 DEF CountsExact, PipelineAssumption
    <3> QED BY <1>0, <2>1, <3>1, <3>2
  <2> QED BY <1>0, <1>8, <2>3 DEF CountsExact, queues
<1>11. DrawsBacked'
  BY <1>0, BackedStay DEF queues
<1>12. UsesOnTheWay'
  BY <1>0, UsesStay DEF recorder
<1> QED BY <1>6, <1>7, <1>9, <1>10, <1>11, <1>12

\* A worker that goes to sleep, looks again or ends.
LEMMA BuilderMovesKeeps ==
  ASSUME PipelineAssumption, PipelineInv, NEW w \in Started,
         BuilderWaits(w) \/ BuilderLooks(w) \/ BuilderEnds(w)
  PROVE  PipelineInv'
<1> USE DEF PipelineInv
<1>0. /\ builder[w] \in {"looks", "sleeps"}
      /\ \E s \in {"looks", "sleeps", "gone"} : builder' = [builder EXCEPT ![w] = s]
      /\ asleep' \subseteq asleep \cup {w}
      /\ UNCHANGED <<pipelines, queues, activeBack, item, isBack, recorder, recorded, missing,
                     pipelinesEnd, store>>
  BY DEF BuilderWaits, BuilderLooks, BuilderEnds
<1>1. PICK s \in {"looks", "sleeps", "gone"} : builder' = [builder EXCEPT ![w] = s]
  BY <1>0
<1>4. /\ Started' = Started /\ builder' \in [Started' -> States]
      /\ \A v \in Started : builder'[v] = IF v = w THEN s ELSE builder[v]
  BY <1>1, BuilderMoved DEF States
<1>6. PipelineTypes'
  BY <1>0, <1>4 DEF PipelineTypes, recorder
<1>7. RowsApart'
  BY <1>0, RowsStay DEF queues
<1>8. /\ In({"tells"})' = In({"tells"}) /\ In({"builds"})' = In({"builds"})
      /\ In({"leaves"})' = In({"leaves"}) /\ FromBack' = FromBack
  BY <1>0, <1>4 DEF In, FromBack
<1>9. BuildersApart' /\ CountsExact'
  BY <1>0, <1>8 DEF BuildersApart, CountsExact, queues
<1>11. DrawsBacked'
  BY <1>0, BackedStay DEF queues
<1>12. UsesOnTheWay'
  BY <1>0, UsesStay DEF recorder
<1> QED BY <1>6, <1>7, <1>9, <1>11, <1>12

LEMMA BuilderStepKeeps ==
  ASSUME PipelineAssumption, PipelineInv, NEW w \in Started, BuilderStep(w)
  PROVE  PipelineInv'
  BY BuilderMovesKeeps, BuilderTakesKeeps, BuilderBuildsKeeps, BuilderTellsKeeps,
     BuilderLeavesKeeps DEF BuilderStep

-----------------------------------------------------------------------------
(* Rendering, the cache writer, and the end.                               *)

LEMMA DrawBindsKeeps ==
  ASSUME PipelineInv, NEW draw \in recorded, DrawBinds(draw)
  PROVE  PipelineInv'
<1> USE DEF PipelineInv
<1>0. /\ missing' = (missing \/ draw.ref \notin pipelines \cup toBuild)
      /\ recorded' = recorded \ {draw}
      /\ UNCHANGED <<pipelines, queues, builders, asleep, recorder, pipelinesEnd, store>>
  BY DEF DrawBinds
<1>1. missing' = missing
  <2>1. draw.ref \in pipelines \cup toBuild
    BY DEF DrawsBacked, RowsApart
  <2> QED BY <1>0, <2>1 DEF DrawsBacked
<1>2. PipelineTypes'
  BY <1>0 DEF PipelineTypes, Started, builders, recorder
<1>3. RowsApart' /\ BuildersApart' /\ CountsExact'
  BY <1>0, RowsStay, BuildersStay, CountsStay DEF builders, queues
<1>4. DrawsBacked'
  BY <1>0, <1>1, BackedStay DEF queues
<1>5. UsesOnTheWay'
  BY <1>0, UsesStay DEF recorder
<1> QED BY <1>2, <1>3, <1>4, <1>5

\* What a draw waits for becomes the next to be built.
LEMMA DrawAwaitsKeeps ==
  ASSUME PipelineInv, NEW draw \in recorded, DrawAwaits(draw)
  PROVE  PipelineInv'
<1> USE DEF PipelineInv
<1> DEFINE h == draw.ref
<1>0. /\ h \in Hashes /\ h \in toBuild
      /\ UNCHANGED <<pipelines, deferred, toBuild, compiling, queued, builders, recorder, recorded,
                     missing, pipelinesEnd, store>>
  BY DEF DrawAwaits, PipelineTypes, Draws
<1>1. PipelineTypes'
  BY <1>0 DEF DrawAwaits, PipelineTypes, Started, builders, recorder
<1>2. BuildersApart' /\ CountsExact' /\ UsesOnTheWay'
  BY <1>0, BuildersStay, CountsStay, UsesStay DEF builders, recorder
<1>3. CASE InQueue(h)
  <2>1. prio' = <<h>> \o Erased(prio, h) /\ back' = Erased(back, h)
    BY <1>3 DEF DrawAwaits
  <2>2. /\ Once(Erased(prio, h), Hashes) /\ ToSet(Erased(prio, h)) = ToSet(prio) \ {h}
        /\ Once(Erased(back, h), Hashes) /\ ToSet(Erased(back, h)) = ToSet(back) \ {h}
    BY <1>0, ErasedRows
  <2>3. Once(<<h>>, Hashes) /\ ToSet(<<h>>) = {h}
    BY <1>0, OnceOne
  <2>4. Once(prio', Hashes) /\ ToSet(prio') = {h} \cup ToSet(prio)
    <3>1. ToSet(<<h>>) \cap ToSet(Erased(prio, h)) = {}
      BY <2>2, <2>3
    <3>2. /\ Once(<<h>> \o Erased(prio, h), Hashes)
          /\ ToSet(<<h>> \o Erased(prio, h)) = ToSet(<<h>>) \cup ToSet(Erased(prio, h))
      BY <2>2, <2>3, <3>1, OnceJoined
    <3> QED BY <2>1, <2>2, <2>3, <3>2
  <2>5. h \in ToSet(prio) \cup ToSet(back) /\ h \notin compiling
    BY <1>3, RowsAre DEF InQueue
  <2>6. RowsApart'
    BY <1>0, <2>1, <2>2, <2>4, <2>5 DEF RowsApart
  <2>7. DrawsBacked'
    BY <1>0, <2>4, BackedStay
  <2> QED BY <1>1, <1>2, <2>6, <2>7
<1>4. CASE ~InQueue(h)
  <2>1. UNCHANGED <<prio, back>>
    BY <1>4 DEF DrawAwaits
  <2> QED BY <1>0, <1>1, <1>2, <2>1, RowsStay, BackedStay
<1> QED BY <1>3, <1>4

LEMMA OthersStay ==
  ASSUME PipelineInv, UNCHANGED others, pipelinesEnd' \in BOOLEAN, UsesOnTheWay'
  PROVE  PipelineInv'
<1> USE DEF PipelineInv, others
<1>1. PipelineTypes'
  BY DEF PipelineTypes, Started, builders, recorder
<1>2. RowsApart' /\ BuildersApart' /\ CountsExact'
  BY RowsStay, BuildersStay, CountsStay DEF builders, queues
<1>3. DrawsBacked'
  BY BackedStay DEF queues
<1> QED BY <1>1, <1>2, <1>3

LEMMA WriterKeeps ==
  ASSUME PipelineInv, WriterStep \/ StopWriter
  PROVE  PipelineInv'
<1> USE DEF PipelineInv
<1>1. CASE WriterTakes
  <2>1. UsesOnTheWay'
    BY <1>1 DEF WriterTakes, UsesOnTheWay, others, recorder
  <2> QED BY <1>1, <2>1, OthersStay DEF WriterTakes, PipelineTypes
<1>2. CASE WriterWrites
  <2>1. UsesOnTheWay'
    BY <1>2 DEF WriterWrites, UsesOnTheWay, others, recorder
  <2> QED BY <1>2, <2>1, OthersStay DEF WriterWrites, PipelineTypes
<1>3. CASE WriterEnds
  <2>1. UsesOnTheWay'
    BY <1>3 DEF WriterEnds, UsesOnTheWay, others, recorder
  <2> QED BY <1>3, <2>1, OthersStay DEF WriterEnds, PipelineTypes
<1>4. CASE StopWriter
  <2>1. UsesOnTheWay'
    BY <1>4 DEF StopWriter, UsesOnTheWay, others, recorder
  <2> QED BY <1>4, <2>1, OthersStay DEF StopWriter, PipelineTypes
<1> QED BY <1>1, <1>2, <1>3, <1>4 DEF WriterStep

LEMMA ShutdownKeeps == ASSUME PipelineInv, ShutdownPipelines PROVE PipelineInv'
<1> USE DEF PipelineInv, ShutdownPipelines
<1>1. PipelineTypes'
  BY NotifiedTypes DEF PipelineTypes, Started, builders, recorder
<1>2. RowsApart' /\ BuildersApart' /\ CountsExact'
  BY RowsStay, BuildersStay, CountsStay DEF builders, queues
<1>3. DrawsBacked'
  BY BackedStay DEF queues
<1>4. UsesOnTheWay'
  BY DEF UsesOnTheWay, store, recorder
<1> QED BY <1>1, <1>2, <1>3, <1>4

LEMMA PipelineStepKeeps ==
  ASSUME PipelineAssumption, PipelineInv, [PipelineNext]_pipelineVars
  PROVE  PipelineInv'
<1>1. CASE RecorderStep
  BY <1>1, BeginFrameKeeps, EndFrameKeeps, BuildSynchronouslyKeeps, SetSkipsKeeps,
     FindPipelineKeeps DEF RecorderStep
<1>2. CASE Creates
  BY <1>2, PipelineCreatedKeeps DEF Creates
<1>3. CASE \E w \in Started : BuilderStep(w)
  BY <1>3, BuilderStepKeeps
<1>4. CASE RendererStep
  BY <1>4, DrawBindsKeeps, DrawAwaitsKeeps DEF RendererStep
<1>5. CASE WriterStep \/ StopWriter
  BY <1>5, WriterKeeps
<1>6. CASE ShutdownPipelines
  BY <1>6, ShutdownKeeps
<1>7. CASE UNCHANGED pipelineVars
  <2> USE DEF PipelineInv, pipelineVars
  <2>1. PipelineTypes'
    BY <1>7 DEF PipelineTypes, Started, builders, recorder
  <2>2. RowsApart' /\ BuildersApart' /\ CountsExact'
    BY <1>7, RowsStay, BuildersStay, CountsStay DEF builders, queues
  <2>3. DrawsBacked'
    BY <1>7, BackedStay DEF queues
  <2>4. UsesOnTheWay'
    BY <1>7, UsesStay DEF recorder
  <2> QED BY <2>1, <2>2, <2>3, <2>4
<1> QED BY <1>1, <1>2, <1>3, <1>4, <1>5, <1>6, <1>7 DEF PipelineNext

-----------------------------------------------------------------------------

LEMMA PipelineInvPromises ==
  ASSUME PipelineAssumption, PipelineInv
  PROVE  DrawsFindPipelines /\ PipelineTypeOK
<1> USE DEF PipelineInv
<1>1. QueuedOnce
  <2>1. Once(prio, Hashes) /\ Once(back, Hashes)
    BY DEF RowsApart
  <2>2. /\ IsFiniteSet(ToSet(prio)) /\ Cardinality(ToSet(prio)) = Len(prio)
        /\ IsFiniteSet(ToSet(back)) /\ Cardinality(ToSet(back)) = Len(back)
        /\ Len(prio) \in Nat /\ Len(back) \in Nat
    BY <2>1, OnceCount, OnceIs
  <2> DEFINE q == ToSet(prio) \cup ToSet(back)
  <2>3. IsFiniteSet(q) /\ Cardinality(q) = Len(prio) + Len(back)
    <3>1. Cardinality(ToSet(prio) \cap ToSet(back)) = 0
      BY FS_EmptySet DEF RowsApart
    <3>2. /\ IsFiniteSet(q)
          /\ Cardinality(q) = Cardinality(ToSet(prio)) + Cardinality(ToSet(back))
                                - Cardinality(ToSet(prio) \cap ToSet(back))
      BY <2>2, FS_Union
    <3> QED BY <2>2, <3>1, <3>2
  <2>4. IsFiniteSet(compiling) /\ Cardinality(compiling) \in Nat
    BY FS_Subset, FS_CardinalityType DEF RowsApart, CountsExact
  <2>5. Cardinality(toBuild) = Cardinality(q) + Cardinality(compiling)
    <3>1. Cardinality(q \cap compiling) = 0 /\ toBuild = q \cup compiling
      BY FS_EmptySet DEF RowsApart
    <3>2. Cardinality(q \cup compiling)
            = Cardinality(q) + Cardinality(compiling) - Cardinality(q \cap compiling)
      BY <2>3, <2>4, FS_Union
    <3> HIDE DEF q
    <3> QED BY <2>2, <2>3, <2>4, <3>1, <3>2
  <2>6. Len(prio) + Len(back) + Cardinality(compiling) = Cardinality(toBuild)
    BY <2>3, <2>5
  <2>7. \A w, v \in Started : w # v /\ builder[w] = "builds" /\ builder[v] = "builds"
                                => item[w] # item[v]
    BY DEF BuildersApart, In
  <2>8. In({"tells"}) = {w \in Started : builder[w] = "tells"}
    BY DEF In
  <2> QED BY <2>6, <2>7, <2>8 DEF QueuedOnce, RowsApart, CountsExact
<1>2. BackLimited
  <2>1. FromBack = {w \in Started : builder[w] \in {"builds", "tells", "leaves"} /\ isBack[w]}
    BY DEF FromBack, In
  <2> QED BY <2>1 DEF BackLimited, CountsExact
<1>3. NeverMissing
  BY DEF DrawsBacked, NeverMissing
<1>4. FirstUsesStored
  BY DEF UsesOnTheWay, FirstUsesStored
<1>5. PipelineTypeOK
  <2>1. /\ ToSet(prio) \subseteq Hashes /\ ToSet(back) \subseteq Hashes
        /\ {prio, back, deferred} \subseteq Seq(Hashes)
    BY RowsAre DEF RowsApart, Once
  <2>2. toBuild \subseteq Hashes /\ compiling \subseteq Hashes
    BY <2>1 DEF RowsApart, BuildersApart
  <2>3. queued \in Nat
    BY TellingIs, FS_CardinalityType DEF CountsExact
  <2>4. activeBack \in Nat
    BY TellingIs DEF CountsExact
  <2>5. missing \in BOOLEAN
    BY DEF DrawsBacked
  <2> QED BY <2>1, <2>2, <2>3, <2>4, <2>5
          DEF PipelineTypeOK, PipelineTypes, UsesOnTheWay, States
<1> QED BY <1>1, <1>2, <1>3, <1>4, <1>5 DEF DrawsFindPipelines

LEMMA PipelinesInvariant ==
  ASSUME PipelineAssumption
  PROVE  PipelineSpec => []PipelineInv
<1>1. PipelineInit => PipelineInv
  BY PipelineInitHolds
<1>2. PipelineInv /\ [PipelineNext]_pipelineVars => PipelineInv'
  BY PipelineStepKeeps
<1> QED BY <1>1, <1>2, PTL DEF PipelineSpec

\* Whatever is found, built, evicted, put off and waited for, in any order: what is pending is
\* queued once or built by one worker and counted once, background builds keep to their limit,
\* no draw is bound while nobody builds its pipeline, and every first use is in the database
\* when the cache has shut down, unless the database broke (pipeline_cache.cpp: find_pipeline,
\* pipeline_worker, wait_pipeline, shutdown_pipeline_cache).
THEOREM DrawsFindTheirPipelines ==
  ASSUME PipelineAssumption
  PROVE  PipelineSpec => []DrawsFindPipelines
<1>1. PipelineInv => DrawsFindPipelines
  BY PipelineInvPromises
<1> QED BY <1>1, PipelinesInvariant, PTL

\* The variables of the pipeline cache keep their types; its counters of queued and of
\* background builds, unsigned in the code, never go below zero (pipeline_cache.cpp).
THEOREM PipelineTypesCorrect ==
  ASSUME PipelineAssumption
  PROVE  PipelineSpec => []PipelineTypeOK
<1>1. PipelineInv => PipelineTypeOK
  BY PipelineInvPromises
<1> QED BY <1>1, PipelinesInvariant, PTL

-----------------------------------------------------------------------------
(* The presenter.                                                          *)

InFrame == showWorker \in {"encodes", "publishes"}

\* What is encoded and not queued are the images of the sealed frame, in their order.
GroupInv ==
  /\ group # <<>> => InFrame
  /\ showWorker = "encodes" => Len(group) < ctx.slots
  /\ \A m \in 1 .. Len(group) : group[m].frame = showFrame /\ Slot(group[m]) = m

\* Everything else is older than the sealed frame, and so are the images of the slots
\* that it has not reached.
AgesInv ==
  /\ \A j \in ToSet(jobs) \cup ToSet(held) \cup ToSet(latch) \cup {showLast} :
       j.frame <= showFrame /\ (InFrame => j.frame < showFrame)
  /\ \A s \in 1 .. PoolSlots : \A i \in pools[s] :
       i[1] = s /\ i[2] <= showFrame
         /\ (showWorker = "encodes" /\ s > Len(group) => i[2] < showFrame)

\* Where the VI owns the scanout nothing comes after what is latched.
LatchInv ==
  /\ viOwns => showWorker # "publishes" /\ (showWorker = "encodes" => ctx.slots = 1)
  /\ viOwns /\ latch # <<>> =>
       Before(ToSet(jobs) \cup ToSet(held) \cup {showLast}, ToSet(latch))

HeldInv == presenter \in {"has", "presents"} => held # <<>>

PresenterInv ==
  /\ ShowTypeOK /\ ImagesKept /\ NeverBack /\ ConfiguredAlone
  /\ GroupInv /\ AgesInv /\ LatchInv /\ HeldInv

\* An image that is shown or latched may be compared with itself.
LEMMA ComesWithItself == \A j \in ShowJobs \cup {NothingShown} : NotAfter(j, j)
<1>1. \A j \in ShowJobs : Slot(j) \in Nat
  BY DEF ShowJobs, Images, Slot
<1>2. Slot(NothingShown) = 0
  BY DEF Slot, NothingShown
<1> QED BY <1>1, <1>2 DEF NotAfter

LEMMA RowOfOne ==
  ASSUME NEW x
  PROVE  ToSet(<<x>>) = {x}
<1>1. DOMAIN <<x>> = {1} /\ <<x>>[1] = x
  OBVIOUS
<1> QED BY <1>1 DEF ToSet

LEMMA RowOfNone == ToSet(<<>>) = {} /\ \A x : ~(x \in ToSet(<<>>))
<1>1. DOMAIN <<>> = {}
  OBVIOUS
<1> QED BY <1>1 DEF ToSet

\* A row of at most one is empty or its first.
LEMMA RowOfLittle ==
  ASSUME NEW S, NEW q \in Seq(S), Len(q) <= 1
  PROVE  q = <<>> \/ (q = <<q[1]>> /\ q[1] \in S)
<1>1. CASE Len(q) = 0
  BY <1>1
<1>2. CASE Len(q) = 1
  <2>1. q[1] \in S
    BY <1>2
  <2>2. <<q[1]>> \in Seq(S) /\ Len(<<q[1]>>) = 1 /\ <<q[1]>>[1] = q[1]
    BY <2>1
  <2>3. \A i \in 1 .. Len(q) : q[i] = <<q[1]>>[i]
    BY <1>2, <2>2
  <2>4. q = <<q[1]>>
    BY <1>2, <2>2, <2>3, SeqEqual
  <2> QED BY <2>1, <2>4
<1>3. PICK n \in Nat : n = Len(q)
  OBVIOUS
<1>4. n <= 1
  BY <1>3
<1>5. Len(q) = 0 \/ Len(q) = 1
  <2>1. n = 0 \/ n = 1
    BY <1>4
  <2> QED BY <1>3, <2>1
<1> QED BY <1>1, <1>2, <1>5

LEMMA OneOrdered ==
  ASSUME NEW x \in ShowJobs
  PROVE  Ordered(<<x>>)
<1>1. DOMAIN <<x>> = {1} /\ <<x>>[1] = x
  OBVIOUS
<1> QED BY <1>1, ComesWithItself DEF Ordered

LEMMA RowsJoined ==
  ASSUME NEW p \in Seq(ShowJobs), NEW q \in Seq(ShowJobs)
  PROVE  /\ p \o q \in Seq(ShowJobs) /\ Len(p \o q) = Len(p) + Len(q)
         /\ ToSet(p \o q) = ToSet(p) \cup ToSet(q)
         /\ Ordered(p) /\ Ordered(q) /\ Before(ToSet(p), ToSet(q)) => Ordered(p \o q)
<1> DEFINE r == p \o q
<1>1. /\ r \in Seq(ShowJobs) /\ Len(r) = Len(p) + Len(q) /\ Len(p) \in Nat /\ Len(q) \in Nat
      /\ \A i \in 1 .. Len(p) : r[i] = p[i]
      /\ \A i \in 1 .. Len(q) : r[Len(p) + i] = q[i]
  OBVIOUS
<1> HIDE DEF r
<1>2. DOMAIN p = 1 .. Len(p) /\ DOMAIN q = 1 .. Len(q) /\ DOMAIN r = 1 .. Len(p) + Len(q)
  BY <1>1
<1>3. \A i \in 1 .. Len(r) : i \in 1 .. Len(p) \/ (i - Len(p) \in 1 .. Len(q) /\ Len(p) + (i - Len(p)) = i)
  BY <1>1
<1>4. ASSUME NEW x
      PROVE  x \in ToSet(r) <=> x \in ToSet(p) \/ x \in ToSet(q)
  <2>1. /\ x \in ToSet(r) <=> \E i \in 1 .. Len(r) : r[i] = x
        /\ x \in ToSet(p) <=> \E i \in 1 .. Len(p) : p[i] = x
        /\ x \in ToSet(q) <=> \E i \in 1 .. Len(q) : q[i] = x
    BY <1>1, InRow
  <2>2. x \in ToSet(r) => x \in ToSet(p) \/ x \in ToSet(q)
    BY <1>1, <1>3, <2>1
  <2>3. x \in ToSet(p) => x \in ToSet(r)
    <3>1. \A i \in 1 .. Len(p) : i \in 1 .. Len(r)
      BY <1>1
    <3> QED BY <1>1, <2>1, <3>1
  <2>4. x \in ToSet(q) => x \in ToSet(r)
    <3>1. \A i \in 1 .. Len(q) : Len(p) + i \in 1 .. Len(r)
      BY <1>1
    <3> QED BY <1>1, <2>1, <3>1
  <2> QED BY <2>2, <2>3, <2>4
<1>5. ToSet(r) = ToSet(p) \cup ToSet(q)
  BY <1>4
<1>6. ASSUME Ordered(p), Ordered(q), Before(ToSet(p), ToSet(q))
      PROVE  Ordered(r)
  <2>1. SUFFICES ASSUME NEW m \in 1 .. Len(r), NEW n \in 1 .. Len(r), m <= n
                 PROVE  NotAfter(r[m], r[n])
    BY <1>1, <1>2 DEF Ordered
  <2>2. CASE n \in 1 .. Len(p)
    <3>1. m \in 1 .. Len(p)
      BY <2>1, <2>2
    <3> QED BY <1>1, <1>2, <1>6, <2>1, <2>2, <3>1 DEF Ordered
  <2>3. CASE m \in 1 .. Len(p) /\ n \notin 1 .. Len(p)
    <3>1. n - Len(p) \in 1 .. Len(q) /\ r[n] = q[n - Len(p)]
      BY <1>1, <1>3, <2>1, <2>3
    <3>2. r[m] \in ToSet(p) /\ r[n] \in ToSet(q)
      BY <1>1, <2>3, <3>1, InRow
    <3> QED BY <1>6, <3>2 DEF Before
  <2>4. CASE m \notin 1 .. Len(p)
    <3>1. n \notin 1 .. Len(p)
      BY <1>1, <2>1, <2>4
    <3>2. m - Len(p) \in 1 .. Len(q) /\ Len(p) + (m - Len(p)) = m
      BY <1>3, <2>1, <2>4
    <3>3. n - Len(p) \in 1 .. Len(q) /\ Len(p) + (n - Len(p)) = n
      BY <1>3, <2>1, <3>1
    <3>4. r[m] = q[m - Len(p)] /\ r[n] = q[n - Len(p)]
      BY <1>1, <3>2, <3>3
    <3>5. m - Len(p) <= n - Len(p)
      BY <1>1, <2>1
    <3> QED BY <1>2, <1>6, <3>2, <3>3, <3>4, <3>5 DEF Ordered
  <2> QED BY <2>2, <2>3, <2>4
<1> QED BY <1>1, <1>5, <1>6 DEF r

LEMMA FirstTaken ==
  ASSUME NEW q \in Seq(ShowJobs), q # <<>>
  PROVE  /\ Head(q) \in ShowJobs /\ Tail(q) \in Seq(ShowJobs) /\ Len(Tail(q)) = Len(q) - 1
         /\ ToSet(q) = {Head(q)} \cup ToSet(Tail(q))
         /\ Ordered(q) => Ordered(Tail(q)) /\ Before({Head(q)}, ToSet(Tail(q)))
<1> DEFINE t == Tail(q)
<1>1. /\ Head(q) = q[1] /\ q[1] \in ShowJobs /\ t \in Seq(ShowJobs) /\ Len(q) \in Nat \ {0}
      /\ Len(t) = Len(q) - 1 /\ \A i \in 1 .. Len(q) - 1 : t[i] = q[i + 1]
  OBVIOUS
<1> HIDE DEF t
<1>2. DOMAIN q = 1 .. Len(q) /\ DOMAIN t = 1 .. Len(q) - 1
  BY <1>1
<1>3. /\ \A i \in 1 .. Len(q) - 1 : i + 1 \in 1 .. Len(q) /\ 1 <= i + 1
      /\ \A i \in 1 .. Len(q) : i = 1 \/ (i - 1 \in 1 .. Len(q) - 1 /\ (i - 1) + 1 = i)
      /\ 1 \in 1 .. Len(q)
  BY <1>1
<1>4. \A x : x \in ToSet(q) <=> \E i \in 1 .. Len(q) : q[i] = x
  BY InRow
<1>5. \A x : x \in ToSet(t) <=> \E i \in 1 .. Len(q) - 1 : q[i + 1] = x
  BY <1>1, InRow
<1>6. ASSUME NEW x
      PROVE  x \in ToSet(q) <=> x = q[1] \/ x \in ToSet(t)
  BY <1>3, <1>4, <1>5
<1>7. ASSUME Ordered(q)
      PROVE  Ordered(t) /\ Before({q[1]}, ToSet(t))
  <2>1. ASSUME NEW m \in 1 .. Len(q) - 1, NEW n \in 1 .. Len(q) - 1, m <= n
        PROVE  NotAfter(t[m], t[n])
    <3>1. m + 1 \in 1 .. Len(q) /\ n + 1 \in 1 .. Len(q) /\ m + 1 <= n + 1
      BY <1>3, <2>1
    <3> QED BY <1>1, <1>2, <1>7, <3>1 DEF Ordered
  <2>2. Ordered(t)
    BY <1>2, <2>1 DEF Ordered
  <2>3. ASSUME NEW x \in ToSet(t)
        PROVE  NotAfter(q[1], x)
    <3>1. PICK i \in 1 .. Len(q) - 1 : q[i + 1] = x
      BY <1>5
    <3> QED BY <1>2, <1>3, <1>7, <3>1 DEF Ordered
  <2> QED BY <2>2, <2>3 DEF Before
<1> QED BY <1>1, <1>6, <1>7 DEF t

-----------------------------------------------------------------------------
(* The steps.                                                              *)

\* What waits, is held, encoded, latched or shown is a job, or nothing yet.
LEMMA JobsAre ==
  ASSUME PresenterAssumption, ShowTypeOK
  PROVE  /\ {jobs, held, group, latch} \subseteq Seq(ShowJobs)
         /\ Refers \subseteq ShowJobs
         /\ \A j \in Refers \cup {showLast} : j.frame \in Nat /\ Slot(j) \in Nat
<1>1. {jobs, held, group, latch} \subseteq Seq(ShowJobs)
  BY DEF ShowTypeOK
<1>2. \A q \in Seq(ShowJobs) : ToSet(q) \subseteq ShowJobs
  BY InRow
<1>3. Refers \subseteq ShowJobs
  BY <1>1, <1>2 DEF Refers
<1>4. \A j \in ShowJobs : j.frame \in Nat /\ Slot(j) \in Nat
  BY DEF ShowJobs, Images, Slot, PresenterAssumption
<1>5. NothingShown.frame \in Nat /\ Slot(NothingShown) \in Nat
  BY DEF NothingShown, Slot
<1>6. showLast \in ShowJobs \cup {NothingShown}
  BY DEF ShowTypeOK
<1> QED BY <1>1, <1>3, <1>4, <1>5, <1>6

\* What a step of the presenter or of the window leaves as it is.
LEMMA ImagesStay ==
  ASSUME ImagesKept, UNCHANGED <<content, pools>>, Refers' \subseteq Refers
  PROVE  ImagesKept'
  BY DEF ImagesKept, Slot

LEMMA AgesStay ==
  ASSUME AgesInv, UNCHANGED <<pools, showFrame, group, showWorker>>,
         ToSet(jobs') \cup ToSet(held') \cup ToSet(latch') \cup {showLast'}
           \subseteq ToSet(jobs) \cup ToSet(held) \cup ToSet(latch) \cup {showLast}
  PROVE  AgesInv'
<1>1. InFrame' = InFrame
  BY DEF InFrame
<1> QED BY <1>1 DEF AgesInv

LEMMA PresenterInitHolds == ASSUME PresenterAssumption, PresenterInit PROVE PresenterInv
<1> USE DEF PresenterInit
<1>1. PoolSlots \in Nat /\ PoolSlots > 0 /\ 1 \in 1 .. PoolSlots /\ MaxShown \in Nat
  BY DEF PresenterAssumption
<1>2. ShowTypeOK
  <2>1. <<>> \in Seq(ShowJobs) /\ Len(<<>>) = 0
    OBVIOUS
  <2>2. 0 \in 0 .. MaxShown
    BY <1>1
  <2>3. pools \in [1 .. PoolSlots -> SUBSET Images]
    OBVIOUS
  <2>4. content \in [Images -> 0 .. MaxShown] /\ sizes \in [Images -> Nat]
    BY <2>2
  <2>5. ctx \in [slots : 1 .. PoolSlots, size : Nat] /\ ctx.slots = 1
    BY <1>1
  <2>6. Len(group) <= ctx.slots
    BY <2>1, <2>5
  <2>7. {jobs, held, group, latch} \subseteq Seq(ShowJobs) /\ Len(held) <= 1 /\ Len(latch) <= 1
    BY <2>1
  <2> QED BY <2>2, <2>3, <2>4, <2>5, <2>6, <2>7 DEF ShowTypeOK
<1>3. ImagesKept
  BY RowOfNone DEF ImagesKept, Refers
<1>4. NeverBack
  <2>1. DOMAIN <<>> = {} /\ Len(<<>>) = 0
    OBVIOUS
  <2>2. 0 <= Bound(PoolSlots)
    BY <1>1 DEF Bound
  <2> QED BY <2>1, <2>2, RowOfNone DEF NeverBack, Ordered, Before
<1>5. GroupInv
  BY DEF GroupInv
<1>6. AgesInv
  <2>1. showLast.frame = 0
    BY DEF NothingShown
  <2> QED BY <2>1, RowOfNone DEF AgesInv, InFrame
<1>7. ConfiguredAlone /\ LatchInv /\ HeldInv
  BY DEF ConfiguredAlone, LatchInv, HeldInv
<1> QED BY <1>2, <1>3, <1>4, <1>5, <1>6, <1>7 DEF PresenterInv

LEMMA BeginKeeps == ASSUME PresenterInv, Begin PROVE PresenterInv'
<1> USE DEF Begin, queue3, images, surfaces
<1>1. ShowTypeOK'
  BY DEF PresenterInv, ShowTypeOK
<1>2. ImagesKept' /\ NeverBack' /\ ConfiguredAlone' /\ HeldInv'
  BY DEF PresenterInv, ImagesKept, Refers, NeverBack, Ordered, Before, NotAfter, Slot,
         ConfiguredAlone, HeldInv
<1>3. ~InFrame /\ ~InFrame' /\ showWorker' # "encodes" /\ showWorker' # "publishes"
  BY DEF InFrame
<1>4. GroupInv' /\ LatchInv'
  BY <1>3 DEF PresenterInv, GroupInv, LatchInv, Before, NotAfter, Slot
<1>5. AgesInv'
  BY <1>3 DEF PresenterInv, AgesInv
<1> QED BY <1>1, <1>2, <1>4, <1>5 DEF PresenterInv

LEMMA ConfiguresKeeps == ASSUME PresenterInv, Configures PROVE PresenterInv'
<1>0. ~InFrame /\ ~InFrame' /\ showWorker' \in {"configures", "records"}
      /\ UNCHANGED <<viOwns, queue3, images, ctx, group, latch, showFrame, scans, turns,
                     showStop, showLast, showWindow, acquired>>
  BY DEF Configures, PresenterIdle, Configure, InFrame, surfaces
<1> USE DEF queue3, images
<1>1. ShowTypeOK'
  <2>1. surface' \in Nat /\ showPending' \in BOOLEAN
    BY DEF PresenterInv, ShowTypeOK, Configures, PresenterIdle, Configure, surfaces
  <2> QED BY <1>0, <2>1 DEF PresenterInv, ShowTypeOK
<1>2. ImagesKept' /\ NeverBack' /\ HeldInv'
  BY <1>0 DEF PresenterInv, ImagesKept, Refers, NeverBack, Ordered, Before, NotAfter, Slot,
         HeldInv
<1>3. ConfiguredAlone'
  BY DEF PresenterInv, ConfiguredAlone, Configures, PresenterIdle, Configure, surfaces
<1>4. GroupInv' /\ LatchInv'
  BY <1>0 DEF PresenterInv, GroupInv, LatchInv, Before, NotAfter, Slot, InFrame
<1>5. AgesInv'
  BY <1>0 DEF PresenterInv, AgesInv
<1> QED BY <1>1, <1>2, <1>3, <1>4, <1>5 DEF PresenterInv

LEMMA SealKeeps ==
  ASSUME PresenterAssumption, ~ViInterpolates, PresenterInv, NEW n \in 1 .. PoolSlots, Seal(n)
  PROVE  PresenterInv'
<1> USE DEF queue3, images, surfaces
<1>1. /\ showWorker = "records" /\ showWorker' = "encodes" /\ showFrame < MaxShown
      /\ showFrame' = showFrame + 1 /\ ctx' = [slots |-> n, size |-> showWindow]
      /\ viOwns => n <= 1
      /\ UNCHANGED <<viOwns, queue3, images, group, latch, surfaces, scans, turns, showStop,
                     showLast>>
  <2>1. PoolSlots \in Nat
    BY DEF PresenterAssumption
  <2> QED BY <2>1 DEF Seal
<1>2. /\ showFrame \in 0 .. MaxShown /\ MaxShown \in Nat /\ PoolSlots \in Nat /\ n \in Nat
      /\ ~InFrame /\ group = <<>> /\ Len(group) = 0
  BY <1>1 DEF PresenterInv, ShowTypeOK, PresenterAssumption, GroupInv, InFrame
<1>3. ShowTypeOK'
  <2>1. showFrame' \in 0 .. MaxShown
    BY <1>1, <1>2
  <2>2. ctx' \in [slots : 1 .. PoolSlots, size : Nat] /\ ctx'.slots = n
    BY <1>1 DEF PresenterInv, ShowTypeOK
  <2>3. Len(group') <= ctx'.slots
    BY <1>1, <1>2, <2>2
  <2> QED BY <1>1, <2>1, <2>2, <2>3 DEF PresenterInv, ShowTypeOK
<1>4. ImagesKept' /\ NeverBack' /\ ConfiguredAlone' /\ HeldInv'
  BY <1>1 DEF PresenterInv, ImagesKept, Refers, NeverBack, Ordered, Before, NotAfter, Slot,
         ConfiguredAlone, HeldInv
<1>5. GroupInv'
  BY <1>1, <1>2 DEF GroupInv, InFrame
<1>6. LatchInv'
  BY <1>1, <1>2 DEF PresenterInv, LatchInv, Before, NotAfter, Slot
<1>7. AgesInv'
  <2>1. \A j \in ToSet(jobs) \cup ToSet(held) \cup ToSet(latch) \cup {showLast} :
          j.frame \in Nat /\ j.frame <= showFrame
    BY JobsAre DEF PresenterInv, AgesInv, Refers
  <2>2. \A s \in 1 .. PoolSlots : \A i \in pools[s] : i[2] \in Nat
    BY <1>2 DEF PresenterInv, ShowTypeOK, Images
  <2> QED BY <1>1, <1>2, <2>1, <2>2 DEF PresenterInv, AgesInv
<1> QED BY <1>3, <1>4, <1>5, <1>6, <1>7 DEF PresenterInv

\* An image that nobody refers to, or that is new, is rendered into.
LEMMA ImageAcquired ==
  ASSUME PresenterAssumption, PresenterInv, showWorker = "encodes", NEW i \in Images,
         NEW s \in 1 .. PoolSlots, s = Len(group) + 1, Acquire(s, i)
  PROVE  /\ i[1] = s /\ i[2] <= showFrame /\ ~Used(i) /\ i \in pools'[s]
         /\ pools' \in [1 .. PoolSlots -> SUBSET Images]
         /\ \A r \in 1 .. PoolSlots \ {s} : pools'[r] = pools[r]
         /\ pools'[s] \subseteq pools[s] \cup {i}
         /\ \A k \in pools[s] : Used(k) => k \in pools'[s]
         /\ content' = [content EXCEPT ![i] = showFrame] /\ sizes' = [sizes EXCEPT ![i] = ctx.size]
<1>1. pools \in [1 .. PoolSlots -> SUBSET Images] /\ showFrame \in Nat /\ Len(group) \in Nat
      /\ s \in Nat
  BY JobsAre DEF PresenterInv, ShowTypeOK, PresenterAssumption
<1>2. \A k \in pools[s] : k[1] = s /\ k[2] < showFrame /\ k[2] \in Nat
  BY <1>1 DEF PresenterInv, AgesInv, Images, PresenterAssumption
<1>3. CASE FreeImages(pools[s]) # {}
  <2>1. i \in FreeImages(pools[s])
    BY <1>3 DEF Acquire
  <2>2. PICK gone \in SUBSET Stale(pools[s]) : pools' = [pools EXCEPT ![s] = @ \ gone]
    BY <1>3 DEF Acquire
  <2>3. i \in pools[s] /\ ~Used(i) /\ i \notin gone
    BY <2>1 DEF FreeImages, Stale
  <2>4. \A k \in gone : ~Used(k)
    BY DEF Stale
  <2> QED BY <1>1, <1>2, <2>2, <2>3, <2>4 DEF Acquire
<1>4. CASE FreeImages(pools[s]) = {}
  <2>1. i = <<s, showFrame>> /\ pools' = [pools EXCEPT ![s] = (@ \ Stale(@)) \cup {i}]
    BY <1>4 DEF Acquire
  <2>2. i[1] = s /\ i[2] = showFrame
    BY <2>1
  <2>3. i \notin pools[s]
    BY <1>1, <1>2, <2>2
  <2>4. ASSUME Used(i) PROVE FALSE
    <3>1. PICK j \in Refers : j.image = i
      BY <2>4 DEF Used
    <3>2. j.image \in pools[Slot(j)] /\ Slot(j) = s
      BY <3>1, <2>2 DEF PresenterInv, ImagesKept, Slot
    <3> QED BY <2>3, <3>1, <3>2
  <2>5. pools'[s] = (pools[s] \ Stale(pools[s])) \cup {i}
    BY <1>1, <2>1
  <2>6. \A k \in Stale(pools[s]) : ~Used(k)
    BY DEF Stale
  <2> QED BY <1>1, <2>1, <2>2, <2>4, <2>5, <2>6 DEF Acquire
<1> QED BY <1>3, <1>4

LEMMA EncodeImageKeeps ==
  ASSUME PresenterAssumption, PresenterInv, EncodeImage
  PROVE  PresenterInv'
<1> DEFINE s == Len(group) + 1
<1>1. PICK i \in Images :
        LET job == [image |-> i, frame |-> showFrame]
        IN /\ Acquire(s, i)
           /\ IF s < ctx.slots
              THEN group' = Append(group, job) /\ UNCHANGED <<showWorker, latch>>
              ELSE IF viOwns /\ ctx.slots = 1
              THEN latch' = <<job>> /\ showWorker' = "begins" /\ UNCHANGED group
              ELSE group' = Append(group, job) /\ showWorker' = "publishes" /\ UNCHANGED latch
  BY DEF EncodeImage
<1> DEFINE job == [image |-> i, frame |-> showFrame]
<1>2. /\ showWorker = "encodes" /\ InFrame
      /\ UNCHANGED <<viOwns, jobs, held, presenter, ctx, surface, showWindow, showPending,
                     acquired, showFrame, scans, turns, showStop, showLast>>
  BY DEF EncodeImage, queue3, surfaces, InFrame
<1>3. /\ s \in 1 .. PoolSlots /\ Len(group) \in Nat /\ showFrame \in Nat /\ Len(group) < ctx.slots
      /\ ctx.slots \in 1 .. PoolSlots /\ PoolSlots \in Nat /\ group \in Seq(ShowJobs)
  <2>1. Len(group) < ctx.slots
    BY <1>2 DEF PresenterInv, GroupInv
  <2> QED BY <2>1, JobsAre DEF PresenterInv, ShowTypeOK, PresenterAssumption
<1>4. /\ i[1] = s /\ i[2] <= showFrame /\ ~Used(i) /\ i \in pools'[s]
      /\ pools' \in [1 .. PoolSlots -> SUBSET Images]
      /\ \A r \in 1 .. PoolSlots \ {s} : pools'[r] = pools[r]
      /\ pools'[s] \subseteq pools[s] \cup {i}
      /\ \A k \in pools[s] : Used(k) => k \in pools'[s]
      /\ content' = [content EXCEPT ![i] = showFrame] /\ sizes' = [sizes EXCEPT ![i] = ctx.size]
  <2> HIDE DEF s
  <2> QED BY <1>1, <1>2, <1>3, ImageAcquired DEF s
<1>5. 1 <= showFrame /\ showFrame \in 1 .. MaxShown
  <2>1. i[2] \in 1 .. MaxShown /\ showFrame \in 0 .. MaxShown
    BY DEF Images, PresenterInv, ShowTypeOK
  <2> QED BY <1>3, <1>4, <2>1
<1>6. job \in ShowJobs /\ job.image = i /\ job.frame = showFrame /\ Slot(job) = s
  BY <1>4, <1>5 DEF ShowJobs, Slot
<1>7. /\ Append(group, job) \in Seq(ShowJobs) /\ Len(Append(group, job)) = s
      /\ ToSet(Append(group, job)) = ToSet(group) \cup {job}
      /\ \A m \in 1 .. Len(group) : Append(group, job)[m] = group[m]
      /\ Append(group, job)[s] = job
  <2> HIDE DEF job
  <2>1. <<job>> \in Seq(ShowJobs) /\ Append(group, job) = group \o <<job>>
    BY <1>3, <1>6
  <2>2. ToSet(group \o <<job>>) = ToSet(group) \cup ToSet(<<job>>)
    BY <1>3, <2>1, RowsJoined
  <2> QED BY <1>3, <1>6, <2>1, <2>2, RowOfOne
<1> HIDE DEF job, s
<1>8. /\ {group', latch'} \subseteq Seq(ShowJobs)
      /\ ToSet(group') \cup ToSet(latch') \subseteq ToSet(group) \cup ToSet(latch) \cup {job}
      /\ Len(latch') <= 1 /\ Len(group') <= ctx.slots
      /\ showWorker' \in {"begins", "encodes", "publishes"}
  <2>1. <<job>> \in Seq(ShowJobs) /\ Len(<<job>>) = 1
    BY <1>6
  <2>2. {group, latch} \subseteq Seq(ShowJobs) /\ Len(latch) <= 1
    BY JobsAre DEF PresenterInv, ShowTypeOK
  <2>3. s <= ctx.slots /\ Len(group) <= ctx.slots
    BY <1>3 DEF s
  <2>4. ToSet(<<job>>) = {job}
    BY RowOfOne
  <2>5. \/ group' = Append(group, job) /\ UNCHANGED <<showWorker, latch>>
        \/ latch' = <<job>> /\ showWorker' = "begins" /\ UNCHANGED group
        \/ group' = Append(group, job) /\ showWorker' = "publishes" /\ UNCHANGED latch
    BY <1>1, Zenon DEF job
  <2>6. CASE group' = Append(group, job) /\ latch' = latch /\ showWorker' \in {"encodes", "publishes"}
    BY <1>7, <2>2, <2>3, <2>6
  <2>7. CASE latch' = <<job>> /\ showWorker' = "begins" /\ UNCHANGED group
    BY <1>7, <2>1, <2>2, <2>3, <2>4, <2>7
  <2> QED BY <1>2, <2>5, <2>6, <2>7
<1>9. Refers' \subseteq Refers \cup {job}
  BY <1>2, <1>8 DEF Refers
<1>10. ShowTypeOK'
  <2>1. content \in [Images -> 0 .. MaxShown] /\ sizes \in [Images -> Nat] /\ ctx.size \in Nat
        /\ showFrame \in 0 .. MaxShown
    BY DEF PresenterInv, ShowTypeOK
  <2>2. content' \in [Images -> 0 .. MaxShown] /\ sizes' \in [Images -> Nat]
    BY <1>4, <2>1
  <2> QED BY <1>2, <1>4, <1>8, <2>2 DEF PresenterInv, ShowTypeOK
<1>11. ImagesKept'
  <2>1. SUFFICES ASSUME NEW j \in Refers'
                 PROVE  content'[j.image] = j.frame /\ j.image \in pools'[Slot(j)]
    BY DEF ImagesKept, Slot
  <2>2. CASE j = job
    <3>1. content \in [Images -> 0 .. MaxShown]
      BY DEF PresenterInv, ShowTypeOK
    <3> QED BY <1>4, <1>6, <2>2, <3>1
  <2>3. CASE j \in Refers
    <3>1. content[j.image] = j.frame /\ j.image \in pools[Slot(j)] /\ Used(j.image) /\ j.image # i
      BY <1>4, <2>3 DEF PresenterInv, ImagesKept, Used
    <3>2. j \in ShowJobs /\ Slot(j) \in 1 .. PoolSlots /\ j.image \in Images
      BY <2>3, JobsAre DEF PresenterInv, ShowJobs, Slot, Images
    <3>3. content'[j.image] = content[j.image]
      BY <1>4, <3>1, <3>2 DEF PresenterInv, ShowTypeOK
    <3> QED BY <1>4, <3>1, <3>2, <3>3
  <2> QED BY <1>9, <2>2, <2>3
<1>12. \A j \in ToSet(jobs) \cup ToSet(held) \cup ToSet(latch) \cup {showLast} :
         j.frame < showFrame /\ NotAfter(j, job)
  BY <1>2, <1>6 DEF PresenterInv, AgesInv, NotAfter
<1>13. NeverBack'
  <2>1. ASSUME NEW j \in ToSet(group) PROVE NotAfter(j, job)
    <3>1. PICK m \in 1 .. Len(group) : group[m] = j
      BY <1>3, InRow
    <3>2. j.frame = showFrame /\ Slot(j) = m
      BY <3>1 DEF PresenterInv, GroupInv
    <3> QED BY <1>3, <1>6, <3>2 DEF NotAfter, s
  <2>2. Ordered(Append(group, job))
    <3>1. <<job>> \in Seq(ShowJobs) /\ Append(group, job) = group \o <<job>>
      BY <1>3, <1>6
    <3>2. Ordered(group) /\ Ordered(<<job>>) /\ Before(ToSet(group), ToSet(<<job>>))
      BY <1>6, <2>1, OneOrdered, RowOfOne DEF PresenterInv, NeverBack, Before
    <3> QED BY <1>3, <3>1, <3>2, RowsJoined
  <2>3. Ordered(group')
    BY <1>1, <2>2 DEF PresenterInv, NeverBack, job
  <2>4. ToSet(group') \subseteq ToSet(group) \cup {job}
    BY <1>1, <1>7 DEF job
  <2>5. latch' # <<>> /\ ~viOwns' => latch' = <<showLast'>>
    BY <1>1, <1>2 DEF PresenterInv, NeverBack
  <2>6. Before({showLast}, ToSet(held) \cup ToSet(jobs) \cup ToSet(group'))
    BY <1>12, <2>4 DEF PresenterInv, NeverBack, Before
  <2>7. Before(ToSet(held), ToSet(jobs) \cup ToSet(group')) /\ Before(ToSet(jobs), ToSet(group'))
    BY <1>12, <2>4 DEF PresenterInv, NeverBack, Before
  <2>8. Len(jobs) <= Bound(PoolSlots) /\ Ordered(jobs)
    BY DEF PresenterInv, NeverBack
  <2>9. Ordered(jobs)'
    BY <1>2, <2>8 DEF Ordered, NotAfter, Slot
  <2>10. Ordered(group)'
    BY <2>3 DEF Ordered, NotAfter, Slot
  <2> QED BY <1>2, <2>5, <2>6, <2>7, <2>8, <2>9, <2>10 DEF NeverBack, Before, NotAfter, Slot
<1>14. ConfiguredAlone' /\ HeldInv'
  BY <1>2 DEF PresenterInv, ConfiguredAlone, HeldInv
<1>15. GroupInv'
  <2>1. \A m \in 1 .. Len(group) : group[m].frame = showFrame /\ Slot(group[m]) = m
    BY DEF PresenterInv, GroupInv
  <2>2. \A m \in 1 .. s : m \in 1 .. Len(group) \/ m = s
    BY <1>3 DEF s
  <2>3. CASE group' = Append(group, job)
    <3>1. showWorker' \in {"encodes", "publishes"} /\ (showWorker' = "encodes" => s < ctx.slots)
      BY <1>1, <1>2, <1>7, <2>3 DEF s, job
    <3>2. \A m \in 1 .. Len(group') : group'[m].frame = showFrame /\ Slot(group'[m]) = m
      BY <1>6, <1>7, <2>1, <2>2, <2>3
    <3> QED BY <1>2, <1>7, <2>3, <3>1, <3>2 DEF GroupInv, InFrame, Slot
  <2>4. CASE group' = group /\ showWorker' = "begins"
    <3>1. ctx.slots = 1 /\ group = <<>>
      BY <1>1, <1>3, <1>7, <2>4 DEF s, job
    <3> QED BY <2>4, <3>1 DEF GroupInv
  <2> QED BY <1>1, <2>3, <2>4 DEF job
<1>16. AgesInv'
  <2>1. ~InFrame' \/ latch' = latch
    BY <1>1 DEF InFrame
  <2>2. ToSet(latch') \subseteq ToSet(latch) \cup {job}
    BY <1>1, RowOfOne DEF job
  <2>3. \A j \in ToSet(jobs') \cup ToSet(held') \cup ToSet(latch') \cup {showLast'} :
          j.frame <= showFrame' /\ (InFrame' => j.frame < showFrame')
    <3>1. \A j \in ToSet(jobs) \cup ToSet(held) \cup ToSet(latch) \cup {showLast} : j.frame <= showFrame
      BY DEF PresenterInv, AgesInv
    <3>2. job.frame <= showFrame
      BY <1>3, <1>6
    <3> QED BY <1>2, <1>12, <2>1, <2>2, <3>1, <3>2
  <2>4. ASSUME NEW r \in 1 .. PoolSlots, NEW k \in pools'[r]
        PROVE  k[1] = r /\ k[2] <= showFrame
                 /\ (showWorker' = "encodes" /\ r > Len(group') => k[2] < showFrame)
    <3>1. CASE r = s
      <4>1. showWorker' = "encodes" => ~(r > Len(group'))
        BY <1>1, <1>3, <1>7, <3>1 DEF s, job
      <4>2. k = i \/ k \in pools[s]
        BY <1>4, <3>1, <2>4
      <4> QED BY <1>3, <1>4, <3>1, <4>1, <4>2 DEF PresenterInv, AgesInv
    <3>2. CASE r # s
      <4>1. k \in pools[r]
        BY <1>4, <2>4, <3>2
      <4>2. r > Len(group') => r > Len(group)
        BY <1>1, <1>3, <1>7 DEF s, job
      <4> QED BY <1>2, <4>1, <4>2 DEF PresenterInv, AgesInv
    <3> QED BY <3>1, <3>2
  <2> QED BY <1>2, <2>3, <2>4 DEF AgesInv
<1>17. LatchInv'
  <2>1. viOwns => ctx.slots = 1
    BY <1>2 DEF PresenterInv, LatchInv
  <2>2. viOwns => latch' = <<job>> /\ showWorker' = "begins"
    BY <1>1, <1>3, <2>1 DEF s, job
  <2>3. viOwns => Before(ToSet(jobs) \cup ToSet(held) \cup {showLast}, ToSet(latch'))
    BY <1>12, <2>2, RowOfOne DEF Before
  <2> QED BY <1>2, <2>2, <2>3 DEF LatchInv, Before, NotAfter, Slot
<1> QED BY <1>10, <1>11, <1>13, <1>14, <1>15, <1>16, <1>17 DEF PresenterInv

\* What is queued behind jobs that come before it is bounded and in order, and never
\* invents a job.
LEMMA RowQueued ==
  ASSUME PresenterAssumption, jobs \in Seq(ShowJobs), NEW new \in Seq(ShowJobs),
         Len(new) <= PoolSlots, Ordered(jobs), Ordered(new), Before(ToSet(jobs), ToSet(new))
  PROVE  /\ Enqueued(new) \in Seq(ShowJobs) /\ Len(Enqueued(new)) <= Bound(PoolSlots)
         /\ ToSet(Enqueued(new)) \subseteq ToSet(jobs) \cup ToSet(new)
         /\ Ordered(Enqueued(new))
<1>1. PICK n \in Nat : n = Len(new)
  OBVIOUS
<1>2. PoolSlots \in Nat /\ n <= PoolSlots
  BY <1>1 DEF PresenterAssumption
<1>3. n <= Bound(PoolSlots) /\ Bound(n) <= Bound(PoolSlots) /\ Bound(n) \in Nat
  BY <1>2 DEF Bound
<1>4. CASE Len(jobs) + Len(new) > Bound(Len(new))
  BY <1>1, <1>3, <1>4 DEF Enqueued
<1>5. CASE ~(Len(jobs) + Len(new) > Bound(Len(new)))
  <2>1. Enqueued(new) = jobs \o new
    BY <1>5 DEF Enqueued
  <2>2. /\ jobs \o new \in Seq(ShowJobs) /\ Len(jobs \o new) = Len(jobs) + n
        /\ ToSet(jobs \o new) = ToSet(jobs) \cup ToSet(new) /\ Ordered(jobs \o new)
    BY <1>1, RowsJoined
  <2>3. PICK k \in Nat : k = Len(jobs)
    OBVIOUS
  <2>4. k + n <= Bound(PoolSlots)
    <3>1. k + n <= Bound(n)
      BY <1>1, <1>3, <1>5, <2>3
    <3>2. Bound(PoolSlots) \in Nat
      BY <1>2 DEF Bound
    <3> HIDE DEF Bound
    <3> QED BY <1>3, <3>1, <3>2
  <2> QED BY <2>1, <2>2, <2>3, <2>4
<1> QED BY <1>4, <1>5

LEMMA PublishKeeps ==
  ASSUME PresenterAssumption, PresenterInv, NEW atOnce \in BOOLEAN, Publish(atOnce)
  PROVE  PresenterInv'
<1>1. /\ showWorker = "publishes" /\ showWorker' = "begins" /\ group' = <<>>
      /\ jobs' = IF atOnce THEN group ELSE Enqueued(group)
      /\ UNCHANGED <<viOwns, held, presenter, pools, content, sizes, ctx, latch, surface,
                     showWindow, showPending, acquired, showFrame, scans, turns, showStop,
                     showLast>>
  BY DEF Publish, images, surfaces
<1>2. ~viOwns /\ ~InFrame'
  BY <1>1 DEF PresenterInv, LatchInv, InFrame
<1>3. /\ {jobs, held, group, latch} \subseteq Seq(ShowJobs) /\ Len(group) <= PoolSlots
      /\ Ordered(jobs) /\ Ordered(group) /\ Before(ToSet(jobs), ToSet(group))
      /\ PoolSlots \in Nat /\ Len(group) <= ctx.slots /\ ctx.slots \in 1 .. PoolSlots
  <2>1. Len(group) <= ctx.slots /\ ctx.slots \in 1 .. PoolSlots /\ PoolSlots \in Nat
    BY DEF PresenterInv, ShowTypeOK, PresenterAssumption
  <2>2. {jobs, held, group, latch} \subseteq Seq(ShowJobs)
    BY DEF PresenterInv, ShowTypeOK
  <2>3. PICK n \in Nat : n = Len(group)
    BY <2>2
  <2>4. n <= PoolSlots
    BY <2>1, <2>3
  <2> QED BY <2>1, <2>2, <2>3, <2>4 DEF PresenterInv, NeverBack
<1>4. Len(group) <= Bound(PoolSlots)
  <2>1. PICK n \in Nat : n = Len(group)
    BY <1>3
  <2> QED BY <1>3, <2>1 DEF Bound
<1>5. /\ jobs' \in Seq(ShowJobs) /\ Len(jobs') <= Bound(PoolSlots) /\ Ordered(jobs')
      /\ ToSet(jobs') \subseteq ToSet(jobs) \cup ToSet(group)
  <2>1. CASE atOnce
    BY <1>1, <1>3, <1>4, <2>1
  <2>2. CASE ~atOnce
    BY <1>1, <1>3, <2>2, RowQueued
  <2> QED BY <2>1, <2>2
<1>6. ShowTypeOK'
  <2>1. <<>> \in Seq(ShowJobs) /\ Len(<<>>) = 0 /\ 0 <= ctx.slots
    BY <1>3
  <2> QED BY <1>1, <1>5, <2>1 DEF PresenterInv, ShowTypeOK
<1>7. ImagesKept'
  <2>1. Refers' \subseteq Refers
    BY <1>1, <1>5, RowOfNone DEF Refers
  <2> QED BY <1>1, <2>1, ImagesStay DEF PresenterInv
<1>8. NeverBack'
  <2>1. Ordered(<<>>)
    <3>1. DOMAIN <<>> = {}
      OBVIOUS
    <3> QED BY <3>1 DEF Ordered
  <2>2. Ordered(jobs)' /\ Ordered(group)'
    BY <1>1, <1>5, <2>1 DEF Ordered, NotAfter, Slot
  <2>3. Before({showLast}, ToSet(held) \cup ToSet(jobs') \cup ToSet(group'))
    BY <1>1, <1>5, RowOfNone DEF PresenterInv, NeverBack, Before
  <2>4. Before(ToSet(held), ToSet(jobs') \cup ToSet(group')) /\ Before(ToSet(jobs'), ToSet(group'))
    BY <1>1, <1>5, RowOfNone DEF PresenterInv, NeverBack, Before
  <2>5. latch # <<>> => latch = <<showLast>>
    BY <1>2 DEF PresenterInv, NeverBack
  <2> QED BY <1>1, <1>5, <2>2, <2>3, <2>4, <2>5 DEF NeverBack, Before, NotAfter, Slot
<1>9. ConfiguredAlone' /\ HeldInv' /\ LatchInv'
  BY <1>1, <1>2 DEF PresenterInv, ConfiguredAlone, HeldInv, LatchInv
<1>10. GroupInv'
  <2>1. Len(group') = 0
    BY <1>1
  <2> QED BY <1>1, <2>1 DEF GroupInv
<1>11. AgesInv'
  <2>1. ASSUME NEW j \in ToSet(group) PROVE j.frame <= showFrame
    <3>1. PICK m \in 1 .. Len(group) : group[m] = j
      BY <1>3, InRow
    <3>2. j.frame = showFrame
      BY <3>1 DEF PresenterInv, GroupInv
    <3>3. showFrame \in Nat
      BY DEF PresenterInv, ShowTypeOK, PresenterAssumption
    <3> QED BY <3>2, <3>3
  <2> QED BY <1>1, <1>2, <1>5, <2>1 DEF PresenterInv, AgesInv
<1> QED BY <1>6, <1>7, <1>8, <1>9, <1>10, <1>11 DEF PresenterInv

LEMMA ScanKeeps == ASSUME PresenterAssumption, PresenterInv, Scan PROVE PresenterInv'
<1>1. /\ viOwns /\ latch # <<>> /\ jobs' = Enqueued(latch) /\ scans' = scans + 1
      /\ UNCHANGED <<viOwns, held, presenter, pools, content, sizes, ctx, group, showWorker,
                     latch, surface, showWindow, showPending, acquired, showFrame, turns,
                     showStop, showLast>>
  BY DEF Scan, images, surfaces
<1>2. {jobs, held, group, latch} \subseteq Seq(ShowJobs) /\ Len(latch) <= 1 /\ scans' \in Nat
  BY <1>1 DEF PresenterInv, ShowTypeOK
<1>3. PICK l \in ShowJobs : latch = <<l>>
  BY <1>1, <1>2, RowOfLittle
<1>4. ToSet(latch) = {l} /\ Ordered(latch) /\ Len(latch) = 1
  BY <1>3, RowOfOne, OneOrdered
<1>5. Before(ToSet(jobs) \cup ToSet(held) \cup {showLast}, ToSet(latch)) /\ NotAfter(l, l)
  BY <1>1, ComesWithItself DEF PresenterInv, LatchInv
<1>6. /\ jobs' \in Seq(ShowJobs) /\ Len(jobs') <= Bound(PoolSlots) /\ Ordered(jobs')
      /\ ToSet(jobs') \subseteq ToSet(jobs) \cup {l}
  <2>1. Len(latch) <= PoolSlots
    BY <1>4 DEF PresenterAssumption
  <2>2. Ordered(jobs) /\ Before(ToSet(jobs), ToSet(latch))
    BY <1>5 DEF PresenterInv, NeverBack, Before
  <2> QED BY <1>1, <1>2, <1>4, <2>1, <2>2, RowQueued
<1>7. ShowTypeOK'
  BY <1>1, <1>2, <1>6 DEF PresenterInv, ShowTypeOK
<1>8. ImagesKept'
  <2>1. Refers' \subseteq Refers
    BY <1>1, <1>4, <1>6 DEF Refers
  <2> QED BY <1>1, <2>1, ImagesStay DEF PresenterInv
<1>9. group = <<>>
  <2>1. CASE InFrame
    <3>1. showWorker = "encodes" /\ ctx.slots = 1 /\ Len(group) < 1
      BY <1>1, <2>1 DEF PresenterInv, LatchInv, InFrame, GroupInv
    <3> QED BY <1>2, <3>1
  <2> QED BY <2>1 DEF PresenterInv, GroupInv
<1>10. NeverBack'
  <2>1. Ordered(jobs)' /\ Ordered(group)'
    BY <1>1, <1>6 DEF PresenterInv, NeverBack, Ordered, NotAfter, Slot
  <2>2. Before({showLast}, ToSet(held) \cup ToSet(jobs') \cup ToSet(group))
    BY <1>4, <1>5, <1>6 DEF PresenterInv, NeverBack, Before
  <2>3. Before(ToSet(held), ToSet(jobs') \cup ToSet(group)) /\ Before(ToSet(jobs'), ToSet(group))
    BY <1>4, <1>5, <1>6, <1>9, RowOfNone DEF PresenterInv, NeverBack, Before
  <2> QED BY <1>1, <1>6, <2>1, <2>2, <2>3 DEF NeverBack, Before, NotAfter, Slot
<1>11. ConfiguredAlone' /\ HeldInv' /\ GroupInv'
  BY <1>1 DEF PresenterInv, ConfiguredAlone, HeldInv, GroupInv, InFrame, Slot
<1>12. LatchInv'
  <2>1. Before(ToSet(jobs') \cup ToSet(held) \cup {showLast}, ToSet(latch))
    BY <1>4, <1>5, <1>6 DEF Before
  <2> QED BY <1>1, <2>1 DEF PresenterInv, LatchInv, Before, NotAfter, Slot
<1>13. AgesInv'
  BY <1>1, <1>4, <1>6, AgesStay DEF PresenterInv
<1> QED BY <1>7, <1>8, <1>10, <1>11, <1>12, <1>13 DEF PresenterInv

LEMMA TakeJobKeeps == ASSUME PresenterAssumption, PresenterInv, TakeJob PROVE PresenterInv'
<1> DEFINE h == Head(jobs)
<1>1. /\ jobs # <<>> /\ held' = <<h>> /\ jobs' = Tail(jobs) /\ presenter' = "has"
      /\ UNCHANGED <<viOwns, pools, content, sizes, ctx, group, showWorker, latch, surface,
                     showWindow, showPending, acquired, showFrame, scans, turns, showStop,
                     showLast>>
  BY DEF TakeJob, images, surfaces
<1>2. /\ h \in ShowJobs /\ Tail(jobs) \in Seq(ShowJobs) /\ Len(Tail(jobs)) = Len(jobs) - 1
      /\ ToSet(jobs) = {h} \cup ToSet(Tail(jobs)) /\ Ordered(Tail(jobs))
      /\ Before({h}, ToSet(Tail(jobs))) /\ jobs \in Seq(ShowJobs)
  <2>1. jobs \in Seq(ShowJobs) /\ Ordered(jobs)
    BY DEF PresenterInv, NeverBack, ShowTypeOK
  <2> QED BY <1>1, <2>1, FirstTaken
<1> HIDE DEF h
<1>3. held' \in Seq(ShowJobs) /\ Len(held') = 1 /\ ToSet(held') = {h} /\ held' # <<>>
  BY <1>1, <1>2, RowOfOne
<1>4. ShowTypeOK'
  BY <1>1, <1>2, <1>3 DEF PresenterInv, ShowTypeOK
<1>5. ImagesKept'
  <2>1. Refers' \subseteq Refers
    BY <1>1, <1>2, <1>3 DEF Refers
  <2> QED BY <1>1, <2>1, ImagesStay DEF PresenterInv
<1>6. NeverBack'
  <2>1. Ordered(jobs)' /\ Ordered(group)'
    BY <1>1, <1>2 DEF PresenterInv, NeverBack, Ordered, NotAfter, Slot
  <2>2. Len(jobs') <= Bound(PoolSlots)
    <3>0. Len(jobs) \in Nat
      BY <1>2, LenProperties
    <3>1. PICK n \in Nat : n = Len(jobs)
      BY <3>0
    <3>2. Bound(PoolSlots) \in Nat /\ n <= Bound(PoolSlots)
      BY <3>1 DEF Bound, PresenterAssumption, PresenterInv, NeverBack
    <3> HIDE DEF Bound
    <3> QED BY <1>1, <1>2, <3>1, <3>2
  <2>3. Before({showLast}, ToSet(held') \cup ToSet(jobs') \cup ToSet(group))
    BY <1>1, <1>2, <1>3 DEF PresenterInv, NeverBack, Before
  <2>4. Before(ToSet(held'), ToSet(jobs') \cup ToSet(group)) /\ Before(ToSet(jobs'), ToSet(group))
    BY <1>1, <1>2, <1>3 DEF PresenterInv, NeverBack, Before
  <2>5. latch # <<>> /\ ~viOwns => latch = <<showLast>>
    BY DEF PresenterInv, NeverBack
  <2> QED BY <1>1, <2>1, <2>2, <2>3, <2>4, <2>5 DEF NeverBack, Before, NotAfter, Slot
<1>7. ConfiguredAlone' /\ HeldInv' /\ GroupInv'
  BY <1>1, <1>3 DEF PresenterInv, ConfiguredAlone, HeldInv, GroupInv, InFrame, Slot
<1>8. LatchInv'
  <2>1. viOwns /\ latch # <<>> =>
          Before(ToSet(jobs') \cup ToSet(held') \cup {showLast}, ToSet(latch))
    BY <1>1, <1>2, <1>3 DEF PresenterInv, LatchInv, Before
  <2> QED BY <1>1, <2>1 DEF PresenterInv, LatchInv, Before, NotAfter, Slot
<1>9. AgesInv'
  BY <1>1, <1>2, <1>3, AgesStay DEF PresenterInv
<1> QED BY <1>4, <1>5, <1>6, <1>7, <1>8, <1>9 DEF PresenterInv

\* What is shown is the frame of the job that is held.
LEMMA ShowKeeps == ASSUME PresenterAssumption, PresenterInv, Show PROVE PresenterInv'
<1>1. /\ presenter = "presents" /\ presenter' = "done"
      /\ UNCHANGED <<viOwns, jobs, held, pools, content, sizes, ctx, group, showWorker, surface,
                     showWindow, acquired, showFrame, scans, showStop>>
  BY DEF Show, images
<1>2. PICK h \in ShowJobs : held = <<h>>
  BY <1>1, RowOfLittle DEF PresenterInv, HeldInv, ShowTypeOK
<1>3. held[1] = h /\ ToSet(held) = {h} /\ h \in Refers
  <2>1. ToSet(held) = {h}
    BY <1>2, RowOfOne
  <2> QED BY <1>2, <2>1 DEF Refers
<1>4. [image |-> held[1].image, frame |-> content[held[1].image]] = h
  <2>1. content[h.image] = h.frame
    BY <1>3 DEF PresenterInv, ImagesKept
  <2>2. [image |-> h.image, frame |-> h.frame] = h
    BY DEF ShowJobs
  <2> QED BY <1>3, <2>1, <2>2
<1>5. \/ UNCHANGED <<showLast, latch>>
      \/ showLast' = h /\ (viOwns => latch' = latch) /\ (~viOwns => latch' = <<h>>)
  BY <1>2, <1>4 DEF Show
<1>6. turns' \in Nat /\ showPending' \in BOOLEAN
  <2>1. turns \in Nat /\ showPending \in BOOLEAN
    BY DEF PresenterInv, ShowTypeOK
  <2>2. UNCHANGED <<showPending, turns>> \/ (turns' = turns + 1 /\ showPending' = TRUE)
    BY DEF Show
  <2>3. turns' \in Nat
    BY <2>1, <2>2
  <2>4. showPending' \in BOOLEAN
    BY <2>1, <2>2, Zenon
  <2> QED BY <2>3, <2>4
<1>7. /\ latch' \in Seq(ShowJobs) /\ Len(latch') <= 1
      /\ ToSet(latch') \subseteq ToSet(latch) \cup {h}
      /\ showLast' \in {showLast, h}
  <2>1. <<h>> \in Seq(ShowJobs) /\ Len(<<h>>) = 1 /\ ToSet(<<h>>) = {h}
    BY RowOfOne
  <2>2. latch \in Seq(ShowJobs) /\ Len(latch) <= 1
    BY DEF PresenterInv, ShowTypeOK
  <2>3. CASE latch' = latch
    BY <1>5, <2>2, <2>3
  <2>4. CASE latch' = <<h>>
    BY <1>5, <2>1, <2>4
  <2> QED BY <1>5, <2>3, <2>4
<1>8. ShowTypeOK'
  BY <1>1, <1>6, <1>7 DEF PresenterInv, ShowTypeOK
<1>9. ImagesKept'
  <2>1. Refers' \subseteq Refers
    BY <1>1, <1>3, <1>7 DEF Refers
  <2> QED BY <1>1, <2>1, ImagesStay DEF PresenterInv
<1>10. NotAfter(h, h) /\ NotAfter(showLast, h)
  BY <1>3, ComesWithItself DEF PresenterInv, NeverBack, Before
<1>11. NeverBack'
  <2>1. Ordered(jobs)' /\ Ordered(group)'
    BY <1>1 DEF PresenterInv, NeverBack, Ordered, NotAfter, Slot
  <2>2. Before({showLast'}, ToSet(held) \cup ToSet(jobs) \cup ToSet(group))
    BY <1>3, <1>7, <1>10 DEF PresenterInv, NeverBack, Before
  <2>3. latch' # <<>> /\ ~viOwns' => latch' = <<showLast'>>
    BY <1>1, <1>5 DEF PresenterInv, NeverBack
  <2> QED BY <1>1, <2>1, <2>2, <2>3
        DEF PresenterInv, NeverBack, Before, NotAfter, Slot
<1>12. ConfiguredAlone' /\ HeldInv' /\ GroupInv'
  BY <1>1 DEF PresenterInv, ConfiguredAlone, HeldInv, GroupInv, InFrame, Slot
<1>13. LatchInv'
  <2>1. viOwns /\ latch # <<>> => latch' = latch
          /\ Before(ToSet(jobs) \cup ToSet(held) \cup {showLast'}, ToSet(latch))
    BY <1>3, <1>5, <1>7 DEF PresenterInv, LatchInv, Before
  <2>2. viOwns => latch' = latch
    BY <1>5
  <2> QED BY <1>1, <2>1, <2>2 DEF PresenterInv, LatchInv, Before, NotAfter, Slot
<1>14. AgesInv'
  BY <1>1, <1>3, <1>7, AgesStay DEF PresenterInv
<1> QED BY <1>8, <1>9, <1>11, <1>12, <1>13, <1>14 DEF PresenterInv

\* Steps that let go of the job that is held, or of the latch.
LEMMA LetGoKeeps ==
  ASSUME PresenterAssumption, PresenterInv, JobDone \/ PresenterJoined
  PROVE  PresenterInv'
<1>1. /\ \/ held' = <<>> /\ latch' = latch /\ presenter' = "waits"
         \/ held' = held /\ latch' = <<>> /\ presenter' = presenter
      /\ UNCHANGED <<viOwns, jobs, pools, content, sizes, ctx, group, showWorker, surface,
                     showWindow, showPending, acquired, showFrame, scans, turns, showStop,
                     showLast>>
  BY DEF JobDone, PresenterJoined, images, surfaces, queue3
<1>2. /\ {held', latch'} \subseteq Seq(ShowJobs) /\ Len(held') <= 1 /\ Len(latch') <= 1
      /\ ToSet(held') \subseteq ToSet(held) /\ ToSet(latch') \subseteq ToSet(latch)
  <2>1. <<>> \in Seq(ShowJobs) /\ Len(<<>>) = 0 /\ ToSet(<<>>) = {}
    BY RowOfNone
  <2>2. {held, latch} \subseteq Seq(ShowJobs) /\ Len(held) <= 1 /\ Len(latch) <= 1
    BY DEF PresenterInv, ShowTypeOK
  <2>3. CASE held' = <<>> /\ latch' = latch
    BY <2>1, <2>2, <2>3
  <2>4. CASE held' = held /\ latch' = <<>>
    BY <2>1, <2>2, <2>4
  <2> QED BY <1>1, <2>3, <2>4
<1>3. ShowTypeOK'
  BY <1>1, <1>2 DEF PresenterInv, ShowTypeOK
<1>4. ImagesKept'
  <2>1. Refers' \subseteq Refers
    BY <1>1, <1>2 DEF Refers
  <2> QED BY <1>1, <2>1, ImagesStay DEF PresenterInv
<1>5. NeverBack'
  <2>1. Ordered(jobs)' /\ Ordered(group)'
    BY <1>1 DEF PresenterInv, NeverBack, Ordered, NotAfter, Slot
  <2>2. /\ Before({showLast}, ToSet(held') \cup ToSet(jobs) \cup ToSet(group))
        /\ Before(ToSet(held'), ToSet(jobs) \cup ToSet(group)) /\ Before(ToSet(jobs), ToSet(group))
    BY <1>2 DEF PresenterInv, NeverBack, Before
  <2>3. latch' # <<>> /\ ~viOwns => latch' = <<showLast>>
    BY <1>1 DEF PresenterInv, NeverBack
  <2> QED BY <1>1, <2>1, <2>2, <2>3 DEF PresenterInv, NeverBack, Before, NotAfter, Slot
<1>6. ConfiguredAlone' /\ HeldInv' /\ GroupInv'
  BY <1>1 DEF PresenterInv, ConfiguredAlone, HeldInv, GroupInv, InFrame, Slot
<1>7. LatchInv'
  <2>1. viOwns /\ latch' # <<>> =>
          Before(ToSet(jobs) \cup ToSet(held') \cup {showLast}, ToSet(latch'))
    BY <1>1, <1>2 DEF PresenterInv, LatchInv, Before
  <2> QED BY <1>1, <2>1 DEF PresenterInv, LatchInv, Before, NotAfter, Slot
<1>8. AgesInv'
  BY <1>1, <1>2, AgesStay DEF PresenterInv
<1> QED BY <1>3, <1>4, <1>5, <1>6, <1>7, <1>8 DEF PresenterInv

\* Steps that move no image and no job; a texture is only had of the surface as it is.
LEMMA OthersKeep ==
  ASSUME PresenterInv,
         Turn \/ StopPresenter \/ Drop \/ CopyImage \/ PresenterLeaves \/ UNCHANGED showVars
  PROVE  PresenterInv'
<1>1. /\ UNCHANGED <<viOwns, jobs, held, pools, content, sizes, ctx, group, showWorker, latch,
                     surface, showFrame, scans, showLast>>
      /\ \/ presenter' \in {presenter, "done", "gone"} /\ acquired' = acquired
         \/ presenter' = "presents" /\ acquired' = surface
      /\ presenter' \in {"has", "presents"} => presenter \in {"has", "presents"}
  BY DEF Turn, StopPresenter, Drop, CopyImage, PresenterLeaves, showVars, images, surfaces, queue3
<1>2. /\ {showWindow', turns', acquired'} \subseteq Nat /\ {showPending', showStop'} \subseteq BOOLEAN
      /\ presenter' \in {"waits", "has", "presents", "done", "gone"}
  <2>1. /\ {showWindow, turns, acquired, surface} \subseteq Nat
        /\ {showPending, showStop} \subseteq BOOLEAN
        /\ presenter \in {"waits", "has", "presents", "done", "gone"}
    BY DEF PresenterInv, ShowTypeOK
  <2>2. /\ showWindow' \in {showWindow, showWindow + 1} /\ turns' \in {turns, turns + 1}
        /\ acquired' \in {acquired, surface} /\ showPending' \in {showPending, TRUE}
        /\ showStop' \in {showStop, TRUE}
        /\ presenter' \in {presenter, "done", "presents", "gone"}
    BY DEF Turn, StopPresenter, Drop, CopyImage, PresenterLeaves, showVars, images, surfaces, queue3
  <2>3. {showWindow', turns', acquired'} \subseteq Nat
    BY <2>1, <2>2
  <2>4. {showPending', showStop'} \subseteq BOOLEAN
    <3>1. showPending' \in BOOLEAN /\ showStop' \in BOOLEAN
      BY <2>1, <2>2, Zenon
    <3> QED BY <3>1, Zenon
  <2>5. presenter' \in {"waits", "has", "presents", "done", "gone"}
    BY <2>1, <2>2
  <2> QED BY <2>3, <2>4, <2>5, Zenon
<1>3. ShowTypeOK'
  BY <1>1, <1>2 DEF PresenterInv, ShowTypeOK
<1>4. ImagesKept'
  <2>1. Refers' \subseteq Refers
    BY <1>1 DEF Refers
  <2> QED BY <1>1, <2>1, ImagesStay DEF PresenterInv
<1>5. NeverBack'
  BY <1>1 DEF PresenterInv, NeverBack, Ordered, Before, NotAfter, Slot
<1>6. ConfiguredAlone' /\ HeldInv' /\ GroupInv'
  BY <1>1 DEF PresenterInv, ConfiguredAlone, HeldInv, GroupInv, InFrame, Slot
<1>7. LatchInv'
  BY <1>1 DEF PresenterInv, LatchInv, Before, NotAfter, Slot
<1>8. AgesInv'
  BY <1>1, AgesStay DEF PresenterInv
<1> QED BY <1>3, <1>4, <1>5, <1>6, <1>7, <1>8 DEF PresenterInv

LEMMA PresenterNextKeeps ==
  ASSUME PresenterAssumption, ~ViInterpolates, PresenterInv, [PresenterNext]_showVars
  PROVE  PresenterInv'
<1>1. CASE Begin
  BY <1>1, BeginKeeps
<1>2. CASE \E n \in 1 .. PoolSlots : Seal(n)
  BY <1>2, SealKeeps
<1>3. CASE EncodeImage
  BY <1>3, EncodeImageKeeps
<1>4. CASE \E atOnce \in BOOLEAN : Publish(atOnce)
  BY <1>4, PublishKeeps
<1>5. CASE Configures
  BY <1>5, ConfiguresKeeps
<1>6. CASE Scan
  BY <1>6, ScanKeeps
<1>7. CASE TakeJob
  BY <1>7, TakeJobKeeps
<1>8. CASE Show
  BY <1>8, ShowKeeps
<1>9. CASE JobDone \/ PresenterJoined
  BY <1>9, LetGoKeeps
<1>10. CASE Turn \/ StopPresenter \/ Drop \/ CopyImage \/ PresenterLeaves \/ UNCHANGED showVars
  BY <1>10, OthersKeep
<1> QED BY <1>1, <1>2, <1>3, <1>4, <1>5, <1>6, <1>7, <1>8, <1>9, <1>10
        DEF PresenterNext, Publishes, Presents

\* The presenter's thread and the frame worker keep the pools' images apart: an image that a
\* job or the latch still refers to is neither rendered into nor dropped from its pool; what
\* is shown never goes back, whatever the retraces queue again; and the surface is not
\* configured under a texture of it (aurora.cpp: acquire_presentation_image,
\* encode_sealed_frame, enqueue_presentations, present_presentation_job). Where the VI owns
\* the scanout, this needs frames that are not interpolated.
THEOREM PicturesInOrder ==
  ASSUME PresenterAssumption, ~ViInterpolates
  PROVE  PresenterSpec => []ShowsInOrder
<1>1. PresenterInit => PresenterInv
  BY PresenterInitHolds
<1>2. PresenterInv /\ [PresenterNext]_showVars => PresenterInv'
  BY PresenterNextKeeps
<1>3. PresenterInv => ShowsInOrder
  BY DEF PresenterInv, ShowsInOrder
<1> QED BY <1>1, <1>2, <1>3, PTL DEF PresenterSpec

\* Jobs name images of the pools and frames that were rendered, at most one of them is held
\* and one latched (aurora.cpp: PresentationJob, g_presenter, g_viScanout).
THEOREM PresenterTypeCorrect ==
  ASSUME PresenterAssumption, ~ViInterpolates
  PROVE  PresenterSpec => []ShowTypeOK
<1>1. PresenterInit => PresenterInv
  BY PresenterInitHolds
<1>2. PresenterInv /\ [PresenterNext]_showVars => PresenterInv'
  BY PresenterNextKeeps
<1>3. PresenterInv => ShowTypeOK
  BY DEF PresenterInv
<1> QED BY <1>1, <1>2, <1>3, PTL DEF PresenterSpec

=============================================================================
