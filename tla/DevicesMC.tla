------------------------------ MODULE DevicesMC ------------------------------
(***************************************************************************)
(* The devices of the console and their host side, side by side, on small  *)
(* instances for TLC. Their constants are those of the run.                *)
(***************************************************************************)
EXTENDS NandFiles, CardFlash, VirtualRemote, PixelEngine, VideoInterface,
  LoopServices, HostPlayback, AudioDma, GpuReadback, AxMixer, Integers,
  Sequences, FiniteSets, TLC

CONSTANTS
  Cases,  \* the components this run explores
  Small,  \* the instances for the liveness properties
  t1, t2, p1, p2, d1, d2, b1, b2

VARIABLE at  \* the case of this behaviour

\* What the title has mixed: an upload and the blocks that are read.
Upload(out, in) == [op |-> "mix", out |-> out, in |-> in]
ShortLists == {<<Upload(b1, b1)>>, <<[op |-> "output"]>>}
CommandLists ==
  {<<Upload(b1, b2), Upload(b1, b1)>>,
   <<Upload(b2, b1), Upload(NoBlock, b2), [op |-> "output"]>>}

\* Titles that play a submission once, promptly or not, or over and over. A prompt title
\* has one thing to do at a time: it is given more of it.
TitleKinds == {{"suppresses"}, {"suppresses", "prompt"}, {}}
OneTitle == {{"suppresses"}}
Clocks == [prompt \in BOOLEAN |-> IF prompt THEN 8 ELSE 3]
Programs == [prompt \in BOOLEAN |-> IF prompt THEN 8 ELSE 2]
ShortClocks == [prompt \in BOOLEAN |-> 2]
OneProgram == [prompt \in BOOLEAN |-> 1]

Native == INSTANCE LoopServices WITH
  AudioEvery <- 1, AsyncEvery <- 1, MaxDepth <- 1, Raising <- {"finish", "audio", "vi"}

ASSUME DevicesAssumption ==
  /\ NandAssumption
  /\ CardAssumption
  /\ RemoteAssumption
  /\ PixelAssumption
  /\ VideoAssumption
  /\ LoopAssumption
  /\ Native!LoopAssumption
  /\ PlaybackAssumption
  /\ AudioAssumption
  /\ ReadbackAssumption
  /\ AxAssumption

-----------------------------------------------------------------------------
(* A behaviour belongs to one case: the components share no state, so every *)
(* interleaving of them is a shuffle of such behaviours.                   *)

Init ==
  /\ at \in Cases
  /\ NandInit
  /\ CardInit
  /\ RemoteInit
  /\ PixelInit
  /\ VideoInit
  /\ LoopInit
  /\ PlaybackInit
  /\ AudioInit
  /\ ReadbackInit
  /\ AxInit
  /\ external => at = "pixel" /\ ~Small
  /\ at # "video" => viCur = t1 /\ viPending = p1
  /\ native = IF at = "native loop" THEN {"wait", "mask"} ELSE {}
  /\ at # "audio" => title = {"suppresses"}

\* Case c acts; the state of the others stays.
Only(c) ==
  /\ at = c /\ UNCHANGED at
  /\ IF c = "nand" THEN TRUE ELSE UNCHANGED nandVars
  /\ IF c = "card" THEN TRUE ELSE UNCHANGED cardVars
  /\ IF c = "remote" THEN TRUE ELSE UNCHANGED remoteVars
  /\ IF c = "pixel" THEN TRUE ELSE UNCHANGED pixelVars
  /\ IF c = "video" THEN TRUE ELSE UNCHANGED videoVars
  /\ IF c \in {"loop", "native loop"} THEN TRUE ELSE UNCHANGED loopVars
  /\ IF c = "playback" THEN TRUE ELSE UNCHANGED ringVars
  /\ IF c = "audio" THEN TRUE ELSE UNCHANGED dmaVars
  /\ IF c = "readbacks" THEN TRUE ELSE UNCHANGED rbVars
  /\ IF c = "mixer" THEN TRUE ELSE UNCHANGED axVars

Next ==
  \/ Only("nand") /\ NandNext
  \/ Only("card") /\ CardNext
  \/ Only("remote") /\ RemoteNext
  \/ Only("pixel") /\ PixelNext
  \/ Only("video") /\ VideoNext
  \/ Only("loop") /\ LoopNext
  \/ Only("native loop") /\ Native!LoopNext
  \/ Only("playback") /\ PlaybackNext
  \/ Only("audio") /\ AudioNext
  \/ Only("readbacks") /\ ReadbackNext
  \/ Only("mixer") /\ AxNext

vars == <<at, nandVars, cardVars, remoteVars, pixelVars, videoVars, loopVars, ringVars,
          dmaVars, rbVars, axVars>>
Spec == Init /\ [][Next]_vars

\* Only one case acts in a behaviour, so one fairness condition can serve the first
\* need of each component, another the second, and so on.
Weak(n) ==
  \/ /\ Only("remote")
     /\ \/ n = 1 /\ AskForConnection
        \/ n = 2 /\ DeliverEvent
        \/ n = 3 /\ AcceptConnection
        \/ n = 4 /\ WriteSupervisionTimeout
  \/ /\ Only("pixel")
     /\ \/ n = 1 /\ Deliver
        \/ n = 2 /\ Recheck(t1)
        \/ n = 3 /\ Recheck(t2)
  \/ /\ Only("video")
     /\ \/ n = 1 /\ Tick
        \/ n = 2 /\ Host
        \/ n = 3 /\ SleepForRetrace(t1)
        \/ n = 4 /\ WaitEnd(t1)
  \/ n = 1 /\ Only("loop") /\ Checkpoint
  \/ /\ Only("audio")
     /\ \/ n = 1 /\ ~dmaLatch /\ MaskAudio
        \/ n = 2 /\ CallbackReturns
        \/ n = 3 /\ ServiceEnds
        \/ n = 4 /\ NextReplay
        \/ n = 5 /\ (ReplayStep \/ ReplayStops)
        \/ n = 6 /\ EndReplay
  \/ /\ Only("playback")
     /\ \/ n = 1 /\ StartCheck
        \/ n = 2 /\ ResolveEnd
        \/ n = 3 /\ Pull
        \/ n = 4 /\ Supply
  \/ /\ Only("readbacks")
     /\ \/ n = 1 /\ Copier
        \/ n = 2 /\ MapsComplete
  \/ /\ Only("mixer")
     /\ \/ n = 1 /\ MixWorker
        \/ n = 2 /\ ServiceResume
  \/ n = 1 /\ Only("card") /\ \E ok \in BOOLEAN : FlushIfIdle(ok)
Strong(n) ==
  \/ /\ Only("loop")
     /\ \/ n = 1 /\ Return
        \/ n = 2 /\ Mask(TRUE)
        \/ n = 3 /\ Millisecond /\ Top.ee /\ Depth = 1
        \/ n = 4 /\ Backedge /\ Top.ee /\ Depth = 1 /\ "async" \in late
  \/ /\ Only("remote")
     /\ \/ n = 1 /\ DeliverPacket
        \/ n = 2 /\ Reply
  \/ /\ Only("video")
     /\ \/ n = 1 /\ WaitBegin(t1)
        \/ n = 2 /\ Pick(t1)
  \/ /\ Only("audio")
     /\ \/ n = 1 /\ PollOuter
        \/ n = 2 /\ StartReplay
  \/ n = 1 /\ Only("playback") /\ \E gap \in BOOLEAN : Push(1, gap)

\* The fairness each component states for itself.
FairSpec ==
  /\ Spec
  /\ \A n \in 1..6 : WF_vars(Weak(n))
  /\ \A n \in 1..4 : SF_vars(Strong(n))

\* No structure of the guest is before another.
Sessions == Permutations(InfoSlots)

\* An inode is what it holds, its names and its handles. Earlier contents are not asked
\* for where a file was written in place or its shadow shared.
NandSeen ==
  LET Of(inode) == <<hostCache[inode], hostDisk[inode], {n \in Names : hostFiles[n] = inode},
                     {fd \in DOMAIN fileHandles : fileHandles[fd].inode = inode}>>
  IN  <<[n \in {m \in Names : hostFiles[m] # 0} |-> Of(hostFiles[n])],
        [fd \in DOMAIN fileHandles |->
           <<Of(fileHandles[fd].inode), [fileHandles[fd] EXCEPT !.inode = 0]>>],
        nextFd, fileInfo, writtenInPlace, sharedShadows,
        [path \in {f \in NandPaths \ (writtenInPlace \cup sharedShadows) : Exists(f)} |->
           soundContents[path]]>>

\* How many mails wait for the title is all that matters to its mixer.
\* With every service due at each checkpoint, being late makes no difference.
Read ==
  <<at, remoteVars, pixelVars, videoVars, dmaVars, ringVars, cardVars, rbVars,
    blocks, mailState, Len(cpuMails), resumes, workerOn, mixThread, mixPending, mixStop,
    cmdList, nextCommand, auxOut, auxIn, audioFrame, lists, titleWrites, auxReads, atMail,
    published, ownBlocks,
    NandSeen,
    native, cur, stack, intact, latch, ready, resched, raised, serial,
    IF at = "native loop" THEN {} ELSE late>>


-----------------------------------------------------------------------------
(* Properties: each is that of the component, whose module explains it.    *)

\* Every variable of every component keeps its type.
TypeOK ==
  /\ at = "nand" => NandTypeOK
  /\ at = "card" => CardTypeOK
  /\ at = "remote" => RemoteTypeOK
  /\ at = "pixel" => PixelTypeOK
  /\ at = "video" => VideoTypeOK
  /\ at = "loop" => LoopTypeOK
  /\ at = "native loop" => Native!LoopTypeOK
  /\ at = "playback" => PlaybackTypeOK
  /\ at = "audio" => AudioTypeOK
  /\ at = "readbacks" => ReadbackTypeOK
  /\ at = "mixer" => AxTypeOK

\* What is asked for, and what then must be given: the first wish of each component, the
\* second, and so on.
Asked(i) ==
  \/ at = "card" /\ i = 1 /\ cardDirty # NothingDirty
  \/ at = "pixel" /\ i <= 2 /\ DrawsIn(<<t1, t2>>[i], "sleep")
  \/ at = "video" /\ i = 1 /\ WaitsIn(t1, "wait")
  \/ at = "loop" /\ IF i = 3 THEN ready ELSE i <= 2 /\ Raised(<<"finish", "audio">>[i])
  \/ at = "audio" /\ i = 1 /\ dma.aid
  \/ at = "readbacks" /\ i = 1 /\ AnyCopied
  \/ at = "mixer" /\ IF i = 1 THEN MixUnderway ELSE i = 2 /\ ResumeOwed
  \/ at = "playback" /\ InRing(i - 1)
Given(i) ==
  /\ at = "card" => cardDirty = NothingDirty
  /\ at = "pixel" => i <= 2 /\ DrawsIn(<<t1, t2>>[i], "run")
  /\ at = "video" => WaitsIn(t1, "run")
  /\ at = "loop" => IF i = 3 THEN OnTheProcessor
                    ELSE i <= 2 /\ ~Raised(<<"finish", "audio">>[i])
  /\ at = "audio" => Heard
  /\ at = "readbacks" => ~AnyCopied
  /\ at = "mixer" => IF i = 1 THEN ~MixUnderway ELSE ~ResumeOwed \/ mixStop
  /\ at = "playback" => ~InRing(i - 1)

\* Saves are committed, draw-done waits and retraces end, urgent threads and devices get
\* their turn, whatever was queued is played, readbacks arrive, command lists are mixed, and
\* the remote connects and returns: the liveness property of each component, as a behaviour
\* has one case.
DevicesGetTheirTurn ==
  /\ \A i \in 1..5 : Asked(i) ~> Given(i)
  /\ RemoteConnects /\ RemoteReturns
=============================================================================
