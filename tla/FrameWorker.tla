---------------------------- MODULE FrameWorker -----------------------------
(***************************************************************************)
(* A frame is recorded by the producer, the guest's host thread, and       *)
(* sealed, encoded and shown by the frame worker, while the producer       *)
(* records the next one (aurora-main/lib/aurora.cpp). SEALED gives the     *)
(* recorded passes back to the producer, DONE the rest; the renderer mutex *)
(* is recursive.                                                           *)
(***************************************************************************)
EXTENDS Naturals, Sequences, SequencesExt

CONSTANTS
  MaxDraws,   \* bound: draws the guest issues
  MaxFrames,  \* bound: frames it ends
  MaxSplits,  \* bound: batches split for staging pressure
  MaxShifts,  \* bound: changes of the window
  Joins       \* a retrace presents a black frame only when the worker is done

FrameAssumption ==
  {MaxDraws, MaxFrames, MaxSplits, MaxShifts} \subseteq Nat /\ Joins \in BOOLEAN

VARIABLES
  ctl,     \* g_frameWorker: stop, jobPending, sealed, ready, framePrepared, prepareAllowed
  todo,    \* what the producer has before it
  levels,  \* levels of g_rendererGpuMutex it holds
  worker,  \* where the worker is
  owed,    \* imguiNewFrameOwed
  active,  \* g_auroraFrameActive
  fifo,    \* GX commands not yet decoded
  pass,    \* the frame being recorded, None outside of one
  taken,   \* the sealed frame
  ui,      \* an ImGui frame is open
  out,     \* ghost: draws in the order they were encoded
  of,      \* ghost: the guest frame of each draw issued
  ended, shown, splits, shifts,
  lost,    \* ghost: draws decoded outside of a frame
  window   \* "fits", "resized" or "hidden"

passes == <<fifo, pass, taken, ui, out, lost>>
counts == <<of, ended, shown, splits, shifts>>
frameVars == <<ctl, todo, levels, worker, owed, active, passes, counts, window>>

None == <<0>>  \* no recorded pass; draws are numbered from 1
Drawn(p) == IF p = None THEN <<>> ELSE p

Present == <<"lock", "drain", "unlock", "join", "post", "begin">>  \* VI_HLE_PresentFrame
CopyDisp == <<"drain", "join", "overlay">> \o Present              \* GX__CopyDisp
FlushEfb == <<"join", "drain", "prefix">>                          \* aurora_flush_efb_copies_to_ram

Does(step) == todo # <<>> /\ Head(todo) = step
Goes == todo' = Tail(todo)

-----------------------------------------------------------------------------
(* The producer.                                                           *)

Idle == todo = <<>> /\ ~ctl.stop

\* EnsureAuroraFrameActive, before the guest's GX calls.
Ensure ==
  /\ Idle /\ ~active /\ ended < MaxFrames /\ todo' = <<"begin">>
  /\ UNCHANGED <<ctl, levels, worker, owed, active, passes, counts, window>>

Issue ==
  /\ Idle /\ active /\ Len(of) < MaxDraws
  /\ of' = Append(of, ended) /\ fifo' = Append(fifo, Len(of) + 1)
  /\ UNCHANGED <<ctl, todo, levels, worker, owed, active, pass, taken, ui, out, lost, ended,
                 shown, splits, shifts, window>>

\* GXCopyDisp; a black frame that a retrace presents; the flush of copies to memory.
MakesCalls ==
  /\ Idle /\ active
  /\ \/ ended < MaxFrames /\ todo' = CopyDisp
     \/ ended < MaxFrames /\ (Joins => ctl.ready) /\ todo' = Present
     \/ todo' = FlushEfb
  /\ UNCHANGED <<ctl, levels, worker, owed, active, passes, counts, window>>

\* The first level of end_frame's lock_guard; the worker holds the mutex only within a step.
Lock ==
  /\ Does("lock") /\ levels' = levels + 1 /\ Goes
  /\ UNCHANGED <<ctl, worker, owed, active, passes, counts, window>>
Unlock ==
  /\ Does("unlock") /\ levels' = levels - 1 /\ Goes
  /\ UNCHANGED <<ctl, worker, owed, active, passes, counts, window>>

\* gx::fifo::drain waits for SEALED; process locks once more.
DrainFifo ==
  /\ Does("drain") /\ ctl.sealed
  /\ IF fifo = <<>> THEN Goes /\ UNCHANGED levels
     ELSE todo' = <<"decode">> \o Tail(todo) /\ levels' = levels + 1
  /\ UNCHANGED <<ctl, worker, owed, active, passes, counts, window>>

\* A command outside of a frame is dropped (push_command).
Decode ==
  /\ Does("decode") /\ fifo # <<>> /\ fifo' = Tail(fifo)
  /\ IF pass = None
     THEN lost' = lost \cup {Head(fifo)} /\ UNCHANGED pass
     ELSE pass' = Append(pass, Head(fifo)) /\ UNCHANGED lost
  /\ UNCHANGED <<ctl, todo, levels, worker, owed, active, taken, ui, out, counts, window>>
Decoded ==
  /\ Does("decode") /\ fifo = <<>> /\ levels' = levels - 1 /\ Goes
  /\ UNCHANGED <<ctl, worker, owed, active, passes, counts, window>>

\* ensure_draw_capacity lets go of the level that process took, and of no other.
Pressure ==
  /\ Does("decode") /\ fifo # <<>> /\ Len(Drawn(pass)) > 0 /\ splits < MaxSplits
  /\ splits' = splits + 1 /\ levels' = levels - 1
  /\ todo' = <<"join", "split">> \o todo
  /\ UNCHANGED <<ctl, worker, owed, active, passes, of, ended, shown, shifts, window>>

\* wait_for_frame_worker, for DONE.
Join ==
  /\ Does("join") /\ ctl.ready /\ Goes
  /\ UNCHANGED <<ctl, levels, worker, owed, active, passes, counts, window>>

\* Mutant: the frame so far stays recorded.
RenderPrefixTwice ==
  /\ out' = out \o Drawn(pass) /\ Goes
  /\ UNCHANGED <<ctl, worker, owed, active, fifo, pass, taken, ui, lost, counts, window>>

\* The frame so far is encoded, waited for, and recording resumes.
RenderPrefix ==
  /\ out' = out \o Drawn(pass) /\ pass' = <<>> /\ Goes
  /\ UNCHANGED <<ctl, worker, owed, active, fifo, taken, ui, lost, counts, window>>
Split == Does("split") /\ levels' = levels + 1 /\ RenderPrefix
Prefix == Does("prefix") /\ UNCHANGED levels /\ RenderPrefix

\* ImGui commands of the settings overlay.
Overlay ==
  /\ Does("overlay") /\ Goes
  /\ UNCHANGED <<ctl, levels, worker, owed, active, passes, counts, window>>

\* The rest of end_frame: the frame is the worker's.
Post ==
  /\ Does("post") /\ Goes
  /\ ctl' = [ctl EXCEPT !.prepared = FALSE, !.sealed = FALSE, !.ready = FALSE, !.job = TRUE,
                        !.allowed = FALSE]
  /\ ended' = ended + 1 /\ active' = FALSE
  /\ UNCHANGED <<levels, worker, owed, passes, of, shown, splits, shifts, window>>

-----------------------------------------------------------------------------
(* Frames begin.                                                           *)

\* begin_frame_impl: a hidden window has none, a resized one is followed first.
Begins == window # "hidden"
Recorded == IF Begins THEN <<>> ELSE pass
Fitted == IF Begins THEN "fits" ELSE window

\* begin_frame_after_update, where the worker has yet to prepare the frame: it may, and the
\* producer counts on it unless it sees that the window changes.
BeginLater ==
  /\ Does("begin") /\ ~ctl.ready
  /\ ctl' = [ctl EXCEPT !.allowed = TRUE]
  /\ IF window = "fits" THEN active' = TRUE /\ Goes
     ELSE UNCHANGED active /\ todo' = <<"join", "result">>
  /\ UNCHANGED <<levels, worker, owed, passes, counts, window>>
BeginResult ==
  /\ Does("result") /\ active' = ctl.prepared /\ Goes
  /\ UNCHANGED <<ctl, levels, worker, owed, passes, counts, window>>

\* Where nothing is under way the producer prepares the frame, ImGui's with it; the first
\* time it starts the worker.
BeginNow ==
  /\ Does("begin") /\ ctl.ready /\ Goes
  /\ worker' = IF worker = "none" THEN "waits" ELSE worker
  /\ IF ctl.prepared THEN active' = TRUE /\ UNCHANGED <<ctl, pass, ui, window>>
     ELSE /\ ctl' = [ctl EXCEPT !.prepared = Begins]
          /\ active' = Begins /\ ui' = (ui \/ Begins)
          /\ pass' = Recorded /\ window' = Fitted
  /\ UNCHANGED <<levels, owed, fifo, taken, out, lost, counts>>

\* stop_frame_worker.
Stop ==
  /\ Idle /\ worker # "none" /\ ctl' = [ctl EXCEPT !.stop = TRUE, !.allowed = TRUE]
  /\ todo' = <<"thread">>
  /\ UNCHANGED <<levels, worker, owed, active, passes, counts, window>>
Stopped ==
  /\ Does("thread") /\ worker = "gone" /\ Goes
  /\ ctl' = [ctl EXCEPT !.prepared = FALSE]
  /\ UNCHANGED <<levels, worker, owed, active, passes, counts, window>>

\* The window's events are pumped where the guest runs and before a frame begins.
Shift(w) ==
  /\ Idle \/ Does("begin")
  /\ w # window /\ shifts < MaxShifts
  /\ window' = w /\ shifts' = shifts + 1
  /\ UNCHANGED <<ctl, todo, levels, worker, owed, active, passes, of, ended, shown, splits>>

-----------------------------------------------------------------------------
(* The worker, frame_worker_main and run_frame_worker_cycle.               *)

GpuFree == levels = 0

Takes ==
  /\ worker = "waits" /\ ctl.job /\ ~ctl.stop
  /\ ctl' = [ctl EXCEPT !.job = FALSE] /\ worker' = "seals"
  /\ UNCHANGED <<todo, levels, owed, active, passes, counts, window>>

\* Under the renderer mutex the recorded passes change hands, and ImGui's lists are built.
Seals ==
  /\ worker = "seals" /\ GpuFree /\ worker' = "asks"
  /\ taken' = Drawn(pass) /\ pass' = None /\ ui' = FALSE
  /\ UNCHANGED <<ctl, todo, levels, owed, active, fifo, out, lost, counts, window>>

MayPrepare ==
  /\ worker = "asks" /\ ctl.allowed /\ ~ctl.stop
  /\ ctl' = [ctl EXCEPT !.allowed = FALSE] /\ worker' = "prepares"
  /\ UNCHANGED <<todo, levels, owed, active, passes, counts, window>>

\* begin_frame_impl under the mutex; then the result and SEALED are published.
Prepares ==
  /\ worker = "prepares" /\ GpuFree /\ worker' = "encodes"
  /\ pass' = Recorded /\ window' = Fitted /\ owed' = Begins
  /\ ctl' = [ctl EXCEPT !.prepared = Begins, !.sealed = TRUE]
  /\ UNCHANGED <<todo, levels, active, fifo, taken, ui, out, lost, counts>>

\* encode_sealed_frame, without the mutex, and publish_presentations.
Encodes ==
  /\ worker = "encodes" /\ worker' = IF owed THEN "opens" ELSE "tells"
  /\ out' = out \o taken /\ taken' = <<>> /\ shown' = shown + 1
  /\ UNCHANGED <<ctl, todo, levels, owed, active, fifo, pass, ui, lost, of, ended, splits,
                 shifts, window>>

\* ImGui's next frame, under the mutex, and DONE.
OpensUi ==
  /\ worker = "opens" /\ GpuFree /\ worker' = "tells" /\ ui' = TRUE /\ owed' = FALSE
  /\ UNCHANGED <<ctl, todo, levels, active, fifo, pass, taken, out, lost, counts, window>>
Tells ==
  /\ worker = "tells" /\ worker' = "waits" /\ ctl' = [ctl EXCEPT !.ready = TRUE]
  /\ UNCHANGED <<todo, levels, owed, active, passes, counts, window>>

Leaves ==
  /\ worker \in {"waits", "asks"} /\ ctl.stop /\ worker' = "gone"
  /\ ctl' = [ctl EXCEPT !.sealed = TRUE, !.ready = TRUE]
  /\ UNCHANGED <<todo, levels, owed, active, passes, counts, window>>

FrameInit ==
  /\ ctl = [stop |-> FALSE, job |-> FALSE, sealed |-> TRUE, ready |-> TRUE,
            prepared |-> FALSE, allowed |-> FALSE]
  /\ todo = <<>> /\ levels = 0 /\ worker = "none" /\ owed = FALSE /\ active = FALSE
  /\ fifo = <<>> /\ pass = None /\ taken = <<>> /\ ui = FALSE /\ out = <<>> /\ lost = {}
  /\ of = <<>> /\ ended = 0 /\ shown = 0 /\ splits = 0 /\ shifts = 0 /\ window = "fits"

Chooses == Ensure \/ Issue \/ MakesCalls \/ Stop \/ (\E w \in {"resized", "hidden", "fits"} : Shift(w))
Proceeds == Lock \/ Unlock \/ DrainFifo \/ Decode \/ Decoded \/ Join \/ Split \/ Prefix \/ Overlay
          \/ Post \/ BeginLater \/ BeginResult \/ BeginNow \/ Stopped
WorkerRuns == Takes \/ Seals \/ MayPrepare \/ Prepares \/ Encodes \/ OpensUi \/ Tells \/ Leaves
FrameNext == Chooses \/ Proceeds \/ Pressure \/ WorkerRuns

FrameSpec == FrameInit /\ [][FrameNext]_frameVars

-----------------------------------------------------------------------------
Cycle == {"seals", "asks", "prepares", "encodes", "opens", "tells"}
FrameTypeOK ==
  /\ ctl \in [stop : BOOLEAN, job : BOOLEAN, sealed : BOOLEAN, ready : BOOLEAN,
             prepared : BOOLEAN, allowed : BOOLEAN]
  /\ levels \in 0..2 /\ worker \in {"none", "waits", "gone"} \cup Cycle
  /\ {owed, active, ui} \subseteq BOOLEAN /\ window \in {"fits", "resized", "hidden"}
  /\ {fifo, taken, out, Drawn(pass)} \subseteq Seq(1..Len(of)) /\ lost \subseteq 1..Len(of)
  /\ {ended, shown, splits, shifts} \subseteq Nat /\ shown \in {ended, ended - 1}

\* Every draw is encoded once, in the order the guest issued them, but for those that came
\* while no frame could be recorded.
DrawsInOrder ==
  LET all == out \o taken \o Drawn(pass) \o fifo
  IN /\ \A i, j \in DOMAIN all : i < j => all[i] < all[j]
     /\ ToSet(all) \cup lost = 1..Len(of) /\ ToSet(all) \cap lost = {}
     /\ shifts = 0 => lost = {}

\* A frame has the draws of its guest frame and no later one leaks into it: when the worker
\* has sealed a frame, it has what was issued before it ended.
FramesApart ==
  /\ \A d \in ToSet(taken) : of[d] = ended - 1
  /\ \A d \in ToSet(fifo) : of[d] = ended
  /\ worker \in {"asks", "prepares", "encodes"} => \A d \in ToSet(Drawn(pass)) : of[d] = ended

\* Nobody else encodes, opens a frame or issues ImGui commands beside the worker's cycle,
\* and what ImGui is told while a frame can be recorded falls in an open ImGui frame.
EncodesAlone ==
  /\ (\E step \in {"split", "prefix", "overlay", "post"} : Does(step))
       => worker \in {"waits", "gone"} /\ ~ctl.job
  /\ Does("overlay") /\ ctl.prepared => ui

\* What the hand-over of frames promises.
FramesHandedOver == DrawsInOrder /\ FramesApart /\ EncodesAlone

\* The producer and the worker never wait for each other: who waits for a phase does not
\* hold the mutex that the worker needs to reach it.
NoCircularWait ==
  levels > 0 /\ worker \in {"seals", "prepares", "opens"}
    => (Does("drain") => ctl.sealed) /\ (Does("join") => ctl.ready)

\* The frame so far is only split while the renderer mutex is free.
SplitHoldsNothing == Does("join") /\ todo[2] = "split" => levels = 0

\* What the producer waits for comes, and each frame it ends is shown, but for the last one
\* before a stop.
Busy == todo # <<>> \/ (shown < ended /\ ~ctl.stop)
FramesShown == Busy ~> ~Busy
=============================================================================
