----------------------------- MODULE Presenter ------------------------------
(***************************************************************************)
(* Encoded frames are shown by a thread of their own, the presenter        *)
(* (aurora-main/lib/aurora.cpp): the frame worker renders each into images *)
(* of the pools and queues them; the last image shown, or where the VI     *)
(* owns the scanout the last one rendered, is latched, and then every      *)
(* retrace queues it again. The worker follows changes of the window       *)
(* between two frames.                                                     *)
(***************************************************************************)
EXTENDS Naturals, Sequences, SequencesExt

CONSTANTS
  PoolSlots,      \* MaxInterpolatedFrames + 1: images of a frame at most
  ViInterpolates, \* frames are also interpolated where the VI owns the scanout
  MaxShown,       \* bound: frames
  MaxScans,       \* bound: retraces that queue the latched image
  MaxTurns        \* bound: changes of the window, and failures to present

PresenterAssumption ==
  /\ {PoolSlots, MaxShown, MaxScans, MaxTurns} \subseteq Nat /\ PoolSlots > 0
  /\ ViInterpolates \in BOOLEAN

VARIABLES
  viOwns,      \* g_viScanoutMode; else g_viScanoutRepeatMode
  jobs,        \* g_presenter.jobs
  held,        \* sequence of the job that the presenter took, or none
  presenter,   \* where the presenter is
  pools,       \* g_presentationImagePools: images of each slot
  content,     \* the frame rendered into each image
  sizes,       \* and the size of each image
  ctx,         \* SealedFrameContext: images to encode, and their size
  group,       \* jobs the worker has encoded and not queued
  showWorker,  \* "begins", "waits", "configures", "records", "encodes" or "publishes"
  latch,       \* g_viScanout: sequence of the latched job, or none
  surface,     \* configured size of the surface
  showWindow,  \* size of the window
  showPending, \* g_surfaceReconfigurePending
  acquired,    \* size of the surface texture the presenter holds
  showFrame, scans, turns,
  showStop,
  showLast     \* ghost: the image shown last, and the frame that was in it

images == <<pools, content, sizes>>
surfaces == <<surface, showWindow, showPending, acquired>>
queue3 == <<jobs, held, presenter>>
showVars == <<viOwns, queue3, images, ctx, group, showWorker, latch, surfaces, showFrame, scans,
              turns, showStop, showLast>>

\* The n-th image of a slot is named after the frame it was created for.
Images == (1..PoolSlots) \X (1..MaxShown)
ShowJobs == [image : Images, frame : 1..MaxShown]
Slot(j) == j.image[1]
NothingShown == [image |-> <<0, 0>>, frame |-> 0]

Changed == showPending \/ showWindow # surface
Refers == ToSet(jobs) \cup ToSet(held) \cup ToSet(group) \cup ToSet(latch)
Used(i) == \E j \in Refers : j.image = i  \* use_count is above the one of the pool

-----------------------------------------------------------------------------
(* The frame worker.                                                       *)

\* begin_frame_impl: when the surface must change, wait for the presenter, then own the
\* surface; a job may have come since.
Begin ==
  /\ showWorker = "begins" /\ ~showStop
  /\ showWorker' = IF Changed THEN "waits" ELSE "records"
  /\ UNCHANGED <<viOwns, queue3, images, ctx, group, latch, surfaces, showFrame, scans, turns,
                 showStop, showLast>>
PresenterIdle ==
  /\ showWorker = "waits" /\ jobs = <<>> /\ held = <<>> /\ showWorker' = "configures"
  /\ UNCHANGED <<viOwns, queue3, images, ctx, group, latch, surfaces, showFrame, scans, turns,
                 showStop, showLast>>
Configure ==
  /\ showWorker = "configures" /\ presenter # "presents" /\ showWorker' = "records"
  /\ surface' = showWindow /\ showPending' = FALSE
  /\ UNCHANGED <<viOwns, queue3, images, ctx, group, latch, showWindow, acquired, showFrame,
                 scans, turns, showStop, showLast>>

\* The frame is sealed: n images of the window's size, the last of them is the frame.
Seal(n) ==
  /\ showWorker = "records" /\ showFrame < MaxShown /\ (viOwns /\ n > 1 => ViInterpolates)
  /\ showWorker' = "encodes" /\ showFrame' = showFrame + 1
  /\ ctx' = [slots |-> n, size |-> showWindow]
  /\ UNCHANGED <<viOwns, queue3, images, group, latch, surfaces, scans, turns, showStop,
                 showLast>>

Fits(i) == sizes[i] = ctx.size

\* Mutant: what waits in the queue does not keep its image.
QueuedFree(pool) ==
  {i \in pool : Fits(i) /\ \A j \in ToSet(held) \cup ToSet(group) \cup ToSet(latch) : j.image # i}
FreeImages(pool) == {i \in pool : Fits(i) /\ ~Used(i)}

\* acquire_presentation_image: idle images of another size that it passes go.
Stale(pool) == {i \in pool : ~Fits(i) /\ ~Used(i)}
Acquire(s, i) ==
  /\ IF FreeImages(pools[s]) # {}
     THEN i \in FreeImages(pools[s])
          /\ \E gone \in SUBSET Stale(pools[s]) : pools' = [pools EXCEPT ![s] = @ \ gone]
     ELSE i = <<s, showFrame>> /\ pools' = [pools EXCEPT ![s] = (@ \ Stale(@)) \cup {i}]
  /\ content' = [content EXCEPT ![i] = showFrame] /\ sizes' = [sizes EXCEPT ![i] = ctx.size]

\* encode_sealed_frame, one image. Where the VI owns the scanout the frame is latched and
\* nothing is queued, but for interpolated frames.
EncodeImage ==
  /\ showWorker = "encodes"
  /\ \E i \in Images :
       LET job == [image |-> i, frame |-> showFrame]
       IN /\ Acquire(Len(group) + 1, i)
          /\ IF Len(group) + 1 < ctx.slots
             THEN group' = Append(group, job) /\ UNCHANGED <<showWorker, latch>>
             ELSE IF viOwns /\ ctx.slots = 1
             THEN latch' = <<job>> /\ showWorker' = "begins" /\ UNCHANGED group
             ELSE group' = Append(group, job) /\ showWorker' = "publishes" /\ UNCHANGED latch
  /\ UNCHANGED <<viOwns, queue3, ctx, surfaces, showFrame, scans, turns, showStop, showLast>>

Bound(n) == IF 2 * PoolSlots > 3 * n THEN 2 * PoolSlots ELSE 3 * n

\* enqueue_presentations: what does not fit takes the place of all that waits, and so does a
\* frame that is to be shown at once.
Enqueued(new) == IF Len(jobs) + Len(new) > Bound(Len(new)) THEN new ELSE jobs \o new
Publish(atOnce) ==
  /\ showWorker = "publishes" /\ showWorker' = "begins" /\ group' = <<>>
  /\ jobs' = IF atOnce THEN group ELSE Enqueued(group)
  /\ UNCHANGED <<viOwns, held, presenter, images, ctx, latch, surfaces, showFrame, scans, turns,
                 showStop, showLast>>

-----------------------------------------------------------------------------
(* The guest's thread, and the window.                                     *)

\* aurora_present_vi_scanout: unless the VI owns the scanout it queues nothing.
Scan ==
  /\ viOwns /\ latch # <<>> /\ ~showStop /\ scans < MaxScans /\ scans' = scans + 1
  /\ jobs' = Enqueued(latch)
  /\ UNCHANGED <<viOwns, held, presenter, images, ctx, group, showWorker, latch, surfaces,
                 showFrame, turns, showStop, showLast>>

Turn ==
  /\ turns < MaxTurns /\ turns' = turns + 1 /\ showWindow' = showWindow + 1
  /\ UNCHANGED <<viOwns, queue3, images, ctx, group, showWorker, latch, surface, showPending,
                 acquired, showFrame, scans, showStop, showLast>>

\* stop_presenter, when the frame worker has been stopped.
StopPresenter ==
  /\ showWorker = "begins" /\ ~showStop /\ showStop' = TRUE
  /\ UNCHANGED <<viOwns, queue3, images, ctx, group, showWorker, latch, surfaces, showFrame,
                 scans, turns, showLast>>
PresenterJoined ==
  /\ showStop /\ presenter = "gone" /\ latch # <<>> /\ latch' = <<>>
  /\ UNCHANGED <<viOwns, queue3, images, ctx, group, showWorker, surfaces, showFrame, scans,
                 turns, showStop, showLast>>

-----------------------------------------------------------------------------
(* The presenter.                                                          *)

TakeJob ==
  /\ presenter = "waits" /\ jobs # <<>>
  /\ held' = <<Head(jobs)>> /\ jobs' = Tail(jobs) /\ presenter' = "has"
  /\ UNCHANGED <<viOwns, images, ctx, group, showWorker, latch, surfaces, showFrame, scans,
                 turns, showStop, showLast>>

\* present_presentation_job: nothing is shown while the surface is to change; the surface's
\* texture may not be had.
Drop ==
  /\ presenter = "has" /\ presenter' = "done"
  /\ \/ Changed /\ UNCHANGED <<showPending, turns>>
     \/ ~Changed /\ turns < MaxTurns /\ turns' = turns + 1 /\ showPending' = TRUE
  /\ UNCHANGED <<viOwns, jobs, held, images, ctx, group, showWorker, latch, surface, showWindow,
                 acquired, showFrame, scans, showStop, showLast>>

\* With the surface locked, the image is copied to the texture ...
CopyImage ==
  /\ presenter = "has" /\ ~Changed /\ presenter' = "presents" /\ acquired' = surface
  /\ UNCHANGED <<viOwns, jobs, held, images, ctx, group, showWorker, latch, surface, showWindow,
                 showPending, showFrame, scans, turns, showStop, showLast>>

\* ... and shown when it is time, unless the window has changed meanwhile or showing it
\* fails; unless the VI owns the scanout, what was shown is latched then.
Show ==
  /\ presenter = "presents" /\ presenter' = "done"
  /\ \/ Changed /\ UNCHANGED <<showLast, latch, showPending, turns>>
     \/ /\ ~Changed
        /\ showLast' = [image |-> held[1].image, frame |-> content[held[1].image]]
        /\ latch' = IF viOwns THEN latch ELSE held
        /\ UNCHANGED <<showPending, turns>>
     \/ /\ ~Changed /\ turns < MaxTurns /\ turns' = turns + 1 /\ showPending' = TRUE
        /\ UNCHANGED <<showLast, latch>>
  /\ UNCHANGED <<viOwns, jobs, held, images, ctx, group, showWorker, surface, showWindow,
                 acquired, showFrame, scans, showStop>>

JobDone ==
  /\ presenter = "done" /\ presenter' = "waits" /\ held' = <<>>
  /\ UNCHANGED <<viOwns, jobs, images, ctx, group, showWorker, latch, surfaces, showFrame, scans,
                 turns, showStop, showLast>>

PresenterLeaves ==
  /\ presenter = "waits" /\ showStop /\ jobs = <<>> /\ presenter' = "gone"
  /\ UNCHANGED <<viOwns, jobs, held, images, ctx, group, showWorker, latch, surfaces, showFrame,
                 scans, turns, showStop, showLast>>

\* VI_HLE_SetGuestStateLayout sets exactly one of the two modes, once.
PresenterInit ==
  /\ viOwns \in BOOLEAN
  /\ jobs = <<>> /\ held = <<>> /\ presenter = "waits"
  /\ pools = [s \in 1..PoolSlots |-> {}]
  /\ content = [i \in Images |-> 0] /\ sizes = [i \in Images |-> 0]
  /\ ctx = [slots |-> 1, size |-> 0] /\ group = <<>> /\ showWorker = "begins" /\ latch = <<>>
  /\ surface = 0 /\ showWindow = 0 /\ showPending = FALSE /\ acquired = 0
  /\ showFrame = 0 /\ scans = 0 /\ turns = 0 /\ showStop = FALSE /\ showLast = NothingShown

Presents == TakeJob \/ Drop \/ CopyImage \/ Show \/ JobDone \/ PresenterLeaves
Configures == PresenterIdle \/ Configure
Publishes == EncodeImage \/ \E atOnce \in BOOLEAN : Publish(atOnce)
PresenterNext ==
  \/ Begin \/ (\E n \in 1..PoolSlots : Seal(n)) \/ Publishes \/ Configures
  \/ Scan \/ Turn \/ StopPresenter \/ PresenterJoined \/ Presents

PresenterSpec == PresenterInit /\ [][PresenterNext]_showVars

\* The presenter and the worker are threads of their own; the worker's steps here wait for
\* nothing but the presenter.
PresenterFairSpec ==
  PresenterSpec /\ WF_showVars(Presents) /\ WF_showVars(Configures) /\ WF_showVars(Publishes)

-----------------------------------------------------------------------------
ShowTypeOK ==
  /\ viOwns \in BOOLEAN
  /\ {jobs, held, group, latch} \subseteq Seq(ShowJobs)
  /\ Len(held) <= 1 /\ Len(latch) <= 1 /\ Len(group) <= ctx.slots
  /\ presenter \in {"waits", "has", "presents", "done", "gone"}
  /\ pools \in [1..PoolSlots -> SUBSET Images]
  /\ content \in [Images -> 0..MaxShown] /\ sizes \in [Images -> Nat]
  /\ ctx \in [slots : 1..PoolSlots, size : Nat]
  /\ showWorker \in {"begins", "waits", "configures", "records", "encodes", "publishes"}
  /\ {surface, showWindow, acquired, scans, turns} \subseteq Nat /\ showFrame \in 0..MaxShown
  /\ {showPending, showStop} \subseteq BOOLEAN /\ showLast \in ShowJobs \cup {NothingShown}

\* An image keeps its frame, and its place in the pool of its slot, as long as a job or the
\* latch refers to it.
ImagesKept ==
  \A j \in Refers : content[j.image] = j.frame /\ j.image \in pools[Slot(j)]

\* One image comes before another: that of an earlier frame, and of one frame the
\* interpolated ones first.
NotAfter(j, k) == j.frame < k.frame \/ (j.frame = k.frame /\ Slot(j) <= Slot(k))
Ordered(q) == \A m, n \in DOMAIN q : m <= n => NotAfter(q[m], q[n])
Before(S, T) == \A j \in S, k \in T : NotAfter(j, k)

\* What waits is bounded, in order, and not before what is shown: the picture never goes
\* back, and a full queue gives up the oldest. Where the VI owns the scanout this needs frames
\* that are not interpolated (ViInterpolates is FALSE; this title has no such mode).
NeverBack ==
  /\ Len(jobs) <= Bound(PoolSlots)
  /\ Ordered(jobs) /\ Ordered(group)
  /\ Before({showLast}, ToSet(held) \cup ToSet(jobs) \cup ToSet(group))
  /\ Before(ToSet(held), ToSet(jobs) \cup ToSet(group))
  /\ Before(ToSet(jobs), ToSet(group))
  /\ latch # <<>> /\ ~viOwns => latch = <<showLast>>

\* The surface is only configured while nobody holds a texture of it.
ConfiguredAlone == presenter = "presents" => acquired = surface

\* What the presenter promises, with the restriction of NeverBack.
ShowsInOrder == ImagesKept /\ NeverBack /\ ConfiguredAlone

\* Once a frame is sealed, it or a later one is shown or given up because the window
\* changed: the newest frame does not wait for ever, nor does the worker for the presenter.
Showing ==
  \/ jobs # <<>> \/ held # <<>>
  \/ showWorker \in {"encodes", "publishes", "waits", "configures"}
=============================================================================
