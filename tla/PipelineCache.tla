--------------------------- MODULE PipelineCache ----------------------------
(***************************************************************************)
(* Render pipelines (aurora-main/lib/gfx/pipeline_cache.cpp). A draw is    *)
(* recorded with the hash of its pipeline; workers build pipelines; the    *)
(* renderer waits for one when the draw is consumed. Recorder, renderer    *)
(* and workers share one mutex and one condition variable, and a notify    *)
(* may wake whoever waits. A writer thread stores what was first used.     *)
(***************************************************************************)
EXTENDS Naturals, Sequences, SequencesExt, FiniteSets

CONSTANTS
  Hashes,
  Clears,    \* those of clear pipelines: built at once inside a frame
  Cached,    \* sequence: rows of the database that are built at startup
  Deferred,  \* sequence: rows left for later
  Builders,  \* the worker threads, where the graphics backend has any
  Cap,       \* MaxQueuedPipelineBuilds
  MaxBack,   \* MaxBackgroundPipelineWorkers
  PerFrame,  \* BuildPipelinesPerFrame
  MaxFinds,  \* bound: draws recorded
  MayFail    \* the database may fail

\* The hash of a row is its key in the database, so no row is there twice.
PipelineAssumption ==
  /\ Clears \subseteq Hashes /\ {Cached, Deferred} \subseteq Seq(Hashes)
  /\ IsInjective(Cached) /\ IsInjective(Deferred)
  /\ IsFiniteSet(Builders) /\ "renderer" \notin Builders
  /\ {Cap, MaxBack, PerFrame} \subseteq Nat \ {0} /\ MaxFinds \in Nat /\ MayFail \in BOOLEAN

VARIABLES
  pipelines,            \* g_pipelines
  prio, back,           \* g_priorityPipelines, g_backgroundPipelines
  deferred,             \* g_deferredGxPipelines
  toBuild, compiling,      \* g_pendingPipelines, g_compilingPipelines
  queued,               \* queuedPipelines
  activeBack,           \* g_activeBackgroundPipelineWorkers
  asleep,               \* who waits on g_pipelineCv
  builder,              \* where each worker is: a function on those that were started
  item, isBack,         \* what it builds, and whether it came from the background queue
  skips,                \* g_skipUnreadyGxPipelines: draws may be skipped
  inFrame,              \* g_pipelineFrameActive
  built,                \* g_pipelinesPerFrame
  creating,             \* the draw whose pipeline the recorder builds itself, at most one
  recorded,             \* draws not consumed, each with whether it must be ready
  missing,              \* a draw met a pipeline that is neither ready nor pending
  finds,
  pipelinesEnd,         \* g_pipelineThreadEnd
  writes, batch, stored, writer, writerStop, broken,  \* of the cache writer
  firstUsed             \* ghost: hashes whose first use was to be stored

queues == <<prio, back, deferred, toBuild, compiling, queued>>
builders == <<activeBack, builder, item, isBack>>
store == <<writes, batch, stored, writer, writerStop, broken, firstUsed>>
recorder == <<skips, inFrame, built, creating, finds>>
pipelineVars ==
  <<pipelines, queues, builders, asleep, recorder, recorded, missing, pipelinesEnd, store>>

Started == DOMAIN builder
HasThreads == Started # {}
NoHash == "none"
Renderer == "renderer"

\* Both queues are deques; the entry of a hash is erased where it is found.
InQueue(h) == h \in ToSet(prio) \cup ToSet(back)
Erased(q, h) ==
  IF h \in ToSet(q) THEN RemoveAt(q, CHOOSE i \in DOMAIN q : q[i] = h) ELSE q

\* notify_one wakes anybody who waits, whatever they wait for.
NotifyOne ==
  \/ asleep = {} /\ UNCHANGED asleep
  \/ \E x \in asleep : asleep' = asleep \ {x}
NotifyAll == asleep' = {}

-----------------------------------------------------------------------------
(* Recording.                                                              *)

\* enqueue_pipeline_cache_write.
StoreLater(h) ==
  /\ firstUsed' = firstUsed \cup {h}
  /\ writes' = IF broken THEN writes ELSE writes \cup {h}
  /\ UNCHANGED <<batch, stored, writer, writerStop, broken>>

\* Full: the youngest background build gives way. What no draw waits for is in there.
Evicts == Cardinality(toBuild) >= Cap /\ back # <<>>
BackKept == IF Evicts THEN Front(back) ELSE back
PendingKept == IF Evicts THEN toBuild \ {Last(back)} ELSE toBuild

\* touch_pending_pipeline: a first use moves to the queue of first uses.
Touched(h) ==
  IF h \in ToSet(back) THEN prio' = Append(prio, h) /\ back' = Erased(back, h)
  ELSE UNCHANGED <<prio, back>>

Defers(h) == HasThreads /\ h \notin Clears
Records(draw) == recorded' = recorded \cup {draw} /\ UNCHANGED creating
BuildsItself(draw) == creating' = {draw} /\ UNCHANGED recorded

FindReady(draw) ==
  /\ draw.ref \in pipelines
  /\ Records(draw)
  /\ UNCHANGED <<queues, asleep, store>>

FindPending(draw) ==
  /\ draw.ref \in toBuild \ pipelines
  /\ IF draw.ref \in compiling THEN UNCHANGED <<prio, back, asleep>>
     ELSE Touched(draw.ref) /\ NotifyOne
  /\ IF Defers(draw.ref) THEN Records(draw) ELSE BuildsItself(draw)
  /\ UNCHANGED <<deferred, toBuild, compiling, queued, store>>

FindAtOnce(draw) ==
  /\ draw.ref \notin pipelines \cup toBuild /\ ~Defers(draw.ref)
  /\ BuildsItself(draw)
  /\ UNCHANGED <<queues, asleep, store>>

FindNew(draw) ==
  /\ draw.ref \notin pipelines \cup toBuild /\ Defers(draw.ref)
  /\ back' = BackKept
  /\ IF Cardinality(PendingKept) >= Cap /\ ~skips
     THEN /\ BuildsItself(draw) /\ toBuild' = PendingKept
          /\ queued' = queued - (IF Evicts THEN 1 ELSE 0)
          /\ UNCHANGED <<prio, asleep, store>>
     ELSE /\ prio' = Append(prio, draw.ref) /\ toBuild' = PendingKept \cup {draw.ref}
          /\ queued' = queued + (IF Evicts THEN 0 ELSE 1)
          /\ StoreLater(draw.ref) /\ NotifyOne /\ Records(draw)
  /\ UNCHANGED <<deferred, compiling>>

\* find_pipeline inside a frame, up to the build that the recorder makes itself.
FindPipeline(draw) ==
  /\ inFrame /\ creating = {} /\ ~pipelinesEnd /\ finds < MaxFinds /\ finds' = finds + 1
  /\ FindReady(draw) \/ FindPending(draw) \/ FindAtOnce(draw) \/ FindNew(draw)
  /\ UNCHANGED <<pipelines, builders, skips, inFrame, built, missing, pipelinesEnd>>

\* The recorder has built it: whatever is queued for it goes, and all are told.
PipelineCreated(draw) ==
  /\ creating = {draw} /\ creating' = {} /\ recorded' = recorded \cup {draw}
  /\ pipelines' = pipelines \cup {draw.ref}
  /\ prio' = Erased(prio, draw.ref) /\ back' = Erased(back, draw.ref)
  /\ toBuild' = IF InQueue(draw.ref) THEN toBuild \ {draw.ref} ELSE toBuild
  /\ queued' = IF InQueue(draw.ref) THEN queued - 1 ELSE queued
  /\ StoreLater(draw.ref) /\ NotifyAll
  /\ UNCHANGED <<deferred, compiling, builders, skips, inFrame, built, finds, missing,
                 pipelinesEnd>>

\* What end_pipeline_frame builds on the way out when there are no workers.
BuildsOn == ~HasThreads /\ ~inFrame /\ built < PerFrame /\ prio \o back # <<>>

\* What of the first n deferred rows is neither ready nor pending, in their order.
NearRows(n) ==
  LET Near == {i \in 1..n : deferred[i] \notin pipelines \cup toBuild}
      ks == {k \in [1..Cardinality(Near) -> Near] : \A i, j \in DOMAIN k : i < j => k[i] < k[j]}
  IN {[i \in DOMAIN k |-> deferred[k[i]]] : k \in ks}

\* begin_pipeline_frame: some of the deferred rows are near enough.
BeginPipelineFrame ==
  /\ ~inFrame /\ ~pipelinesEnd /\ finds < MaxFinds /\ ~BuildsOn /\ inFrame' = TRUE
  /\ built' = IF HasThreads THEN built ELSE 0
  /\ \/ (~HasThreads \/ deferred = <<>>) /\ UNCHANGED <<queues, asleep>>
     \/ /\ HasThreads /\ deferred # <<>>
        /\ \E n \in 0..Len(deferred) : \E near \in NearRows(n) :
             /\ deferred' = SubSeq(deferred, n + 1, Len(deferred))
             /\ back' = back \o near /\ toBuild' = toBuild \cup ToSet(near)
             /\ queued' = queued + Len(near)
             /\ IF near = <<>> THEN UNCHANGED asleep ELSE NotifyAll
             /\ UNCHANGED <<prio, compiling>>
  /\ UNCHANGED <<pipelines, builders, skips, creating, finds, recorded, missing, pipelinesEnd,
                 store>>

\* end_pipeline_frame: without workers, a few builds follow.
EndPipelineFrame ==
  /\ inFrame /\ creating = {} /\ inFrame' = FALSE
  /\ UNCHANGED <<pipelines, queues, builders, asleep, skips, built, creating, finds, recorded,
                 missing, pipelinesEnd, store>>

BuildSynchronously ==
  /\ BuildsOn /\ ~pipelinesEnd /\ built' = built + 1
  /\ \E h \in {Head(prio \o back)} :
       /\ pipelines' = pipelines \cup {h} /\ toBuild' = toBuild \ {h} /\ queued' = queued - 1
  /\ prio' = IF prio = <<>> THEN prio ELSE Tail(prio)
  /\ back' = IF prio = <<>> THEN Tail(back) ELSE back
  /\ NotifyAll
  /\ UNCHANGED <<deferred, compiling, builders, skips, inFrame, creating, finds, recorded,
                 missing, pipelinesEnd, store>>

\* aurora_set_skip_unready_pipelines, from the settings.
SetSkips ==
  /\ ~pipelinesEnd /\ skips' = ~skips
  /\ UNCHANGED <<pipelines, queues, builders, asleep, inFrame, built, creating, finds,
                 recorded, missing, pipelinesEnd, store>>

-----------------------------------------------------------------------------
(* Building.                                                               *)

MayTake == prio # <<>> \/ (back # <<>> /\ activeBack < MaxBack)

\* A worker that nothing wakes for sleeps, and one that is woken looks again.
BuilderWaits(w) ==
  /\ builder[w] = "looks" /\ ~MayTake /\ ~pipelinesEnd
  /\ builder' = [builder EXCEPT ![w] = "sleeps"] /\ asleep' = asleep \cup {w}
  /\ UNCHANGED <<pipelines, queues, activeBack, item, isBack, recorder, recorded, missing,
                 pipelinesEnd, store>>
BuilderLooks(w) ==
  /\ builder[w] = "sleeps" /\ w \notin asleep
  /\ builder' = [builder EXCEPT ![w] = "looks"]
  /\ UNCHANGED <<pipelines, queues, activeBack, item, isBack, asleep, recorder, recorded,
                 missing, pipelinesEnd, store>>

BuilderTakes(w) ==
  /\ builder[w] = "looks" /\ MayTake /\ ~pipelinesEnd
  /\ builder' = [builder EXCEPT ![w] = "builds"]
  /\ isBack' = [isBack EXCEPT ![w] = prio = <<>>]
  /\ \E h \in {IF prio = <<>> THEN Head(back) ELSE Head(prio)} :
       item' = [item EXCEPT ![w] = h] /\ compiling' = compiling \cup {h}
  /\ IF prio = <<>> THEN back' = Tail(back) /\ activeBack' = activeBack + 1 /\ UNCHANGED prio
     ELSE prio' = Tail(prio) /\ UNCHANGED <<back, activeBack>>
  /\ UNCHANGED <<pipelines, deferred, toBuild, queued, asleep, recorder, recorded, missing,
                 pipelinesEnd, store>>

\* compile_pending_pipeline: under the mutex, and then, outside, notify_all and the count.
BuilderBuilds(w) ==
  /\ builder[w] = "builds" /\ builder' = [builder EXCEPT ![w] = "tells"]
  /\ pipelines' = pipelines \cup {item[w]}
  /\ compiling' = compiling \ {item[w]} /\ toBuild' = toBuild \ {item[w]}
  /\ UNCHANGED <<prio, back, deferred, queued, activeBack, item, isBack, asleep, recorder,
                 recorded, missing, pipelinesEnd, store>>

BuilderTells(w) ==
  /\ builder[w] = "tells" /\ NotifyAll
  /\ builder' = [builder EXCEPT ![w] = IF isBack[w] THEN "leaves" ELSE "looks"]
  /\ queued' = queued - 1
  /\ UNCHANGED <<pipelines, prio, back, deferred, toBuild, compiling, activeBack, item, isBack,
                 recorder, recorded, missing, pipelinesEnd, store>>

BuilderLeaves(w) ==
  /\ builder[w] = "leaves" /\ builder' = [builder EXCEPT ![w] = "looks"]
  /\ activeBack' = activeBack - 1 /\ NotifyAll
  /\ UNCHANGED <<pipelines, queues, item, isBack, recorder, recorded, missing, pipelinesEnd,
                 store>>

BuilderEnds(w) ==
  /\ builder[w] = "looks" /\ pipelinesEnd /\ builder' = [builder EXCEPT ![w] = "gone"]
  /\ UNCHANGED <<pipelines, queues, activeBack, item, isBack, asleep, recorder, recorded,
                 missing, pipelinesEnd, store>>

-----------------------------------------------------------------------------
(* Rendering: bind_pipeline of a recorded draw.                            *)

RendererWaits == Renderer \in asleep
MustWait(draw) == ~skips \/ draw.must

DrawBinds(draw) ==
  /\ ~RendererWaits
  /\ draw.ref \in pipelines \/ draw.ref \notin toBuild \/ ~MustWait(draw)
  /\ missing' = (missing \/ draw.ref \notin pipelines \cup toBuild)
  /\ recorded' = recorded \ {draw}
  /\ UNCHANGED <<pipelines, queues, builders, asleep, recorder, pipelinesEnd, store>>

\* promote_pending_pipeline_for_wait, once, at the beginning of the wait; when woken the
\* wait only looks again.
DrawAwaits(draw) ==
  /\ ~RendererWaits /\ draw.ref \in toBuild \ pipelines /\ MustWait(draw)
  /\ IF InQueue(draw.ref)
     THEN /\ prio' = <<draw.ref>> \o Erased(prio, draw.ref) /\ back' = Erased(back, draw.ref)
          /\ asleep' = {Renderer}
     ELSE asleep' = asleep \cup {Renderer} /\ UNCHANGED <<prio, back>>
  /\ UNCHANGED <<pipelines, deferred, toBuild, compiling, queued, builders, recorder, recorded,
                 missing, pipelinesEnd, store>>

-----------------------------------------------------------------------------
(* The cache writer, and the end.                                          *)

others == <<pipelines, queues, builders, asleep, recorder, recorded, missing, firstUsed>>

WriterTakes ==
  /\ writer = "waits" /\ writes # {}
  /\ batch' = writes /\ writes' = {} /\ writer' = "writes"
  /\ UNCHANGED <<others, pipelinesEnd, stored, writerStop, broken>>
WriterWrites ==
  /\ writer = "writes"
  /\ \/ stored' = stored \cup batch /\ writer' = "waits" /\ UNCHANGED broken
     \/ MayFail /\ broken' = TRUE /\ writer' = "gone" /\ UNCHANGED stored
  /\ batch' = {}
  /\ UNCHANGED <<others, pipelinesEnd, writes, writerStop>>

\* Mutant: the writer leaves as soon as it is told.
WriterEndsAtOnce ==
  /\ writer = "waits" /\ writerStop /\ writer' = "gone"
  /\ UNCHANGED <<others, pipelinesEnd, writes, batch, stored, writerStop, broken>>
WriterEnds ==
  /\ writer = "waits" /\ writerStop /\ writes = {} /\ writer' = "gone"
  /\ UNCHANGED <<others, pipelinesEnd, writes, batch, stored, writerStop, broken>>

\* shutdown_pipeline_cache, when nothing is recorded: the workers first, then the writer.
ShutdownPipelines ==
  /\ ~pipelinesEnd /\ ~inFrame /\ ~BuildsOn /\ creating = {} /\ recorded = {}
  /\ pipelinesEnd' = TRUE /\ NotifyAll
  /\ UNCHANGED <<pipelines, queues, builders, recorder, recorded, missing, store>>
StopWriter ==
  /\ pipelinesEnd /\ ~writerStop /\ (\A w \in Started : builder[w] = "gone")
  /\ writerStop' = TRUE
  /\ UNCHANGED <<others, pipelinesEnd, writes, batch, stored, writer, broken>>

\* Which worker is started depends on the graphics backend: all or none.
PipelineInit ==
  /\ pipelines = {} /\ prio = <<>> /\ back = Cached /\ deferred = Deferred
  /\ toBuild = ToSet(Cached) /\ compiling = {} /\ queued = Len(Cached)
  /\ activeBack = 0 /\ asleep = {}
  /\ \E W \in {{}, Builders} :
       /\ builder = [w \in W |-> "looks"]
       /\ item = [w \in W |-> NoHash] /\ isBack = [w \in W |-> FALSE]
  /\ skips \in BOOLEAN
  /\ inFrame = FALSE /\ built = PerFrame /\ creating = {} /\ recorded = {} /\ missing = FALSE
  /\ finds = 0 /\ pipelinesEnd = FALSE
  /\ writes = {} /\ batch = {} /\ stored = ToSet(Cached) \cup ToSet(Deferred)
  /\ writer = "waits" /\ writerStop = FALSE /\ broken = FALSE /\ firstUsed = {}

Draws == [ref : Hashes, must : BOOLEAN]
RecorderStep ==
  \/ BeginPipelineFrame \/ EndPipelineFrame \/ BuildSynchronously \/ SetSkips
  \/ \E draw \in Draws : FindPipeline(draw)
Creates == \E draw \in creating : PipelineCreated(draw)
BuilderStep(w) ==
  \/ BuilderWaits(w) \/ BuilderLooks(w) \/ BuilderTakes(w) \/ BuilderBuilds(w)
  \/ BuilderTells(w) \/ BuilderLeaves(w) \/ BuilderEnds(w)
RendererStep == \E draw \in recorded : DrawBinds(draw) \/ DrawAwaits(draw)
WriterStep == WriterTakes \/ WriterWrites \/ WriterEnds
PipelineNext ==
  RecorderStep \/ Creates \/ (\E w \in Started : BuilderStep(w)) \/ RendererStep \/ WriterStep
  \/ ShutdownPipelines \/ StopWriter

PipelineSpec == PipelineInit /\ [][PipelineNext]_pipelineVars

-----------------------------------------------------------------------------
PipelineTypeOK ==
  /\ pipelines \cup toBuild \cup compiling \subseteq Hashes
  /\ {prio, back, deferred} \subseteq Seq(Hashes)
  /\ queued \in Nat /\ activeBack \in Nat /\ asleep \subseteq Started \cup {Renderer}
  /\ Started \in {{}, Builders}
  /\ builder \in [Started -> {"looks", "sleeps", "builds", "tells", "leaves", "gone"}]
  /\ item \in [Started -> Hashes \cup {NoHash}] /\ isBack \in [Started -> BOOLEAN]
  /\ {skips, inFrame, missing, pipelinesEnd, writerStop, broken} \subseteq BOOLEAN
  /\ creating \cup recorded \subseteq Draws /\ {built, finds} \subseteq Nat
  /\ writer \in {"waits", "writes", "gone"}
  /\ writes \cup batch \cup stored \cup firstUsed \subseteq Hashes

\* What is pending is queued once or being built, by one worker; the counter of queued
\* builds that the pre-warm waits for is theirs, with those whose builder has yet to say so.
QueuedOnce ==
  /\ toBuild = ToSet(prio) \cup ToSet(back) \cup compiling
  /\ Len(prio) + Len(back) + Cardinality(compiling) = Cardinality(toBuild)
  /\ \A w, v \in Started : w # v /\ builder[w] = "builds" /\ builder[v] = "builds"
                           => item[w] # item[v]
  /\ queued = Cardinality(toBuild) + Cardinality({w \in Started : builder[w] = "tells"})

\* Background builds keep to their limit.
BackLimited ==
  /\ activeBack = Cardinality({w \in Started : builder[w] \in {"builds", "tells", "leaves"}
                                               /\ isBack[w]})
  /\ activeBack <= MaxBack

\* No draw reaches its turn with a pipeline that nobody builds: a full queue only gives up
\* builds that no recorded draw refers to (wait_pipeline is fatal otherwise).
NeverMissing == ~missing

\* At an orderly end every first use is in the database, unless it broke.
FirstUsesStored == writerStop /\ writer = "gone" /\ ~broken => firstUsed \subseteq stored

\* What the pipeline cache promises.
DrawsFindPipelines == QueuedOnce /\ BackLimited /\ NeverMissing /\ FirstUsesStored

\* Every draw that must be ready is consumed: no wake-up is lost for good, though one
\* notify may go to a waiter that has no use for it.
MustBeDrawn(h) == [ref |-> h, must |-> TRUE] \in recorded
=============================================================================
