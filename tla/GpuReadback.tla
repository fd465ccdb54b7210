---------------------------- MODULE GpuReadback -----------------------------
(***************************************************************************)
(* What the guest reads back of the frame buffer: small copies to its      *)
(* memory (aurora-main/lib/gfx/efb_ram_copy.cpp) and snapshots of the      *)
(* depth (depth_peek.cpp). The GPU copies them to buffers of their own,    *)
(* whose maps complete on a later frame, by a callback on any thread.      *)
(* WebGPU, external, completes maps in the order of the copies.            *)
(***************************************************************************)
EXTENDS Naturals, Sequences, SequencesExt, FiniteSetsExt

CONSTANTS
  Dests,       \* destinations of copies in guest memory
  Cap,         \* kMaxAsyncSlots
  DepthSlots,  \* SlotCount: buffers for depth
  MaxCopied,   \* bound: frames
  MaxPeeks,    \* bound: requests for a depth snapshot
  MaxSplits,   \* bound: frames rendered in part by the producer
  MapsMayFail  \* maps may fail

DepthBuffers == 1 .. DepthSlots
Buffers == Dests \cup DepthBuffers

ReadbackAssumption ==
  /\ {Cap, DepthSlots, MaxCopied, MaxPeeks, MaxSplits} \subseteq Nat
  /\ DepthSlots > 0 /\ MaxCopied > 0
  /\ MapsMayFail \in BOOLEAN /\ IsFiniteSet(Dests) /\ Dests \cap DepthBuffers = {}

VARIABLES
  asyncPending, \* destinations that the recorded frame copies to
  asyncSealed,  \* those of the sealed frame
  slots,        \* g_asyncSlots: "none", "idle", "copied" or "mapping"
  mapsInFlight, \* g_asyncMapsInFlight
  shown,        \* the frame that each destination shows the guest; 0 is far away
  requested,    \* g_snapshotRequested
  depthSlots,   \* state of each buffer for depth
  nextSlot,     \* g_nextSlot
  latest,       \* g_latest: the frame of the newest depth snapshot
  holds,        \* buffer -> the frame that was copied to it last
  encoded,      \* buffers with a copy in an encoder that was not submitted
  maps,         \* maps that were asked for: [buffer, frame]
  copier,       \* the worker: "idle", "sealed", "rendered" or "submitted"
  recording,    \* the frame that is recorded
  peeks, splits, down

copies == <<asyncPending, asyncSealed>>
depths == <<requested, depthSlots, nextSlot, latest, peeks>>
gpu == <<holds, encoded, maps>>
rbVars == <<copies, slots, mapsInFlight, shown, depths, gpu, copier, recording, splits, down>>

KnownDests == {d \in Dests : slots[d] # "none"}
-----------------------------------------------------------------------------
(* The guest: its copies, and what it reads of the depth.                  *)

\* schedule: a copy to a destination beyond the limit is not one of these; it waits until
\* the guest asks for it (efb_ram_copy.cpp:200-219), and that download is not modelled.
ScheduleCopy(d) ==
  /\ ~down /\ (d \in KnownDests \/ Cardinality(KnownDests) < Cap)
  /\ d \notin asyncPending /\ asyncPending' = asyncPending \cup {d}
  /\ IF d \in KnownDests THEN UNCHANGED <<slots, shown>>
     ELSE slots' = [slots EXCEPT ![d] = "idle"] /\ shown' = [shown EXCEPT ![d] = 0]
  /\ UNCHANGED <<asyncSealed, mapsInFlight, depths, gpu, copier, recording, splits, down>>

\* GXPeekZ reads the newest snapshot and asks for another.
PeekDepth ==
  /\ ~down /\ ~requested /\ peeks < MaxPeeks /\ peeks' = peeks + 1 /\ requested' = TRUE
  /\ UNCHANGED <<copies, slots, mapsInFlight, shown, depthSlots, nextSlot, latest, gpu, copier,
                 recording, splits, down>>

-----------------------------------------------------------------------------
\* find_available_slot, from g_nextSlot on.
FreeDepth == {s \in DepthBuffers : depthSlots[s] = "idle"}
FoundSlot == LET later == {s \in FreeDepth : s >= nextSlot}
             IN Min(IF later # {} THEN later ELSE FreeDepth)

\* encode_frame_snapshot of a frame, unless the one before was less than SnapshotInterval
\* ago: a request that finds no slot is lost.
Snapshot(f) ==
  \/ UNCHANGED <<depths, gpu>>
  \/ /\ requested /\ requested' = FALSE
     /\ IF FreeDepth = {} THEN UNCHANGED <<depthSlots, nextSlot, gpu>>
        ELSE /\ depthSlots' = [depthSlots EXCEPT ![FoundSlot] = "copied"]
             /\ nextSlot' = (FoundSlot % DepthSlots) + 1
             /\ encoded' = encoded \cup {FoundSlot}
             /\ holds' = [holds EXCEPT ![FoundSlot] = f]
             /\ UNCHANGED maps
     /\ UNCHANGED <<latest, peeks>>

\* seal_frame_locked: the copies of the sealed frame are the worker's.
SealCopies ==
  /\ copier = "idle" /\ ~down /\ recording < MaxCopied /\ copier' = "sealed"
  /\ asyncSealed' = asyncPending /\ asyncPending' = {}
  /\ recording' = recording + 1
  /\ UNCHANGED <<slots, mapsInFlight, shown, depths, gpu, splits, down>>

\* gfx::render of the sealed frame.
RenderSealed ==
  /\ copier = "sealed" /\ copier' = "rendered" /\ Snapshot(recording - 1)
  /\ UNCHANGED <<copies, slots, mapsInFlight, shown, recording, splits, down>>

\* encode_async_downloads: a copy to a buffer whose map is outstanding is left out.
EncodeCopy(d) ==
  /\ copier = "rendered" /\ d \in asyncSealed
  /\ asyncSealed' = asyncSealed \ {d}
  /\ IF slots[d] = "idle"
     THEN /\ slots' = [slots EXCEPT ![d] = "copied"]
          /\ encoded' = encoded \cup {d} /\ holds' = [holds EXCEPT ![d] = recording - 1]
     ELSE UNCHANGED <<slots, encoded, holds>>
  /\ UNCHANGED <<asyncPending, mapsInFlight, shown, depths, maps, copier, recording, splits, down>>

SubmitCopies ==
  /\ copier = "rendered" /\ asyncSealed = {} /\ copier' = "submitted" /\ encoded' = {}
  /\ UNCHANGED <<copies, slots, mapsInFlight, shown, depths, holds, maps, recording, splits, down>>

\* after_submit of both: what was copied is mapped.
Copied(f) == {b \in DOMAIN f : f[b] = "copied"}
Asks(f) == [b \in DOMAIN f |-> IF f[b] = "copied" THEN "mapping" ELSE f[b]]
MapsOf(S) ==
  [i \in 1 .. Cardinality(S) |-> [buffer |-> SetToSeq(S)[i], frame |-> holds[SetToSeq(S)[i]]]]

MapCopied ==
  /\ slots' = Asks(slots) /\ depthSlots' = Asks(depthSlots)
  /\ mapsInFlight' = mapsInFlight + Cardinality(Copied(slots))
  /\ maps' = maps \o MapsOf(Copied(depthSlots)) \o MapsOf(Copied(slots))

AfterSubmit ==
  /\ copier = "submitted" /\ copier' = "idle" /\ MapCopied
  /\ UNCHANGED <<copies, shown, requested, nextSlot, latest, peeks, holds, encoded, recording,
                 splits, down>>

\* Mutant: the producer does not wait for the worker.
SplitBeside ==
  /\ ~down /\ splits < MaxSplits /\ splits' = splits + 1 /\ MapCopied
  /\ UNCHANGED <<copies, shown, requested, nextSlot, latest, peeks, holds, encoded, copier,
                 recording, down>>

\* split_recording_batch: once the worker is done, the producer renders what was recorded
\* of the frame so far, perhaps with a snapshot, and submits it.
SplitReadback ==
  /\ copier = "idle" /\ ~down /\ splits < MaxSplits /\ splits' = splits + 1
  /\ \/ /\ MapCopied /\ UNCHANGED <<nextSlot, holds>>
        /\ requested' \in IF FreeDepth = {} THEN {requested, FALSE} ELSE {requested}
     \/ /\ requested /\ FreeDepth # {} /\ requested' = FALSE
        /\ nextSlot' = (FoundSlot % DepthSlots) + 1
        /\ holds' = [holds EXCEPT ![FoundSlot] = recording]
        /\ depthSlots' = [depthSlots EXCEPT ![FoundSlot] = "mapping"]
        /\ maps' = Append(maps, [buffer |-> FoundSlot, frame |-> recording])
        /\ UNCHANGED <<slots, mapsInFlight>>
  /\ UNCHANGED <<copies, shown, latest, peeks, encoded, copier, recording, down>>

-----------------------------------------------------------------------------
\* complete_async_slot and complete_slot: the buffer is read, if it could be mapped, and
\* free again. After the end nobody waits for the map.
CompleteMap(ok) ==
  /\ maps # <<>> /\ maps' = Tail(maps)
  /\ LET b == Head(maps).buffer
     IN \/ /\ b \in Dests /\ mapsInFlight' = mapsInFlight - (IF mapsInFlight > 0 THEN 1 ELSE 0)
           /\ IF b \in KnownDests
              THEN /\ slots' = [slots EXCEPT ![b] = "idle"]
                   /\ shown' = IF ok THEN [shown EXCEPT ![b] = holds[b]] ELSE shown
              ELSE UNCHANGED <<slots, shown>>
           /\ UNCHANGED <<depthSlots, latest>>
        \/ /\ b \in DepthBuffers /\ depthSlots' = [depthSlots EXCEPT ![b] = "idle"]
           /\ latest' = IF ok /\ ~down THEN holds[b] ELSE latest
           /\ UNCHANGED <<slots, mapsInFlight, shown>>
  /\ UNCHANGED <<copies, requested, nextSlot, peeks, holds, encoded, copier, recording, splits,
                 down>>

\* gfx::shutdown, when the worker has stopped.
StopReadbacks ==
  /\ copier = "idle" /\ ~down /\ down' = TRUE
  /\ asyncPending' = {} /\ asyncSealed' = {} /\ slots' = [d \in Dests |-> "none"]
  /\ mapsInFlight' = 0
  /\ requested' = FALSE /\ depthSlots' = [s \in DepthBuffers |-> "idle"] /\ nextSlot' = 1
  /\ latest' = 0
  /\ UNCHANGED <<shown, peeks, gpu, copier, recording, splits>>

ReadbackInit ==
  /\ asyncPending = {} /\ asyncSealed = {} /\ slots = [d \in Dests |-> "none"]
  /\ mapsInFlight = 0 /\ shown = [d \in Dests |-> 0]
  /\ requested = FALSE /\ depthSlots = [s \in DepthBuffers |-> "idle"] /\ nextSlot = 1
  /\ latest = 0
  /\ holds = [b \in Buffers |-> 0] /\ encoded = {} /\ maps = <<>>
  /\ copier = "idle" /\ recording = 1 /\ peeks = 0 /\ splits = 0 /\ down = FALSE

MapsComplete == \E ok \in (IF MapsMayFail THEN BOOLEAN ELSE {TRUE}) : CompleteMap(ok)
Copier == RenderSealed \/ (\E d \in Dests : EncodeCopy(d)) \/ SubmitCopies \/ AfterSubmit
ReadbackNext ==
  \/ \E d \in Dests : ScheduleCopy(d)
  \/ PeekDepth \/ SealCopies \/ Copier \/ SplitReadback \/ MapsComplete \/ StopReadbacks

ReadbackSpec == ReadbackInit /\ [][ReadbackNext]_rbVars

\* The worker goes on with a sealed frame, and WebGPU completes what was submitted.
ReadbackFairSpec == ReadbackSpec /\ WF_rbVars(Copier) /\ WF_rbVars(MapsComplete)

-----------------------------------------------------------------------------
SlotStates == {"none", "idle", "copied", "mapping"}
MapRecords == [buffer : Buffers, frame : Nat]

ReadbackTypeOK ==
  /\ asyncPending \subseteq Dests /\ asyncSealed \subseteq Dests
  /\ slots \in [Dests -> SlotStates] /\ Cardinality(KnownDests) <= Cap
  /\ mapsInFlight \in Nat /\ shown \in [Dests -> Nat]
  /\ requested \in BOOLEAN /\ depthSlots \in [DepthBuffers -> SlotStates \ {"none"}]
  /\ nextSlot \in DepthBuffers /\ latest \in Nat
  /\ holds \in [Buffers -> Nat] /\ encoded \subseteq Buffers /\ maps \in Seq(MapRecords)
  /\ copier \in {"idle", "sealed", "rendered", "submitted"} /\ recording \in 1 .. MaxCopied
  /\ peeks \in 0 .. MaxPeeks /\ splits \in 0 .. MaxSplits /\ down \in BOOLEAN

Outstanding(b) == \E i \in 1 .. Len(maps) : maps[i].buffer = b

\* A buffer is only mapped once its copy is submitted, only by one map, and not copied to
\* before it is given back: what arrives is the frame that was asked for.
MapsWhatWasCopied ==
  /\ \A i \in 1 .. Len(maps) :
       maps[i].buffer \notin encoded /\ maps[i].frame = holds[maps[i].buffer]
  /\ \A i, j \in 1 .. Len(maps) : maps[i].buffer = maps[j].buffer => i = j
  /\ ~down => /\ \A d \in Dests : slots[d] = "mapping" <=> Outstanding(d)
              /\ \A s \in DepthBuffers : depthSlots[s] = "mapping" <=> Outstanding(s)

\* The count of maps in flight is not below what drain_async_events must wait for.
MapsCounted == ~down => mapsInFlight = Cardinality({d \in Dests : Outstanding(d)})

\* What the guest reads, of its memory and of the depth, does not go back to an older frame.
NeverOlder == [][~down' => latest' >= latest /\ \A d \in Dests : shown'[d] >= shown[d]]_rbVars

\* What readbacks promise.
ReadbacksInOrder == [](MapsWhatWasCopied /\ MapsCounted) /\ NeverOlder

\* A copy that was encoded gives its buffer back.
AnyCopied == encoded # {} \/ maps # <<>>
BuffersReturn == AnyCopied ~> ~AnyCopied
=============================================================================
