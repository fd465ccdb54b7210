--------------------------- MODULE CompletionPump ---------------------------
(***************************************************************************)
(* Completions that the host owes the guest: reads of the disc, done by    *)
(* one host worker (runtime/src/hle/storage/dvd.cpp), and callbacks of     *)
(* IOS requests (nand_async.cpp). Both are handed over by a pump that runs *)
(* on the stack of whoever called it, and that calls guest code, which may *)
(* start requests, pump again, or leave the host to another fiber in the   *)
(* middle of a callback. OSCancelThread and OSExitThread destroy a fiber   *)
(* with the pumps on its stack, and unwind nothing.                        *)
(***************************************************************************)
EXTENDS Naturals, Sequences, FiniteSets

CONSTANTS
  Fibers,     \* guest fibers; the host runs one
  First,      \* the fiber that has the host at the start
  CommandBlocks,     \* DVDCommandBlock addresses
  Batch,      \* callbacks one drain of the IOS queue dispatches
  MaxReads,   \* bound: reads submitted
  MaxCalls,   \* bound: IOS callbacks queued
  MaxDepth    \* bound: pumps on one stack

PumpAssumption ==
  /\ First \in Fibers
  /\ Batch \in Nat \ {0}
  /\ {MaxReads, MaxCalls, MaxDepth} \subseteq Nat

VARIABLES
  reads,      \* command block of each read submitted, in order
  pending,    \* DeferredDvdStore::pending
  working,    \* the read the worker is at
  completed,  \* DeferredDvdStore::completed
  answered,   \* reads whose callback has begun
  perished,       \* reads that a pump had taken when its fiber was destroyed
  block,      \* state word of each command block
  cancel,     \* reads in flight when the guest began to cancel all
  cancelSync, \* the word DVDCancelAll waits for
  queue,      \* g_pendingNandCallbacks
  called,     \* how many IOS callbacks have been queued
  dispatched, \* IOS callbacks that have begun, in order
  depth,      \* g_nandCallbackDrainDepth
  drainHeld,       \* the drain that raised it was destroyed with its fiber
  frames,     \* pumps on the host stack of each fiber, outermost first
  host        \* the fiber on the host

dvdVars == <<reads, pending, working, completed, answered, perished, block, cancel, cancelSync>>
iosVars == <<queue, called, dispatched, depth, drainHeld>>
pumpVars == <<dvdVars, iosVars, frames, host>>

Reads == 1 .. MaxReads
Calls == 1 .. MaxCalls

\* stage: the completions the pump is at; "submit" is a callback made by a
\* submission that fails. inCallback: guest code is running above the frame.
Frame == [stage : {"submit", "dvd", "ios"}, ready : Seq(Reads), left : 0 .. Batch,
          inCallback : BOOLEAN]

Elems(s) == {s[i] : i \in 1 .. Len(s)}
Stack == frames[host]
Top == Stack[Len(Stack)]
SetTop(frame) == frames' = [frames EXCEPT ![host][Len(Stack)] = frame]
Push(frame) == frames' = [frames EXCEPT ![host] = Append(@, frame)]
Pop == frames' = [frames EXCEPT ![host] = SubSeq(@, 1, Len(@) - 1)]

\* Guest code has the host: a fiber's own, or that of a callback.
InGuest == Stack # <<>> => Top.inCallback
InPump(stage) == Stack # <<>> /\ ~Top.inCallback /\ Top.stage = stage

\* The pumps on all stacks, by fiber and place; the reads they have taken and those the
\* store holds.
Pumps == {p \in Fibers \X (1 .. MaxDepth) : p[2] <= Len(frames[p[1]])}
Hands == UNION {Elems(frames[p[1]][p[2]].ready) : p \in Pumps}
Store == Elems(pending) \cup ({working} \ {0}) \cup Elems(completed)
InFlight == Store \cup Hands

-----------------------------------------------------------------------------
(* The guest.                                                              *)

\* DVDReadAsyncPrio and DVDReadAbsAsyncPrio, when the request resolves: the
\* command block is not written.
ReadAsync(b) ==
  /\ InGuest /\ Len(reads) < MaxReads
  /\ reads' = Append(reads, b)
  /\ pending' = Append(pending, Len(reads'))
  /\ UNCHANGED <<working, completed, answered, perished, block, cancel, cancelSync, iosVars,
                 frames, host>>

\* The same, when it does not: the callback is made at once, on the caller's stack.
ReadAsyncFails(b) ==
  /\ InGuest /\ Len(reads) < MaxReads /\ Len(Stack) < MaxDepth
  /\ reads' = Append(reads, b)
  /\ answered' = Append(answered, Len(reads'))
  /\ block' = [block EXCEPT ![b] = "fatal"]
  /\ Push([stage |-> "submit", ready |-> <<>>, left |-> 0, inCallback |-> TRUE])
  /\ UNCHANGED <<pending, working, completed, perished, cancel, cancelSync, iosVars, host>>

\* DVDReadPrio, DVDLowInquiry: done before they return, whatever is in flight.
ReadSync(b) ==
  /\ InGuest
  /\ block' = [block EXCEPT ![b] = "end"]
  /\ cancelSync' = TRUE
  /\ UNCHANGED <<reads, pending, working, completed, answered, perished, cancel, iosVars,
                 frames, host>>

\* DVDCancelAll of the guest's library begins to wait.
CancelAll ==
  /\ InGuest /\ InFlight # {}
  /\ cancel' = InFlight /\ cancelSync' = FALSE
  /\ UNCHANGED <<reads, pending, working, completed, answered, perished, block, iosVars,
                 frames, host>>

\* NandQueueIosCallback.
QueueCallback ==
  /\ InGuest /\ called < MaxCalls
  /\ called' = called + 1
  /\ queue' = Append(queue, called')
  /\ UNCHANGED <<dvdVars, dispatched, depth, drainHeld, frames, host>>

\* Guest code blocks or is preempted, inside a callback or not.
Switch(f) ==
  /\ InGuest /\ f # host
  /\ host' = f
  /\ UNCHANGED <<dvdVars, iosVars, frames>>

\* A callback comes back; the pump of a read then completes what cancellation waits for.
CallbackReturns ==
  /\ Stack # <<>> /\ Top.inCallback
  /\ IF Top.stage = "submit" THEN Pop ELSE SetTop([Top EXCEPT !.inCallback = FALSE])
  /\ cancelSync' = (cancelSync \/ Top.stage # "ios")
  /\ UNCHANGED <<reads, pending, working, completed, answered, perished, block, cancel,
                 iosVars, host>>

\* What the pumps on the stack of a fiber have taken; whether one of them drains.
TakenBy(f) == UNION {Elems(frames[f][i].ready) : i \in 1 .. Len(frames[f])}
DrainsOn(f) == \E i \in 1 .. Len(frames[f]) : frames[f][i].stage = "ios"

\* Fiber f is destroyed, the one on the host as it leaves it to g: the pumps on its stack
\* are gone, with the reads they had taken, and a drain leaves its guard raised. The
\* thread may be created anew.
FiberEnds(f, g) ==
  /\ InGuest /\ g # f /\ host \in {f, g}
  /\ frames' = [frames EXCEPT ![f] = <<>>]
  /\ perished' = perished \cup TakenBy(f)
  /\ drainHeld' = (drainHeld \/ DrainsOn(f))
  /\ host' = g
  /\ UNCHANGED <<reads, pending, working, completed, answered, block, cancel, cancelSync>>
  /\ UNCHANGED <<queue, called, dispatched, depth>>

-----------------------------------------------------------------------------
(* DeferredDvdWorkerMain.                                                  *)

WorkerTakes ==
  /\ working = 0 /\ pending # <<>>
  /\ working' = Head(pending) /\ pending' = Tail(pending)
  /\ UNCHANGED <<reads, completed, answered, perished, block, cancel, cancelSync, iosVars,
                 frames, host>>

WorkerPublishes ==
  /\ working # 0
  /\ completed' = Append(completed, working) /\ working' = 0
  /\ UNCHANGED <<reads, pending, answered, perished, block, cancel, cancelSync, iosVars,
                 frames, host>>

-----------------------------------------------------------------------------
(* The pump: DVD_HLE_ProcessCompletions, then NandProcessPendingCallbacks. *)

\* ProcessAlarmQueue behind its alarms: all completed reads are taken.
PumpBegins ==
  /\ InGuest /\ Len(Stack) < MaxDepth
  /\ Push([stage |-> "dvd", ready |-> completed, left |-> Batch, inCallback |-> FALSE])
  /\ completed' = <<>>
  /\ UNCHANGED <<reads, pending, working, answered, perished, block, cancel, cancelSync,
                 iosVars, host>>

\* The oldest read: data and command block first, then the callback. The host read
\* may have failed, or the buffer may have gone.
PumpRead ==
  /\ InPump("dvd") /\ Top.ready # <<>>
  /\ \E outcome \in {"end", "fatal"} : block' = [block EXCEPT ![reads[Head(Top.ready)]] = outcome]
  /\ answered' = Append(answered, Head(Top.ready))
  /\ SetTop([Top EXCEPT !.ready = Tail(@), !.inCallback = TRUE])
  /\ UNCHANGED <<reads, pending, working, completed, perished, cancel, cancelSync, iosVars,
                 host>>

\* A nested drain is refused.
Drain ==
  IF depth = 0
  THEN depth' = 1 /\ SetTop([Top EXCEPT !.stage = "ios"])
  ELSE UNCHANGED depth /\ Pop

PumpDrains ==
  /\ InPump("dvd") /\ Top.ready = <<>>
  /\ Drain
  /\ UNCHANGED <<dvdVars, queue, called, dispatched, drainHeld, host>>

\* meteor_IPCSubmit and Meteor_BtUsbPump drain the callbacks alone.
DrainDirect ==
  /\ InGuest /\ Len(Stack) < MaxDepth /\ depth = 0
  /\ depth' = 1
  /\ Push([stage |-> "ios", ready |-> <<>>, left |-> Batch, inCallback |-> FALSE])
  /\ UNCHANGED <<dvdVars, queue, called, dispatched, drainHeld, host>>

DrainCalls ==
  /\ InPump("ios") /\ queue # <<>> /\ Top.left > 0
  /\ queue' = Tail(queue)
  /\ dispatched' = Append(dispatched, Head(queue))
  /\ SetTop([Top EXCEPT !.left = @ - 1, !.inCallback = TRUE])
  /\ UNCHANGED <<dvdVars, called, depth, drainHeld, host>>

\* Mutant: the guard is left held when the batch is used up.
DrainEndsHeld ==
  /\ InPump("ios") /\ (queue = <<>> \/ Top.left = 0)
  /\ depth' = (IF Top.left = 0 THEN depth ELSE depth - 1)
  /\ Pop
  /\ UNCHANGED <<dvdVars, queue, called, dispatched, drainHeld, host>>

DrainEnds ==
  /\ InPump("ios") /\ (queue = <<>> \/ Top.left = 0)
  /\ depth' = depth - 1
  /\ Pop
  /\ UNCHANGED <<dvdVars, queue, called, dispatched, drainHeld, host>>

-----------------------------------------------------------------------------
PumpInit ==
  /\ reads = <<>> /\ pending = <<>> /\ working = 0 /\ completed = <<>>
  /\ answered = <<>> /\ perished = {}
  /\ block = [b \in CommandBlocks |-> "end"] /\ cancel = {} /\ cancelSync = TRUE
  /\ queue = <<>> /\ called = 0 /\ dispatched = <<>> /\ depth = 0 /\ drainHeld = FALSE
  /\ frames = [f \in Fibers |-> <<>>] /\ host = First

PumpNext ==
  \/ \E b \in CommandBlocks : ReadAsync(b) \/ ReadAsyncFails(b) \/ ReadSync(b)
  \/ CancelAll \/ QueueCallback \/ CallbackReturns
  \/ \E f \in Fibers : Switch(f)
  \/ \E f, g \in Fibers : FiberEnds(f, g)
  \/ WorkerTakes \/ WorkerPublishes
  \/ PumpBegins \/ PumpRead \/ PumpDrains
  \/ DrainDirect \/ DrainCalls \/ DrainEnds

PumpSpec == PumpInit /\ [][PumpNext]_pumpVars

OnHost(f, action) == host = f /\ action

PumpGoesOn == PumpRead \/ PumpDrains \/ DrainCalls \/ DrainEnds

\* The worker is a host thread. Every fiber gets the host again, callbacks
\* return, and the loops of a title pump again and again.
PumpFairness ==
  /\ WF_pumpVars(WorkerTakes) /\ WF_pumpVars(WorkerPublishes)
  /\ WF_pumpVars(PumpGoesOn) /\ SF_pumpVars(PumpBegins)
  /\ \A f \in Fibers : SF_pumpVars(Switch(f)) /\ SF_pumpVars(OnHost(f, CallbackReturns))

FairPumpSpec == PumpSpec /\ PumpFairness

-----------------------------------------------------------------------------
(* Properties.                                                             *)

PumpTypeOK ==
  /\ reads \in Seq(CommandBlocks) /\ Len(reads) <= MaxReads
  /\ pending \in Seq(Reads) /\ completed \in Seq(Reads) /\ answered \in Seq(Reads)
  /\ working \in 0 .. MaxReads /\ perished \subseteq Reads
  /\ block \in [CommandBlocks -> {"end", "fatal"}]
  /\ cancel \subseteq Reads /\ cancelSync \in BOOLEAN
  /\ queue \in Seq(Calls) /\ called \in 0 .. MaxCalls /\ dispatched \in Seq(Calls)
  /\ depth \in 0 .. 1 /\ drainHeld \in BOOLEAN
  /\ frames \in [Fibers -> Seq(Frame)] /\ host \in Fibers

\* Every read submitted is in one place, or has been answered, or was lost with the
\* fiber whose pump had taken it; and is answered once, however the pumps nest, the
\* fibers switch and end.
ReadsConserved ==
  /\ InFlight \cup Elems(answered) \cup perished = 1 .. Len(reads)
  /\ InFlight \cap Elems(answered) = {} /\ perished \cap (InFlight \cup Elems(answered)) = {}
  /\ \A i, j \in 1 .. Len(answered) : answered[i] = answered[j] => i = j

\* What a pump has taken is older than what the store still holds: answers come
\* out of order only around a pump that is itself suspended.
StoreIsYounger == \A r \in Hands, s \in Store : r < s

Drains == {p \in Pumps : frames[p[1]][p[2]].stage = "ios"}

\* The guard of the drain is held by one frame on one stack, or by one that was
\* destroyed, or is free: a nested drain never dispatches (nand_async.cpp:119-122), and
\* unless a fiber was destroyed in its drain none is locked out for ever.
FlatDrain == Cardinality(Drains) + (IF drainHeld THEN 1 ELSE 0) = depth

\* IOS callbacks begin in the order they were queued, whoever drains.
CallbacksInOrder == \A i \in 1 .. Len(dispatched) : dispatched[i] = i

\* A read submitted is answered, also when the pump that took it is suspended in
\* an earlier callback, unless it is lost with its fiber.
Submitted(r) == Len(reads) >= r
Answered(r) == r \in Elems(answered) \cup perished
ReadsAnswered == \A r \in Reads : Submitted(r) ~> Answered(r)

\* A callback queued is made, also when it is queued by a callback in a full batch,
\* unless a fiber was destroyed in its drain.
QueuedCall(c) == called >= c
Made(c) == c \in Elems(dispatched) \/ drainHeld
CallbacksMade == \A c \in Calls : QueuedCall(c) ~> Made(c)

\* What the code does not promise: no read is lost, and no drain is locked out for ever.
PumpsSurvive == perished = {} /\ ~drainHeld

\* What DVDCancelAll waits for is set when the reads it cancels are over
\* (dvd.cpp:1527 "complete pending cancel/reset waits"). The code sets it at once.
CancelMeansIdle == cancelSync => cancel \cap InFlight = {}

\* The command block of a read in flight does not say that it has ended: a caller
\* polls it (dvd.cpp:1809 "hang waiting for Busy to clear"). The code never sets it.
BusyUntilAnswered == \A r \in InFlight : block[reads[r]] # "end"

\* What the pump promises: no read is lost but with the fiber whose pump had taken it, none
\* is answered twice, one drain at a time dispatches, and callbacks begin in order, however
\* pumps nest and fibers switch and end.
CompletionsInOrder == ReadsConserved /\ StoreIsYounger /\ FlatDrain /\ CallbacksInOrder
=============================================================================
