---------------------------- MODULE LoopServices ----------------------------
(***************************************************************************)
(* The loop checkpoint of the title                                        *)
(* (projects/meteor/runtime_native/scheduler_wait.cpp): on backedges of    *)
(* translated loops the host looks after the devices, as interrupts would. *)
(* A callback runs on a copy of the interrupted registers, with the        *)
(* scheduler disabled, and may meet checkpoints of its own. Translated     *)
(* code masks interrupts in its MSR; the native services ask a latch that  *)
(* only native code and the checkpoint keep up to date. Two threads: one   *)
(* in a hot loop, one of higher priority that sleeps until a callback      *)
(* wakes it.                                                               *)
(***************************************************************************)
EXTENDS Naturals, Sequences

CONSTANTS
  AudioEvery, AsyncEvery,  \* checkpoints per service by count
  MaxDepth,                \* bound: callbacks within callbacks
  Raising                  \* bound: devices that raise their interrupt

LoopAssumption ==
  /\ {AudioEvery, AsyncEvery} \subseteq Nat \ {0} /\ AsyncEvery % AudioEvery = 0
  /\ MaxDepth \in Nat
  /\ Raising \subseteq {"finish", "audio", "vi", "alarm", "ios"}

Threads == {"hot", "urgent"}
Devices == {"finish", "audio", "vi", "alarm", "ios"}
Steps == Devices \cup {"mirror", "resched", "restore"}

VARIABLES
  native,    \* what native calls do that the title makes in these loops: "wait" and serve
             \* the devices, "mask" and restore interrupts
  cur,       \* running thread
  stack,     \* threads: frames of guest code: what it was called for, whether its code has
             \* interrupts open, MSR.EE of its registers, what its checkpoint has left to do
  intact,    \* threads: the registers are as its code left them
  latch,     \* the interrupt latch of the host
  ready,     \* the urgent thread is ready
  resched,   \* the reschedule flag of the title
  raised,    \* devices with an event
  serial,    \* checkpoints
  late       \* services whose millisecond has passed

loopVars == <<native, cur, stack, intact, latch, ready, resched, raised, serial, late>>

Frame(of) == [of |-> of, open |-> TRUE, ee |-> TRUE, todo |-> <<>>]
Depth == Len(stack[cur])
Top == stack[cur][Depth]
InCode == Top.todo = <<>>
Advancing == \E i \in DOMAIN stack[cur] : stack[cur][i].of = "vi"

SetTop(f) == stack' = [stack EXCEPT ![cur][Depth] = f]
Todo(s) == SetTop([Top EXCEPT !.todo = s])

-----------------------------------------------------------------------------
(* Guest code.                                                             *)

\* OSDisableInterrupts, OSRestoreInterrupts of the title: translated, so MSR only.
Mask(ee) ==
  /\ InCode /\ Top.open # ee /\ SetTop([Top EXCEPT !.open = ee, !.ee = ee])
  /\ UNCHANGED <<native, cur, intact, latch, ready, resched, raised, serial, late>>

\* A native function that masks and restores: it saves the latch, and sets the MSR to it.
NativePair ==
  /\ "mask" \in native /\ InCode /\ Top.ee # latch /\ SetTop([Top EXCEPT !.ee = latch])
  /\ UNCHANGED <<native, cur, intact, latch, ready, resched, raised, serial, late>>

Due(service, every) == service \in late \/ (serial + 1) % every = 0

Plan ==
  (IF Due("audio", AudioEvery) THEN <<"mirror", "audio", "resched">> ELSE <<>>)
  \o (IF Due("async", AsyncEvery) THEN <<"mirror", "vi", "alarm", "ios", "resched">> ELSE <<>>)

Counted == (serial + 1) % AsyncEvery

\* A backedge that the gate lets through; inside a retrace it does nothing.
Backedge ==
  /\ InCode /\ ~Advancing
  /\ Todo(<<"finish">> \o Plan)
  /\ serial' = Counted
  /\ late' = late \ ((IF Due("audio", AudioEvery) THEN {"audio"} ELSE {})
                     \cup (IF Due("async", AsyncEvery) THEN {"async"} ELSE {}))
  /\ UNCHANGED <<native, cur, intact, latch, ready, resched, raised>>

\* A native call waits for the renderer: no mirror, no reschedule.
NativeWait ==
  /\ "wait" \in native /\ InCode /\ Todo(<<"vi", "alarm", "audio">>)
  /\ UNCHANGED <<native, cur, intact, latch, ready, resched, raised, serial, late>>

\* The urgent thread sleeps; the other one goes on where it was left.
Sleep ==
  /\ cur = "urgent" /\ InCode /\ Depth = 1
  /\ cur' = "hot" /\ ready' = FALSE
  /\ latch' = stack["hot"][1].ee
  /\ UNCHANGED <<native, stack, intact, resched, raised, serial, late>>

Raise(d) ==
  /\ d \notin raised /\ raised' = raised \cup {d}
  /\ UNCHANGED <<native, cur, stack, intact, latch, ready, resched, serial, late>>

Millisecond ==
  /\ late' = {"audio", "async"}
  /\ UNCHANGED <<native, cur, stack, intact, latch, ready, resched, raised, serial>>

-----------------------------------------------------------------------------
(* The checkpoint.                                                         *)

Does(step) == ~InCode /\ Head(Top.todo) = step
Rest == Tail(Top.todo)

MirrorLatch == latch' = Top.ee

Mirror ==
  /\ Does("mirror") /\ Todo(Rest)
  /\ MirrorLatch
  /\ UNCHANGED <<native, cur, intact, ready, resched, raised, serial, late>>

Wakes == \/ ready' = TRUE /\ resched' = TRUE
         \/ UNCHANGED <<ready, resched>>

\* DeliverMeteorPeFinishInterrupt: no guest code; the wake does not reschedule.
Finish ==
  /\ Does("finish")
  /\ IF Top.ee /\ "finish" \in raised
     THEN /\ raised' = raised \ {"finish"} /\ latch' = TRUE /\ Wakes
          /\ Todo(<<"resched">> \o Rest)
     ELSE Todo(Rest) /\ UNCHANGED <<raised, latch, ready, resched>>
  /\ UNCHANGED <<native, cur, intact, serial, late>>

CallCopiesRegisters == UNCHANGED intact

\* The device's due callback, if the latch lets it.
Serve(d) ==
  /\ Does(d)
  /\ IF latch /\ d \in raised /\ Depth <= MaxDepth /\ (d = "vi" => ~Advancing)
     THEN /\ raised' = raised \ {d}
          /\ stack' = [stack EXCEPT ![cur] = Append([@ EXCEPT ![Depth].todo = Rest], Frame(d))]
          /\ CallCopiesRegisters
     ELSE Todo(Rest) /\ UNCHANGED <<raised, intact>>
  /\ UNCHANGED <<native, cur, latch, ready, resched, serial, late>>

Return ==
  /\ Depth > 1 /\ InCode /\ Top.open
  /\ stack' = [stack EXCEPT ![cur] = SubSeq(@, 1, Depth - 1)]
  /\ Wakes
  /\ UNCHANGED <<native, cur, intact, latch, raised, serial, late>>

MaySwitch == Top.ee /\ resched /\ Depth = 1

\* TryMeteorInterruptReturnReschedule: SelectThread uses the thread's own registers.
Resched ==
  /\ Does("resched")
  /\ IF MaySwitch
     THEN /\ resched' = FALSE
          /\ intact' = [intact EXCEPT ![cur] = FALSE]
          /\ Todo(<<"restore">> \o Rest)
          /\ IF ready /\ cur = "hot"
             THEN cur' = "urgent" /\ latch' = stack["urgent"][1].ee
             ELSE UNCHANGED <<cur, latch>>
     ELSE Todo(Rest) /\ UNCHANGED <<cur, intact, latch, resched>>
  /\ UNCHANGED <<native, ready, raised, serial, late>>

\* Mutant: only r3 is put back.
RestoresResult == UNCHANGED intact

RestoresAll == intact' = [intact EXCEPT ![cur] = TRUE]

Restore ==
  /\ Does("restore") /\ Todo(Rest)
  /\ RestoresAll
  /\ latch' = Top.ee
  /\ UNCHANGED <<native, cur, ready, resched, raised, serial, late>>

-----------------------------------------------------------------------------
LoopInit ==
  /\ native \in SUBSET {"wait", "mask"}
  /\ cur = "hot" /\ latch = TRUE /\ ready = FALSE /\ resched = FALSE
  /\ stack = [t \in Threads |-> <<Frame("thread")>>]
  /\ intact = [t \in Threads |-> TRUE]
  /\ raised = {} /\ serial = 0 /\ late = {}

Checkpoint == Mirror \/ Finish \/ Resched \/ Restore \/ \E d \in Devices \ {"finish"} : Serve(d)

LoopNext ==
  \/ Checkpoint \/ Return \/ Backedge \/ NativeWait \/ NativePair \/ Sleep \/ Millisecond
  \/ \E ee \in BOOLEAN : Mask(ee)
  \/ \E d \in Raising : Raise(d)

LoopSpec == LoopInit /\ [][LoopNext]_loopVars

\* For loops without native calls of these kinds.
\* The checkpoint goes on and callbacks return. Critical sections end; and the title does not
\* mask interrupts whenever, and only when, a service is due.
FairLoopSpec ==
  /\ LoopSpec
  /\ WF_loopVars(Checkpoint) /\ SF_loopVars(Return) /\ SF_loopVars(Mask(TRUE))
  /\ SF_loopVars(Millisecond /\ Top.ee /\ Depth = 1)
  /\ SF_loopVars(Backedge /\ Top.ee /\ Depth = 1 /\ "async" \in late)

-----------------------------------------------------------------------------
Frames == [of : Devices \cup {"thread"}, open : BOOLEAN, ee : BOOLEAN, todo : Seq(Steps)]

LoopTypeOK ==
  /\ native \subseteq {"wait", "mask"} /\ cur \in Threads
  /\ stack \in [Threads -> Seq(Frames)]
  /\ \A t \in Threads : Len(stack[t]) \in 1 .. MaxDepth + 1
  /\ intact \in [Threads -> BOOLEAN]
  /\ {latch, ready, resched} \subseteq BOOLEAN
  /\ raised \subseteq Devices /\ serial \in 0 .. AsyncEvery - 1 /\ late \subseteq {"audio", "async"}

(* No callback runs inside a critical section of the code it interrupts:   *)
(* the allocator of the title relies on that.                              *)
CallbacksRespectMask ==
  \A t \in Threads : \A i \in 1 .. Len(stack[t]) - 1 : stack[t][i].ee

(* os_interrupt.cpp: the native pair is to "Keep the translated CPU        *)
(* register file coherent with the host-side interrupt latch": after it,   *)
(* interrupts are as the code around it has them.                          *)
MaskKept == \A i \in DOMAIN stack[cur] : stack[cur][i].ee = stack[cur][i].open

(* The code of a thread finds its registers as it left them, whatever its  *)
(* backedge did.                                                           *)
RegistersSurvive == InCode => intact[cur]

(* No thread loses the processor while a callback is on its stack.         *)
NoSwitchInCallback == \A t \in Threads \ {cur} : Len(stack[t]) = 1

(* An urgent thread that a callback woke gets the processor from a loop    *)
(* that never gives it up.                                                 *)
OnTheProcessor == cur = "urgent"
UrgentRuns == ready ~> OnTheProcessor

(* The devices for which the checkpoint mirrors the mask are served, though *)
(* the thread never leaves its loop. (Alarms and requests come after a     *)
(* retrace and see the latch its callbacks left, so they may be put off.)  *)
Raised(d) == d \in raised
DevicesServed == \A d \in {"finish", "audio", "vi"} : Raised(d) ~> ~Raised(d)

\* What the checkpoint promises the code it interrupts: its registers, its place on the
\* processor until callbacks have returned, and its critical sections unless it makes
\* native calls that wait, or that mask and restore, inside them.
LoopsAreSafe ==
  RegistersSurvive /\ NoSwitchInCallback /\ (native = {} => CallbacksRespectMask)
=============================================================================
