------------------------------ MODULE IpcSubmit -----------------------------
(***************************************************************************)
(* IPC requests of the title (projects/meteor/runtime_native/ipc_hle.cpp): *)
(* the routine every IOS command goes through, the transfers that stay     *)
(* pending (two USB IN endpoints of the virtual Bluetooth controller, disc *)
(* reads on a host worker) and the pump that completes them. A completion  *)
(* queues a callback (nand_async.cpp) and gives the request block back to  *)
(* the small guest heap it came from.                                      *)
(*                                                                         *)
(* While a callback runs, guest code may do anything, on this fiber or on  *)
(* another; the drain and the pump around it go on when it returns. A      *)
(* drain is taken to empty the queue: it may dispatch 64 callbacks, and    *)
(* CompletionPump has the batch that is used up.                           *)
(***************************************************************************)
EXTENDS Naturals, Sequences, FiniteSets

CONSTANTS
  Requests,     \* request blocks of the IPC heap
  NoRequest,    \* no transfer is armed
  DiBatch,      \* disc reads one pump completes
  MaxCommands,  \* bound: HCI commands
  MaxDone,      \* bound: asynchronous commands that are done at once
  Closes        \* whether the controller is closed and reopened

IpcAssumption ==
  /\ NoRequest \notin Requests
  /\ DiBatch \in Nat \ {0} /\ {MaxCommands, MaxDone} \subseteq Nat
  /\ Closes \in BOOLEAN

Slots == {"event", "acl"}

VARIABLES
  use,        \* what each block of the heap is used for
  armed,      \* g_btEventIn, g_btAclIn: the request of each IN endpoint
  events,     \* g_btQueuedEvents, each named by its command (0: a credit)
  aclIn,      \* how many packets g_btQueuedAclIn holds
  commands,   \* HCI commands submitted
  doneAsync,  \* asynchronous commands that were done at once
  confirmed,  \* commands whose control-OUT callback has run
  diPending, diWorking, diCompleted,  \* MeteorDeferredDiStore
  calls,      \* the callback queue: "other", or the command of a control OUT
  drain,      \* "off", "on", or "call" while a callback runs
  btPump      \* what Meteor_BtUsbPump does next, or "none"

btVars == <<armed, events, aclIn, commands>>
diVars == <<diPending, diWorking, diCompleted>>
callVars == <<calls, doneAsync, confirmed, drain>>
ipcVars == <<use, btVars, diVars, callVars, btPump>>

Commands == 1 .. MaxCommands

GuestSubmits == drain = "call" \/ (drain = "off" /\ btPump = "none")
Release(r) == use' = [use EXCEPT ![r] = "free"]
Take(r, what) == use' = [use EXCEPT ![r] = what]

\* NandProcessPendingCallbacks: refused inside a callback.
StartDrain == drain' = (IF drain = "off" THEN "on" ELSE drain)

-----------------------------------------------------------------------------
(* meteor_IPCSubmit.                                                       *)

\* The guest builds a request.
Allocate(r) ==
  /\ GuestSubmits /\ use[r] = "free"
  /\ Take(r, "guest")
  /\ UNCHANGED <<btVars, diVars, callVars, btPump>>

\* The end of an asynchronous command that is done at once.
CompleteAsync(r, call) ==
  /\ doneAsync < MaxDone /\ doneAsync' = doneAsync + 1
  /\ Release(r)
  /\ calls' = Append(calls, call)
  /\ UNCHANGED confirmed
  /\ StartDrain

\* A synchronous command that changes nothing here.
SubmitSync(r) ==
  /\ GuestSubmits /\ use[r] = "guest"
  /\ Release(r)
  /\ UNCHANGED <<btVars, diVars, callVars, btPump>>

\* IOS_Open and IOS_Close of the controller: ResetMeteorBtUsbState.
SubmitReset(r) ==
  /\ GuestSubmits /\ use[r] = "guest" /\ Closes
  /\ Release(r)
  /\ armed' = [s \in Slots |-> NoRequest]
  /\ events' = <<>> /\ aclIn' = 0
  /\ UNCHANGED <<commands, diVars, callVars, btPump>>

\* An interrupt or bulk IN transfer: one per endpoint, a second is refused.
SubmitIn(r, s) ==
  /\ GuestSubmits /\ use[r] = "guest"
  /\ IF armed[s] = NoRequest
     THEN armed' = [armed EXCEPT ![s] = r] /\ Take(r, s) /\ UNCHANGED callVars
     ELSE UNCHANGED armed /\ CompleteAsync(r, 0)
  /\ UNCHANGED <<events, aclIn, commands, diVars, btPump>>

\* An HCI command: its events are queued before the transfer itself completes.
SubmitControl(r) ==
  /\ GuestSubmits /\ use[r] = "guest" /\ commands < MaxCommands
  /\ commands' = commands + 1
  /\ events' = Append(events, commands')
  /\ CompleteAsync(r, commands')
  /\ UNCHANGED <<armed, aclIn, diVars, btPump>>

\* ACL data for the virtual remote: it answers, and the credit comes back.
SubmitAclOut(r) ==
  /\ GuestSubmits /\ use[r] = "guest" /\ aclIn = 0 /\ Len(events) < 2
  /\ aclIn' = 1
  /\ events' = Append(events, 0)
  /\ CompleteAsync(r, 0)
  /\ UNCHANGED <<armed, commands, diVars, btPump>>

\* An asynchronous read of the disc.
SubmitDiRead(r) ==
  /\ GuestSubmits /\ use[r] = "guest"
  /\ Take(r, "di")
  /\ diPending' = Append(diPending, r)
  /\ UNCHANGED <<btVars, diWorking, diCompleted, callVars, btPump>>

-----------------------------------------------------------------------------
(* MeteorDeferredDiWorkerMain.                                             *)

DiTakes ==
  /\ diWorking = NoRequest /\ diPending # <<>>
  /\ diWorking' = Head(diPending) /\ diPending' = Tail(diPending)
  /\ UNCHANGED <<use, btVars, diCompleted, callVars, btPump>>

DiPublishes ==
  /\ diWorking # NoRequest
  /\ diCompleted' = Append(diCompleted, diWorking) /\ diWorking' = NoRequest
  /\ UNCHANGED <<use, btVars, diPending, callVars, btPump>>

-----------------------------------------------------------------------------
(* The drain.                                                              *)

IpcDrainCalls ==
  /\ drain = "on" /\ calls # <<>>
  /\ calls' = Tail(calls)
  /\ confirmed' = confirmed \cup ({Head(calls)} \ {0})
  /\ drain' = "call"
  /\ UNCHANGED <<use, btVars, diVars, doneAsync, btPump>>

IpcCallbackReturns ==
  /\ drain = "call" /\ drain' = "on"
  /\ UNCHANGED <<use, btVars, diVars, calls, doneAsync, confirmed, btPump>>

IpcDrainEnds ==
  /\ drain = "on" /\ calls = <<>>
  /\ drain' = "off"
  /\ UNCHANGED <<use, btVars, diVars, calls, doneAsync, confirmed, btPump>>

-----------------------------------------------------------------------------
(* Meteor_BtUsbPump: disc reads, drain, an event, drain, a packet, drain.  *)

\* Called inside a callback it does nothing.
BtPumpBegins ==
  /\ GuestSubmits /\ btPump = "none" /\ drain = "off"
  /\ btPump' = "di"
  /\ UNCHANGED <<use, btVars, diVars, callVars>>

PumpAt(stage) == btPump = stage /\ drain = "off"

\* PumpMeteorDeferredDiReads: each read completes and gives its request back.
PumpDi ==
  /\ PumpAt("di")
  /\ LET n == IF Len(diCompleted) < DiBatch THEN Len(diCompleted) ELSE DiBatch
         ready == {diCompleted[i] : i \in 1 .. n}
     IN  /\ use' = [r \in Requests |-> IF r \in ready THEN "free" ELSE use[r]]
         /\ calls' = calls \o [i \in 1 .. n |-> 0]
         /\ diCompleted' = SubSeq(diCompleted, n + 1, Len(diCompleted))
  /\ StartDrain /\ btPump' = "event"
  /\ UNCHANGED <<btVars, diPending, diWorking, doneAsync, confirmed>>

\* Mutant: the slot still names the request that has gone back to the heap.
DeliverKeepsArmed(s) ==
  /\ UNCHANGED armed
  /\ Release(armed[s])
  /\ calls' = Append(calls, 0)

Deliver(s) ==
  /\ armed' = [armed EXCEPT ![s] = NoRequest]
  /\ Release(armed[s])
  /\ calls' = Append(calls, 0)

\* DeliverMeteorBtEventIfPossible; an event longer than the buffer is lost.
PumpEvent ==
  /\ PumpAt("event")
  /\ IF armed["event"] = NoRequest \/ events = <<>>
     THEN UNCHANGED <<use, armed, events, calls>>
     ELSE events' = Tail(events) /\ (Deliver("event") \/ UNCHANGED <<use, armed, calls>>)
  /\ StartDrain /\ btPump' = "acl"
  /\ UNCHANGED <<aclIn, commands, diVars, doneAsync, confirmed>>

AclReady == armed["acl"] # NoRequest /\ aclIn > 0 /\ events = <<>>

\* DeliverMeteorBtAclIfPossible: behind every event that is queued.
PumpAcl ==
  /\ PumpAt("acl")
  /\ IF AclReady
     THEN aclIn' = aclIn - 1 /\ (Deliver("acl") \/ UNCHANGED <<use, armed, calls>>)
     ELSE UNCHANGED <<use, armed, aclIn, calls>>
  /\ StartDrain /\ btPump' = "end"
  /\ UNCHANGED <<events, commands, diVars, doneAsync, confirmed>>

PumpEnds ==
  /\ PumpAt("end") /\ btPump' = "none"
  /\ UNCHANGED <<use, btVars, diVars, callVars>>

-----------------------------------------------------------------------------
IpcInit ==
  /\ use = [r \in Requests |-> "free"]
  /\ armed = [s \in Slots |-> NoRequest] /\ events = <<>> /\ aclIn = 0 /\ commands = 0
  /\ diPending = <<>> /\ diWorking = NoRequest /\ diCompleted = <<>>
  /\ calls = <<>> /\ doneAsync = 0 /\ confirmed = {} /\ drain = "off" /\ btPump = "none"

PumpStep == PumpDi \/ PumpEvent \/ PumpAcl \/ PumpEnds
IpcDrainStep == IpcDrainCalls \/ IpcCallbackReturns \/ IpcDrainEnds

IpcNext ==
  \/ \E r \in Requests :
       \/ Allocate(r) \/ SubmitSync(r) \/ SubmitReset(r)
       \/ SubmitControl(r) \/ SubmitAclOut(r) \/ SubmitDiRead(r)
       \/ \E s \in Slots : SubmitIn(r, s)
  \/ DiTakes \/ DiPublishes
  \/ IpcDrainStep \/ BtPumpBegins \/ PumpStep

IpcSpec == IpcInit /\ [][IpcNext]_ipcVars

\* The worker is a host thread, callbacks return, and the loop checkpoints of
\* the title pump again and again.
IpcFairness ==
  /\ WF_ipcVars(DiTakes) /\ WF_ipcVars(DiPublishes)
  /\ WF_ipcVars(IpcDrainStep) /\ WF_ipcVars(PumpStep) /\ SF_ipcVars(BtPumpBegins)

IpcFairSpec == IpcSpec /\ IpcFairness

-----------------------------------------------------------------------------
(* Properties.                                                             *)

IpcTypeOK ==
  /\ use \in [Requests -> {"free", "guest", "di"} \cup Slots]
  /\ armed \in [Slots -> Requests \cup {NoRequest}]
  /\ events \in Seq(0 .. MaxCommands) /\ aclIn \in 0 .. 1 /\ commands \in 0 .. MaxCommands
  /\ {diPending, diCompleted} \subseteq Seq(Requests) /\ diWorking \in Requests \cup {NoRequest}
  /\ calls \in Seq(0 .. MaxCommands) /\ doneAsync \in 0 .. MaxDone /\ confirmed \subseteq Commands
  /\ drain \in {"off", "on", "call"}
  /\ btPump \in {"none", "di", "event", "acl", "end"}

Among(r, s) == \E i \in 1 .. Len(s) : s[i] = r
InStore(r) == Among(r, diPending) \/ r = diWorking \/ Among(r, diCompleted)

\* A request that something still has to complete has not gone back to the heap,
\* where the guest could build another one in it.
ArmedNotFreed == \A s \in Slots : armed[s] # NoRequest => use[armed[s]] = s
ReadNotFreed == \A r \in Requests : use[r] = "di" <=> InStore(r)
PendingNotFreed == ArmedNotFreed /\ ReadNotFreed

\* The payload of the reply to a command is written only after the callback of the
\* control transfer that carried it has run (ipc_hle.cpp:2712-2719), also for a
\* command submitted by a callback.
PayloadAfterOut ==
  [][\A c \in Commands :
       (armed["event"] # NoRequest /\ use'[armed["event"]] = "free" /\ events # <<>> /\ Head(events) = c
        /\ events' = Tail(events)) => c \in confirmed]_ipcVars

\* No packet overtakes an event that was queued before it ("Preserve controller
\* ordering"): nothing of the events is left when it is handed over.
EventsBeforeAcl == [][aclIn' < aclIn => events' = <<>>]_ipcVars

\* A disc read in flight is completed.
ReadInFlight(r) == use[r] = "di"
DiReadsComplete == \A r \in Requests : ReadInFlight(r) ~> ~ReadInFlight(r)

\* With both transfers armed, an event that is queued is taken.
EventWaits == armed["event"] # NoRequest /\ events # <<>>
EventsTaken == EventWaits ~> ~EventWaits

\* The block of a transfer that was armed is released when something ends the
\* transfer: the heap has room for a few dozen (ipc_hle.cpp:2754).
TransfersKeepRequest == \A r \in Requests, s \in Slots : use[r] = s => armed[s] = r

\* What the transfers promise: nothing overtakes what it follows, and no request block is
\* given back while something still has to complete it.
TransfersInOrder == [](ArmedNotFreed /\ ReadNotFreed) /\ PayloadAfterOut /\ EventsBeforeAcl
=============================================================================
