# MeteorRecomp runtime: models and proofs

MeteorRecomp translates a PowerPC game ahead of time and runs it on a runtime that
replaces the console's operating system and devices ("HLE").  This directory holds
TLA+ models of the parts of that runtime where order and interleaving decide what
happens, the TLC instances that check them, and TLAPS proofs.  Paths below are relative
to `src/runtime` unless they begin with `projects/` or `aurora-main/`.

1. Inventory, 2. Modules, 3. Runs, 4. Where the code and its comments disagree,
5. Proofs, 6. What is only model-checked, 7. Assumptions and abstractions,
8. Not modelled, 9. Plan

## 1. Inventory

One host thread runs all guest code.  Every guest thread is a host fiber
(`src/fiber_manager.cpp`); guest code calls the HLE functions of `src/hle`, which work on
the guest's own structures in guest memory and may switch fibers in the middle.  Host
workers (disc, network lookups, frame worker, presenter, pipeline compilation, audio mix
and playback) run on other host threads and hand results back through queues that the
guest thread drains at checkpoints.

| Component | State | Operations | Hard behaviours | What makes it correct |
|---|---|---|---|---|
| guest scheduler (`hle/os/os_thread.cpp`, `os_scheduler.cpp`) | OSThread records, 32 run queues, pending mask, reschedule flag, disable count, running thread | create, exit, cancel, join, detach, suspend, resume, sleep, wake, select | a fiber switch in the middle of nearly every call; a thread moved by others while it waits; handlers under a disabled scheduler | mask = queues, no thread lost or linked twice, urgency order, nobody suspended runs |
| mutexes (same files) | owner, count, wait queue, per-thread list | lock, unlock, promote, propagate | inheritance along chains while links change; termination with locks held | no inversion, exact inheritance, no waiter on a free mutex |
| sleep timers (`os_sleep.cpp`) | timers, outstanding parks, strand times | sleep, fire, reconcile | due batch across fiber switches, a timer racing the suspension, lost sleepers | a sleeper always has a wake-up to come; a timer ends only its own sleep |
| message queues (`os_message.cpp`) | ring, two wait queues | send, jam, receive | switch inside the wake, wrap-around, several waiters | bounded FIFO, nobody stranded |
| alarms (`os_alarm.cpp`) | sorted list, dispatch depth | set, pump, deferred pump | a handler that switches while the pump has the guard, periodic alarms | each due alarm fires once, in order, and the guard is released |
| fibers (`fiber_manager.cpp`, `host_context.cpp`) | table, contexts, saved registers | create, switch, exit, cancel, reap | destruction while current, reuse of an address, two copies of registers | never a destroyed context, always the thread's own registers |
| interrupts and loop services (`os_interrupt.cpp`, `projects/meteor/runtime_native/scheduler_wait.cpp`, `loop_service_cadence.h`) | latch, MSR.EE, resched flag, cadence | checkpoint, callback, mask, restore, switch | callbacks within callbacks, a switch that clobbers the registers of a hot loop | registers come back, callbacks respect the mask |
| task thread (`hle/task_thread.cpp`) | job slots, inbox, finished tokens | request, call, retire, report | requests during a call, a full report queue | each job once, in order |
| NAND (`hle/storage/nand_*.cpp`) | descriptors, shadows, host files | open, write, close, create, delete, rename | a failure or crash at every host step | old or new content, never a mixture |
| DVD, IOS and IPC (`hle/storage/dvd.cpp`, `nand_async.cpp`, `projects/meteor/runtime_native/ipc_hle.cpp`) | command blocks, stores, callback queues | read, cancel, submit, pump, drain | a pump re-entered from its own callback, blocks reused, late completions | one answer per request, in order |
| network (`hle/net`) | sockets with generations, waiters, lookups | request, probe, close, reopen, call back | a stack frame reused by another waiter, a socket number reused | the answer reaches the thread that asked, about its socket |
| audio (`hle/audio/audio.cpp`, `ax_mix.cpp`, `audio_backend.cpp`) | DMA clock, interrupt, mix worker, host ring | program, poll, replay, mix, play | late service, worker beside the title, dry ring | no time lost or heard twice, mixes as if inline |
| video (`hle/vi.cpp`), pixel engine (`hle/gx/gx_fifo.cpp`) | retrace counter, pending flush, tokens, FINISH | retrace, flush, wait, draw sync, draw done | callbacks that flush, waits racing a retrace, acknowledgement by a callback | one retrace per flush, one interrupt per condition |
| frames (`aurora-main/lib/aurora.cpp`, `gfx`) | frame slots, phases, image pools, pipelines, readbacks | record, seal, encode, present, build, map | producer, worker, presenter and compilers share locks and buffers | every frame whole, shown in order, drawn with its pipelines |
| display lists (`hle/gx/gx_dl.cpp`) | Aurora's vertex state, mirror, scan cache | call, direct draws, rewrite | a cached scan or mirror that is stale | Aurora draws what the list says |
| memory cards (`include/gamecube_memory_card.h`, `local_checkpoint.h`, `aurora-main/lib/card`) | flash image, two copies of directory and table | erase, program, commit, restore, create, delete | crash between writes, a checkpoint older than a save | a save that was acknowledged survives |
| virtual Wii Remote (`projects/meteor/runtime_native/ipc_hle.cpp`) | link, channels, credits | connect, report, disconnect | packets of an old link | the protocol's order, credits not exceeded |
| guest memory, clocks, modules, input, settings, translator | | | sequential data transformation | not modelled, see section 8 |

How they meet: guest code enters the OS through HLE functions; `ProcessAlarmQueue`, the
title's loop checkpoint and the idle loop of `SelectThread` are where handlers run and
where the work of other host threads comes in; everything that makes a guest thread wait
ends in `OSSleepThread` or `OSSuspendThread`, and everything that ends a wait in a wake-up
or a resume.  So the scheduler is the component all others depend on; of it, they need
that a caller may lose the host in the middle of a wake-up, and that a wake-up is not
lost, which is what the scheduler's runs and proofs establish.

## 2. Modules

| Module | Code | Contents |
|---|---|---|
| `GuestThreads` | `os_internal.h`, `os_thread.cpp`, `os_scheduler.cpp` | constants, variables, frames, and the operators on thread queues and priorities |
| `GuestSelect` | `os_scheduler.cpp`, `os_sleep.cpp`, `fiber_manager.cpp` | `SelectThread` with its idle loop, wake-ups, `OSSleepThread` |
| `GuestMutex` | `os_scheduler.cpp`, `os_thread.cpp` | mutexes, promotion and propagation along owner chains |
| `GuestSuspend` | `os_thread.cpp`, `os_sleep.cpp` | suspend counts, `OSSleepTicks`, `ProcessSleepTimers` with its reconciler |
| `GuestLifecycle` | `os_thread.cpp`, `fiber_manager.cpp` | create, exit, cancel, return from the entry function, join, detach |
| `GuestScheduler` | all of these, `os_alarm.cpp` | what guest code and handlers may ask, `Init`, `Next`, fairness, properties |
| `GuestSchedulerInv` | | the inductive invariant `IInv` and its parts |
| `GuestSchedulerMC`, `GuestScenariosMC` | | the instances; a scenario is a set of calls that belong together |
| `MessageQueue`, `BoundedMailbox`, `MessageQueueMC` | `os_message.cpp` | the ring with its blocking loop; what it promises, as a specification of its own |
| `AlarmQueue` | `os_alarm.cpp` | the queue, the pump with its depth guard, deferred pumps |
| `GuestFibers` | `fiber_manager.cpp`, `host_context.cpp` | fibers, contexts, the choice of registers |
| `NetworkDeferral` | `hle/net` | deferred requests, lookups, probes, sockets with generations |
| `NandFiles` | `hle/storage/nand_*.cpp` | descriptors, shadows, commits, crash and failure |
| `CompletionPump` | `dvd.cpp`, `nand_async.cpp` | disc worker, store, nested pumps, the callback drain |
| `IpcSubmit` | `ipc_hle.cpp` | submission, pending transfers, completion |
| `VirtualRemote` | `ipc_hle.cpp` | connection, HID channels, credits, reports |
| `TaskThread` | `task_thread.cpp` | worker loop, job slots, report, movie preparation |
| `PixelEngine` | `gx_fifo.cpp`, `gamecube_external_interrupts.cpp` | draw tokens and FINISH under both deliveries |
| `VideoInterface` | `vi.cpp` | retraces, guard, callbacks, waiters, flush |
| `LoopServices` | `scheduler_wait.cpp`, `loop_service_cadence.h`, `os_interrupt.cpp` | checkpoint of hot loops |
| `AudioDma`, `AxMixer`, `HostPlayback` | `audio.cpp`, `ax_mix.cpp`, `audio_backend.cpp` | DMA clock and replay, mix worker, host ring |
| `CardFlash`, `CardImage` | `gamecube_memory_card.h`, `aurora-main/lib/card` | the card's flash with its file; the card file system |
| `PipelineCache`, `FrameWorker`, `Presenter`, `GpuReadback` | `aurora-main/lib` | pipelines, frames between producer and worker, images between worker and presenter, maps |
| `DisplayLists` | `hle/gx/gx_dl.cpp` | display lists, scan cache, mirrors of Aurora's state |
| `ServicesMC`, `DevicesMC` | | the components side by side, on small instances |
| `GuestLemmas`, `GuestSchedulerProofs`, `GuestWaitProofs`, `MessageQueueProofs`, `HostThreadProofs`, `CompletionPumpProofs`, `RenderProofs`, `DeviceProofs` | | proofs, see section 5 |

`GuestThreads` is extended by `GuestSelect`, `GuestMutex` and `GuestSuspend`;
`GuestLifecycle` extends `GuestSelect`; `GuestScheduler` extends all. `AlarmQueue`,
`GuestFibers`, `TaskThread`, `NetworkDeferral`, `CompletionPump`, `IpcSubmit`,
`CardImage`, `PipelineCache`, `FrameWorker` and `Presenter` are extended by `ServicesMC`;
`NandFiles`, `CardFlash`, `VirtualRemote`, `PixelEngine`, `VideoInterface`,
`LoopServices`, `HostPlayback`, `AudioDma`, `GpuReadback` and `AxMixer` by `DevicesMC`:
these are the components with proofs, so a run and a theorem speak of the same definition.
Their names are prefixed or their own (`PixelNext`, `PumpInit`) because they meet in one
module. One component is an instance: `DisplayLists`. The exact lines of every definition
are in `PROJECT.json`, under `map`.

### The scheduler's state and steps

The variables of `GuestThreads` are the fields of the guest structures (`state`,
`suspend`, `prio`, `base`, `queue`, `blockedOn`, `held`, `owner`, `count`, `link`,
`threadList`), the scheduler's words (`pending`, `resched`, `disable`, `running`), the
host-side tables (`timers`, `parks`, `strandSeen`) and the control of the one host
thread: `host`, the thread whose fiber it is on, and `stack[t]`, what is left to do of
the C++ calls on the fiber of `t`.

A linked list of threads is a sequence in `link`, under the address of its head; a join
queue has the address of its thread.  The `next` and `prev` words of an OSThread exist
once, so `LinkedOnce` is what makes the sequences a faithful picture of them.

A C++ function that can be switched out in the middle leaves a frame on `stack`, with
the thread, queue or batch it works on.  Each action is one call or one iteration of a
loop, from one place where the fiber can be switched to the next: it takes the top frame
of `stack[host]` and puts back the frames of the calls that come next.  A fiber that is
switched out keeps its frames and goes on with them when `SelectThread` chooses its thread
again.  With no frame left the fiber runs guest code, which may call the OS again
(`GuestCallsOS`, `GuestCreatesThread`, `GuestReturnsFromEntry`) or be interrupted by an
alarm handler (`AlarmHandlerCalled`).  A handler runs with `disable` raised and its fiber
calls the reschedule that was put off (`AlarmHandlerReturns`), as `ProcessAlarmQueue`
does.  All interleaving comes from these switches: one host thread executes everything.

### The other components

Each takes from the scheduler only what its own code depends on.  `MessageQueue`: parking
links the caller and gives the host away; a wake-up empties the queue and may give the
host away before it returns.  `AlarmQueue` keeps which threads can run and their urgency.
`CompletionPump` and `LoopServices` keep a stack of frames per fiber, like the scheduler;
`IpcSubmit` says where its one drain and its pump are.  Where host threads meet
(`FrameWorker`, `Presenter`, `PipelineCache`, `AxMixer`, `HostPlayback`, `GpuReadback`,
`NetworkDeferral`, the workers of `CompletionPump` and `IpcSubmit`), an action is what
happens between two acquisitions of a lock, or one access to an atomic; the program
counters of those threads are variables. A crash (`NandFiles`, `CardFlash`, `CardImage`)
may come before any write of the host; what was not synced may or may not be on the disk,
as the code's calls leave it.

## 3. Runs

| Run | Instance | Shows |
|---|---|---|
| `scheduler` | 3 threads, 2 mutexes, 1 wait queue; scenarios suspension, inheritance, slumber, life, death | types, control, queues, mask, mutex records, waiters, exact priorities, nobody forgotten |
| `idle` | 2 threads, sleep timers, fairness | the idle loop serves sleepers |
| `message_queue` | 3 threads, 2 messages, 2 slots, handlers | nobody stranded; the ring is a bounded mailbox |
| `services` | alarms, fibers, task thread, network, completions, IPC, card image, pipelines, frames, presenter, display lists | order, ownership and conservation |
| `services_live` | the same components, smaller | whatever is asked for is served |
| `devices` | NAND, card, remote, pixel engine, video, loop services (two settings), audio DMA (three kinds of title), playback, readbacks, mixer | nothing lost, repeated or out of order |
| `devices_live` | the same components, smaller | devices, waiters and urgent threads get their turn |
| `exit_contended`, `stale_timer`, `cancelled_sleeper`, `entry_return`, `frame_hang` | | disagreements, section 4 |

In the scheduler's scenarios two priorities are in use: with them a thread is preempted,
outranked, promoted and given its priority back.  Three threads give a chain of two
owners, a batch of two due timers with a third thread to run between them, and a joiner,
a target and a canceller.  Two mutexes give the chains.  A suspend count of two tells a
counting suspension from the one that parks.  `MaxDepth` bounds the frames on every fiber
*before guest code may call the OS again*; calls in progress always finish.  It is needed
because `ProcessSleepTimers` can be entered again from each resume it makes, with no bound
in the code; the value in each scenario lets a nested round happen.

A behaviour of `ServicesMC` or `DevicesMC` belongs to one case, `at`: these components
share no state in the code, so their interleavings are shuffles of such behaviours and
would only multiply the states.  The bounds of each instance are chosen so that every
branch of the component is taken (every action of every case fires in a passing run): a
queue, pool or cache at its limit and beyond it, a counter that wraps, a second request for
a block that is in use, a crash between any two writes.  Each module says what its bounds
are at its constants.  Two constants rule out a mode: `ViInterpolates`, which this title
does not have, and `Closes`, without which the controller of `IpcSubmit` stays open; both
are `FALSE` in the passing runs and in section 4.  Where the code breaks a promise in
certain states (a guard stuck in a dead thread, a shadow that two sessions share), those
states are in the runs and the property names them as its exception.  Two settings are
cases of their own: `native loop` (native waits and the native interrupt pair), and
`interrupted fibers`, where IOS and disc callbacks come and switch, with threads created at
two addresses; `fibers` has three addresses and no callbacks.  Card commits are torn twice
at most (`MaxTears`), and a replay of the audio DMA passes at most three boundaries
(`MaxReplay`; two in the live run).  Other settings are chosen by the initial state: the
pixel engine has one of its two deliveries (`external`), the pipeline cache all its workers
or none, the VI owns the scanout or does not (`viOwns`), and the title of the audio DMA has
a policy (`title`): it plays a submission once and is prompt, with a clock long enough for
services that are several blocks late; or it does what it likes at any time; or it loops
its blocks.  `VIEW Read` leaves out what no later step reads: register copies of destroyed
contexts, how often registers have changed (only which copies are equal is read), the
number of an inode beyond the names and handles that share it (`NandSeen`), the count of
mails beyond the number waiting.  The structures with which the guest opens NAND files are
interchangeable (`SYMMETRY`).

@@COUNTS@@

`CHECK_DEADLOCK FALSE` is in the runs whose programs really stop: guest code may use up
the bounds and then has no call to make, and a program whose threads all wait with no
timer armed stays in the idle loop.  Threads other than `Main` are interchangeable, so the
scheduler's safety runs use symmetry; runs that check liveness do not.

### Fairness

No run asks fairness of guest code, of the title's choices or of failures.

* `idle`: the host thread never stops (`WF` of `HostStep`).  `SelectThread`'s idle loop
  looks at the pending mask again after at most eight alarm handlers, so a mask that is
  set again and again is seen (`SF` of `IdleEnds`).  The host clock advances: a timer that
  stays armed is due at some scan (`SF` of `TimerExpires(t)`), the reconciler's 50 ms and
  100 ms pass (`SF` of `ReconcileParks` and `ParkHealed(t)`).  Strong fairness is needed
  because a handler may take the host out of the idle loop between any two of these.
* `services_live`, `devices_live`: a host worker with work takes a step (`WF`); a call in
  progress on the host thread goes on (`WF`); what the host thread comes to again and
  again, the completion pump, the loop checkpoint with interrupts open, a service poll, is
  reached from wherever it is left (`SF`, as a guest callback or a mask may intervene); a
  fiber that can run is scheduled again.  A behaviour has one case, so one fairness
  condition serves one need of each component: `Weak(n)` and `Strong(n)` list which.  For
  the same reason `EverythingServed` and `DevicesGetTheirTurn` are three and five
  leads-to formulas, the i-th wish of whatever component is in play (`Asked`, `Given`).
  The wishes: an overdue alarm, a requested job, a request on the network, a read, a
  queued callback, an IPC transfer, a draw that waits for its pipeline, a frame, an image
  to show; a connection of the remote, a wait for draw-done or a retrace, a raised device
  interrupt, an urgent thread that is ready, the audio interrupt, a readback, a command
  list, a unit of sound in the ring, dirty pages of the card.

## 4. Where the code and its comments disagree

Each of these is a run that ends in a counterexample.

| Run | Property | What happens |
|---|---|---|
| `exit_contended` | `JoinersWoken` | `TerminateThreadCommon` marks the thread, releases its mutexes, then wakes the joiners. Releasing a contended mutex ends in `SelectThread`, which never comes back to a terminated fiber: the joiners sleep on. |
| `stale_timer` | `DueTimerIsCurrent` | The due timers are collected, then fired one by one; each resume may switch away. A thread of the rest of the batch can be woken, run and go to sleep again before its old timer fires and ends the new sleep. |
| `cancelled_sleeper` | `OnlySleepersForced` | `OSCancelThread` of a sleeper leaves its timer and its outstanding park; a thread created at the same address is started by them. |
| `entry_return` | `ListedUntilDead` | A detached thread whose entry function returns is not removed from the list of all threads, as `OSExitThread` would. |
| `frame_hang` | `NoCircularWait` | `end_frame` holds the renderer mutex while it waits for SEALED; the frame of a black screen does not wait for the worker first, so a retrace right after a present stops producer and worker. |

`JoinersWoken` and `ListedUntilDead` are also part of `NobodyForgotten`, which a passing
run checks in scenarios whose calls leave the disagreement out: joins with no mutex held,
and detached threads that exit or are cancelled but do not return.  What passes there is
the rest of each mechanism.

More disagreements were met while modelling.  They have no run of their own; the
definition that fails is kept beside the component with the line it comes from, and the
case can be run with `Cases` set to that component, the constant as given, and the
definition as invariant or property.

| Module, definition | Constant | What the code does |
|---|---|---|
| `GuestScheduler!RunningThreadNotIdle` | | a handler under the idle loop that calls `OSSleepThread` makes the default thread the running one before it is refused |
| `AlarmQueue!GuardStaysHome` | | the deferred reschedule switches fibers while the pump has the guard (comment at `os_alarm.cpp:164`) |
| `AlarmQueue!GuardHasOwner` | | a thread suspended in the middle of a pump keeps the guard until it is resumed, one cancelled there for ever: no alarm is dispatched meanwhile |
| `GuestFibers!NobodyAstray` | `Callbacks` not empty | a thread that loses the host inside an IOS callback comes back with registers of the callback, and one that starts under such a callback runs on its scratch file (`nand_async.cpp:66-69` promises that registers are kept) |
| `CompletionPump!PumpsSurvive` | | a fiber destroyed in the middle of a pump takes the reads it had taken with it, and one destroyed in its drain leaves `g_nandCallbackDrainDepth` raised: no IOS callback is made again |
| `NandFiles!RetryHasHandle` | | a close whose commit fails frees the descriptor that a retry needs |
| `NandFiles!ShadowsApart` | | a safe open does not ask who else writes the file: two sessions share one scratch file, and the close of the first publishes the unfinished second |
| `CompletionPump!CancelMeansIdle` | | the words `DVDCancelAll` waits for are set while the worker has a read |
| `CompletionPump!BusyUntilAnswered` | | a command block in flight still says how its last read ended |
| `IpcSubmit!TransfersKeepRequest` | `Closes` | closing the controller leaks the blocks of armed transfers |
| `PixelEngine!FinishDelivered` | | an acknowledgement that writes back what it read clears a FINISH that came between |
| `VideoInterface!OnlyFlushedShown` | | a setting made after `VIFlush` and never flushed is shown with it |
| `VideoInterface!PollsAdvance` | | a poll while the retrace guard is held by another fiber makes no retrace |
| `LoopServices!CallbacksRespectMask`, `MaskKept` | | native waits open the latch, and the native pair restores it, whatever the title's MSR says (case `native loop`) |
| `AudioDma!CreditKeptInReplay` | | silence credited against a batch is lost when it is replayed in pieces |
| `AudioDma!ClockExact` | | a callback of a replay that stops and starts the DMA: the replay goes back to its target, and the time before the start by which it was behind is spent again, on the new run |
| `Presenter!NeverBack` | `ViInterpolates` | where the VI owns the scanout a group of interpolated images is queued but not latched, so that a later retrace shows the older latched image again (not a mode of this title: `scheduler_wait.cpp:1107`) |
| `FrameWorker!SplitHoldsNothing` | | a split under `end_frame` waits with the outer level of the renderer mutex held (`internal.hpp:155`) |
| `CardImage`, its `CommitOrNot` without the conditions | | a commit torn after a rename that was not committed (`imgPending > 1`) may open with the directory or the table of neither the saved state nor the one being saved; one torn before the copy that an earlier one spoilt is mended may leave no copy to read; one torn between directory and table opens with the two of different saves |

Noted without a definition: a window that changes between an optimistic begin and the
first draw lets draws be recorded into a frame that is never begun
(`aurora-main/lib/aurora.cpp:2232`; `lost` in `FrameWorker`).  In `gx_fifo.cpp`: a packet
of more than 4096 bytes is dropped with what follows it (872-877), a draw of no vertices
leaves the begin state set (1048-1064), up to three bytes after a primitive wait for the
next write.  In `gx_frame.cpp` (71-107) the recording of a display list checks for room
after the write.  In `CardImage`: `_deleteFile` frees only the last block of a chain,
renaming a file onto itself loses it (309-337), `format` passes filler and size in the
wrong order (725), and when the update counter wraps the older copy is taken.

## 5. Proofs

Everything here holds for every value of the constants that satisfies the module's
assumption (which TLC evaluates in every run), so for any number of threads, queues,
requests, blocks and bounds.

| Module | Theorems | Property of a run |
|---|---|---|
| `GuestSchedulerProofs` | `TypesCorrect`, `CallsFitTheScheduler`, `PendingIsExact`, `RunQueuesSound`, `LinkedAtMostOnce`, `ThreadsAreKept`, `SuspendedThreadsDoNotRun`, `MutexRecordsAgree` | `TypeOK`, `ControlSound`, `PendingExact`, `RunQueueSound`, `LinkedOnce`, `NoLostThread`, `SuspendedNeverRuns`, `MutexesAgree` |
| `GuestWaitProofs` | `WaitersAreServed`, `SleepsAreOwned` | `WaitersServed` |
| `MessageQueueProofs` | `TypeCorrect`, `QueueStrandsNobody`, `QueueIsMailbox` | `TypeOK`, `NobodyStranded`, `BoxAbstraction` |
| `HostThreadProofs` | `AlarmsAreInOrder`, `AlarmsAreTyped`, `TasksAreInOrder`, `TasksAreTyped`, `FibersStayApart`, `ContextsStayWhole`, `FibersAreTyped`, `AudioIsExact`, `AudioTypesCorrect` | `AlarmsInOrder`, `TasksInOrder`, `FibersKeepContexts`, `AudioExact` |
| `CompletionPumpProofs` | `CompletionsStayInOrder`, `TypesCorrect`, `TransfersStayInOrder`, `TransfersAreTyped`, `RequestsAreAnswered`, `RequestTypesCorrect`, `CardIsWhole`, `ImageTypesCorrect` | `CompletionsInOrder`, `TransfersInOrder`, `AnswersReachTheirThread`, `CardStaysWhole` |
| `RenderProofs` | `FramesAreHandedOver`, `FramesAreTyped`, `DrawsFindTheirPipelines`, `PipelineTypesCorrect`, `PicturesInOrder`, `PresenterTypeCorrect` | `FramesHandedOver`, `DrawsFindPipelines`, `ShowsInOrder` |
| `DeviceProofs` | `SignalsStayInOrder`, `PixelTypesCorrect`, `RetracesStayExact`, `VideoTypesCorrect`, `PlaybackStaysInOrder`, `PlaybackTypesCorrect`, `RemoteStaysOnLink`, `RemoteIsTyped`, `LoopsStaySafe`, `TypesCorrect` | `SignalsInOrder`, `RetracesExact`, `PlaybackInOrder`, `RemoteKeepsToLink`, `LoopsAreSafe` |
| `DeviceProofs` | `ReadsAreInOrder`, `ReadbackTypesCorrect`, `MixesAreAsInline`, `MixerTypeCorrect`, `SavesAreKept`, `CardTypeCorrect`, `FilesAreSaved`, `NandTypesCorrect` | `ReadbacksInOrder`, `MixesAsInline`, `CardKeepsSaves`, `FilesSurvive` |

Few of these properties are inductive as they stand.  Each proof has the same
shape: an invariant `Inv` that implies the property, a lemma for the initial states, a
lemma for each action, a lemma that joins them, and a theorem that adds `PTL`.  What the
strengthening says is where the argument is.

### Guest scheduler

That a suspended thread does not run, for example, rests on what the fiber on the host is
going to do: a suspended thread's fiber *is* on the host between the moment its count is
raised and the `SelectThread` that follows, and what makes this safe is that nothing
between the two returns to guest code.  `IInv` says so:

- `ControlSound`: the fiber on the host is in one of five modes.  `Running`: its thread
  runs.  `Leaving`: its thread stopped, and above the first `SelectThread` on its stack
  there are only frames of calls that neither block nor rely on the thread.  `InHandler`:
  a handler interrupted guest code, and if it stopped the thread a reschedule is
  requested.  `Idling`: the fiber is in the idle loop.  `IdleHandler`: a handler runs
  from the idle loop.  Every other fiber was left in `SelectThread`, outside handlers and
  idle loops, and its thread does not run.
- `QueuesSound`: a thread is linked in a queue exactly if it is runnable or waiting, in
  the queue its field names, which is the run queue of its priority or a wait queue; no
  queue has a thread twice; the pending mask names the run queues that are not empty; only
  suspended or terminated threads have the priority that stands for no waiter.
- `MutexesAgree` and `TypeOK`.

The theorems assume `HandlersDontBlock`: handlers use suspend, resume, wake, cancel and
detach.  The assumption cannot simply be dropped: `RunningThreadNotIdle` shows what a
handler that sleeps does to the idle loop.

`GuestLemmas` shows what each queue operator does to a set of queues, for queues of any
length, and what replacing the top frame does to `ControlSound`, once for calls that are
safe in every mode and once for those only a running thread makes.  `GuestSchedulerProofs`
has one lemma per action, then `NextStep` and `Invariance`.

`PendingIsExact` and `RunQueuesSound` also justify an abstraction: the two branches with
which `SelectThread` repairs a stale pending bit or a terminated head are not modelled,
and by these theorems the condition they test never holds.

### Those who wait

`WaitersServed` says that wait queues are ordered by priority and that a mutex with
waiters has an owner, unless an unlock or a termination is about to wake them.  Order is
kept because `SetEffectivePriority` requeues the thread whose priority it changes, and a
suspended waiter is moved to the end.  The second part is about the future of a fiber:
`OSLockMutex` looks at the owner, promotes along the chain, and only then sleeps.  So
`WaitInv == WaitQueuesSorted /\ SleepsOwned /\ NoOrphanWaiters`, on top of `IInv`:
`SleepsOwned` says that a sleep on a mutex still to be done is on the stack of the fiber on
the host, is its next call or comes right after the promotion in progress, and names a
mutex that has an owner.  Without it, a sleep on a mutex that was freed in the meantime
could not be excluded.  Once the thread is on the queue the wake of the owner reaches it.

### Message queue

`QueueStrandsNobody`: no receiver waits while there is a message, no sender while there is
room, that nobody was woken for.  `QueueIsMailbox`: with `box` the
messages in the order they would be received, every step of the ring is a step of
`BoundedMailbox` or leaves it alone.  The modular arithmetic of the ring is reduced to two
cases, wrapped or not, before the refinement is shown.

### Alarm queue

`AlarmInv == QueueInv /\ PumpInv`.  `QueueInv`: the queue is sorted by fire time and has no
alarm twice.  The second half is what the first rests on: a fire time is a field of the
alarm, so writing it while the alarm is linked would break the order around it.
`PumpInv`: the disable count is what the one pump has put there, one for a deferred pump
and one for the handler that runs (`DisableCounted`); a pump that does not have the host is
not deferred, has no handler and is not the idle loop's (`GuardCarriedBetween`).  So the
count is back at zero whenever another thread has the host, whichever threads are woken,
suspended or cancelled, by handlers or by others, in a pump of theirs or not.  What is not
proved, because it is not so, is that the guard's holder can run (`GuardStuck`, section 4).

### Task thread

Requests are numbered.  The invariant counts them: those called, the one in hand and
those in the inbox are 1, 2, ... up to the number of requests, in this order, and the slot
of each that is not retired holds its number.  So a slot is never twice in the inbox, and
a request cannot get at the slot in work.

### Guest fibers

`ContextsInv == FiberTypeOK /\ Accounted(...) /\ Named`.  `Accounted` is about who names a
host context: one entry of the table, one place of the list for the next reaper, or the
scheduler's own; each exists, none is named twice, and the one that executes exists.  The
steps need only three lemmas about it (`GivenUp`, `GivenNew`, `Reaped`): a context is given
up, given out, reaped.  `Named`: who is alive has a context, and only the scheduler's entry
names the scheduler's, which is why creating a thread at the address of a dead main thread
does not take it.  This part (`ContextsStayWhole`) does not depend on callbacks.

`RegistersInv` says, of every thread that is alive and not `astray`, where its registers
are (`RegistersKept`): in the register file if it is on the current context, else in the
two saved copies, which agree where its switch may choose either (`LeftOff`); and that its
context uses the shared file, which a callback on it gives back as it found it.  `ParkedOwn`
and `GuestHere` say that what a switch saves it saves under the right thread, also after
one was created at the address of the thread that executes.  Threads go astray at three
places only: a switch in the middle of an IOS callback loses the registers of the thread it
leaves (`GivenUp`); a thread that starts during one runs on its scratch file; and a start
that is deferred at the address of a dead main thread lets the scheduler's context go on
with the new thread's registers (`Mistaken`).  The invariant has to show that the confusion
stays with them: a thread astray saves its registers under its own address and on its own
stack, so the others find theirs.  A thread created again at the address is no longer
astray.  `FibersStayApart` has no assumption about callbacks or deferrals; the property
names the exception.

### Completions

`PumpInv == TypeInv /\ ReadInv /\ CallInv /\ DrainInv`.  `ReadInv`: the store holds reads
in the order of submission, done before in work before waiting; what a pump took it holds
in its own frame, in order; no two pumps hold the same read; and what any pump holds is
older than what is in the store.  That is why a pump entered again from its own callback,
or from another fiber while the first is suspended in a callback, neither loses nor
repeats a read.  A fiber that is destroyed leaves what its pumps had taken to `perished`,
which is apart from everything else.  `CallInv`: the callbacks dispatched and then those
queued are all callbacks, in order.  `DrainInv`: at most one frame on any stack drains, and
the guard is taken exactly while there is one, or since one was destroyed (`drainHeld`).

### IPC transfers

`IpcInv == IpcTypeOK /\ HeldInv /\ ReplyInv`.  `HeldInv`: an armed endpoint names a block
that is used for it, and the blocks used for a disc read are those in the store of deferred
reads, each in one place (`StoreApart`; without it the pump could free a block that is
queued a second time).  `ReplyInv`: a drain that is over has left no callback, and each
event in the queue belongs to a command whose callback has run or is queued; so when the
pump takes an event, which it only does between drains, the callback has run.  Nothing is
assumed about closing the controller: what section 4 says of it is a leak, and
`TransfersStayInOrder` shows that it frees no block too soon.

### Loop services

`LoopInv == LoopTypeOK /\ Saved /\ Away /\ (native = {} => Masked)`.  `Saved`: the
registers of a thread are lost only while `SelectThread` uses them, and restoring them is
then the next thing its checkpoint does.  `Away`: a thread without the processor has a
single frame, so no callback is suspended.  `Masked`: a device is only looked at in a
checkpoint while the latch says no more than the mask of the interrupted code; it is
claimed when no native waits and pairs are used, and section 4 says what they break.

### Pixel engine and video interface

`PixelInv`: waiting tokens stand in the order of the stream and after every token that was
delivered; a FINISH that is to be interrupted for has a condition of its own; the marks a
thread asks for are never more than the renderer has taken.  `VideoInv`: the
counter, its callbacks and the pass that makes them agree on which retrace is being made;
an armed flush is what is pending; and a thread that looked at the counter and goes to
sleep has the processor with no pass under way, so no retrace slips between the look and
the sleep.  These cover both deliveries of interrupts and every width of the counters.

### Host playback

`PlaybackInv == PlaybackTypeOK /\ PlayedInOrder /\ CreditAnnounced` is inductive as it
stands.  `PlayedInOrder` is stated place by place: each number in the ring follows the
last number before it, what was taken last counting as place 0, and the last of all is the
last that was accepted.  So a block need only be compared with the end of the ring, and
what is taken only moves place 0 forward; the one fact about the modulus is that it is
larger than the ring.

### Frame worker

`FrameInv` says what producer and worker may count on while the other goes on.
`PlanInv`: what the producer still has before it is one of a few plans, and each step of a
plan knows how many levels of the renderer mutex are held and which phase has been waited
for.  What it waited for stays true although it looked without the mutex: by `Phase`, the
worker publishes SEALED and DONE within a cycle and withdraws neither, and a new cycle
starts only from the producer's own `end_frame`.  `PassInv` says whose the recorded passes
are: there are none while the worker asks or prepares, and the sealed ones are gone before
DONE.  `AgeInv` gives the guest frame of each draw in the fifo, in the recording and in the
sealed frame, at most one apart.  `DrawsInOrder` then follows from one observation: what is
encoded, sealed, recorded and not yet decoded, read in this order, is one line of draws.
A new draw is put at its end, a draw that finds no frame leaves it, and every other step
of either side leaves the line as it is (`LineKept`).  A draw is only lost when the window
has changed, since otherwise a frame is recorded whenever the producer decodes.
`NoCircularWait` is false of the code (section 4) and not used: the theorem says what the
threads do when they get on, not that they do.

### Virtual remote

`RemoteInv` adds two things to the type and the four parts of `RemoteKeepsToLink`.
`LinkInv`: which events of the link are still in the queue, once each, is determined by
the state of the link, by whether the remote has asked and by whether the stack has
accepted; and a disconnection stands before the request that follows it.  So the event at
the head always fits the state the stack is in: a request finds the link down, a
connection finds it asked for, and with nothing owed.  `AskInv` sharpens
`AsksChannelOnce`: a channel the remote has not begun with is neither asked for nor
answered nor known, so the begin flags, which `Disconnect` resets with the queue, bound the
requests.  The credits are those held plus those in the event queue.  `CountAppend`,
`CountTail` and `CountTwo` say how often something is in a queue of any length.

### Network requests

`NetPlaced`: a request is with its host thread, among the lookups that are published or
taken by the pump, or parked, and its token is no other's.  `AnswersInv`: tokens only grow,
and what has an answer is nowhere on its way.  `CookieInv`: the word behind a wait queue,
which a second waiter in the same stack frame overwrites, names the last request of its
own thread.  `ForcedInv`: only a connection may succeed without a probe.  From the first
three an answer finds the thread that asked, although nothing in the code ties the token
to the thread; from the last a reported success was asked of the socket the request was
made on, because a closed number comes back under another generation.

### Render pipelines

`PipelineInv` has five parts.  `RowsApart`: what is pending is in one of the two queues or
being built, once.  `BuildersApart`: what is built is what the workers have, each its own.
`CountsExact`: the counters are what is queued and the workers that have yet to count
down, which is why they, unsigned in the code, never go below zero.  `DrawsBacked`: the
pipeline of a recorded draw is there, being built, or in the queue of first uses, which
gives up nothing; the queue that does give up entries never has one.  `UsesOnTheWay`: a
first use is on its way to the database or in it, and nothing new comes when the writer
ends.

### Presenter

`GroupInv`: the images encoded and not yet queued are those of the sealed frame, one for
each slot, in order.  `AgesInv`: what is queued, held or latched is of earlier frames, and
so are the images of slots the worker has not reached.  So what is queued next is never
older than what is shown, although retraces queue a latched image again and a full queue
gives up its oldest.  `HeldInv`: a presenter that gives up the mutex to present has a job
in hand.  `LatchInv`: where the VI owns the scanout nothing comes after what is latched.
`PicturesInOrder` assumes `~ViInterpolates`; section 4 says what happens otherwise.

### Readbacks

`WorkInv`: between a copy and its map is the worker, with the copies of the frame it was
given.  `MapsInv` and `MapCountInv`: a buffer is mapping exactly if it is in one of the
maps under way, no buffer is in two of them, and the counter counts them.  `AgesInv`: what
the guest was shown is not newer than what arrives, and that not than what is copied; so a
map that completes late cannot take the guest back, and a failed one leaves what it had.

### Audio processor

One list is in the mixer's hands at a time: pending, then with the worker, then joined
(`TurnsInv`).  Until the join memory has none of its uploads; the shadow has exactly
those of the commands mixed so far and the snapshot what memory held when the mail came
(`ShadowInv`), so every read the worker makes is the read the mail would have made
(`ReadsInv`), and the join stores each upload once (`UploadsAtJoin`).  The model says what
a list leaves in memory and what it reads in closed form (`MemoryAfter`, `ReadBy`: the last
upload to a block decides), which is what lets the prover compare prefixes of a list.

### Memory card

`ToldIsHeld`: every version the title was told is saved is in memory, unless the card is
closed.  `CommandHolds`: the pages of a DMA that is complete are in the file or in the
range of the next commit, also after a commit that failed.  `CheckpointFits`: a checkpoint
of this generation of the card holds its image, so restoring it takes nothing back.
`ClosedClean`: a card that is closed has no range to commit and no command.

### Card image

The chain of a file is a recursive function; `ChainIs` shows by the least counterexample
that it exists for any number of blocks, and `SamePath`, `BlocksKept` and `KeptTidy` that a
table that agrees on a file's blocks has its chain.  `DeleteFrees` is about the code's
`clear(block, 1)`: of a chain only the last block goes, so the table counts one more free
block, and the files that are left keep theirs.  `AllocateTakes` says that the blocks
`nextFreeBlock` finds, around the end of the card, are distinct and were free, whatever was
freed before.  `ImageInv` then has these parts.  `CountersInv`: no copy
counts more updates than there were, and no write is of a file not yet created.  `CopiesInv`
(`PairInv`, of the directory and of the table): the file opens as what was saved, and no
valid copy is newer; with nothing pending, memory is the file's two copies; with updates
pending, the current copy counts as many more; with one pending, the *other* copy in memory
is what was saved, and so it is in the file if both copies are valid.  Hence a torn commit,
which writes the saved copy over with itself, spoils at most the one that was not current.
`ContentsInv`: while the card can be read and its directory and table count alike, they are
tidy, in memory and as saved, and before a commit that is not owed only names differ between
them, and files that have gone (`OnlyRenamed`): so a file's blocks are still what the saved
directory says.  A card that is not so (`ImageLost`) takes no more calls and has nothing to
commit.  `NamesInv` holds of every copy, whichever is opened.  `CardIsWhole` has no
assumption about crashes: that some come after a rename, or over a copy spoilt before, is in
the conditions of `CommitOrNot`.

### NAND files

`NandInv == NandTypeOK /\ NamesApart /\ HandlesSound /\ NoTornFile`.  `NamesApart`: no two
names are of one inode, over renames, deletions of open files and published shadows.
`HandleSound`: a handle without a commit is never on the inode of a shadow, and a file it
can write where it stands is known to be written so; a handle with a commit is on the
shadow it will publish, unless that is shared, and on no other.  `CommitsApart`: a file whose
shadow is not shared has one such handle; `SessionsApart`: no two sessions have one inode,
even where they have one name.  Hence a write changes an unpublished shadow or a file that
makes no promise, and a close publishes its own session.  `sharedShadows` is where a safe
open has taken the shadow of an open session, which the code does not prevent (section 4);
a file leaves it when a session that has the name to itself is closed.  `FilesAreSaved`
assumes nothing about it.

### Audio DMA

`AudioInv == AudioTypeOK /\ ServiceInv /\ CursorInv /\ ClockConserved /\ OnceOf /\
PromptInv`.  `ServiceInv`: who has `tickActive` shows in what runs, so at most one service
is under way, and the busy flag is raised exactly in the callback.  `CursorInv`: time is
never taken up to a moment to come, and a replay takes it up to its target and no further,
unless its callback starts the DMA; a block is thus paid for with time that has passed..
`OnceOf`: whatever was played is not newer than the submission played last, and that not
than the one that plays, so what autoreload repeats is known to be stale.  `PromptInv` is
about a title that submits a block in every callback: one block is programmed behind the
one that plays, but between the interrupt and what its callback submits, and no block ends
while its callback runs.  What makes a late service harmless is then arithmetic
(`OneBoundary`): a poll that needs no replay meets one boundary, and a replay takes its
boundaries one by one with a callback in between.  The lemmas `BoundariesFit`,
`AdvancedFields` and `PublishedFields` say what one look at the clock does with any number
of blocks; every action is then one of a few kinds of look (`DmaStands`, `DmaChanges`).  A
start in a replay is the one exception to the clock: `NearTarget` says that the replay then
takes no more than the time from its target to the start, which `ClockConserved` names
(`dmaBehind`).  That an interrupt is acknowledged for its callback only (`HeardOrBusy`) is
proved as a property of steps.

## 6. What is only model-checked

- `JoinersWoken`, `SleeperKept` and `ListedUntilDead` (together `NobodyForgotten`): they
  do not hold for all calls (section 4), and the scenarios that leave the calls out are
  sets of calls rather than an assumption about one.
- `UrgencyOrder`, `NoPriorityInversion`, `InheritsOnlyFromWaiters` (together
  `UrgencyExact`): priorities are exact only at rest.  In between, along a chain of owners,
  the walk in progress says which link is inexact, and that walk may be on a fiber that is
  cancelled, after which nobody continues it (`os_thread.cpp:421` and `:489`).
- `PicturesAreRight` (display lists), which folds over the commands of a list.
- `IdleServesSleepers`, `EverythingServed`, `DevicesGetTheirTurn`: liveness is beyond the
  prover, as is `ENABLED`.
- What a loop over data computes (the walk over owners to any depth, the effect of a
  display list): induction over data is beyond the prover too; those operators are folds
  and recursive functions that TLC evaluates.  Where the numbers are all there is, as in
  the chain of a card's blocks, a least counterexample does instead.

## 7. Assumptions and abstractions

Scheduler:

- `Main`, the default thread, neither exits nor is cancelled.
- Guest code passes only threads it created and has not seen the end of (`Sensible`), and
  uses the memory of a dead OSThread for a new thread only when no mutex is on its list
  and nobody is in its join queue (`GuestCreatesThread`).
- A handler makes one call, creates no threads and takes no mutexes.
- Of time, only what is due: any set of armed timers may be due at a scan, and they fire in
  any order, a superset of the deadline order.
- Not in the state: exit values, the cap on wake-ups in one call, the clamping of
  priorities, exception vectors, contexts other than a thread's own, the saving and
  loading of registers (`GuestFibers` and `LoopServices` have them).
- The scenario `death` leaves exact priorities out (section 6).
- A message queue has at least one slot; with none, a send would report success and drop
  the message.

Other components:

- `NetworkDeferral`: what the host network answers is nondeterministic.  What `accept` may
  do is among what `recv` may do, so the instance has no `accept`.
- `IpcSubmit`: a drain empties the queue (it may dispatch 64); `CompletionPump` has the
  batch that is used up.
- `CardFlash`: the batched mode is used by tests only in this repository; both are there.
- `HostPlayback`: a block fits above the cushion, as the sizes in the code have it.
- `AxMixer`: command lists are well formed and upload no more than the shadow holds; the
  worker throws nothing; the Wii build.  A DMA interrupt latched by `StartDMA` runs its
  callback without a join.
- `AlarmQueue`: which of several equally urgent threads `SelectThread` takes is left open.
- `GuestFibers`: which thread is chosen is left open.  Outside an IOS callback a disc callback
  is part of what a thread computes, as it runs on the file of its thread; inside one, disc
  callbacks are modelled one deep, and not for a thread that started on the scratch file
  (which is astray).  A start is deferred any number of times.
- `CompletionPump`: what a destroyed fiber's pump had taken is lost; the thread may be created
  anew at the same address.
- `PipelineCache`: no workers that only pre-warm, since `projects/meteor/CMakeLists.txt:16`
  defines `LOW_MEMORY_PIPELINE_PREWARM`.
- `FrameWorker`: an aborted map of the staging buffers is left out, and the callback with which
  the producer's wait for the worker lets a title poll (`aurora.cpp:637-642`); in the liveness
  instance black screens wait for the worker first, as the hang of section 4 is known.
- `Presenter`: Meteor shows the last image again and never waits for a retrace
  (`scheduler_wait.cpp:1107`); a retrace shows one image per group under VI; deadlines and
  jobs that only hold the image are left out.
- `AudioDma`: a submission is a number, time (doubles in the code) is whole units that
  divide every block, and the ring behind it is `HostPlayback`.  A prompt title is one whose
  callback always submits in no time, which neither masks interrupts nor stops, and whose
  host answers; other titles may do anything at any time.
- `GpuReadback`: the graphics library completes maps in the order of the copies, and a
  split is encoded, submitted and followed by its `after_submit` in one step.  A copy beyond
  the limit of slots, or off screen, is downloaded when the guest asks for it
  (`efb_ram_copy.cpp:200-219`), which is not modelled; nor is `abort_async`, which drops the
  sealed copies of a frame that is given up.
- `DisplayLists`: one vertex attribute and one matrix array stand for all; lists nest
  once; the guest flushes what it rewrites before it calls it; source vertex
  descriptor overrides are left out; the two options without a
  caller in the repository (`sparse`, `deindexed`) are modelled through `option`.
- `CardImage`: after a crash that leaves no copy to read, or directory and table of different
  saves, the title's calls are not followed (`CardCalls`).
- `NandFiles`, `CardFlash`, `CardImage`: contents are versions; a crash keeps what was
  synced and any part of what was not, as far as the code's calls leave it open.
- Behaviour outside `src/` (guest code that cancels an alarm or inserts one, the host's
  file system, the graphics library) is modelled from how the code uses it and marked
  external in the map.

## 8. Not modelled

Vendored code (`third_party`), assets and build files.  Address translation and page
mapping (`memory.cpp`), relocation (`dynamic_module.cpp`), path lookup, input mapping,
settings and overlay: sequential data transformation or user interface, where a model
would repeat the table or the loop it models.  The graphics backend's shaders and
register caches and the raw FIFO parser: data, with the state in the driver; only what
crosses threads is modelled.  `GameCube_ServiceExternalInterrupts` has no caller in this
title, but its delivery is in `PixelEngine`.  The translator is an offline compiler.  The
map covers about a tenth of the repository's lines: most of the rest is generated-code
support, tables, instruction semantics and graphics data.

## 9. Plan

1. What can be proved about `DisplayLists`, the one component that is only model-checked:
   the scan cache against the text it was made from, as far as its folds allow.  A
   component to prove about is extended by its MC module, with names of its own.
2. The priorities: an invariant about the walk along owners in progress, for calls without
   cancellation.
3. The raw FIFO parser (`gx_fifo.cpp`) with its command stream, and the renderer's register
   caches.
4. Clocks: monotonicity of the scaled guest clock.
