----------------------------- MODULE ServicesMC ------------------------------
(***************************************************************************)
(* The services of the guest OS and its devices that only share the one    *)
(* host thread, side by side, on small instances for TLC. The constants of  *)
(* the components are those of the run, but for display lists and the       *)
(* lookups of names, which are instances.                                  *)
(***************************************************************************)
EXTENDS AlarmQueue, GuestFibers, TaskThread, NetworkDeferral, CompletionPump,
  CardImage, PipelineCache, FrameWorker, Presenter, IpcSubmit, Integers,
  Sequences, FiniteSets, TLC

CONSTANTS
  Cases,   \* the components this run explores
  Small,   \* the instances for the liveness properties
  hi, lo, a1, f1, f2,
  n1, fd,
  m, t,
  r1, r2, r3,
  h1, h2

VARIABLES
  at,  \* the case of this behaviour
  \* DisplayLists
  vtx, hash, dlLive, applied, cursor, dlScans, version, gen, option, drew, meant, ops

dlVars == <<vtx, hash, dlLive, applied, cursor, dlScans, version, gen, option, drew,
            meant, ops>>

\* The rows of the database of pipelines.
CachedMC == IF Small THEN <<h1>> ELSE <<>>
DeferredMC == IF Small THEN <<>> ELSE <<h1>>

\* How urgent the threads of the alarm queue are.
UrgencyMC == (lo :> 1) @@ (hi :> 2)

\* The texts of three display lists, before and after the guest rewrites them: far and
\* near indices, register writes between draws, a nested list, matrix loads.
DlDraw(row, idx) == [op |-> "draw", row |-> row, idx |-> idx]
DlTexts ==
  [la |-> << <<DlDraw("r0", <<0>>)>>, <<DlDraw("r0", <<3>>)>> >>,
   lb |-> << <<[op |-> "fmt", row |-> "r1", to |-> "f2"], DlDraw("r1", <<1>>),
               [op |-> "array", attr |-> "vtx", to |-> "b2"],
               [op |-> "desc", to |-> "index"], DlDraw("r0", <<1>>)>>,
             <<[op |-> "fmt", row |-> "r0", to |-> "f2"], [op |-> "xf", idx |-> 1]>> >>,
   lc |-> << <<[op |-> "call", list |-> "la"], [op |-> "xf", idx |-> 1], DlDraw("r1", <<1>>)>>,
             <<DlDraw("r1", <<3, 1>>), [op |-> "xf", idx |-> 1], DlDraw("r0", <<1>>)>> >>]

Cut == INSTANCE GuestFibers WITH
  Addresses <- {m, t}, Callbacks <- {"ios", "disc"}
Dns == INSTANCE NetworkDeferral WITH
  NetKinds <- {"dns", "recv"}, NetRequests <- 1
Dl == INSTANCE DisplayLists WITH
  Lists <- {"la", "lb", "lc"}, ListText <- DlTexts, Bases <- {"b1", "b2"},
  Spacing <- ("b1" :> "tight") @@ ("b2" :> "padded"), Rows <- {"r0", "r1"},
  Fracs <- {"f1", "f2"}, Indices <- {0}, Sparse <- TRUE, Deindexed <- TRUE,
  MaxScans <- 2, MaxWrites <- 1, MaxOps <- 3, NoBase <- "none", live <- dlLive,
  scans <- dlScans

ASSUME ServicesAssumption ==
  /\ ThreadsAssumption
  /\ AlarmsAssumption
  /\ NoFrameAssumption
  /\ FibersAssumption
  /\ EntriesAssumption
  /\ Cut!FibersAssumption
  /\ Cut!EntriesAssumption
  /\ TaskAssumption
  /\ RequestsAssumption
  /\ Dns!RequestsAssumption
  /\ PumpAssumption
  /\ CardImageAssumption
  /\ PipelineAssumption
  /\ FrameAssumption
  /\ PresenterAssumption
  /\ IpcAssumption
  /\ Dl!DisplayListAssumption

-----------------------------------------------------------------------------
(* A behaviour belongs to one case: the components share no state, so every *)
(* interleaving of them is a shuffle of such behaviours.                   *)

Init ==
  /\ at \in Cases
  /\ AlarmInit
  /\ FiberInit
  /\ TaskInit
  /\ NetInit
  /\ PumpInit
  /\ ImageInit
  /\ PipelineInit
  /\ FrameInit
  /\ PresenterInit
  /\ IpcInit
  /\ Dl!Init
  /\ at # "pipelines" => ~HasThreads /\ ~skips
  /\ at # "presenter" => ~viOwns
  /\ at # "display lists" => vtx.desc = "direct" /\ ~ option.sparse /\ ~ option.deindexed

\* Case c acts; the state of the others stays.
Only(c) ==
  /\ at = c /\ UNCHANGED at
  /\ IF c = "alarms" THEN TRUE ELSE UNCHANGED alarmVars
  /\ IF c \in {"fibers", "interrupted fibers"} THEN TRUE ELSE UNCHANGED fiberVars
  /\ IF c = "tasks" THEN TRUE ELSE UNCHANGED taskVars
  /\ IF c \in {"network", "lookups"} THEN TRUE ELSE UNCHANGED netVars
  /\ IF c = "completions" THEN TRUE ELSE UNCHANGED pumpVars
  /\ IF c = "card image" THEN TRUE ELSE UNCHANGED imgVars
  /\ IF c = "pipelines" THEN TRUE ELSE UNCHANGED pipelineVars
  /\ IF c = "frames" THEN TRUE ELSE UNCHANGED frameVars
  /\ IF c = "presenter" THEN TRUE ELSE UNCHANGED showVars
  /\ IF c = "ipc" THEN TRUE ELSE UNCHANGED ipcVars
  /\ IF c = "display lists" THEN TRUE ELSE UNCHANGED dlVars

Next ==
  \/ Only("alarms") /\ AlarmNext
  \/ Only("fibers") /\ FiberNext
  \/ Only("interrupted fibers") /\ Cut!FiberNext
  \/ Only("tasks") /\ TaskNext
  \/ Only("network") /\ NetNext
  \/ Only("lookups") /\ Dns!NetNext
  \/ Only("completions") /\ PumpNext
  \/ Only("card image") /\ ImageNext
  \/ Only("pipelines") /\ PipelineNext
  \/ Only("frames") /\ FrameNext
  \/ Only("presenter") /\ PresenterNext
  \/ Only("ipc") /\ IpcNext
  \/ Only("display lists") /\ Dl!Next

vars == <<at, alarmVars, fiberVars, taskVars, netVars, pumpVars, imgVars, pipelineVars,
          frameVars, showVars, ipcVars, dlVars>>
Spec == Init /\ [][Next]_vars

\* Only one case acts in a behaviour, so one fairness condition can serve the first
\* need of each component, another the second, and so on.
Weak(n) ==
  \/ /\ Only("alarms")
     /\ \/ n = 1 /\ AlarmThreadSleeps(hi)
        \/ n = 2 /\ AlarmThreadSleeps(lo)
        \/ n = 3 /\ HandlerBegins
        \/ n = 4 /\ HandlerReturns
        \/ n = 5 /\ AlarmPumpEnds
        \/ n = 6 /\ IdleEnds
  \/ /\ Only("network")
     /\ \/ n = 2 /\ \E w \in netPending : NetExpire(w)
        \/ n = 4 /\ \E w \in netPending : PumpProbe(w)
        \/ n = 5 /\ NetPumpEnds
  \/ /\ Only("lookups")
     /\ \/ n = 1 /\ \E w \in resolvers : Dns!Resolve(w)
        \/ n = 2 /\ \E w \in netPending : Dns!NetExpire(w)
        \/ n = 3 /\ Dns!PumpLookup
        \/ n = 4 /\ \E w \in netPending : Dns!PumpProbe(w)
        \/ n = 5 /\ Dns!NetPumpEnds
  \/ /\ Only("completions")
     /\ \/ n = 1 /\ WorkerTakes
        \/ n = 2 /\ WorkerPublishes
        \/ n = 3 /\ PumpGoesOn
  \/ /\ Only("ipc")
     /\ \/ n = 1 /\ DiTakes
        \/ n = 2 /\ DiPublishes
        \/ n = 3 /\ IpcDrainStep
        \/ n = 4 /\ PumpStep
  \/ n = 1 /\ Only("tasks") /\ Worker
  \/ /\ Only("pipelines")
     /\ \/ n = 1 /\ \E w \in Started : BuilderStep(w)
        \/ n = 2 /\ RendererStep
        \/ n = 3 /\ Creates
  \/ /\ Only("frames")
     /\ \/ n = 1 /\ WorkerRuns
        \/ n = 2 /\ Proceeds
  \/ /\ Only("presenter")
     /\ \/ n = 1 /\ Presents
        \/ n = 2 /\ Configures
        \/ n = 3 /\ Publishes
Strong(n) ==
  \/ /\ Only("completions")
     /\ \/ n = 1 /\ PumpBegins
        \/ n = 2 /\ Switch(f1)
        \/ n = 3 /\ OnHost(f1, CallbackReturns)
        \/ n = 4 /\ Switch(f2)
        \/ n = 5 /\ OnHost(f2, CallbackReturns)
  \/ /\ Only("alarms")
     /\ \/ n = 1 /\ AllSleep
        \/ n = 2 /\ IdlePumps
  \/ /\ Only("network")
     /\ \/ n = 1 /\ NetPumpBegins
        \/ n = 2 /\ NetCallBack
  \/ /\ Only("lookups")
     /\ \/ n = 1 /\ Dns!NetPumpBegins
        \/ n = 2 /\ Dns!NetCallBack
  \/ n = 1 /\ Only("ipc") /\ BtPumpBegins

\* The fairness each component states for itself.
FairSpec ==
  /\ Spec
  /\ \A n \in 1..6 : WF_vars(Weak(n))
  /\ \A n \in 1..5 : SF_vars(Strong(n))

\* Register contents are told apart by whose they are: the threads that must find them, and
\* the callback's interrupted thread. What is left of a context that was destroyed, or of a
\* thread that died is not read again.
CallbackLives == callback \in live
Whose(r) == <<{v \in alive \ astray : expected[v] = r}, CallbackLives /\ r = kept>>
WhoseIn(files) == [f \in Files |-> Whose(files[f])]
ResumedContexts == {Scheduler} \cup {table[v].context : v \in alive}
EnteredContexts == {c \in ResumedContexts : c = currentContext \/ parked[c] # Fresh}
FiberOf(v) ==
  IF Has(v) THEN <<table[v].context, table[v].scheduler,
                   IF v \in alive THEN <<Whose(table[v].cpuContext)>> ELSE <<>> >>
  ELSE <<>>
ParkedOn(c) ==
  IF AtStart(c) THEN <<parked[c]>> ELSE <<parked[c].previous, Whose(parked[c].caller)>>
Read ==
  <<at, alarmVars, taskVars, netVars, pumpVars, ipcVars, imgVars,
    pipelineVars, frameVars, showVars, dlVars,
    alive, running, [v \in Threads |-> FiberOf(v)], pendingDelete, guest, live, currentContext,
    astray, draining, CallbackLives,
    IF CallbackLives THEN <<callback, Whose(kept), inDisc>> ELSE <<>>,
    IF CallbackLives /\ inDisc THEN Whose(under) ELSE <<>>,
    IF CallbackLives \/ \E c \in EnteredContexts \cup {currentContext} : base[c] = "scratch"
    THEN WhoseIn(cpu) ELSE Whose(cpu["persistent"]),
    [c \in EnteredContexts |-> base[c]],
    [c \in ResumedContexts \ {currentContext} |-> ParkedOn(c)],
    [v \in alive \ astray |-> Whose(expected[v])]>>


-----------------------------------------------------------------------------
(* Properties: each is that of the component, whose module explains it.    *)

\* Every variable of every component keeps its type.
TypeOK ==
  /\ at = "alarms" => AlarmTypeOK
  /\ at = "fibers" => FiberTypeOK
  /\ at = "interrupted fibers" => Cut!FiberTypeOK
  /\ at = "tasks" => TaskTypeOK
  /\ at = "network" => NetTypeOK
  /\ at = "lookups" => Dns!NetTypeOK
  /\ at = "completions" => PumpTypeOK
  /\ at = "card image" => ImageTypeOK
  /\ at = "pipelines" => PipelineTypeOK
  /\ at = "frames" => FrameTypeOK
  /\ at = "presenter" => ShowTypeOK
  /\ at = "ipc" => IpcTypeOK
  /\ at = "display lists" => Dl!TypeOK

\* What Aurora draws for a display list is what the list's commands say.
PicturesAreRight == at = "display lists" => Dl!DrawsAsCommanded

\* What is asked for, and what then must be given: the first wish of each component, the
\* second and the third.
Asked(i) ==
  \/ at = "alarms" /\ i = 1 /\ Overdue(a1)
  \/ at = "tasks" /\ i <= 3 /\ Requested(i)
  \/ at = "network" /\ i <= 2 /\ Expects(n1, i)
  \/ at = "lookups" /\ i = 1 /\ Dns!Expects(n1, 1)
  \/ at = "completions" /\ IF i <= 2 THEN Submitted(i) ELSE QueuedCall(1)
  \/ at = "ipc" /\ IF i <= 2 THEN ReadInFlight(<<r1, r2>>[i]) ELSE EventWaits
  \/ at = "pipelines" /\ i <= 2 /\ MustBeDrawn(<<h1, h2>>[i])
  \/ at = "frames" /\ i = 1 /\ Busy
  \/ at = "presenter" /\ i = 1 /\ Showing
Given(i) ==
  /\ at = "alarms" => ~Overdue(a1) \/ GuardStuck
  /\ at = "tasks" => Served(i)
  /\ at \in {"network", "lookups"} => ~WaitsFor(n1, i)
  /\ at = "completions" => IF i <= 2 THEN Answered(i) ELSE Made(1)
  /\ at = "ipc" => IF i <= 2 THEN ~ReadInFlight(<<r1, r2>>[i]) ELSE ~EventWaits
  /\ at = "pipelines" => i <= 2 /\ ~MustBeDrawn(<<h1, h2>>[i])
  /\ at = "frames" => ~Busy
  /\ at = "presenter" => ~Showing

\* Every alarm, job, network request, read, callback, event, draw and frame is served in the
\* end: the liveness property of each component, as a behaviour has one case.
EverythingServed == \A i \in 1..3 : Asked(i) ~> Given(i)
=============================================================================
