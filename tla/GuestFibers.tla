---------------------------- MODULE GuestFibers -----------------------------
(***************************************************************************)
(* GuestFiberManager (runtime/src/fiber_manager.cpp): every guest thread   *)
(* runs on a host context of its own, and all of them share one register   *)
(* file. A switch saves the registers under the guest address of the       *)
(* thread that leaves, on the host stack it leaves, or both, and decides   *)
(* on arrival which copy to load. A host context cannot be destroyed while *)
(* it is the current one: it is kept on a list that a later switch reaps.  *)
(* An IOS callback runs on a scratch copy of the register file while its   *)
(* drain lasts (nand_async.cpp:64-79), a callback of a disc read on the    *)
(* shared file itself (dvd.cpp:455-466); both may leave the host to        *)
(* another thread. A fiber whose entry function is EGG::Thread::start and  *)
(* whose object is not complete gives the host to the scheduler's context  *)
(* without SwitchToThread, any number of times up to 50.                   *)
(*                                                                         *)
(* Which thread is chosen is GuestScheduler's business: here any thread    *)
(* that is alive may be.                                                   *)
(***************************************************************************)
EXTENDS Naturals, Sequences, FiniteSets

CONSTANTS
  Threads,     \* guest addresses of OSThread structures
  Addresses,   \* those where threads are created
  Main,        \* the default thread, which owns the scheduler's context
  Contexts,    \* host contexts (addresses may be used again)
  Scheduler,   \* the host context of the process's main thread
  Callbacks,   \* those that come: of IOS, and of disc reads inside them
  NoGuest,
  NoContext,
  NoEntry,     \* the address is not in s_fibers
  Fresh,       \* the host context has not run yet
  Starting     \* it has, but has not called its entry function

FibersAssumption ==
  /\ Main \in Threads /\ Addresses \subseteq Threads /\ NoGuest \notin Threads
  /\ Callbacks \subseteq {"ios", "disc"}
  /\ Scheduler \in Contexts /\ NoContext \notin Contexts

VARIABLES
  alive,      \* guest threads that have neither exited nor been cancelled
  running,    \* OSRunningContext: the thread whose code runs, none in the idle loop
  table,      \* s_fibers
  pendingDelete,  \* s_fibersPendingDelete
  guest,      \* s_currentGuestThread
  currentContext, \* the host context that executes
  live,       \* host contexts that have been created and not destroyed
  parked,     \* what SwitchToThread keeps on the stack of each host context
  cpu,        \* the register files
  computed,   \* how often new contents of a register file have been made
  base,       \* the register file the frames of each host context use
  draining,   \* g_nandCallbackDrainDepth
  callback,   \* the host context inside an IOS callback
  inDisc,     \* inside this callback, the context is in that of a disc read
  expected,   \* the registers each thread left off with (its own view)
  kept,       \* the registers the interrupted thread must find after the callback
  under,      \* the shared register file as the disc's callback found it
  astray      \* threads whose registers the code does not keep: see RegistersBelong

tableVars == <<table, pendingDelete, guest, live, parked>>
callbackVars == <<draining, callback, inDisc, kept, under>>
fileVars == <<base, callbackVars>>
hostVars == <<alive, running, tableVars, currentContext>>
fiberVars == <<hostVars, cpu, computed, fileVars, expected, astray>>

Files == {"persistent", "scratch"}

\* The register file in use on context c.
File(c) == CASE c # callback -> base[c]
             [] c = callback /\ inDisc -> "persistent"
             [] OTHER -> "scratch"
Current == cpu[File(currentContext)]

\* The contents of a register file, told apart by when they were made.
Registers == Nat

Fiber == [context : Contexts \cup {NoContext}, terminated : BOOLEAN,
          scheduler : BOOLEAN, cpuContext : Registers]
Parked == [previous : Threads \cup {NoGuest}, caller : Registers]

EntriesAssumption ==
  NoEntry \notin Fiber /\ {Fresh, Starting} \cap Parked = {} /\ Fresh # Starting

Has(t) == table[t] # NoEntry

\* The thread whose code the host executes, or that sleeps in the idle loop here.
Executing == {t \in alive : table[t].context = currentContext}
Sees(registers) ==
  expected' = [t \in Threads |-> IF t \in Executing THEN registers ELSE expected[t]]

-----------------------------------------------------------------------------
(* Host contexts.                                                          *)

\* PurgePendingFibers: all but the current one are destroyed.
PurgePendingFibers ==
  LET Stays == {i \in DOMAIN pendingDelete : pendingDelete[i] = currentContext}
  IN  /\ pendingDelete' = [i \in 1 .. Cardinality(Stays) |-> currentContext]
      /\ live' = live \ {pendingDelete[i] : i \in DOMAIN pendingDelete \ Stays}

\* The list and the live contexts after c has been given up.
PendingWith(c) == IF c = currentContext THEN Append(pendingDelete, c) ELSE pendingDelete
LiveWithout(c) == IF c = currentContext THEN live ELSE live \ {c}

\* The context CreateGuestFiber or ExitGuestThread gives up for t.
Retired(t) ==
  IF Has(t) /\ ~table[t].scheduler THEN table[t].context ELSE NoContext

-----------------------------------------------------------------------------
(* SwitchToThread, from the save to the load on the other side.            *)

\* The table with the registers saved under the thread that leaves.
Saved(u) ==
  IF guest # NoGuest /\ Has(guest) THEN [table EXCEPT ![guest].cpuContext = Current] ELSE table

\* The register files with those of u loaded by the thread that leaves.
Loaded(u) == [cpu EXCEPT ![File(currentContext)] = table'[u].cpuContext]

\* The SwitchToThread that left context c returns there, for thread u.
Returns(c, u, left) ==
  IF left.previous = u
  THEN cpu' = [Loaded(u) EXCEPT ![File(c)] = table'[u].cpuContext] /\ guest' = u
  ELSE cpu' = [Loaded(u) EXCEPT ![File(c)] = left.caller] /\ guest' = NoGuest

\* A context where FiberProc has not called the entry function.
AtStart(c) == parked[c] \in {Fresh, Starting}

\* On arrival on context c for thread u: at its start FiberProc goes on with what
\* CreateGuestFiber put in the table (it loads the stack pointer, the two small-data
\* pointers and the link register again, which says the same; after a deferral only the
\* argument and the entry point); else the SwitchToThread parked there returns.
Arrive(c, u) ==
  /\ currentContext' = c
  /\ IF AtStart(c) THEN cpu' = Loaded(u) /\ guest' = u ELSE Returns(c, u, parked[c])

\* The start of u is deferred: the SwitchToThread parked on the scheduler's context
\* returns, although the running thread is u.
Defer(c, u) ==
  /\ AtStart(c)
  /\ currentContext' = Scheduler
  /\ Returns(Scheduler, u, parked'[Scheduler])

\* The threads whose registers a switch to u gives up: one left in an IOS callback, and
\* one that starts on the scratch file of another's callback.
GivenUp(u) ==
  (IF callback = currentContext THEN Executing ELSE {})
    \cup (IF AtStart(table[u].context) /\ File(currentContext) = "scratch" THEN {u} ELSE {})

\* So does the deferral of a thread at the address of a dead one that owned the
\* scheduler's context: that context goes on with the new thread's registers.
Mistaken(u) == IF parked'[Scheduler].previous = u THEN {u} ELSE {}

\* The current context is left to c, the context of u.
SwitchContext(c, u) ==
  /\ base' = IF parked[c] = Fresh THEN [base EXCEPT ![c] = File(currentContext)] ELSE base
  /\ LET left == [parked EXCEPT ![currentContext] = [previous |-> guest, caller |-> Current]]
     IN  \/ /\ parked' = left /\ Arrive(c, u)
            /\ astray' = astray \cup GivenUp(u)
         \/ /\ parked' = [left EXCEPT ![c] = Starting] /\ Defer(c, u)
            /\ astray' = astray \cup GivenUp(u) \cup Mistaken(u)

\* SelectThread has chosen u.
SwitchToThread(u) ==
  /\ running' = u
  /\ PurgePendingFibers
  /\ table' = Saved(u)
  /\ IF table[u].context = currentContext
     THEN guest' = u /\ UNCHANGED <<currentContext, parked, cpu, base, astray>>
     ELSE SwitchContext(table[u].context, u)
  /\ UNCHANGED <<alive, computed, expected, callbackVars>>

\* SelectThread leaves the running thread ready, or the idle loop, for u.
Dispatch(u) ==
  /\ u \in alive
  /\ u # running \/ table[u].context # currentContext
  /\ SwitchToThread(u)

-----------------------------------------------------------------------------
(* Guest code.                                                             *)

\* The thread on the host computes, or calls back for a disc read on its own file.
Compute ==
  /\ running # NoGuest
  /\ computed' = computed + 1
  /\ cpu' = [cpu EXCEPT ![File(currentContext)] = computed']
  /\ Sees(computed')
  /\ UNCHANGED <<hostVars, fileVars, astray>>

\* The thread pumps the completions and an IOS callback begins: no other drain is in
\* progress anywhere.
CallbackBegins ==
  /\ "ios" \in Callbacks /\ running # NoGuest /\ ~draining
  /\ draining' = TRUE /\ callback' = currentContext /\ inDisc' = FALSE
  /\ cpu' = [cpu EXCEPT !["scratch"] = Current]
  /\ kept' = Current
  /\ UNCHANGED <<hostVars, computed, base, under, expected, astray>>

\* The callback of a disc read from inside an IOS callback: on the shared file, and so on
\* the registers of the interrupted thread, which it gives back as it found them.
DiscBegins ==
  /\ "disc" \in Callbacks /\ running # NoGuest /\ callback = currentContext /\ ~inDisc
  /\ inDisc' = TRUE /\ under' = cpu["persistent"]
  /\ Sees(cpu["persistent"])
  /\ UNCHANGED <<hostVars, cpu, computed, base, draining, callback, kept, astray>>

DiscEnds ==
  /\ running # NoGuest /\ callback = currentContext /\ inDisc
  /\ inDisc' = FALSE
  /\ cpu' = [cpu EXCEPT !["persistent"] = under]
  /\ Sees(cpu["scratch"])
  /\ UNCHANGED <<hostVars, computed, base, draining, callback, kept, under, astray>>

\* The thread goes on with the register file it had.
CallbackEnds ==
  /\ running # NoGuest /\ callback = currentContext /\ ~inDisc
  /\ draining' = FALSE /\ callback' = NoContext
  /\ Sees(kept)
  /\ UNCHANGED <<hostVars, cpu, computed, base, inDisc, kept, under, astray>>

\* OSSleepThread with nothing to run: its SelectThread idles on this context.
Sleep ==
  /\ running # NoGuest
  /\ running' = NoGuest
  /\ UNCHANGED <<alive, tableVars, currentContext, cpu, computed, fileVars, expected, astray>>

ExitGuestThread(t) ==
  /\ table' = [table EXCEPT ![t].terminated = TRUE,
                            ![t].context = IF table[t].scheduler THEN @ ELSE NoContext]
  /\ guest' = IF guest = t THEN NoGuest ELSE guest
  /\ IF Retired(t) = NoContext THEN UNCHANGED <<pendingDelete, live>>
     ELSE pendingDelete' = PendingWith(Retired(t)) /\ live' = LiveWithout(Retired(t))

\* OSExitThread of the running thread; the dying context idles until the next switch.
Exit ==
  /\ running # NoGuest
  /\ alive' = alive \ {running}
  /\ running' = NoGuest
  /\ ExitGuestThread(running)
  /\ UNCHANGED <<currentContext, parked, cpu, computed, fileVars, expected, astray>>

\* The entry function returns: FiberProc marks the fiber and keeps its context.
Return ==
  /\ running # NoGuest /\ ~table[running].scheduler
  /\ table[running].context = currentContext /\ callback # currentContext
  /\ alive' = alive \ {running}
  /\ running' = NoGuest
  /\ table' = [table EXCEPT ![running].terminated = TRUE]
  /\ UNCHANGED <<pendingDelete, guest, live, currentContext, parked, cpu, computed, fileVars,
                 expected, astray>>

\* OSCancelThread of another thread, by a thread or by a handler in the idle loop.
Cancel(t) ==
  /\ t \in alive /\ t # running
  /\ alive' = alive \ {t}
  /\ ExitGuestThread(t)
  /\ UNCHANGED <<running, currentContext, parked, cpu, computed, fileVars, expected, astray>>

\* Mutant: the registers of a retiring thread may be saved over the new one's.
GuestAfterCreateKept(t) == guest

\* s_currentGuestThread after CreateGuestFiber(t).
GuestAfterCreate(t) ==
  IF Retired(t) = currentContext THEN NoGuest ELSE guest

\* The former context at the address t, if it has one, is given up.
Replace(t) ==
  pendingDelete' = IF Retired(t) = NoContext THEN pendingDelete ELSE PendingWith(Retired(t))

\* OSCreateThread at an address nobody lives at: CreateGuestFiber. A callback whose
\* context has been destroyed never ends.
Create(t) ==
  /\ t \in Addresses \ alive
  /\ computed' = computed + 1
  /\ LET left == IF Retired(t) = NoContext THEN live ELSE LiveWithout(Retired(t))
     IN  \E c \in Contexts \ left :
           /\ live' = left \cup {c}
           /\ table' = [table EXCEPT ![t] = [context |-> c, terminated |-> FALSE,
                                             scheduler |-> FALSE, cpuContext |-> computed']]
           /\ parked' = [parked EXCEPT ![c] = Fresh]
           /\ callback' = IF callback = c THEN NoContext ELSE callback
  /\ Replace(t)
  /\ guest' = GuestAfterCreate(t)
  /\ alive' = alive \cup {t}
  /\ expected' = [expected EXCEPT ![t] = computed']
  /\ astray' = astray \ {t}
  /\ UNCHANGED <<running, currentContext, cpu, base, draining, inDisc, kept, under>>

-----------------------------------------------------------------------------
\* RegisterMainThreadAsFiber has run.
FiberInit ==
  /\ alive = {Main} /\ running = Main
  /\ table = [t \in Threads |->
       IF t = Main THEN [context |-> Scheduler, terminated |-> FALSE,
                         scheduler |-> TRUE, cpuContext |-> 0]
       ELSE NoEntry]
  /\ pendingDelete = <<>> /\ guest = Main
  /\ currentContext = Scheduler /\ live = {Scheduler}
  /\ parked = [c \in Contexts |-> Fresh]
  /\ cpu = [f \in Files |-> 0] /\ computed = 0
  /\ base = [c \in Contexts |-> "persistent"]
  /\ callback = NoContext /\ draining = FALSE /\ inDisc = FALSE
  /\ kept = 0 /\ under = 0
  /\ expected = [t \in Threads |-> 0] /\ astray = {}

FiberNext ==
  \/ \E u \in Threads : Dispatch(u)
  \/ \E t \in Threads : Cancel(t)
  \/ \E t \in Threads : Create(t)
  \/ Compute \/ CallbackBegins \/ CallbackEnds \/ DiscBegins \/ DiscEnds
  \/ Sleep \/ Exit \/ Return

FiberSpec == FiberInit /\ [][FiberNext]_fiberVars

-----------------------------------------------------------------------------
(* Properties.                                                             *)

FiberTypeOK ==
  /\ alive \subseteq Threads
  /\ running \in alive \cup {NoGuest}
  /\ table \in [Threads -> Fiber \cup {NoEntry}]
  /\ pendingDelete \in Seq(Contexts)
  /\ guest \in Threads \cup {NoGuest}
  /\ currentContext \in Contexts
  /\ live \subseteq Contexts
  /\ parked \in [Contexts -> Parked \cup {Fresh, Starting}]
  /\ cpu \in [Files -> Registers] /\ computed \in Nat
  /\ base \in [Contexts -> Files]
  /\ callback \in Contexts \cup {NoContext}
  /\ draining \in BOOLEAN /\ inDisc \in BOOLEAN
  /\ kept \in Registers /\ under \in Registers
  /\ expected \in [Threads -> Registers]
  /\ astray \subseteq Threads

\* A thread that runs does so on its own host context, but for one whose start was
\* deferred: then the scheduler's context goes on in its place. The thread whose code
\* executes has the registers it left off with, whatever ran, died or was created at its
\* address in between, and whatever callback it is in or was interrupted by
\* (nand_async.cpp:66-69); except one that once left the host in the middle of an IOS
\* callback, one that started on the scratch file of such a callback, and one whose start was
\* deferred at the address of a dead owner of the scheduler's context (Mistaken).
RegistersBelong ==
  running # NoGuest =>
    /\ \/ table[running].context = currentContext
       \/ currentContext = Scheduler /\ parked[table[running].context] = Starting
    /\ \A t \in Executing \ astray : Current = expected[t]

\* No step destroys the context it executes on (fiber_manager.cpp:36-42), and every
\* thread that is alive has one to be resumed on.
NoDanglingContext ==
  [][/\ currentContext \in live'
     /\ \A t \in alive' :
          Has(t)' /\ ~table'[t].terminated /\ table'[t].context \in live']_fiberVars

\* A context is destroyed once: it is listed once, still exists, and no fiber
\* that could give it up again still names it.
ReapedOnce ==
  /\ \A i, j \in 1 .. Len(pendingDelete) : pendingDelete[i] = pendingDelete[j] => i = j
  /\ \A i \in 1 .. Len(pendingDelete) :
       /\ pendingDelete[i] \in live
       /\ \A t \in Threads : Has(t) => table[t].context # pendingDelete[i]
  /\ \A t, u \in Threads :
       Has(t) /\ Has(u) /\ table[t].context = table[u].context /\ table[t].context # NoContext
         => t = u

\* No context is lost: a fiber names it or the next switch reaps it.
NoLeak ==
  \A c \in live \ {Scheduler} :
    \/ \E t \in Threads : Has(t) /\ table[t].context = c
    \/ \E i \in 1 .. Len(pendingDelete) : pendingDelete[i] = c

\* Each context is given back once, never under the feet of who runs on it, whatever
\* callbacks do.
ContextsAreKept == [](ReapedOnce /\ NoLeak) /\ NoDanglingContext

\* What the code does not promise: that no thread loses its registers.
NobodyAstray == astray = {}

\* What the fibers promise: every thread keeps its host context, and its registers but for
\* those that a switch gives up: inside an IOS callback, or by mistake (see astray).
FibersKeepContexts == [](RegistersBelong /\ ReapedOnce /\ NoLeak) /\ NoDanglingContext
=============================================================================
