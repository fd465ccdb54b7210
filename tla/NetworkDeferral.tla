--------------------------- MODULE NetworkDeferral --------------------------
(***************************************************************************)
(* Network requests that may block (runtime/src/hle/net/network_deferred   *)
(* .cpp): a synchronous caller parks on a wait queue in its own stack      *)
(* frame, an asynchronous one names a callback. Name lookups run on host   *)
(* threads; accept, connect, receive and poll stay on a list that the      *)
(* completion pump probes without blocking. Meanwhile the guest closes and *)
(* reopens sockets, and cancels threads and creates others whose stacks,   *)
(* and so whose wait queues, have the same addresses.                      *)
(***************************************************************************)
EXTENDS Naturals, Sequences, FiniteSets

CONSTANTS
  NetThreads,   \* OSThread addresses that make requests
  Fds,          \* slots of g_sockets
  NetKinds,     \* kinds of requests made in the instance
  NetRequests,  \* bound: requests made
  MaxOpens,     \* bound: socket generations
  NoCaller      \* an asynchronous request: its route is a callback

AllKinds == {"dns", "poll", "accept", "recv", "connect"}

RequestsAssumption ==
  /\ NetKinds \subseteq AllKinds /\ NoCaller \notin NetThreads
  /\ NetRequests \in Nat /\ MaxOpens \in Nat

VARIABLES
  sockets,       \* generation of the socket in each slot, 0 when it is free
  opened,        \* g_nextSocketGeneration
  netState,      \* state of each thread
  cookie,        \* the word behind each thread's wait queue: the token it waits for
  nextToken,     \* the next request (its token when it is synchronous)
  resolvers,     \* lookups running on host threads
  resolved,      \* lookups they have published
  netPending,    \* pendingPolls, pendingAccepts, pendingRecvs, pendingConnects
  netResults,    \* syncResults
  netCallbacks,  \* results handed to NandQueueIosCallback
  pumping,       \* Network_HLE_ProcessCompletions is in progress: the lookups it has taken and
  netReady,      \* has not delivered, and
  netRest        \* the tokens of the parked requests it has not probed

netSockets == <<sockets, opened>>
netAnswers == <<netResults, netCallbacks>>
pumpWork == <<pumping, netReady, netRest>>
netHost == <<resolvers, resolved>>
netGuest == <<netState, cookie>>
netVars == <<netSockets, netGuest, nextToken, netHost, netPending, netAnswers, pumpWork>>

NetTokens == 1 .. NetRequests
NetOutcomes == {"ok", "error", "timeout", "stale", "aborted"}

\* A request: expired is its deadline, forced a result it has without a probe.
NetWork == [token : NetTokens, thread : NetThreads \cup {NoCaller}, kind : AllKinds,
            fd : Fds, generation : 0 .. MaxOpens, timed : BOOLEAN, expired : BOOLEAN,
            forced : NetOutcomes \cup {"none"}]
NetAnswer == [token : NetTokens, outcome : NetOutcomes]
LookupDone == [work : NetWork, outcome : {"ok", "error"}]

NetQuiet == ~pumping

-----------------------------------------------------------------------------
(* Sockets.                                                                *)

\* SocketIdentityIsCurrent.
SameSocket(w) == sockets[w.fd] # 0 /\ sockets[w.fd] = w.generation

NextGeneration(fd) ==
  /\ opened < MaxOpens
  /\ opened' = opened + 1
  /\ sockets' = [sockets EXCEPT ![fd] = opened']

\* AddWiiSocket: the first free slot.
OpenSocket(fd) ==
  /\ NetQuiet /\ sockets[fd] = 0
  /\ NextGeneration(fd)
  /\ UNCHANGED <<netGuest, nextToken, netHost, netPending, netAnswers, pumpWork>>

\* AbortPendingDeferredConnects, -Accepts and -Recvs.
AbortParked(fd) ==
  netPending' = {IF w.fd = fd /\ w.kind # "poll" /\ w.forced = "none"
              THEN [w EXCEPT !.forced = "aborted"] ELSE w : w \in netPending}

\* DeleteWiiSocket.
CloseSocket(fd) ==
  /\ NetQuiet /\ sockets[fd] # 0
  /\ sockets' = [sockets EXCEPT ![fd] = 0]
  /\ AbortParked(fd)
  /\ UNCHANGED <<opened, netGuest, nextToken, netHost, netAnswers, pumpWork>>

\* SO_SHUTDOWN of the write half: the socket stays.
ShutdownSocket(fd) ==
  /\ NetQuiet /\ sockets[fd] # 0
  /\ AbortParked(fd)
  /\ UNCHANGED <<netSockets, netGuest, nextToken, netHost, netAnswers, pumpWork>>

\* Another host socket takes over the slot; nothing is aborted.
ReconnectSocket(fd) ==
  /\ NetQuiet /\ sockets[fd] # 0
  /\ NextGeneration(fd)
  /\ UNCHANGED <<netGuest, nextToken, netHost, netPending, netAnswers, pumpWork>>

-----------------------------------------------------------------------------
(* Requests.                                                               *)

\* What the host connect of a submission has said: nothing yet, or how it ended.
ConnectSays(kind) == IF kind = "connect" THEN {"none", "ok", "error"} ELSE {"none"}
HasDeadline(kind) == CASE kind \in {"recv", "connect"} -> {TRUE}
                 [] kind = "poll" -> BOOLEAN
                 [] OTHER -> {FALSE}

\* The request is handed to a host thread or put on its list.
Install(kind, fd, thread) ==
  /\ nextToken \in NetTokens
  /\ nextToken' = nextToken + 1
  /\ kind \in {"dns", "poll"} \/ sockets[fd] # 0
  /\ \E forced \in ConnectSays(kind), timed \in HasDeadline(kind) :
       LET w == [token |-> nextToken, thread |-> thread, kind |-> kind, fd |-> fd,
                 generation |-> sockets[fd], timed |-> timed, expired |-> FALSE,
                 forced |-> forced]
       IN  IF kind = "dns"
           THEN resolvers' = resolvers \cup {w} /\ UNCHANGED <<resolved, netPending>>
           ELSE netPending' = netPending \cup {w} /\ UNCHANGED netHost

\* IOS_Ioctl: the token is written behind the queue and the thread sleeps on it.
\* OSSleepThread may refuse; the thread then asks for its result at once.
StartSync(t, kind, fd, parks) ==
  /\ NetQuiet /\ netState[t] = "running"
  /\ Install(kind, fd, t)
  /\ cookie' = [cookie EXCEPT ![t] = nextToken]
  /\ netState' = [netState EXCEPT ![t] = IF parks THEN "waiting" ELSE "refused"]
  /\ UNCHANGED <<netSockets, netAnswers, pumpWork>>

\* IOS_IoctlAsync.
StartAsync(kind, fd) ==
  /\ NetQuiet /\ Install(kind, fd, NoCaller)
  /\ UNCHANGED <<netSockets, netGuest, netAnswers, pumpWork>>

\* FinishDeferredIosWait: the thread goes on, with its result if there is one.
FinishWait(t) ==
  /\ NetQuiet /\ netState[t] \in {"woken", "refused"}
  /\ netState' = [netState EXCEPT ![t] = "running"]
  /\ netResults' = {a \in netResults : a.token # cookie[t]}
  /\ UNCHANGED <<netSockets, cookie, nextToken, netHost, netPending, netCallbacks, pumpWork>>

NetThreadDies(t) ==
  /\ NetQuiet /\ netState[t] # "dead"
  /\ netState' = [netState EXCEPT ![t] = "dead"]
  /\ UNCHANGED <<netSockets, cookie, nextToken, netHost, netPending, netAnswers, pumpWork>>

\* A thread at the same address, with the same stack.
NetThreadBorn(t) ==
  /\ NetQuiet /\ netState[t] = "dead"
  /\ netState' = [netState EXCEPT ![t] = "running"]
  /\ UNCHANGED <<netSockets, cookie, nextToken, netHost, netPending, netAnswers, pumpWork>>

\* NandProcessPendingCallbacks takes the oldest callback.
NetCallBack ==
  /\ NetQuiet /\ netCallbacks # <<>>
  /\ netCallbacks' = Tail(netCallbacks)
  /\ UNCHANGED <<netSockets, netGuest, nextToken, netHost, netPending, netResults, pumpWork>>

-----------------------------------------------------------------------------
(* The host.                                                               *)

\* RunWorker: a lookup ends, one way or the other, whatever the guest does.
Resolve(w) ==
  /\ resolvers' = resolvers \ {w}
  /\ \E outcome \in {"ok", "error"} :
       resolved' = Append(resolved, [work |-> w, outcome |-> outcome])
  /\ UNCHANGED <<netSockets, netGuest, nextToken, netPending, netAnswers, pumpWork>>

NetExpire(w) ==
  /\ w.timed /\ ~w.expired
  /\ netPending' = (netPending \ {w}) \cup {[w EXCEPT !.expired = TRUE]}
  /\ UNCHANGED <<netSockets, netGuest, nextToken, netHost, netAnswers, pumpWork>>

-----------------------------------------------------------------------------
(* Network_HLE_ProcessCompletions: nothing of the guest runs until it ends. *)

\* Mutant: a thread that waits on the queue is taken for the one that asked.
WaiterAnyToken(w) == w.thread = NoCaller \/ netState[w.thread] = "waiting"

\* DeferredNetworkWaiterIsValid (a callback needs nobody to wait).
WaiterIsValid(w) ==
  w.thread = NoCaller \/ (netState[w.thread] = "waiting" /\ cookie[w.thread] = w.token)

\* DeliverDeferredNetworkResult.
NetDeliver(w, outcome) ==
  LET answer == [token |-> w.token, outcome |-> outcome]
  IN  IF w.thread = NoCaller
      THEN netCallbacks' = Append(netCallbacks, answer) /\ UNCHANGED <<netResults, netState>>
      ELSE /\ netResults' = netResults \cup {answer}
           /\ netState' = [netState EXCEPT ![w.thread] = "woken"]
           /\ UNCHANGED netCallbacks

NetPumpBegins ==
  /\ NetQuiet
  /\ pumping' = TRUE /\ netReady' = resolved /\ netRest' = {w.token : w \in netPending}
  /\ resolved' = <<>>
  /\ UNCHANGED <<netSockets, netGuest, nextToken, resolvers, netPending, netAnswers>>

\* The oldest lookup; its results are written into guest memory first, which may fail.
PumpLookup ==
  /\ pumping /\ netReady # <<>>
  /\ LET c == Head(netReady)
     IN  IF WaiterIsValid(c.work)
         THEN \E outcome \in {c.outcome, "error"} : NetDeliver(c.work, outcome)
         ELSE UNCHANGED <<netResults, netCallbacks, netState>>
  /\ netReady' = Tail(netReady)
  /\ UNCHANGED <<netSockets, cookie, nextToken, netHost, netPending, pumping, netRest>>

\* ProbeDeferredPoll, -Connect, -Accept, -Recv: what a probe may say of w.
ProbeSays(w) ==
  IF w.forced # "none" THEN {w.forced}
  ELSE IF ~SameSocket(w) THEN {"stale"}
  ELSE {"ok", "error"} \cup (IF w.expired THEN {"timeout"} ELSE {"pending"})

\* A connect that has succeeded is looked at again: its socket may have gone.
FinalOutcome(w, outcome) ==
  IF w.kind = "connect" /\ outcome = "ok" /\ ~SameSocket(w) THEN "stale" ELSE outcome

PumpProbe(w) ==
  /\ pumping /\ netReady = <<>> /\ w.token \in netRest
  /\ netRest' = netRest \ {w.token}
  /\ IF ~WaiterIsValid(w)
     THEN netPending' = netPending \ {w} /\ UNCHANGED <<netResults, netCallbacks, netState>>
     ELSE \E outcome \in ProbeSays(w) :
            IF outcome = "pending"
            THEN UNCHANGED <<netPending, netResults, netCallbacks, netState>>
            ELSE netPending' = netPending \ {w} /\ NetDeliver(w, FinalOutcome(w, outcome))
  /\ UNCHANGED <<netSockets, cookie, nextToken, netHost, pumping, netReady>>

NetPumpEnds ==
  /\ pumping /\ netReady = <<>> /\ netRest = {} /\ pumping' = FALSE
  /\ UNCHANGED <<netSockets, netGuest, nextToken, netHost, netPending, netAnswers, netReady,
                 netRest>>

-----------------------------------------------------------------------------
NetInit ==
  /\ sockets = [fd \in Fds |-> 0] /\ opened = 0
  /\ netState = [t \in NetThreads |-> "running"] /\ cookie = [t \in NetThreads |-> 0]
  /\ nextToken = 1
  /\ resolvers = {} /\ resolved = <<>> /\ netPending = {}
  /\ netResults = {} /\ netCallbacks = <<>>
  /\ pumping = FALSE /\ netReady = <<>> /\ netRest = {}

NetPump == NetPumpBegins \/ PumpLookup \/ (\E w \in netPending : PumpProbe(w)) \/ NetPumpEnds

NetNext ==
  \/ \E fd \in Fds :
       OpenSocket(fd) \/ CloseSocket(fd) \/ ShutdownSocket(fd) \/ ReconnectSocket(fd)
  \/ \E t \in NetThreads, kind \in NetKinds, fd \in Fds, parks \in BOOLEAN :
       StartSync(t, kind, fd, parks)
  \/ \E kind \in NetKinds, fd \in Fds : StartAsync(kind, fd)
  \/ \E t \in NetThreads : FinishWait(t) \/ NetThreadDies(t) \/ NetThreadBorn(t)
  \/ NetCallBack
  \/ \E w \in resolvers : Resolve(w)
  \/ \E w \in netPending : NetExpire(w)
  \/ NetPump

NetSpec == NetInit /\ [][NetNext]_netVars

\* The host runs its threads and its clock; the alarm pump comes round and is not
\* interrupted, and a thread that can run goes on.
NetFairness ==
  /\ WF_netVars(\E w \in resolvers : Resolve(w))
  /\ WF_netVars(\E w \in netPending : NetExpire(w))
  /\ SF_netVars(NetPumpBegins)
  /\ WF_netVars(PumpLookup) /\ WF_netVars(\E w \in netPending : PumpProbe(w))
  /\ WF_netVars(NetPumpEnds)
  /\ SF_netVars(NetCallBack)

NetFairSpec == NetSpec /\ NetFairness

-----------------------------------------------------------------------------
(* Properties.                                                             *)

NetTypeOK ==
  /\ sockets \in [Fds -> 0 .. MaxOpens] /\ opened \in 0 .. MaxOpens
  /\ netState \in [NetThreads -> {"running", "waiting", "woken", "refused", "dead"}]
  /\ cookie \in [NetThreads -> 0 .. NetRequests]
  /\ nextToken \in 1 .. NetRequests + 1
  /\ resolvers \subseteq NetWork /\ netPending \subseteq NetWork
  /\ resolved \in Seq(LookupDone)
  /\ netResults \subseteq NetAnswer /\ netCallbacks \in Seq(NetAnswer)
  /\ pumping \in BOOLEAN /\ netReady \in Seq(LookupDone)
  /\ netRest \subseteq {w.token : w \in netPending}

\* A thread is woken with the result of its own request at hand: a late answer to
\* a thread that was cancelled does not wake the one that now waits at the same
\* address (network_deferred.cpp:755-757, 770-771).
WokenHasResult ==
  \A t \in NetThreads : netState[t] = "woken" => \E a \in netResults : a.token = cookie[t]

\* Where the tokens of requests are.
TokensOf(S) == {w.token : w \in S}
LookupsIn(q) == {q[i].work : i \in 1 .. Len(q)}
NetInFlight ==
  TokensOf(resolvers \cup netPending \cup LookupsIn(resolved) \cup LookupsIn(netReady))

\* A thread that waits has its request somewhere: nothing drops the request of a
\* waiter that is still there.
NoLostWaiter ==
  \A t \in NetThreads : netState[t] = "waiting" => cookie[t] \in NetInFlight

\* A request is answered once: nothing of it is in flight once it has an answer,
\* and no token has two.
AnsweredOnce ==
  /\ \A a \in netResults : a.token \notin NetInFlight
  /\ \A a, b \in netResults : a.token = b.token => a = b
  /\ \A i, j \in 1 .. Len(netCallbacks) :
       netCallbacks[i].token = netCallbacks[j].token => i = j

\* Success is reported only for the socket the request was made on: a slot closed
\* and reused meanwhile does not answer for it.
SuccessIsCurrent ==
  [][\A w \in netPending \ netPending' :
       [token |-> w.token, outcome |-> "ok"]
           \in netResults' \cup {netCallbacks'[i] : i \in 1 .. Len(netCallbacks')}
         => w.generation # 0 /\ sockets[w.fd] = w.generation]_netVars

\* A waiter whose request must end, because it is a lookup, has a deadline or its
\* socket is gone, does not wait for ever.
WaitsFor(t, k) == netState[t] = "waiting" /\ cookie[t] = k
Expects(t, k) ==
  WaitsFor(t, k) /\ \A w \in netPending : w.token = k => w.timed \/ ~SameSocket(w)
WaitersAreServed ==
  \A t \in NetThreads, k \in NetTokens : Expects(t, k) ~> ~WaitsFor(t, k)

\* What the deferral promises: each request has one answer, about its own socket, and it
\* reaches the thread that made the request.
AnswersReachTheirThread ==
  [](WokenHasResult /\ NoLostWaiter /\ AnsweredOnce) /\ SuccessIsCurrent
=============================================================================
