---------------------------- MODULE MessageQueue ----------------------------
(***************************************************************************)
(* OSMessageQueue (runtime/src/hle/os/os_message.cpp): a ring buffer in    *)
(* guest memory with the queue of threads that wait to send and the queue  *)
(* of those that wait to receive.                                          *)
(*                                                                         *)
(* Of the scheduler it keeps what GuestSelect shows: OSSleepThread links   *)
(* the caller and gives the host to another thread, OSWakeupThread empties *)
(* a wait queue and may give the host to another thread before it returns, *)
(* so that a caller may be in the middle of either while others run.       *)
(***************************************************************************)
EXTENDS Naturals, Sequences, FiniteSets

CONSTANTS
  Threads,    \* threads that use the queue
  Messages,   \* the values sent
  Capacity,   \* OSMessageQueue.msgCount
  NoMessage,  \* no value: what a call that receives nothing leaves
  NoCall,     \* the thread is not in a call of this module
  NoThread    \* nobody has the host: the idle loop of SelectThread

ASSUME CapacityAssumption == Capacity \in Nat \ {0}
ASSUME ValuesAssumption == NoMessage \notin Messages /\ NoThread \notin Threads

VARIABLES
  array,      \* the words at OSMessageQueue.msgArray
  first,      \* OSMessageQueue.firstIndex
  used,       \* OSMessageQueue.usedCount
  sendQueue,  \* the threads parked on the send queue
  recvQueue,  \* the threads parked on the receive queue
  call,       \* the call each thread is in, until it has taken effect
  result,     \* return value and received message of the last call
  waking,     \* threads inside the OSWakeupThread of their call
  host        \* the thread whose fiber is on the host

ringVars == <<array, first, used>>
vars == <<ringVars, sendQueue, recvQueue, call, result, waking, host>>

Call == [op : {"send", "jam"}, msg : Messages, block : BOOLEAN]
          \cup [op : {"receive"}, msg : {NoMessage}, block : BOOLEAN]
Result == [ok : BOOLEAN, msg : Messages \cup {NoMessage}]
Failed == [ok |-> FALSE, msg |-> NoMessage]

ASSUME NoCallAssumption == NoCall \notin Call

-----------------------------------------------------------------------------
(* The ring.                                                               *)

\* The slot i places after slot f.
Slot(f, i) == (f + i) % Capacity

MsgQueueIsFull == used >= Capacity
MsgQueueIsEmpty == used = 0

MsgQueueEnqueue(m) ==
  /\ array' = [array EXCEPT ![Slot(first, used)] = m]
  /\ used' = used + 1
  /\ UNCHANGED first

\* Mutant: jamming before slot 0 stays at slot 0.
MsgQueueJamAtZero(m) ==
  LET f == IF first = 0 THEN 0 ELSE first - 1
  IN  /\ array' = [array EXCEPT ![f] = m]
      /\ first' = f
      /\ used' = used + 1

MsgQueueJam(m) ==
  LET f == IF first = 0 THEN Capacity - 1 ELSE first - 1
  IN  /\ array' = [array EXCEPT ![f] = m]
      /\ first' = f
      /\ used' = used + 1

\* Mutant: the index of the oldest message does not wrap.
MsgQueueDequeueNoWrap ==
  /\ first' = first + 1
  /\ used' = used - 1
  /\ UNCHANGED array

MsgQueueDequeue ==
  /\ first' = Slot(first, 1)
  /\ used' = used - 1
  /\ UNCHANGED array

\* The test and the operation MsgQueueOp is given by its three callers.
Ready(c) == IF c.op = "receive" THEN ~MsgQueueIsEmpty ELSE ~MsgQueueIsFull
Apply(c) ==
  CASE c.op = "send" -> MsgQueueEnqueue(c.msg)
    [] c.op = "jam" -> MsgQueueJam(c.msg)
    [] c.op = "receive" -> MsgQueueDequeue
Received(c) == IF c.op = "receive" THEN array[first] ELSE NoMessage

-----------------------------------------------------------------------------
(* The blocking loop.                                                      *)

Parked == sendQueue \cup recvQueue
CanRun == Threads \ Parked

\* Mutant: a send that finds a receiver waiting wakes only that one.
WakeOppositeOne(c) ==
  IF c.op = "receive"
  THEN sendQueue' = {} /\ UNCHANGED recvQueue
  ELSE /\ IF recvQueue = {} THEN UNCHANGED recvQueue
          ELSE \E t \in recvQueue : recvQueue' = recvQueue \ {t}
       /\ UNCHANGED sendQueue

\* OSWakeupThread on the queue of those the operation makes room or a message for.
WakeOpposite(c) ==
  IF c.op = "receive"
  THEN sendQueue' = {} /\ UNCHANGED recvQueue
  ELSE recvQueue' = {} /\ UNCHANGED sendQueue

\* SelectThread: the host goes to a thread that can run, if there is one.
SelectThread ==
  \/ host' \in Threads \ (sendQueue' \cup recvQueue')
  \/ Threads \subseteq sendQueue' \cup recvQueue' /\ host' = NoThread

InGuestCode(t) == call[t] = NoCall /\ t \notin waking

\* OSSendMessage, OSJamMessage and OSReceiveMessage, up to the loop.
GuestCalls ==
  /\ host # NoThread /\ InGuestCode(host)
  /\ \E c \in Call : call' = [call EXCEPT ![host] = c]
  /\ UNCHANGED <<ringVars, sendQueue, recvQueue, result, waking, host>>

InLoop == host # NoThread /\ call[host] # NoCall

\* The queue has the shape the call needs: the call takes effect, and the wake may
\* give the host away before it returns.
MsgQueueOpApplies ==
  /\ InLoop
  /\ LET c == call[host] IN
     /\ Ready(c)
     /\ Apply(c)
     /\ result' = [result EXCEPT ![host] = [ok |-> TRUE, msg |-> Received(c)]]
     /\ WakeOpposite(c)
  /\ call' = [call EXCEPT ![host] = NoCall]
  /\ waking' = waking \cup {host}
  /\ SelectThread

MsgQueueOpReturns ==
  /\ host \in waking
  /\ waking' = waking \ {host}
  /\ UNCHANGED <<ringVars, sendQueue, recvQueue, call, result, host>>

MsgQueueOpRefuses ==
  /\ InLoop
  /\ ~Ready(call[host]) /\ ~call[host].block
  /\ result' = [result EXCEPT ![host] = Failed]
  /\ call' = [call EXCEPT ![host] = NoCall]
  /\ UNCHANGED <<ringVars, sendQueue, recvQueue, waking, host>>

\* OSSleepThread; back from it the loop tests the queue again.
MsgQueueOpParks ==
  /\ InLoop
  /\ ~Ready(call[host]) /\ call[host].block
  /\ IF call[host].op = "receive"
     THEN recvQueue' = recvQueue \cup {host} /\ UNCHANGED sendQueue
     ELSE sendQueue' = sendQueue \cup {host} /\ UNCHANGED recvQueue
  /\ SelectThread
  /\ UNCHANGED <<ringVars, call, result, waking>>

\* A handler, which must not block, uses the queue from a checkpoint in guest code
\* or from the idle loop; the wake only marks threads, the switch comes later.
HandlerCalls ==
  /\ host # NoThread => InGuestCode(host)
  /\ \E c \in {d \in Call : ~d.block} :
       Ready(c) /\ Apply(c) /\ WakeOpposite(c)
  /\ UNCHANGED <<call, result, waking, host>>

\* Guest code is switched out, or the idle loop finds a pending thread.
Reschedule ==
  /\ host # NoThread => InGuestCode(host)
  /\ host' \in CanRun /\ host' # host
  /\ UNCHANGED <<ringVars, sendQueue, recvQueue, call, result, waking>>

Init ==
  /\ array \in [0..Capacity - 1 -> {NoMessage}]
  /\ first = 0
  /\ used = 0
  /\ sendQueue = {}
  /\ recvQueue = {}
  /\ call = [t \in Threads |-> NoCall]
  /\ result = [t \in Threads |-> Failed]
  /\ waking = {}
  /\ host \in Threads

Next == GuestCalls \/ MsgQueueOpApplies \/ MsgQueueOpReturns \/ MsgQueueOpRefuses
        \/ MsgQueueOpParks \/ HandlerCalls \/ Reschedule

Spec == Init /\ [][Next]_vars

-----------------------------------------------------------------------------
(* Properties.                                                             *)

\* Ring indices stay within the array and every field within its type.
TypeOK ==
  /\ array \in [0..Capacity - 1 -> Messages \cup {NoMessage}]
  /\ first \in 0..Capacity - 1
  /\ used \in 0..Capacity
  /\ sendQueue \in SUBSET Threads
  /\ recvQueue \in SUBSET Threads
  /\ call \in [Threads -> Call \cup {NoCall}]
  /\ result \in [Threads -> Result]
  /\ waking \in SUBSET Threads
  /\ host \in Threads \cup {NoThread}

\* No receiver waits while there is a message, and no sender while there is room: the wake
\* of an operation empties the queue of the other side, also when a handler sends or another
\* receiver runs first. So senders and receivers never wait for each other.
NobodyStranded ==
  /\ recvQueue # {} => used = 0
  /\ sendQueue # {} => used = Capacity

\* The messages in the order they will be received.
Contents == [i \in 1..used |-> array[Slot(first, i - 1)]]

Mailbox == INSTANCE BoundedMailbox WITH box <- Contents

\* The queue implements a bounded mailbox: messages come out in the order they were
\* sent, jammed ones first, each once, and a call is refused only when it has to be.
BoxAbstraction == Mailbox!Spec
=============================================================================
