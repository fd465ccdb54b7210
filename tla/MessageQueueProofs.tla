------------------------- MODULE MessageQueueProofs -------------------------
(***************************************************************************)
(* Proofs about MessageQueue: the type invariant, the two invariants that  *)
(* nobody is stranded on a wait queue, and the refinement of               *)
(* BoundedMailbox.  All hold for every number of threads, every set of     *)
(* messages and every capacity but zero.                                   *)
(***************************************************************************)
EXTENDS MessageQueue, SequenceTheorems, TLAPS

\* A slot of the ring, without the remainder.
LEMMA SlotIs ==
  ASSUME NEW f \in 0..Capacity - 1, NEW i \in 0..Capacity
  PROVE  Slot(f, i) = IF f + i < Capacity THEN f + i ELSE f + i - Capacity
<1>1. PICK a \in Nat : a = f + i
  BY CapacityAssumption
<1>2. a < 2 * Capacity
  BY <1>1, CapacityAssumption
<1>3. a % Capacity = IF a < Capacity THEN a ELSE a - Capacity
  BY <1>2, CapacityAssumption, SMTT(60)
<1>4. Slot(f, i) = a % Capacity
  BY <1>1 DEF Slot
<1> QED BY <1>1, <1>3, <1>4, CapacityAssumption

\* A slot of the ring is an index of the array.
LEMMA SlotInRange ==
  ASSUME NEW f \in 0..Capacity - 1, NEW i \in 0..Capacity
  PROVE  Slot(f, i) \in 0..Capacity - 1
  BY SlotIs, CapacityAssumption

\* The initial state has the types.
LEMMA InitTypeOK == Init => TypeOK
  BY CapacityAssumption DEF Init, TypeOK, Result, Failed

-----------------------------------------------------------------------------
(* The type invariant.                                                     *)

\* An operation on the ring that finds the shape it needs keeps the types.
LEMMA ApplyTypeOK ==
  ASSUME TypeOK, NEW c \in Call, Ready(c), Apply(c)
  PROVE  /\ array' \in [0..Capacity - 1 -> Messages \cup {NoMessage}]
         /\ first' \in 0..Capacity - 1
         /\ used' \in 0..Capacity
         /\ Received(c) \in Messages \cup {NoMessage}
<1>1. CASE c.op = "send"
  <2>1. Slot(first, used) \in 0..Capacity - 1
    BY SlotInRange DEF TypeOK
  <2>2. c.msg \in Messages
    BY <1>1 DEF Call
  <2> QED BY <1>1, <2>1, <2>2, CapacityAssumption
          DEF TypeOK, Apply, Ready, MsgQueueEnqueue, MsgQueueIsFull, Received
<1>2. CASE c.op = "jam"
  <2>2. c.msg \in Messages
    BY <1>2 DEF Call
  <2> QED BY <1>2, <2>2, CapacityAssumption
          DEF TypeOK, Apply, Ready, MsgQueueJam, MsgQueueIsFull, Received
<1>3. CASE c.op = "receive"
  <2>0. 1 \in 0..Capacity /\ first \in 0..Capacity - 1
    BY CapacityAssumption DEF TypeOK
  <2>1. Slot(first, 1) \in 0..Capacity - 1
    BY <2>0, SlotInRange
  <2> QED BY <1>3, <2>1, CapacityAssumption
          DEF TypeOK, Apply, Ready, MsgQueueDequeue, MsgQueueIsEmpty, Received
<1> QED BY <1>1, <1>2, <1>3 DEF Call

\* A wake leaves the wait queues sets of threads.
LEMMA WakeTypeOK ==
  ASSUME TypeOK, NEW c \in Call, WakeOpposite(c)
  PROVE  sendQueue' \in SUBSET Threads /\ recvQueue' \in SUBSET Threads
  BY DEF TypeOK, WakeOpposite

\* Every step keeps the types.
LEMMA StepTypeOK == TypeOK /\ [Next]_vars => TypeOK'
<1> SUFFICES ASSUME TypeOK, [Next]_vars PROVE TypeOK'
  OBVIOUS
<1>1. CASE GuestCalls
  BY <1>1 DEF TypeOK, GuestCalls, ringVars
<1>2. CASE MsgQueueOpApplies
  <2>1. call[host] \in Call /\ host \in Threads
    BY <1>2, NoCallAssumption DEF TypeOK, MsgQueueOpApplies, InLoop
  <2>2. Ready(call[host]) /\ Apply(call[host]) /\ WakeOpposite(call[host])
    BY <1>2 DEF MsgQueueOpApplies
  <2>3. result' \in [Threads -> Result]
    BY <1>2, <2>1, <2>2, ApplyTypeOK DEF TypeOK, MsgQueueOpApplies, Result
  <2>4. /\ call' \in [Threads -> Call \cup {NoCall}]
        /\ waking' \in SUBSET Threads
        /\ host' \in Threads \cup {NoThread}
    BY <1>2, <2>1 DEF TypeOK, MsgQueueOpApplies, SelectThread
  <2> QED BY <2>1, <2>2, <2>3, <2>4, ApplyTypeOK, WakeTypeOK DEF TypeOK
<1>3. CASE MsgQueueOpReturns
  BY <1>3 DEF TypeOK, MsgQueueOpReturns, ringVars
<1>4. CASE MsgQueueOpRefuses
  BY <1>4 DEF TypeOK, MsgQueueOpRefuses, InLoop, ringVars, Result, Failed
<1>5. CASE MsgQueueOpParks
  BY <1>5 DEF TypeOK, MsgQueueOpParks, InLoop, SelectThread, ringVars
<1>6. CASE HandlerCalls
  BY <1>6, ApplyTypeOK, WakeTypeOK DEF TypeOK, HandlerCalls
<1>7. CASE Reschedule
  BY <1>7 DEF TypeOK, Reschedule, CanRun, ringVars
<1>8. CASE UNCHANGED vars
  BY <1>8 DEF TypeOK, vars, ringVars
<1> QED BY <1>1, <1>2, <1>3, <1>4, <1>5, <1>6, <1>7, <1>8 DEF Next

\* Every field of the queue keeps its type: the ring indices stay in the array.
THEOREM TypeCorrect == Spec => []TypeOK
  BY InitTypeOK, StepTypeOK, PTL DEF Spec

-----------------------------------------------------------------------------
(* Nobody is stranded.                                                     *)

\* An operation and the wake that goes with it strand nobody.
LEMMA ApplyStrandsNobody ==
  ASSUME TypeOK, NobodyStranded, NEW c \in Call,
         Ready(c), Apply(c), WakeOpposite(c)
  PROVE  NobodyStranded'
<1>1. CASE c.op \in {"send", "jam"}
  <2>1. sendQueue' = {} /\ recvQueue' = {}
    BY <1>1, CapacityAssumption
    DEF TypeOK, NobodyStranded, Ready, MsgQueueIsFull, WakeOpposite
  <2> QED BY <2>1 DEF NobodyStranded
<1>2. CASE c.op = "receive"
  <2>1. sendQueue' = {} /\ recvQueue' = {}
    BY <1>2 DEF NobodyStranded, Ready, MsgQueueIsEmpty, WakeOpposite
  <2> QED BY <2>1 DEF NobodyStranded
<1> QED BY <1>1, <1>2 DEF Call

\* Every step strands nobody.
LEMMA StepStrandsNobody == TypeOK /\ NobodyStranded /\ [Next]_vars => NobodyStranded'
<1> SUFFICES ASSUME TypeOK, NobodyStranded, [Next]_vars PROVE NobodyStranded'
  OBVIOUS
<1> USE DEF NobodyStranded
<1>1. CASE MsgQueueOpApplies
  <2>1. call[host] \in Call
    BY <1>1 DEF TypeOK, MsgQueueOpApplies, InLoop
  <2> QED BY <1>1, <2>1, ApplyStrandsNobody DEF MsgQueueOpApplies
<1>2. CASE HandlerCalls
  BY <1>2, ApplyStrandsNobody DEF HandlerCalls
<1>3. CASE MsgQueueOpParks
  BY <1>3, CapacityAssumption
  DEF TypeOK, MsgQueueOpParks, Ready, MsgQueueIsEmpty, MsgQueueIsFull, ringVars
<1>4. CASE GuestCalls \/ MsgQueueOpReturns \/ MsgQueueOpRefuses \/ Reschedule \/ UNCHANGED vars
  BY <1>4 DEF GuestCalls, MsgQueueOpReturns, MsgQueueOpRefuses, Reschedule, vars, ringVars
<1> QED BY <1>1, <1>2, <1>3, <1>4 DEF Next

\* No receiver is parked while a message is in the queue and no receiver was woken for it,
\* and no sender while there is room and no sender was woken for it: MsgQueueOp wakes the
\* opposite side after each success (OS__SendMessage, OS__JamMessage, OS__ReceiveMessage).
THEOREM QueueStrandsNobody == Spec => []NobodyStranded
<1>1. Init => NobodyStranded
  BY DEF Init, NobodyStranded
<1>2. TypeOK /\ NobodyStranded /\ [Next]_vars => NobodyStranded'
  BY StepStrandsNobody
<1> QED BY <1>1, <1>2, TypeCorrect, PTL DEF Spec

-----------------------------------------------------------------------------
(* The queue implements a bounded mailbox.                                 *)

\* The contents of the ring are a sequence of messages of length used.
LEMMA ContentsShape ==
  ASSUME TypeOK
  PROVE  /\ Contents \in Seq(Messages \cup {NoMessage})
         /\ Len(Contents) = used
         /\ \A i \in 1..used : Contents[i] = array[Slot(first, i - 1)]
<1>1. \A i \in 1..used : Slot(first, i - 1) \in 0..Capacity - 1
  <2> TAKE i \in 1..used
  <2>1. i - 1 \in 0..Capacity /\ first \in 0..Capacity - 1
    BY CapacityAssumption DEF TypeOK
  <2> QED BY <2>1, SlotInRange
<1>2. used \in Nat
  BY CapacityAssumption DEF TypeOK
<1>3. Contents \in [1..used -> Messages \cup {NoMessage}]
  BY <1>1, <1>2 DEF TypeOK, Contents
<1> QED BY <1>2, <1>3 DEF Contents

\* A message that is sent comes last.
LEMMA EnqueueAppends ==
  ASSUME TypeOK, ~MsgQueueIsFull, NEW m \in Messages, MsgQueueEnqueue(m)
  PROVE  Contents' = Append(Contents, m)
<1>1. /\ first \in 0..Capacity - 1 /\ used \in 0..Capacity - 1
      /\ first' = first /\ used' = used + 1
      /\ array' = [array EXCEPT ![Slot(first, used)] = m]
      /\ DOMAIN array = 0..Capacity - 1
  BY CapacityAssumption DEF TypeOK, MsgQueueIsFull, MsgQueueEnqueue
<1>2. Slot(first, used) \in 0..Capacity - 1
  <2>1. used \in 0..Capacity
    BY <1>1, CapacityAssumption
  <2> QED BY <1>1, <2>1, SlotInRange
<1>3. \A i \in 1..used : /\ Slot(first, i - 1) \in 0..Capacity - 1
                         /\ Slot(first, i - 1) # Slot(first, used)
  <2> TAKE i \in 1..used
  <2>1. i - 1 \in 0..Capacity /\ used \in 0..Capacity
    BY <1>1, CapacityAssumption
  <2>2. Slot(first, i - 1) = IF first + (i - 1) < Capacity THEN first + (i - 1)
                             ELSE first + (i - 1) - Capacity
    BY <1>1, <2>1, SlotIs
  <2>3. Slot(first, used) = IF first + used < Capacity THEN first + used
                            ELSE first + used - Capacity
    BY <1>1, <2>1, SlotIs
  <2> QED BY <1>1, <2>1, <2>2, <2>3, CapacityAssumption
<1>4. Contents' = [i \in 1..used + 1 |-> array'[Slot(first, i - 1)]]
  BY <1>1 DEF Contents
<1>5. array'[Slot(first, (used + 1) - 1)] = m
  <2>1. (used + 1) - 1 = used
    BY <1>1
  <2> QED BY <1>1, <1>2, <2>1
<1>6. \A i \in 1..used : array'[Slot(first, i - 1)] = Contents[i]
  BY <1>1, <1>3, ContentsShape
<1>7. Append(Contents, m) = [i \in 1..used + 1 |-> IF i = used + 1 THEN m ELSE Contents[i]]
  <2>1. /\ Append(Contents, m) \in Seq(Messages \cup {NoMessage})
        /\ Len(Append(Contents, m)) = used + 1
        /\ \A i \in 1..used + 1 :
             Append(Contents, m)[i] = IF i = used + 1 THEN m ELSE Contents[i]
    BY <1>1, ContentsShape, AppendProperties
  <2>2. Append(Contents, m) \in [1..used + 1 -> Messages \cup {NoMessage}]
    BY <2>1, LenProperties
  <2> QED BY <2>1, <2>2
<1>8. \A i \in 1..used + 1 :
        array'[Slot(first, i - 1)] = IF i = used + 1 THEN m ELSE Contents[i]
  <2> TAKE i \in 1..used + 1
  <2>1. CASE i = used + 1
    BY <1>5, <2>1
  <2>2. CASE i # used + 1
    <3>1. i \in 1..used
      BY <1>1, <2>2
    <3> QED BY <1>6, <2>2, <3>1
  <2> QED BY <2>1, <2>2
<1> QED BY <1>4, <1>7, <1>8

\* A message that is jammed comes first.
LEMMA JamPrepends ==
  ASSUME TypeOK, ~MsgQueueIsFull, NEW m \in Messages, MsgQueueJam(m)
  PROVE  Contents' = <<m>> \o Contents
<1>1. /\ first \in 0..Capacity - 1 /\ used \in 0..Capacity - 1
      /\ first' = (IF first = 0 THEN Capacity - 1 ELSE first - 1)
      /\ first' \in 0..Capacity - 1 /\ used' = used + 1
      /\ array' = [array EXCEPT ![first'] = m]
      /\ DOMAIN array = 0..Capacity - 1
  BY CapacityAssumption DEF TypeOK, MsgQueueIsFull, MsgQueueJam
<1>2. Slot(first', 0) = first'
  BY <1>1, SlotIs, CapacityAssumption
<1>3. \A i \in 1..used : /\ Slot(first', i) = Slot(first, i - 1)
                         /\ Slot(first, i - 1) \in 0..Capacity - 1
                         /\ Slot(first, i - 1) # first'
  <2> TAKE i \in 1..used
  <2>1. i - 1 \in 0..Capacity /\ i \in 0..Capacity
    BY <1>1, CapacityAssumption
  <2>2. Slot(first, i - 1) = IF first + (i - 1) < Capacity THEN first + (i - 1)
                             ELSE first + (i - 1) - Capacity
    BY <1>1, <2>1, SlotIs
  <2>3. Slot(first', i) = IF first' + i < Capacity THEN first' + i
                          ELSE first' + i - Capacity
    BY <1>1, <2>1, SlotIs
  <2> QED BY <1>1, <2>1, <2>2, <2>3, CapacityAssumption
<1>4. Contents' = [i \in 1..used + 1 |-> array'[Slot(first', i - 1)]]
  BY <1>1 DEF Contents
<1>5. array'[first'] = m
  BY <1>1
<1>6. \A i \in 1..used + 1 :
        array'[Slot(first', i - 1)] = IF i = 1 THEN m ELSE Contents[i - 1]
  <2> TAKE i \in 1..used + 1
  <2>1. CASE i = 1
    BY <1>2, <1>5, <2>1
  <2>2. CASE i # 1
    <3>1. PICK k \in 1..used : k = i - 1
      BY <1>1, <2>2
    <3>2. array'[Slot(first', k)] = Contents[k]
      BY <1>1, <1>3, ContentsShape
    <3> QED BY <2>2, <3>1, <3>2
  <2> QED BY <2>1, <2>2
<1>7. <<m>> \o Contents = [i \in 1..used + 1 |-> IF i = 1 THEN m ELSE Contents[i - 1]]
  BY <1>1, ContentsShape
<1> QED BY <1>4, <1>6, <1>7

\* A message that is received was the first.
LEMMA DequeueTakesFirst ==
  ASSUME TypeOK, ~MsgQueueIsEmpty, MsgQueueDequeue
  PROVE  /\ Contents # <<>>
         /\ array[first] = Head(Contents)
         /\ Contents' = Tail(Contents)
<1>1. /\ first \in 0..Capacity - 1 /\ used \in 1..Capacity
      /\ first' = Slot(first, 1) /\ used' = used - 1
      /\ array' = array
  BY CapacityAssumption DEF TypeOK, MsgQueueIsEmpty, MsgQueueDequeue
<1>2. /\ first' \in 0..Capacity - 1
      /\ first' = IF first + 1 < Capacity THEN first + 1 ELSE first + 1 - Capacity
  <2>1. 1 \in 0..Capacity
    BY CapacityAssumption
  <2> QED BY <1>1, <2>1, SlotIs, SlotInRange
<1>3. \A i \in 1..used - 1 : Slot(first', i - 1) = Slot(first, i)
  <2> TAKE i \in 1..used - 1
  <2>1. i - 1 \in 0..Capacity /\ i \in 0..Capacity
    BY <1>1, CapacityAssumption
  <2>2. Slot(first', i - 1) = IF first' + (i - 1) < Capacity THEN first' + (i - 1)
                              ELSE first' + (i - 1) - Capacity
    BY <1>2, <2>1, SlotIs
  <2>3. Slot(first, i) = IF first + i < Capacity THEN first + i
                         ELSE first + i - Capacity
    BY <1>1, <2>1, SlotIs
  <2> QED BY <1>1, <1>2, <2>1, <2>2, <2>3, CapacityAssumption
<1>4. Contents # <<>> /\ array[first] = Head(Contents)
  <2>1. Slot(first, 0) = first
    BY <1>1, SlotIs, CapacityAssumption
  <2>2. Contents[1] = array[first]
    BY <1>1, <2>1, ContentsShape
  <2> QED BY <1>1, <2>2, ContentsShape
<1>5. Contents' = [i \in 1..used - 1 |-> array[Slot(first', i - 1)]]
  BY <1>1 DEF Contents
<1>6. \A i \in 1..used - 1 : array[Slot(first', i - 1)] = Contents[i + 1]
  <2> TAKE i \in 1..used - 1
  <2>1. PICK k \in 1..used : k = i + 1 /\ k - 1 = i
    BY <1>1
  <2>2. Contents[k] = array[Slot(first, k - 1)]
    BY ContentsShape
  <2> QED BY <1>3, <2>1, <2>2
<1>7. Tail(Contents) = [i \in 1..used - 1 |-> Contents[i + 1]]
  <2>1. /\ Tail(Contents) \in Seq(Messages \cup {NoMessage})
        /\ Len(Tail(Contents)) = used - 1
        /\ \A i \in 1..used - 1 : Tail(Contents)[i] = Contents[i + 1]
    BY <1>4, ContentsShape, HeadTailProperties
  <2>2. Tail(Contents) \in [1..used - 1 -> Messages \cup {NoMessage}]
    BY <2>1, LenProperties
  <2> QED BY <2>1, <2>2
<1> QED BY <1>4, <1>5, <1>6, <1>7

\* What the ring does when a call takes effect is what the mailbox does.
LEMMA ApplyIsEffect ==
  ASSUME TypeOK, NEW c \in Call, Ready(c), Apply(c)
  PROVE  /\ Mailbox!Effect(c)
         /\ Received(c) = IF c.op = "receive" THEN Head(Contents) ELSE NoMessage
<1> USE DEF Mailbox!Effect, Mailbox!Possible, Ready, Apply, Received
<1>1. CASE c.op = "send"
  <2>1. c.msg \in Messages
    BY <1>1 DEF Call
  <2>2. Contents' = Append(Contents, c.msg)
    BY <1>1, <2>1, EnqueueAppends
  <2> QED BY <1>1, <2>2, ContentsShape, CapacityAssumption DEF MsgQueueIsFull, TypeOK
<1>2. CASE c.op = "jam"
  <2>1. c.msg \in Messages
    BY <1>2 DEF Call
  <2>2. Contents' = <<c.msg>> \o Contents
    BY <1>2, <2>1, JamPrepends
  <2> QED BY <1>2, <2>2, ContentsShape, CapacityAssumption DEF MsgQueueIsFull, TypeOK
<1>3. CASE c.op = "receive"
  BY <1>3, DequeueTakesFirst
<1> QED BY <1>1, <1>2, <1>3 DEF Call

\* A call that is not ready is not possible.
LEMMA NotReadyIsImpossible ==
  ASSUME TypeOK, NEW c \in Call, ~Ready(c)
  PROVE  ~Mailbox!Possible(c)
  BY ContentsShape, CapacityAssumption
  DEF TypeOK, Ready, MsgQueueIsEmpty, MsgQueueIsFull, Mailbox!Possible

\* Every step of the queue is a step of the mailbox or none.
LEMMA StepRefines == TypeOK /\ [Next]_vars => [Mailbox!Next]_(Mailbox!vars)
<1> SUFFICES ASSUME TypeOK, [Next]_vars PROVE [Mailbox!Next]_(Mailbox!vars)
  OBVIOUS
<1> USE DEF Mailbox!vars
<1>0. Mailbox!Call = Call
  BY DEF Mailbox!Call, Call
<1>1. CASE GuestCalls
  <2>1. UNCHANGED Contents
    BY <1>1 DEF GuestCalls, ringVars, Contents
  <2>2. host \in Threads
    BY <1>1 DEF GuestCalls, TypeOK
  <2>3. PICK c \in Call : call' = [call EXCEPT ![host] = c]
    BY <1>1 DEF GuestCalls
  <2>4. Mailbox!Begin(host, c)
    BY <1>1, <2>1, <2>2, <2>3 DEF GuestCalls, InGuestCode, Mailbox!Begin
  <2> QED BY <1>0, <2>2, <2>4 DEF Mailbox!Next
<1>2. CASE MsgQueueOpApplies
  <2>1. host \in Threads /\ call[host] \in Call /\ call[host] # NoCall
    BY <1>2 DEF MsgQueueOpApplies, InLoop, TypeOK
  <2>2. /\ Ready(call[host]) /\ Apply(call[host])
        /\ result' = [result EXCEPT ![host] = [ok |-> TRUE, msg |-> Received(call[host])]]
        /\ call' = [call EXCEPT ![host] = NoCall]
    BY <1>2 DEF MsgQueueOpApplies
  <2>3. Mailbox!Complete(host)
    BY <2>1, <2>2, ApplyIsEffect DEF Mailbox!Complete
  <2> QED BY <2>1, <2>3 DEF Mailbox!Next
<1>3. CASE MsgQueueOpRefuses
  <2>1. host \in Threads /\ call[host] \in Call /\ call[host] # NoCall
    BY <1>3 DEF MsgQueueOpRefuses, InLoop, TypeOK
  <2>2. UNCHANGED Contents
    BY <1>3 DEF MsgQueueOpRefuses, ringVars, Contents
  <2>3. Mailbox!Refuse(host)
    BY <1>3, <2>1, <2>2, NotReadyIsImpossible
    DEF MsgQueueOpRefuses, Mailbox!Refuse, Failed
  <2> QED BY <2>1, <2>3 DEF Mailbox!Next
<1>4. CASE HandlerCalls
  <2>1. PICK c \in Call : Ready(c) /\ Apply(c)
    BY <1>4 DEF HandlerCalls
  <2>2. Mailbox!Handle(c)
    BY <1>4, <2>1, ApplyIsEffect DEF HandlerCalls, Mailbox!Handle
  <2> QED BY <1>0, <2>1, <2>2 DEF Mailbox!Next
<1>5. CASE MsgQueueOpReturns \/ MsgQueueOpParks \/ Reschedule \/ UNCHANGED vars
  BY <1>5 DEF MsgQueueOpReturns, MsgQueueOpParks, Reschedule, vars, ringVars, Contents
<1> QED BY <1>1, <1>2, <1>3, <1>4, <1>5 DEF Next

\* Messages are received in the order they were sent, jammed ones first, each once;
\* a call is refused only when the mailbox is full or empty.
THEOREM QueueIsMailbox == Spec => BoxAbstraction
<1>1. Init => Mailbox!Init
  BY DEF Init, Contents, Failed, Mailbox!Init
<1> QED BY <1>1, StepRefines, TypeCorrect, PTL DEF Spec, BoxAbstraction, Mailbox!Spec
=============================================================================
