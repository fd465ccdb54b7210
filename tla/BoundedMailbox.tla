--------------------------- MODULE BoundedMailbox ---------------------------
(***************************************************************************)
(* What an OSMessageQueue promises its callers: a bounded sequence.  Every *)
(* call takes effect once and at once; a blocking call may be pending for  *)
(* as long as the sequence is full (send, jam) or empty (receive), and a   *)
(* call that does not block is refused exactly then.                       *)
(***************************************************************************)
EXTENDS Naturals, Sequences

CONSTANTS Threads, Messages, Capacity, NoMessage, NoCall

Call == [op : {"send", "jam"}, msg : Messages, block : BOOLEAN]
          \cup [op : {"receive"}, msg : {NoMessage}, block : BOOLEAN]

Result == [ok : BOOLEAN, msg : Messages \cup {NoMessage}]

VARIABLES
  box,     \* the messages in the order they will be received
  call,    \* the pending call of each thread
  result   \* what the last call of each thread returned

vars == <<box, call, result>>

Init ==
  /\ box = <<>>
  /\ call = [t \in Threads |-> NoCall]
  /\ result = [t \in Threads |-> [ok |-> FALSE, msg |-> NoMessage]]

Possible(c) == IF c.op = "receive" THEN box # <<>> ELSE Len(box) < Capacity

Effect(c) ==
  /\ Possible(c)
  /\ box' = CASE c.op = "send" -> Append(box, c.msg)
              [] c.op = "jam" -> <<c.msg>> \o box
              [] c.op = "receive" -> Tail(box)

Begin(t, c) ==
  /\ call[t] = NoCall
  /\ call' = [call EXCEPT ![t] = c]
  /\ UNCHANGED <<box, result>>

Complete(t) ==
  /\ call[t] # NoCall
  /\ Effect(call[t])
  /\ result' = [result EXCEPT ![t] =
       [ok |-> TRUE,
        msg |-> IF call[t].op = "receive" THEN Head(box) ELSE NoMessage]]
  /\ call' = [call EXCEPT ![t] = NoCall]

Refuse(t) ==
  /\ call[t] # NoCall
  /\ ~call[t].block /\ ~Possible(call[t])
  /\ result' = [result EXCEPT ![t] = [ok |-> FALSE, msg |-> NoMessage]]
  /\ call' = [call EXCEPT ![t] = NoCall]
  /\ UNCHANGED box

\* A call of an alarm or interrupt handler, which is never pending.
Handle(c) == Effect(c) /\ UNCHANGED <<call, result>>

Next ==
  \/ \E t \in Threads : Complete(t) \/ Refuse(t) \/ \E c \in Call : Begin(t, c)
  \/ \E c \in Call : Handle(c)

Spec == Init /\ [][Next]_vars
=============================================================================
