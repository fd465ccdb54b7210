----------------------------- MODULE GuestLemmas -----------------------------
(***************************************************************************)
(* What the operators of the scheduler do. First the thread queues of      *)
(* GuestThreads, for every queue and every set of priorities. Then the     *)
(* frames: what a step of the top frame does to the control invariant of   *)
(* GuestSchedulerInv, one lemma for the frames of safe calls, which run in *)
(* every mode of the host fiber, one for the others, which run only while  *)
(* its thread does.                                                        *)
(***************************************************************************)
EXTENDS GuestSchedulerInv, SequenceTheorems, WellFoundedInduction, TLAPS

-----------------------------------------------------------------------------
(* Least elements.                                                         *)

\* A set of naturals that is not empty has a least element.
LEMMA LeastNatural ==
  ASSUME NEW T \in SUBSET Nat, T # {}
  PROVE  \E p \in T : \A r \in T : p <= r
<1>1. PICK x \in T : \A y \in T : ~(<<y, x>> \in OpToRel(<, Nat))
  BY NatLessThanWellFounded, WFMin
<1>2. \A y \in T : <<y, x>> \in OpToRel(<, Nat) <=> y < x
  BY DEF OpToRel
<1>3. \A y \in T : ~(y < x)
  BY <1>1, <1>2
<1>4. x \in Nat /\ \A y \in T : y \in Nat
  OBVIOUS
<1> QED BY <1>3, <1>4

\* The effective priority is one of the priorities of the game, never that of a
\* suspended waiter: it is at most the base priority.
LEMMA EffectiveInRange ==
  ASSUME TypeOK, NEW t \in Threads, NEW ms \in SUBSET Mutexes
  PROVE  EffectivePriority(t, ms) \in Priorities
<1> DEFINE W == Wanted(t, ms)
<1>1. \A m \in ms : link[m] # <<>> => prio[Head(link[m])] \in Priorities \cup {32}
  <2> TAKE m \in ms
  <2>1. link[m] \in Seq(Threads)
    BY DEF TypeOK, Queues
  <2> QED BY <2>1, HeadTailProperties DEF TypeOK, SuspendedWaitPriority
<1>2. W \subseteq Priorities \cup {32}
  BY SMTT(30), <1>1 DEF Wanted, TypeOK
<1>3. base[t] \in W /\ base[t] \in Priorities
  BY DEF Wanted, TypeOK
<1>4. PICK p \in W : \A r \in W : p <= r
  BY <1>2, <1>3, LeastNatural, ConstantsAssumption
<1>5. EffectivePriority(t, ms) \in W /\ \A r \in W : EffectivePriority(t, ms) <= r
  BY <1>4 DEF EffectivePriority
<1> HIDE DEF W
<1>6. EffectivePriority(t, ms) <= base[t] /\ base[t] \in 0..31
  BY <1>3, <1>5, ConstantsAssumption
<1>7. EffectivePriority(t, ms) # 32
  BY <1>6
<1> QED BY <1>2, <1>5, <1>7

-----------------------------------------------------------------------------
(* Insertion and removal.                                                  *)

\* An insertion adds one element and shifts those after it.
LEMMA InsertAtIs ==
  ASSUME NEW S, NEW s \in Seq(S), NEW i \in 1..Len(s) + 1, NEW e \in S
  PROVE  /\ InsertAt(s, i, e) \in Seq(S)
         /\ Len(InsertAt(s, i, e)) = Len(s) + 1
         /\ \A j \in 1..Len(s) + 1 :
              InsertAt(s, i, e)[j] = IF j < i THEN s[j] ELSE IF j = i THEN e ELSE s[j - 1]
<1> DEFINE a == SubSeq(s, 1, i - 1)
           b == SubSeq(s, i, Len(s))
<1>0. Len(s) \in Nat /\ i \in Nat
  BY LenProperties
<1>1. /\ a \in Seq(S) /\ Len(a) = i - 1
      /\ \A j \in 1..i - 1 : a[j] = s[j]
  BY <1>0, SubSeqProperties, SMTT(30)
<1>2. /\ b \in Seq(S) /\ Len(b) = Len(s) - i + 1
      /\ \A j \in 1..Len(s) - i + 1 : b[j] = s[j + i - 1]
  BY <1>0, SubSeqProperties, SMTT(30)
<1>3. <<e>> \in Seq(S) /\ Len(<<e>>) = 1 /\ <<e>>[1] = e
  OBVIOUS
<1> HIDE DEF a, b
<1>4. /\ a \o <<e>> \in Seq(S) /\ Len(a \o <<e>>) = i
      /\ \A j \in 1..i : (a \o <<e>>)[j] = IF j < i THEN s[j] ELSE e
  BY <1>0, <1>1, <1>3, ConcatProperties
<1>5. InsertAt(s, i, e) = (a \o <<e>>) \o b
  BY DEF InsertAt, a, b
<1> DEFINE c == a \o <<e>>
<1> HIDE DEF c
<1>6. /\ c \in Seq(S) /\ Len(c) = i
      /\ \A j \in 1..i : c[j] = IF j < i THEN s[j] ELSE e
  BY <1>4 DEF c
<1>7. /\ c \o b \in Seq(S) /\ Len(c \o b) = Len(c) + Len(b)
      /\ \A j \in 1..Len(c) + Len(b) :
           (c \o b)[j] = IF j <= Len(c) THEN c[j] ELSE b[j - Len(c)]
  BY <1>2, <1>6, ConcatProperties
<1>8. \A j \in 1..Len(s) + 1 :
        (c \o b)[j] = IF j < i THEN s[j] ELSE IF j = i THEN e ELSE s[j - 1]
  <2> TAKE j \in 1..Len(s) + 1
  <2>1. CASE j <= i
    BY <2>1, <1>0, <1>2, <1>6, <1>7
  <2>2. CASE ~(j <= i)
    <3>1. (c \o b)[j] = b[j - i]
      BY <2>2, <1>0, <1>2, <1>6, <1>7
    <3>2. j - i \in 1..Len(s) - i + 1 /\ (j - i) + i - 1 = j - 1
      BY <2>2, <1>0
    <3>3. b[j - i] = s[(j - i) + i - 1]
      BY <3>2, <1>2
    <3> QED BY SMTT(30), <3>1, <3>2, <3>3, <2>2, <1>0
  <2> QED BY <2>1, <2>2
<1>9. InsertAt(s, i, e) = c \o b
  BY <1>5 DEF c
<1> QED BY <1>0, <1>2, <1>6, <1>7, <1>8, <1>9

\* A removal takes one element away and shifts those after it.
LEMMA RemoveAtIs ==
  ASSUME NEW S, NEW s \in Seq(S), NEW i \in 1..Len(s)
  PROVE  /\ RemoveAt(s, i) \in Seq(S)
         /\ Len(RemoveAt(s, i)) = Len(s) - 1
         /\ \A j \in 1..Len(s) - 1 :
              RemoveAt(s, i)[j] = IF j < i THEN s[j] ELSE s[j + 1]
<1> DEFINE a == SubSeq(s, 1, i - 1)
           b == SubSeq(s, i + 1, Len(s))
<1>0. Len(s) \in Nat /\ i \in Nat
  BY LenProperties
<1>1. /\ a \in Seq(S) /\ Len(a) = i - 1
      /\ \A j \in 1..i - 1 : a[j] = s[j]
  BY <1>0, SubSeqProperties, SMTT(30)
<1>2. /\ b \in Seq(S) /\ Len(b) = Len(s) - i
      /\ \A j \in 1..Len(s) - i : b[j] = s[j + i]
  BY <1>0, SubSeqProperties, SMTT(30)
<1> HIDE DEF a, b
<1>3. RemoveAt(s, i) = a \o b
  BY DEF RemoveAt, a, b
<1>4. /\ a \o b \in Seq(S) /\ Len(a \o b) = Len(a) + Len(b)
      /\ \A j \in 1..Len(a) + Len(b) :
           (a \o b)[j] = IF j <= Len(a) THEN a[j] ELSE b[j - Len(a)]
  BY <1>1, <1>2, ConcatProperties
<1>5. \A j \in 1..Len(s) - 1 : (a \o b)[j] = IF j < i THEN s[j] ELSE s[j + 1]
  <2> TAKE j \in 1..Len(s) - 1
  <2>1. CASE j < i
    BY <2>1, <1>0, <1>1, <1>2, <1>4
  <2>2. CASE ~(j < i)
    <3>1. (a \o b)[j] = b[j - (i - 1)]
      BY <2>2, <1>0, <1>1, <1>2, <1>4
    <3>2. j - (i - 1) \in 1..Len(s) - i /\ (j - (i - 1)) + i = j + 1
      BY <2>2, <1>0
    <3>3. b[j - (i - 1)] = s[(j - (i - 1)) + i]
      BY <3>2, <1>2
    <3> QED BY <3>1, <3>2, <3>3, <2>2, <1>0
  <2> QED BY <2>1, <2>2
<1> QED BY <1>0, <1>1, <1>2, <1>3, <1>4, <1>5

-----------------------------------------------------------------------------
(* Thread queues as sets of members.                                       *)

\* A queue is empty when it has no member.
LEMMA EmptyQueue ==
  ASSUME NEW s \in Seq(Threads)
  PROVE  s = <<>> <=> \A u \in Threads : ~Member(s, u)
<1>1. Len(s) \in Nat /\ (s # <<>> => 1 \in 1..Len(s))
  BY EmptySeq, LenProperties
<1>2. \A i \in 1..Len(s) : s[i] \in Threads
  BY ElementOfSeq
<1> QED BY <1>1, <1>2 DEF Member

\* Members of a queue are threads.
LEMMA MembersAreThreads ==
  ASSUME NEW s \in Seq(Threads), NEW u, Member(s, u)
  PROVE  u \in Threads
  BY ElementOfSeq DEF Member

\* A queue without repetitions that has one member more, or one less, than s.
Adds(e, s, t) ==
  e \in Seq(Threads) /\ Distinct(e) /\ \A u : Member(e, u) <=> Member(s, u) \/ u = t
Drops(e, s, t) ==
  e \in Seq(Threads) /\ Distinct(e) /\ \A u : Member(e, u) <=> Member(s, u) /\ u # t

\* Unlinking takes away exactly the thread.
LEMMA UnlinkIs ==
  ASSUME NEW s \in Seq(Threads), Distinct(s), NEW t
  PROVE  Drops(Unlink(s, t), s, t)
<1>1. CASE ~Member(s, t)
  BY <1>1 DEF Unlink, Drops
<1>2. CASE Member(s, t)
  <2> DEFINE k == CHOOSE i \in 1..Len(s) : s[i] = t
             r == RemoveAt(s, k)
  <2>1. k \in 1..Len(s) /\ s[k] = t
    BY <1>2 DEF Member
  <2>2. Unlink(s, t) = r
    BY <1>2 DEF Unlink
  <2> HIDE DEF k
  <2>3. /\ r \in Seq(Threads) /\ Len(r) = Len(s) - 1 /\ Len(s) \in Nat
        /\ \A j \in 1..Len(s) - 1 : r[j] = IF j < k THEN s[j] ELSE s[j + 1]
    BY <2>1, RemoveAtIs, LenProperties
  <2> HIDE DEF r
  <2>4. Distinct(r)
    <3> SUFFICES ASSUME NEW i \in 1..Len(r), NEW j \in 1..Len(r), r[i] = r[j]
                 PROVE  i = j
      BY DEF Distinct
    <3> DEFINE at(n) == IF n < k THEN n ELSE n + 1
    <3>1. at(i) \in 1..Len(s) /\ at(j) \in 1..Len(s)
      BY <2>1, <2>3
    <3>2. r[i] = s[at(i)] /\ r[j] = s[at(j)]
      BY <2>1, <2>3
    <3>3. at(i) = at(j)
      BY <3>1, <3>2 DEF Distinct
    <3> QED BY <3>3, <2>1, <2>3
  <2>5. ASSUME NEW u, Member(r, u) PROVE Member(s, u) /\ u # t
    <3>1. PICK i \in 1..Len(r) : r[i] = u
      BY <2>5 DEF Member
    <3> DEFINE n == IF i < k THEN i ELSE i + 1
    <3>2. n \in 1..Len(s) /\ s[n] = u /\ n # k
      BY <3>1, <2>1, <2>3
    <3> QED BY <3>2, <2>1 DEF Member, Distinct
  <2>6. ASSUME NEW u, Member(s, u), u # t PROVE Member(r, u)
    <3>1. PICK i \in 1..Len(s) : s[i] = u
      BY <2>6 DEF Member
    <3> DEFINE n == IF i < k THEN i ELSE i - 1
    <3>2. n \in 1..Len(r) /\ r[n] = u
      BY <3>1, <2>1, <2>3, <2>6
    <3> QED BY <3>2 DEF Member
  <2> QED BY <2>2, <2>3, <2>4, <2>5, <2>6 DEF Drops
<1> QED BY <1>1, <1>2

\* Appending a thread that is not in the queue adds exactly it.
LEMMA AppendIs ==
  ASSUME NEW s \in Seq(Threads), Distinct(s), NEW t \in Threads, ~Member(s, t)
  PROVE  Adds(Append(s, t), s, t)
<1> DEFINE r == Append(s, t)
<1>1. /\ r \in Seq(Threads) /\ Len(r) = Len(s) + 1 /\ Len(s) \in Nat
      /\ \A i \in 1..Len(s) : r[i] = s[i]
      /\ r[Len(s) + 1] = t
  BY AppendProperties, LenProperties
<1> HIDE DEF r
<1>2. Distinct(r)
  BY <1>1 DEF Distinct, Member
<1>3. ASSUME NEW u PROVE Member(r, u) <=> Member(s, u) \/ u = t
  BY <1>1 DEF Member
<1> QED BY <1>1, <1>2, <1>3 DEF r, Adds

\* So does inserting it by priority.
LEMMA EnqueueIs ==
  ASSUME NEW s \in Seq(Threads), Distinct(s), NEW t \in Threads, ~Member(s, t), NEW p
  PROVE  Adds(Enqueue(s, t, p), s, t)
<1> DEFINE less == {i \in 1..Len(s) : prio[s[i]] > p}
<1>1. CASE less = {}
  BY <1>1, AppendIs DEF Enqueue
<1>2. CASE less # {}
  <2> DEFINE k == CHOOSE i \in less : \A j \in less : i <= j
             r == InsertAt(s, k, t)
  <2>0. Len(s) \in Nat
    BY LenProperties
  <2>1. \E i \in less : \A j \in less : i <= j
    <3>1. less \in SUBSET Nat
      BY <2>0
    <3> HIDE DEF less
    <3> QED BY <1>2, <3>1, LeastNatural
  <2>2. k \in 1..Len(s)
    BY <2>1
  <2>3. Enqueue(s, t, p) = r
    BY <1>2 DEF Enqueue
  <2> HIDE DEF k, less
  <2>4. /\ r \in Seq(Threads) /\ Len(r) = Len(s) + 1
        /\ \A j \in 1..Len(s) + 1 :
             r[j] = IF j < k THEN s[j] ELSE IF j = k THEN t ELSE s[j - 1]
    BY <2>0, <2>2, InsertAtIs
  <2> HIDE DEF r
  <2>5. Distinct(r)
    <3> SUFFICES ASSUME NEW i \in 1..Len(r), NEW j \in 1..Len(r), r[i] = r[j]
                 PROVE  i = j
      BY DEF Distinct
    <3> DEFINE at(n) == IF n < k THEN n ELSE n - 1
    <3>1. ASSUME NEW n \in 1..Len(r), n # k
          PROVE  at(n) \in 1..Len(s) /\ r[n] = s[at(n)] /\ r[n] # t
      BY <3>1, <2>0, <2>2, <2>4 DEF Member
    <3>2. r[k] = t /\ k \in 1..Len(r)
      BY <2>0, <2>2, <2>4
    <3>3. CASE i # k /\ j # k
      <4>1. at(i) = at(j)
        BY <3>1, <3>3 DEF Distinct
      <4> QED BY <4>1, <3>3, <2>0, <2>2
    <3>4. CASE i = k \/ j = k
      BY <3>1, <3>2, <3>4
    <3> QED BY <3>3, <3>4
  <2>6. ASSUME NEW u, Member(r, u) PROVE Member(s, u) \/ u = t
    <3>1. PICK i \in 1..Len(r) : r[i] = u
      BY <2>6 DEF Member
    <3> DEFINE n == IF i < k THEN i ELSE i - 1
    <3>2. i = k \/ (n \in 1..Len(s) /\ s[n] = u)
      BY <3>1, <2>0, <2>2, <2>4
    <3> QED BY <3>1, <3>2, <2>0, <2>2, <2>4 DEF Member
  <2>7. ASSUME NEW u, Member(s, u) PROVE Member(r, u)
    <3>1. PICK i \in 1..Len(s) : s[i] = u
      BY <2>7 DEF Member
    <3> DEFINE n == IF i < k THEN i ELSE i + 1
    <3>2. n \in 1..Len(r) /\ r[n] = u
      BY <3>1, <2>0, <2>2, <2>4
    <3> QED BY <3>2 DEF Member
  <2>8. Member(r, t)
    BY <2>0, <2>2, <2>4 DEF Member
  <2> QED BY <2>3, <2>4, <2>5, <2>6, <2>7, <2>8 DEF Adds
<1> QED BY <1>1, <1>2

\* Taking the head off leaves the other members.
LEMMA TailIs ==
  ASSUME NEW s \in Seq(Threads), Distinct(s), s # <<>>
  PROVE  /\ Head(s) \in Threads /\ Member(s, Head(s))
         /\ Drops(Tail(s), s, Head(s))
<1> DEFINE r == Tail(s)
<1>1. /\ Head(s) \in Threads /\ r \in Seq(Threads) /\ Len(r) = Len(s) - 1
      /\ \A i \in 1..Len(r) : r[i] = s[i + 1]
  BY HeadTailProperties
<1>2. Len(s) \in Nat \ {0} /\ Head(s) = s[1]
  BY EmptySeq
<1> HIDE DEF r
<1>3. Distinct(r)
  <2> SUFFICES ASSUME NEW i \in 1..Len(r), NEW j \in 1..Len(r), r[i] = r[j]
               PROVE  i = j
    BY DEF Distinct
  <2>1. i + 1 \in 1..Len(s) /\ j + 1 \in 1..Len(s) /\ s[i + 1] = s[j + 1]
    BY <1>1, <1>2
  <2> QED BY <2>1 DEF Distinct
<1>4. ASSUME NEW u, Member(r, u) PROVE Member(s, u) /\ u # Head(s)
  <2>1. PICK i \in 1..Len(r) : r[i] = u
    BY <1>4 DEF Member
  <2>2. i + 1 \in 1..Len(s) /\ s[i + 1] = u /\ i + 1 # 1 /\ 1 \in 1..Len(s)
    BY <2>1, <1>1, <1>2
  <2> QED BY <2>2, <1>2 DEF Member, Distinct
<1>5. ASSUME NEW u, Member(s, u), u # Head(s) PROVE Member(r, u)
  <2>1. PICK i \in 1..Len(s) : s[i] = u
    BY <1>5 DEF Member
  <2>2. i - 1 \in 1..Len(r) /\ r[i - 1] = u
    BY <2>1, <1>1, <1>2, <1>5
  <2> QED BY <2>2 DEF Member
<1>6. Member(s, Head(s))
  BY <1>2 DEF Member
<1> QED BY <1>1, <1>3, <1>4, <1>5, <1>6 DEF r, Drops

-----------------------------------------------------------------------------
(* All the queues together.                                                *)

LinksOK(l) == l \in [Queues -> Seq(Threads)] /\ \A q \in Queues : Distinct(l[q])
\* The run queues with a thread in them.
Pend(l) == {p \in Priorities : l[p] # <<>>}

\* m is l after t joined, or left, the queue q0.
Joins(m, l, q0, t) ==
  /\ LinksOK(m)
  /\ \A q \in Queues, u \in Threads :
       Member(m[q], u) <=> Member(l[q], u) \/ (q = q0 /\ u = t)
  /\ Pend(m) = Pend(l) \cup ({q0} \cap Priorities)
Leaves(m, l, q0, t) ==
  /\ LinksOK(m)
  /\ \A q \in Queues, u \in Threads :
       Member(m[q], u) <=> Member(l[q], u) /\ ~(q = q0 /\ u = t)
  /\ Pend(m) = IF q0 \in Priorities /\ m[q0] = <<>> THEN Pend(l) \ {q0} ELSE Pend(l)

\* One queue changes.
LEMMA LinkAdd ==
  ASSUME NEW l, LinksOK(l), NEW q0 \in Queues, NEW t \in Threads,
         NEW e, Adds(e, l[q0], t)
  PROVE  Joins([l EXCEPT ![q0] = e], l, q0, t)
<1> PICK m : m = [l EXCEPT ![q0] = e]
  OBVIOUS
<1>2. e \in Seq(Threads) /\ Distinct(e) /\ \A u : Member(e, u) <=> Member(l[q0], u) \/ u = t
  BY DEF Adds
<1>3. \A q \in Queues : m[q] = IF q = q0 THEN e ELSE l[q]
  BY DEF LinksOK
<1>4. m \in [Queues -> Seq(Threads)]
  BY <1>2 DEF LinksOK
<1>5. e # <<>>
  BY <1>2, EmptyQueue
<1>6. LinksOK(m)
  BY <1>2, <1>3, <1>4 DEF LinksOK
<1>7. Pend(m) = Pend(l) \cup ({q0} \cap Priorities)
  BY <1>3, <1>5 DEF Pend, Queues
<1>8. \A q \in Queues, u \in Threads :
        Member(m[q], u) <=> Member(l[q], u) \/ (q = q0 /\ u = t)
  BY <1>2, <1>3
<1> QED BY <1>6, <1>7, <1>8 DEF Joins

\* One queue loses a thread, if it had it.
LEMMA LinkDrop ==
  ASSUME NEW l, LinksOK(l), NEW q0 \in Queues, NEW t \in Threads,
         NEW e, Drops(e, l[q0], t)
  PROVE  Leaves([l EXCEPT ![q0] = e], l, q0, t)
<1> PICK m : m = [l EXCEPT ![q0] = e]
  OBVIOUS
<1>1. l[q0] \in Seq(Threads)
  BY DEF LinksOK
<1>2. e \in Seq(Threads) /\ Distinct(e) /\ \A u : Member(e, u) <=> Member(l[q0], u) /\ u # t
  BY DEF Drops
<1>3. \A q \in Queues : m[q] = IF q = q0 THEN e ELSE l[q]
  BY DEF LinksOK
<1>4. m \in [Queues -> Seq(Threads)]
  BY <1>2 DEF LinksOK
<1>5. e # <<>> => l[q0] # <<>>
  BY <1>1, <1>2, EmptyQueue
<1>6. LinksOK(m)
  BY <1>2, <1>3, <1>4 DEF LinksOK
<1>7. Pend(m) = IF q0 \in Priorities /\ m[q0] = <<>> THEN Pend(l) \ {q0} ELSE Pend(l)
  BY <1>3, <1>5 DEF Pend, Queues
<1>8. \A q \in Queues, u \in Threads :
        Member(m[q], u) <=> Member(l[q], u) /\ ~(q = q0 /\ u = t)
  BY <1>2, <1>3
<1> QED BY <1>6, <1>7, <1>8 DEF Leaves

\* The four ways in which a queue changes.
LEMMA LinkAppend ==
  ASSUME NEW l, LinksOK(l), NEW q \in Queues, NEW t \in Threads, ~Member(l[q], t)
  PROVE  Joins([l EXCEPT ![q] = Append(@, t)], l, q, t)
<1>1. Adds(Append(l[q], t), l[q], t)
  BY AppendIs DEF LinksOK
<1> QED BY <1>1, LinkAdd

\* The insertion by priority, into a wait queue.
LEMMA LinkEnqueue ==
  ASSUME NEW l, LinksOK(l), NEW q \in Queues, NEW t \in Threads, ~Member(l[q], t), NEW p
  PROVE  Joins([l EXCEPT ![q] = Enqueue(@, t, p)], l, q, t)
<1>1. Adds(Enqueue(l[q], t, p), l[q], t)
  BY EnqueueIs DEF LinksOK
<1> QED BY <1>1, LinkAdd

\* The removal of a thread from the middle of its queue.
LEMMA LinkUnlink ==
  ASSUME NEW l, LinksOK(l), NEW q \in Queues, NEW t \in Threads
  PROVE  Leaves([l EXCEPT ![q] = Unlink(@, t)], l, q, t)
<1>1. Drops(Unlink(l[q], t), l[q], t)
  BY UnlinkIs DEF LinksOK
<1> QED BY <1>1, LinkDrop

\* The removal of the head, by a wake-up or a dispatch.
LEMMA LinkTail ==
  ASSUME NEW l, LinksOK(l), NEW q \in Queues, l[q] # <<>>
  PROVE  /\ Head(l[q]) \in Threads /\ Member(l[q], Head(l[q]))
         /\ Leaves([l EXCEPT ![q] = Tail(@)], l, q, Head(l[q]))
<1>1. /\ Head(l[q]) \in Threads /\ Member(l[q], Head(l[q]))
      /\ Drops(Tail(l[q]), l[q], Head(l[q]))
  BY TailIs DEF LinksOK
<1> QED BY <1>1, LinkDrop

\* What is linked, in the terms of the lemmas above.
LEMMA LinkIsOK ==
  ASSUME TypeOK, QueuesSound
  PROVE  LinksOK(link) /\ pending = Pend(link)
  BY DEF TypeOK, QueuesSound, LinksOK, LinkDistinct, Pend, PendingExact

\* Removing a thread from the queue its field names removes it from all of them.
LEMMA RemovedIs ==
  ASSUME TypeOK, QueuesSound, NEW t \in Threads
  PROVE  /\ LinksOK(Removed(t))
         /\ \A q \in Queues, u \in Threads :
              Member(Removed(t)[q], u) <=> Member(link[q], u) /\ u # t
         /\ Pend(Removed(t)) = PendingAfterRemoval(t)
<1>1. LinksOK(link) /\ pending = Pend(link)
  BY LinkIsOK
<1>2. \A q \in Queues : Member(link[q], t) => q = queue[t]
  BY DEF QueuesSound, LinkExact
<1>3. CASE queue[t] = NoQueue
  BY <1>1, <1>2, <1>3, ConstantsAssumption
  DEF Removed, PendingAfterRemoval, Queues
<1>4. CASE queue[t] # NoQueue
  <2> PICK q0 : q0 = queue[t]
    OBVIOUS
  <2>1. q0 \in Queues
    BY <1>4 DEF TypeOK
  <2>2. Leaves([link EXCEPT ![q0] = Unlink(@, t)], link, q0, t)
    BY <1>1, <2>1, LinkUnlink
  <2>3. Removed(t) = [link EXCEPT ![q0] = Unlink(@, t)]
    BY <1>4 DEF Removed
  <2>4. Removed(t)[q0] = Unlink(link[q0], t)
    BY <2>1, <2>3 DEF TypeOK
  <2>5. Leaves(Removed(t), link, q0, t)
    BY <2>2, <2>3
  <2> QED BY <1>1, <1>2, <2>4, <2>5 DEF Leaves, PendingAfterRemoval
<1> QED BY <1>3, <1>4

\* A thread that waits keeps waiting in its queue, at another place.
LEMMA RequeuedIs ==
  ASSUME TypeOK, QueuesSound, NEW t \in Threads, state[t] = "waiting", NEW p
  PROVE  /\ LinksOK(Requeued(t, p))
         /\ \A q \in Queues, u \in Threads :
              Member(Requeued(t, p)[q], u) <=> Member(link[q], u)
         /\ Pend(Requeued(t, p)) = pending
<1> PICK q0 : q0 = queue[t]
  OBVIOUS
<1>1. q0 \in Queues /\ q0 \notin Priorities /\ q0 # NoQueue
  BY ConstantsAssumption DEF QueuesSound, QueueFits, WaitQueue
<1>2. \A q \in Queues : Member(link[q], t) <=> q = q0
  BY DEF QueuesSound, LinkExact, InQueue
<1> PICK r : r = Removed(t)
  OBVIOUS
<1>3. /\ LinksOK(r)
      /\ \A q \in Queues, u \in Threads :
           Member(r[q], u) <=> Member(link[q], u) /\ u # t
      /\ Pend(r) = pending
  BY <1>1, RemovedIs DEF PendingAfterRemoval
<1>4. Requeued(t, p) = [r EXCEPT ![q0] = Enqueue(@, t, p)]
  BY <1>1 DEF Requeued
<1>5. Joins([r EXCEPT ![q0] = Enqueue(@, t, p)], r, q0, t)
  BY <1>1, <1>3, LinkEnqueue
<1>6. Joins(Requeued(t, p), r, q0, t)
  BY <1>4, <1>5
<1> QED BY <1>1, <1>2, <1>3, <1>6 DEF Joins

\* A step moves one thread: what has to be shown of the queues after it.
LEMMA ThreadMoves ==
  ASSUME TypeOK, QueuesSound, NEW u \in Threads,
         LinksOK(link'), pending' = Pend(link'),
         \A t \in Threads \ {u} :
           /\ state'[t] = state[t] /\ suspend'[t] = suspend[t]
           /\ prio'[t] = prio[t] /\ queue'[t] = queue[t]
           /\ \A q \in Queues : Member(link'[q], t) <=> Member(link[q], t),
         \A q \in Queues : Member(link'[q], u) <=> InQueue(u)' /\ queue'[u] = q,
         state'[u] = "ready" /\ suspend'[u] = 0 => queue'[u] = prio'[u],
         state'[u] = "waiting" => queue'[u] \in WaitQueue,
         suspend'[u] = 0 /\ state'[u] \notin {"dead", "moribund"} => prio'[u] \in Priorities
  PROVE  QueuesSound'
<1>1. LinkExact'
  BY DEF QueuesSound, LinkExact, InQueue
<1>2. QueueFits'
  BY DEF QueuesSound, QueueFits, WaitQueue, Queues
<1>3. LinkDistinct' /\ PendingExact'
  BY DEF LinksOK, Pend, LinkDistinct, PendingExact
<1>4. PrioritySound'
  BY DEF QueuesSound, PrioritySound, Terminated
<1> QED BY <1>1, <1>2, <1>3, <1>4 DEF QueuesSound

-----------------------------------------------------------------------------
(* Frames and the control invariant.                                       *)

\* The frames of a sequence after its head was replaced by fs.
LEMMA ReplaceHead ==
  ASSUME NEW s \in Seq(GoodFrame), s # <<>>, NEW fs \in Seq(GoodFrame)
  PROVE  LET r == fs \o Tail(s) IN
         /\ r \in Seq(GoodFrame)
         /\ Len(s) \in Nat \ {0} /\ Len(fs) \in Nat
         /\ Len(r) = Len(fs) + Len(s) - 1
         /\ \A j \in 1..Len(fs) : r[j] = fs[j]
         /\ \A j \in 2..Len(s) : r[j - 1 + Len(fs)] = s[j]
         /\ \A j \in Len(fs) + 1..Len(r) : r[j] = s[j + 1 - Len(fs)]
<1> DEFINE u == Tail(s)
           r == fs \o u
<1>1. /\ u \in Seq(GoodFrame) /\ Len(u) = Len(s) - 1
      /\ \A i \in 1..Len(u) : u[i] = s[i + 1]
  BY HeadTailProperties
<1>2. Len(s) \in Nat \ {0} /\ Len(fs) \in Nat
  BY EmptySeq, LenProperties
<1> HIDE DEF u
<1>3. /\ r \in Seq(GoodFrame) /\ Len(r) = Len(fs) + Len(u)
      /\ \A i \in 1..Len(fs) + Len(u) :
           r[i] = IF i <= Len(fs) THEN fs[i] ELSE u[i - Len(fs)]
  BY <1>1, ConcatProperties
<1> HIDE DEF r
<1>4. \A j \in Len(fs) + 1..Len(r) : r[j] = s[j + 1 - Len(fs)]
  <2> TAKE j \in Len(fs) + 1..Len(r)
  <2>1. j - Len(fs) \in 1..Len(u) /\ (j - Len(fs)) + 1 = j + 1 - Len(fs)
    BY <1>1, <1>2, <1>3
  <2>2. r[j] = u[j - Len(fs)]
    <3>1. j \in 1..Len(fs) + Len(u) /\ ~(j <= Len(fs))
      BY <1>1, <1>2, <1>3
    <3> QED BY <3>1, <1>3
  <2>3. u[j - Len(fs)] = s[(j - Len(fs)) + 1]
    BY <2>1, <1>1
  <2> QED BY <2>1, <2>2, <2>3
<1>5. \A j \in 2..Len(s) : r[j - 1 + Len(fs)] = s[j]
  <2> TAKE j \in 2..Len(s)
  <2>1. /\ j - 1 + Len(fs) \in Len(fs) + 1..Len(r)
        /\ (j - 1 + Len(fs)) + 1 - Len(fs) = j
    BY <1>1, <1>2, <1>3
  <2> QED BY <2>1, <1>4
<1>6. Len(r) = Len(fs) + Len(s) - 1
  BY <1>1, <1>2, <1>3
<1>7. \A j \in 1..Len(fs) : r[j] = fs[j]
  <2> TAKE j \in 1..Len(fs)
  <2>1. Len(u) \in Nat
    BY <1>1, <1>2
  <2>2. j \in 1..Len(fs) + Len(u) /\ j <= Len(fs)
    BY <1>2, <2>1
  <2> QED BY <2>2, <1>3
<1>8. /\ r \in Seq(GoodFrame) /\ Len(s) \in Nat \ {0} /\ Len(fs) \in Nat
      /\ Len(r) = Len(fs) + Len(s) - 1
      /\ \A j \in 1..Len(fs) : r[j] = fs[j]
      /\ \A j \in 2..Len(s) : r[j - 1 + Len(fs)] = s[j]
      /\ \A j \in Len(fs) + 1..Len(r) : r[j] = s[j + 1 - Len(fs)]
  BY <1>2, <1>3, <1>4, <1>5, <1>6, <1>7
<1> QED BY <1>8, Zenon DEF r, u

\* The top frame of the host fiber was replaced by fs; other fibers were at most reset.
Returned(fs) ==
  /\ stack' \in [Threads -> Seq(GoodFrame)]
  /\ stack'[host] = fs \o Tail(stack[host])
  /\ \A t \in Threads \ {host} : stack'[t] \in {stack[t], <<>>}

\* That is what a return does.
LEMMA ReturnIs ==
  ASSUME host \in Threads, FramesGood, stack[host] # <<>>,
         NEW fs \in Seq(GoodFrame), Return(fs)
  PROVE  Returned(fs)
<1>1. stack[host] \in Seq(GoodFrame)
  BY DEF FramesGood
<1>2. fs \o Tail(stack[host]) \in Seq(GoodFrame)
  BY <1>1, ReplaceHead
<1> QED BY <1>2 DEF FramesGood, Return, Returned

-----------------------------------------------------------------------------
(* The modes of the host fiber.                                            *)

\* The top frame is at index 1.
LEMMA TopIs ==
  ASSUME host \in Threads, FramesGood, stack[host] # <<>>
  PROVE  /\ Top = stack[host][1] /\ Top \in GoodFrame
         /\ Len(stack[host]) \in Nat \ {0}
<1>1. stack[host] \in Seq(GoodFrame)
  BY DEF FramesGood
<1> QED BY <1>1, EmptySeq, ElementOfSeq DEF Top

\* A call that is not safe is only made while the thread of the host runs.
LEMMA UnsafeRuns ==
  ASSUME host \in Threads, ControlSound, stack[host] # <<>>,
         Top.op \notin SafeOps \cup {"idle", "enable"}
  PROVE  Running
<1>1. Top = stack[host][1] /\ Len(stack[host]) \in Nat \ {0}
  BY TopIs DEF ControlSound
<1>2. \A i \in 1..Len(stack[host]) : SafeAbove(stack[host], i) => i = 1
  BY <1>1 DEF SafeAbove
<1>3. ~Leaving
  BY <1>1, <1>2 DEF Leaving, HostFrames, Selects, SafeOps
<1>4. ~InHandler
  BY <1>1, <1>2 DEF InHandler, HostFrames
<1>5. ~Idling
  BY <1>1, <1>2 DEF Idling, HostFrames
<1>6. ~IdleHandler
  BY <1>1, <1>2 DEF IdleHandler, HostFrames
<1> QED BY <1>3, <1>4, <1>5, <1>6 DEF ControlSound, HostControl

\* So is guest code, which runs on an empty stack.
LEMMA GuestCodeRuns ==
  ASSUME host \in Threads, ControlSound, InGuestCode
  PROVE  Running
<1>1. stack[host] = <<>> /\ Len(stack[host]) = 0
  BY DEF InGuestCode
<1> QED BY <1>1 DEF ControlSound, HostControl, HostFrames, Leaving, InHandler, Idling, IdleHandler
-----------------------------------------------------------------------------
(* Steps.                                                                  *)

\* What a step that is not a switch does to the thread states: none starts to run,
\* and the running one is not suspended behind its back.
NoneStarts ==
  \A t \in Threads :
    state'[t] = "running" => /\ state[t] = "running"
                             /\ suspend[t] = 0 => suspend'[t] = 0

\* The frames fs end in SelectThread before anything but safe calls.
WillSelect(fs) ==
  \E i \in 1..Len(fs) : SafeAbove(fs, i) /\ Selects(fs[i])

AllSafe(fs) == \A i \in 1..Len(fs) : fs[i].op \in SafeOps

\* The other fibers stay parked.
LEMMA OthersStayParked ==
  ASSUME OthersParked, NoneStarts, host' = host,
         \A t \in Threads \ {host} : stack'[t] \in {stack[t], <<>>}
  PROVE  OthersParked'
<1> SUFFICES ASSUME NEW t \in Threads \ {host}
             PROVE  state'[t] # "running" /\ PlainFrom(stack'[t], 1)
  BY DEF OthersParked, PlainFrom
<1>1. PlainFrom(<<>>, 1)
  BY DEF PlainFrom
<1> QED BY <1>1 DEF OthersParked, NoneStarts

\* A safe call may return in every mode.  If it stops the thread of the host fiber,
\* or ends a pending SelectThread of a stopped one, SelectThread follows.
LEMMA SafeReturn ==
  ASSUME host \in Threads, ControlSound, stack[host] # <<>>, Top.op \in SafeOps,
         NEW fs \in Seq(GoodFrame), AllSafe(fs), Returned(fs),
         UNCHANGED cpuVars, NoneStarts, resched => resched',
         state[host] = "running" /\ state'[host] # "running" => resched' /\ WillSelect(fs)',
         disable = 0 /\ running = host /\ state[host] # "running" /\ Selects(Top)
           => WillSelect(fs)'
  PROVE  ControlSound'
<1> PICK s : s = stack[host]
  OBVIOUS
<1> PICK r : r = stack'[host]
  OBVIOUS
<1> PICK n : n = Len(fs)
  OBVIOUS
<1>1. /\ stack' \in [Threads -> Seq(GoodFrame)]
      /\ r = fs \o Tail(s)
      /\ \A t \in Threads \ {host} : stack'[t] \in {stack[t], <<>>}
  BY DEF Returned
<1>2. s \in Seq(GoodFrame) /\ s # <<>>
  BY DEF ControlSound, FramesGood
<1>3. /\ Len(s) \in Nat \ {0} /\ n \in Nat /\ Len(r) = n + Len(s) - 1
      /\ \A j \in 1..n : r[j] = fs[j]
      /\ \A j \in 2..Len(s) : r[j - 1 + n] = s[j]
      /\ \A j \in n + 1..Len(r) : r[j] = s[j + 1 - n]
  BY <1>1, <1>2, ReplaceHead
<1>4. Top = s[1]
  BY TopIs DEF ControlSound
<1>5. disable' = disable /\ running' = running /\ host' = host
  BY DEF cpuVars
<1>6. ASSUME NEW i \in 2..Len(s), SafeAbove(s, i)
      PROVE  /\ i - 1 + n \in 1..Len(r) /\ r[i - 1 + n] = s[i]
             /\ SafeAbove(r, i - 1 + n)
  <2>1. i - 1 + n \in 1..Len(r) /\ r[i - 1 + n] = s[i]
    BY <1>3
  <2>2. ASSUME NEW j \in 1..Len(r), j < i - 1 + n
        PROVE  r[j].op \in SafeOps
    <3>1. CASE j \in 1..n
      BY <3>1, <1>3 DEF AllSafe
    <3>2. CASE j \in n + 1..Len(r)
      <4>1. r[j] = s[j + 1 - n] /\ j + 1 - n \in 1..Len(s) /\ j + 1 - n < i
        BY <3>2, <1>3, <2>2
      <4> QED BY <4>1, <1>6 DEF SafeAbove
    <3> QED BY <3>1, <3>2, <1>3
  <2> QED BY <2>1, <2>2 DEF SafeAbove
<1>7. ASSUME NEW i \in 2..Len(s) + 1, PlainFrom(s, i)
      PROVE  PlainFrom(r, i - 1 + n)
  <2> SUFFICES ASSUME NEW j \in 1..Len(r), i - 1 + n <= j
               PROVE  r[j].op \notin {"idle", "enable"}
    BY DEF PlainFrom
  <2>1. r[j] = s[j + 1 - n] /\ j + 1 - n \in 1..Len(s) /\ i <= j + 1 - n
    BY <1>3
  <2> QED BY <2>1, <1>7 DEF PlainFrom
<1>8. ASSUME PlainFrom(s, 1) PROVE PlainFrom(r, 1)
  <2> SUFFICES ASSUME NEW j \in 1..Len(r) PROVE r[j].op \notin {"idle", "enable"}
    BY DEF PlainFrom
  <2>1. CASE j \in 1..n
    <3>1. r[j].op \in SafeOps
      BY <2>1, <1>3 DEF AllSafe
    <3> QED BY <3>1 DEF SafeOps
  <2>2. CASE j \in n + 1..Len(r)
    <3>1. r[j] = s[j + 1 - n]
      BY <2>2, <1>3
    <3>2. j + 1 - n \in 1..Len(s) /\ 1 <= j + 1 - n
      BY <2>2, <1>3
    <3> QED BY <3>1, <3>2, <1>8 DEF PlainFrom
  <2> QED BY <2>1, <2>2, <1>3
<1>9. ASSUME WillSelect(fs)'
      PROVE  \E i \in 1..Len(r) : SafeAbove(r, i) /\ Selects(r[i])'
  <2>1. PICK i \in 1..n : Selects(fs[i])'
    BY <1>9 DEF WillSelect
  <2>2. i \in 1..Len(r) /\ r[i] = fs[i]
    BY <1>3
  <2>3. SafeAbove(r, i)
    BY SMTT(30), <1>3 DEF SafeAbove, AllSafe
  <2> QED BY <2>1, <2>2, <2>3 DEF Selects
<1>10. OnCPU /\ state'[host] = "running" => OnCPU'
  BY <1>5 DEF OnCPU, NoneStarts
<1>11. state[host] # "running" => state'[host] # "running"
  BY DEF NoneStarts
<1>18. OthersParked'
  BY <1>1, <1>5, OthersStayParked DEF ControlSound
<1> SUFFICES HostControl'
  BY <1>1, <1>18 DEF ControlSound, FramesGood
<1>12. CASE Running
  <2>0. disable' = 0 /\ running' = host' /\ PlainFrom(r, 1)
    BY <1>12, <1>5, <1>8 DEF Running, HostFrames
  <2>1. CASE state'[host] = "running"
    <3>1. Running'
      BY <2>0, <2>1, <1>12, <1>5, <1>10 DEF Running, HostFrames, PlainFrom
    <3> QED BY <3>1 DEF HostControl
  <2>2. CASE state'[host] # "running"
    <3>1. WillSelect(fs)'
      BY <2>2, <1>12 DEF Running, OnCPU
    <3>2. Leaving'
      BY <3>1, <2>0, <2>2, <1>9, <1>5
      DEF Leaving, HostFrames, PlainFrom, SafeAbove, Selects
    <3> QED BY <3>2 DEF HostControl
  <2> QED BY <2>1, <2>2
<1>13. CASE Leaving
  <2>0. disable' = 0 /\ running' = host' /\ state'[host] # "running" /\ PlainFrom(r, 1)
    BY <1>13, <1>5, <1>8, <1>11 DEF Leaving, HostFrames
  <2>1. PICK i \in 1..Len(s) : SafeAbove(s, i) /\ Selects(s[i])
    BY <1>13 DEF Leaving, HostFrames
  <2>2. \E k \in 1..Len(r) : SafeAbove(r, k) /\ Selects(r[k])'
    <3>1. CASE i = 1
      <4>1. WillSelect(fs)'
        BY <3>1, <2>1, <1>4, <1>13 DEF Leaving
      <4> QED BY <4>1, <1>9
    <3>2. CASE i \in 2..Len(s)
      BY <3>2, <2>1, <1>6 DEF Selects
    <3>3. i = 1 \/ i \in 2..Len(s)
      BY <1>3
    <3> QED BY <3>1, <3>2, <3>3
  <2>3. Leaving'
    BY <2>0, <2>2, <1>5 DEF Leaving, HostFrames, PlainFrom, SafeAbove, Selects
  <2> QED BY <2>3 DEF HostControl
<1>14. CASE InHandler
  <2>1. SafeAbove(s, Len(s)) /\ s[Len(s)].op = "enable"
    BY <1>14 DEF InHandler, HostFrames
  <2>2. Len(s) \in 2..Len(s)
    BY <2>1, <1>3, <1>4 DEF SafeOps
  <2>3. Len(r) = Len(s) - 1 + n
    BY <1>3
  <2>4. SafeAbove(r, Len(r)) /\ r[Len(r)].op = "enable" /\ Len(r) \in 1..Len(r)
    BY <2>1, <2>2, <2>3, <1>6
  <2>5. r # <<>>
    BY <2>4
  <2>6. OnCPU' \/ (state'[host] # "running" /\ resched')
    BY <1>14, <1>10, <1>11 DEF InHandler, OnCPU
  <2>7. InHandler'
    BY <2>4, <2>5, <2>6, <1>14, <1>5 DEF InHandler, HostFrames, SafeAbove
  <2> QED BY <2>7 DEF HostControl
<1>15. CASE Idling
  <2>1. PICK i \in 1..Len(s) :
          SafeAbove(s, i) /\ s[i].op = "idle" /\ PlainFrom(s, i + 1)
    BY <1>15 DEF Idling, HostFrames
  <2>2. i \in 2..Len(s) /\ i + 1 \in 2..Len(s) + 1
    BY <2>1, <1>3, <1>4 DEF SafeOps
  <2>3. PlainFrom(r, (i + 1) - 1 + n)
    BY <2>1, <2>2, <1>7
  <2>4. PICK k \in 1..Len(r) : k = i - 1 + n
    BY <2>1, <2>2, <1>6
  <2>5. SafeAbove(r, k) /\ r[k].op = "idle" /\ PlainFrom(r, k + 1)
    <3>1. k + 1 = (i + 1) - 1 + n
      BY <2>4, <1>3
    <3> QED BY <3>1, <2>1, <2>2, <2>3, <2>4, <1>6
  <2>6. Idling'
    BY <2>4, <2>5, <1>15, <1>5, <1>11 DEF Idling, HostFrames, SafeAbove, PlainFrom
  <2> QED BY <2>6 DEF HostControl
<1>16. CASE IdleHandler
  <2>1. PICK i \in 1..Len(s) - 1 : /\ SafeAbove(s, i) /\ s[i].op = "enable"
                                   /\ s[i + 1].op = "idle" /\ PlainFrom(s, i + 2)
    BY <1>16 DEF IdleHandler, HostFrames
  <2>2. i \in 2..Len(s) /\ i + 1 \in 2..Len(s) /\ i + 2 \in 2..Len(s) + 1
    BY SMTT(30), <2>1, <1>3, <1>4 DEF SafeOps
  <2>3. PlainFrom(r, (i + 2) - 1 + n) /\ r[(i + 1) - 1 + n] = s[i + 1]
    BY <2>1, <2>2, <1>7, <1>3
  <2>4. PICK k \in 1..Len(r) : k = i - 1 + n
    BY <2>1, <2>2, <1>6
  <2>5. k \in 1..Len(r) - 1 /\ k + 1 = (i + 1) - 1 + n /\ k + 2 = (i + 2) - 1 + n
    BY <2>2, <2>4, <1>3
  <2>6. /\ SafeAbove(r, k) /\ r[k].op = "enable" /\ r[k + 1].op = "idle"
        /\ PlainFrom(r, k + 2)
    BY <2>1, <2>2, <2>3, <2>4, <2>5, <1>6
  <2>7. IdleHandler'
    BY <2>5, <2>6, <1>16, <1>5, <1>11 DEF IdleHandler, HostFrames, SafeAbove, PlainFrom
  <2> QED BY <2>7 DEF HostControl
<1> QED BY <1>12, <1>13, <1>14, <1>15, <1>16 DEF ControlSound, HostControl

\* The other calls return only while the thread of the host fiber runs.  If it does
\* not run any more, SelectThread follows.
LEMMA UnsafeReturn ==
  ASSUME host \in Threads, ControlSound, Running, stack[host] # <<>>,
         NEW fs \in Seq(GoodFrame), PlainFrom(fs, 1), Returned(fs),
         UNCHANGED cpuVars, NoneStarts,
         state'[host] = "running" \/ WillSelect(fs)'
  PROVE  ControlSound'
<1> PICK s : s = stack[host]
  OBVIOUS
<1> PICK r : r = stack'[host]
  OBVIOUS
<1>1. /\ stack' \in [Threads -> Seq(GoodFrame)]
      /\ r = fs \o Tail(s)
      /\ \A t \in Threads \ {host} : stack'[t] \in {stack[t], <<>>}
  BY DEF Returned
<1>2. s \in Seq(GoodFrame) /\ s # <<>>
  BY DEF ControlSound, FramesGood
<1>3. /\ Len(s) \in Nat \ {0} /\ Len(fs) \in Nat /\ Len(r) = Len(fs) + Len(s) - 1
      /\ \A j \in 1..Len(fs) : r[j] = fs[j]
      /\ \A j \in Len(fs) + 1..Len(r) : r[j] = s[j + 1 - Len(fs)]
  BY <1>1, <1>2, ReplaceHead
<1>4. disable' = 0 /\ running' = host' /\ host' = host
  BY DEF cpuVars, Running
<1>5. PlainFrom(r, 1)
  <2> SUFFICES ASSUME NEW j \in 1..Len(r) PROVE r[j].op \notin {"idle", "enable"}
    BY DEF PlainFrom
  <2>1. CASE j \in 1..Len(fs)
    BY <2>1, <1>3 DEF PlainFrom
  <2>2. CASE j \in Len(fs) + 1..Len(r)
    <3>1. r[j] = s[j + 1 - Len(fs)]
      BY <2>2, <1>3
    <3>2. j + 1 - Len(fs) \in 1..Len(s) /\ 1 <= j + 1 - Len(fs)
      BY <2>2, <1>3
    <3> QED BY <3>1, <3>2 DEF PlainFrom, Running, HostFrames
  <2> QED BY <2>1, <2>2, <1>3
<1>6. OthersParked'
  BY <1>1, <1>4, OthersStayParked DEF ControlSound
<1> SUFFICES HostControl'
  BY <1>1, <1>6 DEF ControlSound, FramesGood
<1>7. CASE state'[host] = "running"
  <2>1. Running'
    BY <1>4, <1>5, <1>7 DEF Running, OnCPU, NoneStarts, HostFrames, PlainFrom
  <2> QED BY <2>1 DEF HostControl
<1>8. CASE state'[host] # "running"
  <2>1. PICK i \in 1..Len(fs) : SafeAbove(fs, i) /\ Selects(fs[i])'
    BY <1>8 DEF WillSelect, SafeAbove
  <2>2. i \in 1..Len(r) /\ r[i] = fs[i] /\ SafeAbove(r, i)
    BY SMTT(30), <2>1, <1>3 DEF SafeAbove
  <2>3. Leaving'
    BY <1>4, <1>5, <1>8, <2>1, <2>2
    DEF Leaving, HostFrames, PlainFrom, SafeAbove, Selects
  <2> QED BY <2>3 DEF HostControl
<1> QED BY <1>7, <1>8

\* Guest code makes a call.
LEMMA GuestPush ==
  ASSUME host \in Threads, ControlSound, InGuestCode,
         NEW fs \in Seq(GoodFrame), PlainFrom(fs, 1), Push(fs),
         UNCHANGED cpuVars, NoneStarts,
         state'[host] = "running" \/ WillSelect(fs)'
  PROVE  ControlSound'
<1>1. Running
  BY GuestCodeRuns
<1>2. /\ stack' \in [Threads -> Seq(GoodFrame)]
      /\ stack'[host] = fs
      /\ \A t \in Threads \ {host} : stack'[t] \in {stack[t], <<>>}
  <2>1. fs \o stack[host] = fs
    BY ConcatEmptySeq DEF InGuestCode
  <2> QED BY <2>1 DEF ControlSound, FramesGood, Push
<1>3. disable' = 0 /\ running' = host' /\ host' = host
  BY <1>1 DEF cpuVars, Running
<1>4. OthersParked'
  BY <1>2, <1>3, OthersStayParked DEF ControlSound
<1> SUFFICES HostControl'
  BY <1>2, <1>4 DEF ControlSound, FramesGood
<1>5. CASE state'[host] = "running"
  <2>1. Running'
    BY <1>1, <1>2, <1>3, <1>5 DEF Running, OnCPU, NoneStarts, HostFrames, PlainFrom
  <2> QED BY <2>1 DEF HostControl
<1>6. CASE state'[host] # "running"
  <2>1. Leaving'
    BY <1>2, <1>3, <1>6
    DEF WillSelect, Leaving, HostFrames, PlainFrom, SafeAbove, Selects
  <2> QED BY <2>1 DEF HostControl
<1> QED BY <1>5, <1>6

\* A switch: the next thread runs on its own fiber, the one that left is parked.
LEMMA SwitchControl ==
  ASSUME host \in Threads, ControlSound, stack[host] # <<>>, NEW next \in Threads,
         state'[next] = "running", suspend'[next] = 0,
         \A t \in Threads \ {next} : state'[t] # "running",
         disable' = 0, running' = next, host' = next,
         PlainFrom(stack[host], 2),
         stack' = [stack EXCEPT ![host] = IF Terminated(host) THEN <<>> ELSE Tail(@)]
  PROVE  ControlSound'
<1>1. stack[host] \in Seq(GoodFrame)
  BY DEF ControlSound, FramesGood
<1>2. /\ Tail(stack[host]) \in Seq(GoodFrame)
      /\ Len(Tail(stack[host])) = Len(stack[host]) - 1
      /\ \A i \in 1..Len(Tail(stack[host])) : Tail(stack[host])[i] = stack[host][i + 1]
  BY <1>1, HeadTailProperties
<1>3. Len(stack[host]) \in Nat \ {0}
  BY <1>1, EmptySeq
<1>4. PlainFrom(Tail(stack[host]), 1)
  BY <1>2, <1>3 DEF PlainFrom
<1>5. <<>> \in Seq(GoodFrame) /\ PlainFrom(<<>>, 1)
  BY DEF PlainFrom
<1>6. stack' \in [Threads -> Seq(GoodFrame)]
  BY <1>2, <1>5 DEF ControlSound, FramesGood
<1>7. \A t \in Threads : PlainFrom(stack'[t], 1)
  <2> TAKE t \in Threads
  <2>1. stack'[t] = IF t = host THEN IF Terminated(host) THEN <<>> ELSE Tail(stack[host])
                    ELSE stack[t]
    BY DEF ControlSound, FramesGood
  <2> QED BY <2>1, <1>4, <1>5 DEF ControlSound, OthersParked
<1>8. Running'
  BY <1>7 DEF Running, OnCPU, HostFrames, PlainFrom
<1>9. OthersParked'
  BY <1>7 DEF OthersParked, PlainFrom
<1> QED BY <1>6, <1>8, <1>9 DEF ControlSound, HostControl, FramesGood

-----------------------------------------------------------------------------
(* The idle loop and handlers.                                             *)

\* Frames pushed on a stack.
LEMMA PushedFrames ==
  ASSUME NEW s \in Seq(GoodFrame), NEW fs \in Seq(GoodFrame)
  PROVE  LET r == fs \o s IN
         /\ r \in Seq(GoodFrame)
         /\ Len(s) \in Nat /\ Len(fs) \in Nat /\ Len(r) = Len(fs) + Len(s)
         /\ \A j \in 1..Len(fs) : r[j] = fs[j]
         /\ \A j \in Len(fs) + 1..Len(r) : r[j] = s[j - Len(fs)]
<1> DEFINE r == fs \o s
<1>1. Len(s) \in Nat /\ Len(fs) \in Nat
  BY LenProperties
<1>2. /\ r \in Seq(GoodFrame) /\ Len(r) = Len(fs) + Len(s)
      /\ \A i \in 1..Len(fs) + Len(s) :
           r[i] = IF i <= Len(fs) THEN fs[i] ELSE s[i - Len(fs)]
  BY ConcatProperties
<1> HIDE DEF r
<1>3. \A j \in Len(fs) + 1..Len(r) : r[j] = s[j - Len(fs)]
  <2> TAKE j \in Len(fs) + 1..Len(r)
  <2>1. j \in 1..Len(fs) + Len(s) /\ ~(j <= Len(fs))
    BY <1>1, <1>2
  <2> QED BY <2>1, <1>2
<1> QED BY <1>1, <1>2, <1>3 DEF r

\* With the idle loop on top, the fiber idles outside a handler.
LEMMA IdleOnTop ==
  ASSUME host \in Threads, ControlSound, At("idle")
  PROVE  /\ disable = 0 /\ running = NoThread /\ state[host] # "running"
         /\ stack[host] # <<>> /\ stack[host][1].op = "idle"
         /\ PlainFrom(stack[host], 2)
<1>1. /\ stack[host] # <<>> /\ stack[host][1].op = "idle" /\ Len(stack[host]) \in Nat \ {0}
  BY TopIs DEF At, ControlSound, Top
<1>2. \A i \in 1..Len(stack[host]) : SafeAbove(stack[host], i) => i = 1
  BY <1>1 DEF SafeAbove, SafeOps
<1>3. 1 \in 1..Len(stack[host]) /\ ~PlainFrom(stack[host], 1)
  BY <1>1 DEF PlainFrom
<1>4. ~Running /\ ~Leaving
  BY <1>3 DEF Running, Leaving, HostFrames
<1>5. ~InHandler
  <2> SUFFICES ASSUME InHandler PROVE FALSE
    OBVIOUS
  <2>1. Len(stack[host]) = 1
    BY <1>1, <1>2 DEF InHandler, HostFrames
  <2> QED BY <1>1, <2>1 DEF InHandler, HostFrames
<1>6. ~IdleHandler
  <2> SUFFICES ASSUME IdleHandler PROVE FALSE
    OBVIOUS
  <2>1. PICK i \in 1..Len(stack[host]) - 1 :
          SafeAbove(stack[host], i) /\ stack[host][i].op = "enable"
    BY DEF IdleHandler, HostFrames
  <2>2. i = 1
    BY <2>1, <1>1, <1>2
  <2> QED BY <1>1, <2>1, <2>2
<1>7. Idling
  BY <1>4, <1>5, <1>6 DEF ControlSound, HostControl
<1>8. PlainFrom(stack[host], 2)
  <2>1. PICK i \in 1..Len(stack[host]) :
          SafeAbove(stack[host], i) /\ PlainFrom(stack[host], i + 1)
    BY <1>7 DEF Idling, HostFrames
  <2>2. i = 1
    BY <2>1, <1>2
  <2> QED BY <2>1, <2>2
<1> QED BY <1>1, <1>7, <1>8 DEF Idling

\* The idle loop calls ProcessSleepTimers.
LEMMA IdlePush ==
  ASSUME host \in Threads, ControlSound, At("idle"),
         NEW f \in GoodFrame, f.op \in SafeOps, Push(<<f>>),
         UNCHANGED cpuVars, UNCHANGED state
  PROVE  ControlSound'
<1> PICK s : s = stack[host]
  OBVIOUS
<1> PICK r : r = stack'[host]
  OBVIOUS
<1>1. s \in Seq(GoodFrame) /\ <<f>> \in Seq(GoodFrame) /\ Len(<<f>>) = 1 /\ <<f>>[1] = f
  BY DEF ControlSound, FramesGood
<1>2. /\ r = <<f>> \o s
      /\ \A t \in Threads \ {host} : stack'[t] = stack[t]
  BY DEF Push, ControlSound, FramesGood
<1>3. /\ r \in Seq(GoodFrame) /\ Len(s) \in Nat /\ Len(r) = 1 + Len(s) /\ r[1] = f
      /\ \A j \in 2..Len(r) : r[j] = s[j - 1]
  BY <1>1, <1>2, PushedFrames
<1>4. stack' \in [Threads -> Seq(GoodFrame)]
  BY <1>2, <1>3 DEF Push, ControlSound, FramesGood
<1>5. /\ disable = 0 /\ running = NoThread /\ state[host] # "running"
      /\ s # <<>> /\ s[1].op = "idle" /\ PlainFrom(s, 2)
  BY IdleOnTop
<1>6. disable' = 0 /\ running' = NoThread /\ state'[host'] # "running" /\ host' = host
  BY <1>5 DEF cpuVars
<1>7. Len(s) \in Nat \ {0}
  BY <1>1, <1>5, EmptySeq
<1>8. PlainFrom(r, 3)
  <2> SUFFICES ASSUME NEW j \in 1..Len(r), 3 <= j
               PROVE  r[j].op \notin {"idle", "enable"}
    BY DEF PlainFrom
  <2>1. r[j] = s[j - 1] /\ j - 1 \in 1..Len(s) /\ 2 <= j - 1
    BY <1>3
  <2> QED BY <2>1, <1>5 DEF PlainFrom
<1>9. 2 \in 1..Len(r) /\ r[2].op = "idle" /\ SafeAbove(r, 2)
  BY <1>3, <1>5, <1>7 DEF SafeAbove
<1>10. Idling'
  <2>1. PlainFrom(r, 2 + 1)
    BY <1>8
  <2> QED BY <1>6, <1>9, <2>1 DEF Idling, HostFrames, SafeAbove, PlainFrom
<1>11. OthersParked'
  BY <1>2, <1>6 DEF ControlSound, OthersParked, PlainFrom
<1> QED BY <1>4, <1>10, <1>11 DEF ControlSound, HostControl, FramesGood

\* An alarm handler is called from guest code or from the idle loop.
LEMMA HandlerPush ==
  ASSUME host \in Threads, ControlSound, InGuestCode \/ At("idle"),
         NEW f \in GoodFrame, f.op \in SafeOps, F("enable") \in GoodFrame,
         Push(<<f, F("enable")>>),
         disable' = disable + 1, UNCHANGED <<running, host, state, suspend>>
  PROVE  ControlSound'
<1> PICK s : s = stack[host]
  OBVIOUS
<1> PICK r : r = stack'[host]
  OBVIOUS
<1> PICK fs : fs = <<f, F("enable")>>
  OBVIOUS
<1>1. s \in Seq(GoodFrame) /\ fs \in Seq(GoodFrame) /\ Len(fs) = 2 /\ fs[1] = f
      /\ fs[2].op = "enable"
  BY DEF ControlSound, FramesGood, F
<1>2. /\ r = fs \o s
      /\ \A t \in Threads \ {host} : stack'[t] = stack[t]
  BY DEF Push, ControlSound, FramesGood
<1>3. /\ r \in Seq(GoodFrame) /\ Len(s) \in Nat /\ Len(r) = 2 + Len(s)
      /\ r[1] = f /\ r[2].op = "enable"
      /\ \A j \in 3..Len(r) : r[j] = s[j - 2]
  BY <1>1, <1>2, PushedFrames
<1>4. stack' \in [Threads -> Seq(GoodFrame)]
  BY <1>2, <1>3 DEF Push, ControlSound, FramesGood
<1>5. OthersParked'
  BY <1>2 DEF ControlSound, OthersParked, PlainFrom
<1>6. SafeAbove(r, 2) /\ 2 \in 1..Len(r)
  BY <1>3 DEF SafeAbove
<1> SUFFICES HostControl'
  BY <1>4, <1>5 DEF ControlSound, FramesGood
<1>7. CASE InGuestCode
  <2>1. Running
    BY <1>7, GuestCodeRuns
  <2>2. Len(r) = 2 /\ r # <<>>
    BY <1>3, <1>7 DEF InGuestCode
  <2>3. InHandler'
    BY <2>1, <2>2, <1>3, <1>6 DEF Running, OnCPU, InHandler, HostFrames, SafeAbove
  <2> QED BY <2>3 DEF HostControl
<1>8. CASE At("idle")
  <2>1. /\ disable = 0 /\ running = NoThread /\ state[host] # "running"
        /\ s # <<>> /\ s[1].op = "idle" /\ PlainFrom(s, 2)
    BY <1>8, IdleOnTop
  <2>2. Len(s) \in Nat \ {0}
    BY <1>1, <2>1, EmptySeq
  <2>3. PlainFrom(r, 4)
    <3> SUFFICES ASSUME NEW j \in 1..Len(r), 4 <= j
                 PROVE  r[j].op \notin {"idle", "enable"}
      BY DEF PlainFrom
    <3>1. r[j] = s[j - 2] /\ j - 2 \in 1..Len(s) /\ 2 <= j - 2
      BY SMTT(30), <1>3
    <3> QED BY <3>1, <2>1 DEF PlainFrom
  <2>4. r[2 + 1].op = "idle" /\ 2 \in 1..Len(r) - 1 /\ PlainFrom(r, 2 + 2)
    <3>1. r[3] = s[3 - 2] /\ 3 - 2 = 1
      BY SMTT(30), <1>3, <2>2
    <3> QED BY <3>1, <1>3, <2>1, <2>2, <2>3
  <2>5. IdleHandler'
    BY <2>1, <2>4, <1>3, <1>6 DEF IdleHandler, HostFrames, SafeAbove, PlainFrom
  <2> QED BY <2>5 DEF HostControl
<1> QED BY <1>7, <1>8

\* The handler has returned: the fiber is back where it was called, and reschedules.
LEMMA HandlerReturn ==
  ASSUME host \in Threads, ControlSound, At("enable"), F("resched") \in GoodFrame,
         Return(<<F("resched")>>), disable' = disable - 1,
         UNCHANGED <<running, host, state, suspend, resched>>
  PROVE  ControlSound' /\ disable = 1
<1> PICK s : s = stack[host]
  OBVIOUS
<1> PICK r : r = stack'[host]
  OBVIOUS
<1> PICK fs : fs = <<F("resched")>>
  OBVIOUS
<1>1. /\ s \in Seq(GoodFrame) /\ s # <<>>
      /\ fs \in Seq(GoodFrame) /\ Len(fs) = 1 /\ fs[1].op = "resched"
  BY DEF ControlSound, FramesGood, At, F
<1>2. Returned(fs)
  BY <1>1, ReturnIs DEF ControlSound
<1>3. /\ Len(s) \in Nat \ {0} /\ Len(r) = Len(s) /\ r[1].op = "resched"
      /\ \A j \in 2..Len(s) : r[j] = s[j]
  BY <1>1, <1>2, ReplaceHead DEF Returned
<1>4. s[1].op = "enable"
  BY <1>1, TopIs DEF ControlSound, At, Top
<1>5. \A i \in 1..Len(s) : SafeAbove(s, i) => i = 1
  BY <1>3, <1>4 DEF SafeAbove, SafeOps
<1>6. OthersParked'
  BY <1>2 DEF ControlSound, OthersParked, PlainFrom, Returned
<1>7. ~Running /\ ~Leaving
  BY <1>3, <1>4 DEF Running, Leaving, PlainFrom, HostFrames
<1>8. ~Idling
  BY <1>4, <1>5 DEF Idling, HostFrames
<1> SUFFICES HostControl' /\ disable = 1
  BY <1>2, <1>6 DEF ControlSound, FramesGood, Returned
<1>9. CASE InHandler
  <2>1. Len(s) = 1
    <3>1. SafeAbove(s, Len(s)) /\ Len(s) \in 1..Len(s)
      BY <1>3, <1>9 DEF InHandler, HostFrames
    <3> QED BY <3>1, <1>5
  <2>2. PlainFrom(r, 1) /\ SafeAbove(r, 1) /\ 1 \in 1..Len(r)
    BY <2>1, <1>3 DEF PlainFrom, SafeAbove
  <2>3. Running' \/ Leaving'
    BY <2>2, <1>3, <1>9
    DEF Running, Leaving, InHandler, OnCPU, HostFrames, PlainFrom, SafeAbove, Selects
  <2> QED BY <2>3, <1>9 DEF HostControl, InHandler
<1>10. CASE IdleHandler
  <2>1. PICK i \in 1..Len(s) - 1 : /\ SafeAbove(s, i) /\ s[i + 1].op = "idle"
                                   /\ PlainFrom(s, i + 2)
    BY <1>10 DEF IdleHandler, HostFrames
  <2>2. i = 1 /\ 2 \in 1..Len(s) /\ s[2].op = "idle" /\ PlainFrom(s, 3)
    BY <2>1, <1>3, <1>5
  <2>3. /\ 2 \in 1..Len(r) /\ r[2].op = "idle" /\ SafeAbove(r, 2) /\ PlainFrom(r, 2 + 1)
    BY <2>2, <1>3 DEF SafeAbove, PlainFrom, SafeOps
  <2>4. Idling'
    BY <2>3, <1>10 DEF Idling, IdleHandler, HostFrames, PlainFrom, SafeAbove
  <2> QED BY <2>4, <1>10 DEF HostControl, IdleHandler
<1> QED BY <1>7, <1>8, <1>9, <1>10 DEF ControlSound, HostControl

\* SelectThread enters the idle loop.
LEMMA GoIdle ==
  ASSUME host \in Threads, ControlSound, stack[host] # <<>>, PlainFrom(stack[host], 2),
         disable = 0, state[host] # "running", F("idle") \in GoodFrame,
         Return(<<F("idle")>>), running' = NoThread, UNCHANGED <<disable, host, state>>
  PROVE  ControlSound'
<1> PICK s : s = stack[host]
  OBVIOUS
<1> PICK r : r = stack'[host]
  OBVIOUS
<1> PICK fs : fs = <<F("idle")>>
  OBVIOUS
<1>1. /\ s \in Seq(GoodFrame) /\ s # <<>>
      /\ fs \in Seq(GoodFrame) /\ Len(fs) = 1 /\ fs[1].op = "idle"
  BY DEF ControlSound, FramesGood, F
<1>2. Returned(fs)
  BY <1>1, ReturnIs DEF ControlSound
<1>3. /\ Len(s) \in Nat \ {0} /\ Len(r) = Len(s) /\ r[1].op = "idle"
      /\ \A j \in 2..Len(s) : r[j] = s[j]
  BY <1>1, <1>2, ReplaceHead DEF Returned
<1>4. 1 \in 1..Len(r) /\ SafeAbove(r, 1) /\ PlainFrom(r, 1 + 1)
  BY <1>3 DEF SafeAbove, PlainFrom
<1>5. Idling'
  BY <1>3, <1>4 DEF Idling, HostFrames, SafeAbove, PlainFrom
<1>6. OthersParked'
  BY SMTT(30), <1>2 DEF ControlSound, OthersParked, PlainFrom, Returned
<1> QED BY <1>2, <1>5, <1>6 DEF ControlSound, HostControl, FramesGood, Returned

-----------------------------------------------------------------------------
(* The frames that the calls put on a fiber.                               *)

\* Frames of safe calls, and frames without an idle loop or a handler.
SafeFrames(fs)  == fs \in Seq(GoodFrame) /\ AllSafe(fs)
PlainFrames(fs) == fs \in Seq(GoodFrame) /\ PlainFrom(fs, 1)
\* Frames that end in SelectThread, at once or when a reschedule was requested.
EndsInSelect(fs) ==
  \E i \in 1..Len(fs) : SafeAbove(fs, i) /\ fs[i].op \in {"select", "finish"}
EndsInResched(fs) ==
  \E i \in 1..Len(fs) : SafeAbove(fs, i) /\ fs[i].op \in {"select", "finish", "resched"}

\* Frames that end in SelectThread end the fiber's stay on the host once they are
\* pushed.
LEMMA WillSelectIs ==
  ASSUME NEW fs
  PROVE  /\ EndsInSelect(fs) => WillSelect(fs)' /\ EndsInResched(fs)
         /\ EndsInResched(fs) /\ resched' => WillSelect(fs)'
  BY DEF WillSelect, EndsInSelect, EndsInResched, Selects, SafeAbove

\* Frames without a queue or a thread.
LEMMA PlainFrameIs ==
  ASSUME NEW o \in {"select", "yield", "resched", "idle", "enable", "exit", "finish",
                    "timers", "reconcile", "sleepTicks", "ticked"}
  PROVE  F(o) \in GoodFrame /\ F(o).op = o
  BY DEF F, GoodFrame, Frame, FrameOps

\* Frames that name a thread.
LEMMA ThreadFrameIs ==
  ASSUME NEW o \in {"suspend", "resume", "cancel", "join", "joined", "detach",
                    "unlockall", "promote", "propagate"}, NEW t \in Threads
  PROVE  FT(o, t) \in GoodFrame /\ FT(o, t).op = o
  BY DEF FT, GoodFrame, Frame, FrameOps

\* Frames of a walk along a chain of owners, which may have reached its end.
LEMMA ChainFrameIs ==
  ASSUME NEW o \in {"promote", "propagate"}, NEW t \in Threads \cup {NoThread}
  PROVE  FT(o, t) \in GoodFrame /\ FT(o, t).op = o
  BY DEF FT, GoodFrame, Frame, FrameOps

\* Frames that name a wait queue.
LEMMA QueueFrameIs ==
  ASSUME NEW o \in {"sleep", "parked", "wake", "woke", "drainjoin"}, NEW q \in WaitQueue
  PROVE  FQ(o, q) \in GoodFrame /\ FQ(o, q).op = o
  BY DEF FQ, GoodFrame, Frame, FrameOps, WaitQueue

\* Frames that name a mutex.
LEMMA MutexFrameIs ==
  ASSUME NEW o \in {"lock", "relock", "unlock"}, NEW m \in Mutexes
  PROVE  FQ(o, m) \in GoodFrame /\ FQ(o, m).op = o
  BY DEF FQ, GoodFrame, Frame, FrameOps, Queues

\* Frames of a batch of sleepers.
LEMMA DueFrameIs ==
  ASSUME NEW o \in {"fire", "heal"}, NEW d \in SUBSET Threads
  PROVE  FD(o, d) \in GoodFrame /\ FD(o, d).op = o
  BY DEF FD, GoodFrame, Frame, FrameOps

\* Safe frames are plain.
LEMMA SafeIsPlain ==
  ASSUME NEW fs, SafeFrames(fs)
  PROVE  PlainFrames(fs)
  BY DEF SafeFrames, PlainFrames, AllSafe, PlainFrom, SafeOps

\* A call that just returns pushes nothing.
LEMMA NoFrames ==
  SafeFrames(<<>>) /\ PlainFrames(<<>>)
  BY DEF SafeFrames, PlainFrames, AllSafe, PlainFrom

\* What one frame's operation says of the sequence that holds only it.
LEMMA OneFrame ==
  ASSUME NEW f \in GoodFrame
  PROVE  /\ f.op \in SafeOps => SafeFrames(<<f>>)
         /\ f.op \notin {"idle", "enable"} => PlainFrames(<<f>>)
         /\ f.op \in {"select", "finish"} => EndsInSelect(<<f>>)
         /\ f.op \in {"select", "finish", "resched"} => EndsInResched(<<f>>)
<1> PICK fs : fs = <<f>>
  OBVIOUS
<1>1. fs \in Seq(GoodFrame) /\ Len(fs) = 1 /\ fs[1] = f
  OBVIOUS
<1> QED BY <1>1
  DEF SafeFrames, PlainFrames, AllSafe, PlainFrom, EndsInSelect, EndsInResched, SafeAbove

\* The same for two frames, the second of which may be a reschedule.
LEMMA TwoFrames ==
  ASSUME NEW f \in GoodFrame, NEW g \in GoodFrame
  PROVE  /\ f.op \in SafeOps /\ g.op \in SafeOps => SafeFrames(<<f, g>>)
         /\ f.op \notin {"idle", "enable"} /\ g.op \notin {"idle", "enable"} =>
              PlainFrames(<<f, g>>)
         /\ f.op \in SafeOps /\ g.op \in {"select", "finish"} => EndsInSelect(<<f, g>>)
<1> PICK fs : fs = <<f, g>>
  OBVIOUS
<1>1. fs \in Seq(GoodFrame) /\ Len(fs) = 2 /\ fs[1] = f /\ fs[2] = g
  OBVIOUS
<1>2. \A i \in 1..2 : i = 1 \/ i = 2
  OBVIOUS
<1>3. f.op \in SafeOps /\ g.op \in SafeOps => SafeFrames(fs)
  BY <1>1, <1>2 DEF SafeFrames, AllSafe
<1>4. f.op \notin {"idle", "enable"} /\ g.op \notin {"idle", "enable"} => PlainFrames(fs)
  BY <1>1, <1>2 DEF PlainFrames, PlainFrom
<1>5. f.op \in SafeOps => SafeAbove(fs, 2)
  BY <1>1, <1>2 DEF SafeAbove
<1>6. f.op \in SafeOps /\ g.op \in {"select", "finish"} => EndsInSelect(fs)
  BY <1>1, <1>5 DEF EndsInSelect
<1> QED BY <1>3, <1>4, <1>6

\* The same for three frames of plain calls.
LEMMA ThreeFrames ==
  ASSUME NEW f \in GoodFrame, NEW g \in GoodFrame, NEW h \in GoodFrame,
         f.op \notin {"idle", "enable"}, g.op \notin {"idle", "enable"},
         h.op \notin {"idle", "enable"}
  PROVE  PlainFrames(<<f, g, h>>)
<1> PICK fs : fs = <<f, g, h>>
  OBVIOUS
<1>1. fs \in Seq(GoodFrame) /\ Len(fs) = 3 /\ fs[1] = f /\ fs[2] = g /\ fs[3] = h
  OBVIOUS
<1>2. \A i \in 1..3 : i = 1 \/ i = 2 \/ i = 3
  OBVIOUS
<1>3. \A i \in 1..Len(fs) : fs[i].op \notin {"idle", "enable"}
  BY <1>1, <1>2
<1> QED BY <1>1, <1>3 DEF PlainFrames, PlainFrom

\* A call that pushes the frames of two calls, one after the other.
LEMMA ConcatFrames ==
  ASSUME NEW a \in Seq(GoodFrame), NEW b \in Seq(GoodFrame)
  PROVE  /\ SafeFrames(a) /\ SafeFrames(b) => SafeFrames(a \o b)
         /\ PlainFrames(a) /\ PlainFrames(b) => PlainFrames(a \o b)
         /\ EndsInSelect(a) => EndsInSelect(a \o b)
         /\ SafeFrames(a) /\ EndsInSelect(b) => EndsInSelect(a \o b)
         /\ SafeFrames(a) /\ EndsInResched(b) => EndsInResched(a \o b)
<1> PICK r : r = a \o b
  OBVIOUS
<1>1. Len(a) \in Nat /\ Len(b) \in Nat
  BY LenProperties
<1>2. /\ r \in Seq(GoodFrame) /\ Len(r) = Len(a) + Len(b)
      /\ \A i \in 1..Len(a) + Len(b) : r[i] = IF i <= Len(a) THEN a[i] ELSE b[i - Len(a)]
  BY ConcatProperties
<1>3. \A i \in 1..Len(a) : i \in 1..Len(r) /\ r[i] = a[i]
  BY <1>1, <1>2
<1>4. \A i \in 1..Len(r) : (i \in 1..Len(a) /\ r[i] = a[i])
                           \/ (i - Len(a) \in 1..Len(b) /\ r[i] = b[i - Len(a)])
  BY <1>1, <1>2
<1>5. SafeFrames(a) /\ SafeFrames(b) => SafeFrames(r)
  BY <1>2, <1>4 DEF SafeFrames, AllSafe
<1>6. PlainFrames(a) /\ PlainFrames(b) => PlainFrames(r)
  <2>1. \A i \in 1..Len(a) : 1 <= i
    OBVIOUS
  <2>2. \A i \in 1..Len(b) : 1 <= i
    OBVIOUS
  <2> QED BY <2>1, <2>2, <1>2, <1>4 DEF PlainFrames, PlainFrom
<1>7. EndsInSelect(a) => EndsInSelect(r)
  BY <1>1, <1>2, <1>3 DEF EndsInSelect, SafeAbove
<1>8. ASSUME SafeFrames(a), NEW i \in 1..Len(b), SafeAbove(b, i)
      PROVE  /\ i + Len(a) \in 1..Len(r) /\ r[i + Len(a)] = b[i]
             /\ SafeAbove(r, i + Len(a))
  <2> DEFINE k == i + Len(a)
  <2>1. k \in 1..Len(r) /\ r[k] = b[i]
    <3>1. k \in 1..Len(a) + Len(b) /\ ~(k <= Len(a)) /\ k - Len(a) = i
      BY <1>1
    <3> QED BY <3>1, <1>2
  <2>2. SafeAbove(r, k)
    BY <1>1, <1>4, <1>8 DEF SafeAbove, SafeFrames, AllSafe
  <2> QED BY <2>1, <2>2
<1>9. SafeFrames(a) /\ EndsInSelect(b) => EndsInSelect(r)
  BY <1>8 DEF EndsInSelect
<1>10. SafeFrames(a) /\ EndsInResched(b) => EndsInResched(r)
  BY <1>8 DEF EndsInResched
<1> QED BY <1>5, <1>6, <1>7, <1>9, <1>10

\* A call of SelectThread consists of safe frames and ends in SelectThread.
LEMMA SelectCallIs ==
  /\ SafeFrames(SelectCall("select")) /\ EndsInSelect(SelectCall("select"))
  /\ PlainFrames(SelectCall("yield"))
<1>1. /\ F("select") \in GoodFrame /\ F("select").op = "select"
      /\ F("timers") \in GoodFrame /\ F("timers").op = "timers"
      /\ F("yield") \in GoodFrame /\ F("yield").op = "yield"
  BY PlainFrameIs
<1>2. SafeFrames(<<F("select")>>) /\ EndsInSelect(<<F("select")>>)
  BY <1>1, OneFrame DEF SafeOps
<1>3. SafeFrames(<<F("timers"), F("select")>>)
  BY <1>1, TwoFrames DEF SafeOps
<1>4. EndsInSelect(<<F("timers"), F("select")>>)
  <2> PICK fs : fs = <<F("timers"), F("select")>>
    OBVIOUS
  <2>1. Len(fs) = 2 /\ fs[1].op = "timers" /\ fs[2].op = "select"
    BY <1>1
  <2> QED BY <2>1 DEF EndsInSelect, SafeAbove, SafeOps
<1>5. PlainFrames(<<F("yield")>>) /\ PlainFrames(<<F("timers"), F("yield")>>)
  BY <1>1, OneFrame, TwoFrames
<1> QED BY <1>2, <1>3, <1>4, <1>5 DEF SelectCall

\* Typed frames.
LEMMA StackTyped ==
  ASSUME FramesGood'
  PROVE  stack' \in [Threads -> Seq(Frame)]
<1>1. GoodFrame \subseteq Frame
  BY DEF GoodFrame
<1>2. \A s \in Seq(GoodFrame) : s \in Seq(Frame)
  BY <1>1, SeqMonotonic
<1> QED BY <1>2 DEF FramesGood
==============================================================================
