---------------------------- MODULE HostPlayback ----------------------------
(***************************************************************************)
(* The ring between the guest and the host's playback thread               *)
(* (runtime/src/audio_backend.cpp). The guest appends blocks and gaps and  *)
(* never waits: what does not fit is dropped. The playback thread starts   *)
(* when a cushion has been built, and builds it again after it ran dry; the *)
(* silence it makes meanwhile is credited against blocks that come late.    *)
(* Sound is counted in units; units carry a number, modulo Numbers.        *)
(***************************************************************************)
EXTENDS Naturals, Sequences

CONSTANTS
  Limit,      \* units the ring holds
  Cushion,    \* units before playback starts, or starts again
  Lens,       \* units of a block or gap
  Request,    \* units the device asks for at once
  Numbers,    \* numbers of units
  Failures    \* bound: failed starts of the device

PlaybackAssumption ==
  /\ {Limit, Cushion, Request, Numbers, Failures} \subseteq Nat /\ Lens \subseteq 1..Limit
  /\ 0 < Cushion /\ Request # 0 /\ Limit + Request < Numbers
  /\ \A len \in Lens : Cushion - 1 + len <= Limit

VARIABLES
  ring,        \* units: a number, or Gap
  accepted,    \* number of the last unit put in the ring
  taken,       \* number of the last unit taken out of it
  credit,      \* frames of silence to account for
  creditFlag,  \* m_gapCreditPending
  started,     \* the device plays
  rebuffering, \* m_rebuffering
  producer,    \* "idle", "check" after a push, "resolve" between flag and lock
  pushed,      \* fill of the ring after this push
  player,      \* "idle", "silent" or "copied": between the lock and the device
  failures     \* failed starts

ringVars == <<ring, accepted, taken, credit, creditFlag, started, rebuffering, producer,
              pushed, player, failures>>

Smaller(a, b) == IF a < b THEN a ELSE b
\* A unit of silence.
Gap == Numbers

\* The number at place i; what was taken last stands at place 0.
NumberAt(i) == IF i = 0 THEN taken ELSE ring[i]

\* The last number before place j stands at place i.
LastBefore(i, j) ==
  /\ i # 0 => ring[i] # Gap
  /\ \A k \in (i + 1)..(j - 1) : ring[k] = Gap

-----------------------------------------------------------------------------
(* The guest: EnqueueSamples, ResolveStaleDmaFrames, ResetGapAccounting.   *)

Units(len, gap) == [i \in 1..len |-> IF gap THEN Gap ELSE (accepted + i) % Numbers]

\* Mutant: at the end of the ring the wrapped part overwrites its start.
AppendedWraps(units) ==
  IF Len(ring) + Len(units) = Limit THEN units \o Tail(ring) ELSE ring \o units

Appended(units) == ring \o units

Push(len, gap) ==
  /\ producer = "idle"
  /\ IF Len(ring) + len > Limit THEN UNCHANGED <<ring, accepted, producer, pushed>>
     ELSE /\ ring' = Appended(Units(len, gap))
          /\ accepted' = IF gap THEN accepted ELSE (accepted + len) % Numbers
          /\ producer' = "check" /\ pushed' = Len(ring')
  /\ UNCHANGED <<taken, credit, creditFlag, started, rebuffering, player, failures>>

StartCheck ==
  /\ producer = "check" /\ producer' = "idle" /\ pushed' = 0
  /\ IF started \/ pushed < Cushion THEN UNCHANGED <<started, failures>>
     ELSE \/ started' = TRUE /\ UNCHANGED failures
          \/ failures < Failures /\ failures' = failures + 1 /\ UNCHANGED started
  /\ UNCHANGED <<ring, accepted, taken, credit, creditFlag, rebuffering, player>>

\* The flag is read without the lock.
ResolveBegin ==
  /\ producer = "idle" /\ creditFlag /\ producer' = "resolve"
  /\ UNCHANGED <<ring, accepted, taken, credit, creditFlag, started, rebuffering, pushed,
                 player, failures>>

ResolveEnd ==
  /\ producer = "resolve" /\ producer' = "idle" /\ credit' = 0 /\ creditFlag' = FALSE
  /\ UNCHANGED <<ring, accepted, taken, started, rebuffering, pushed, player, failures>>

ResetGapAccounting ==
  /\ producer = "idle" /\ credit' = 0 /\ creditFlag' = FALSE /\ rebuffering' = FALSE
  /\ UNCHANGED <<ring, accepted, taken, started, producer, pushed, player, failures>>

-----------------------------------------------------------------------------
(* The playback thread: FeedAudioStream.                                   *)

Hold == rebuffering /\ Len(ring) < Cushion

Credit == credit' = Smaller(credit + Request, Limit) /\ creditFlag' = TRUE

\* The number taken last, when the first n units are taken.
Takes(n) == \E i \in 0..n : LastBefore(i, n + 1) /\ taken' = NumberAt(i)

Pull ==
  /\ started /\ player = "idle"
  /\ rebuffering' = Hold
  /\ IF Hold \/ ring = <<>>
     THEN Credit /\ player' = "silent" /\ UNCHANGED <<ring, taken>>
     ELSE LET n == Smaller(Request, Len(ring)) IN
          /\ Takes(n) /\ ring' = SubSeq(ring, n + 1, Len(ring))
          /\ player' = "copied" /\ UNCHANGED <<credit, creditFlag>>
  /\ UNCHANGED <<accepted, started, producer, pushed, failures>>

\* After the lock: silence marks the ring as dry, and the samples go to the device.
Supply ==
  /\ player # "idle" /\ player' = "idle"
  /\ rebuffering' = (player = "silent" \/ rebuffering)
  /\ UNCHANGED <<ring, accepted, taken, credit, creditFlag, started, producer, pushed, failures>>

-----------------------------------------------------------------------------
PlaybackInit ==
  /\ ring = <<>> /\ accepted = 0 /\ taken = 0 /\ credit = 0 /\ creditFlag = FALSE
  /\ started = FALSE /\ rebuffering = FALSE /\ producer = "idle" /\ pushed = 0
  /\ player = "idle" /\ failures = 0

PlaybackNext ==
  \/ \E len \in Lens, gap \in BOOLEAN : Push(len, gap)
  \/ StartCheck \/ ResolveBegin \/ ResolveEnd \/ ResetGapAccounting \/ Pull \/ Supply

PlaybackSpec == PlaybackInit /\ [][PlaybackNext]_ringVars

\* The DMA goes on, and the device asks for sound.
PlaybackFairSpec ==
  /\ PlaybackSpec /\ SF_ringVars(\E len \in Lens, gap \in BOOLEAN : Push(len, gap))
  /\ WF_ringVars(StartCheck) /\ WF_ringVars(ResolveEnd)
  /\ WF_ringVars(Pull) /\ WF_ringVars(Supply)

-----------------------------------------------------------------------------
PlaybackTypeOK ==
  /\ ring \in Seq(0..Gap) /\ Len(ring) <= Limit
  /\ {accepted, taken} \subseteq 0..(Numbers - 1) /\ credit \in 0..Limit
  /\ {creditFlag, started, rebuffering} \subseteq BOOLEAN
  /\ producer \in {"idle", "check", "resolve"} /\ pushed \in 0..Limit
  /\ player \in {"idle", "silent", "copied"} /\ failures \in 0..Failures

\* What is in the ring is what was accepted and not yet taken, in order: a full ring drops
\* the newest block whole, and never what was promised before.
PlayedInOrder ==
  /\ \A j \in 1..Len(ring), i \in 0..Len(ring) :
       i < j /\ ring[j] # Gap /\ LastBefore(i, j) => ring[j] = (NumberAt(i) + 1) % Numbers
  /\ \A i \in 0..Len(ring) : LastBefore(i, Len(ring) + 1) => NumberAt(i) = accepted

\* The guest, which reads the flag without the lock, never misses a credit.
CreditAnnounced == credit # 0 => creditFlag

\* Whatever the ring holds is played: after the start, after a run dry, and after starts
\* of the device that failed while the ring still had room.
InRing(n) == \E i \in DOMAIN ring : ring[i] = n
EverythingPlayed ==
  \A n \in 0..(Numbers - 1) : InRing(n) ~> ~InRing(n)

\* What the ring promises: samples in the order they came in, and no credit unannounced.
PlaybackInOrder == PlayedInOrder /\ CreditAnnounced
=============================================================================
