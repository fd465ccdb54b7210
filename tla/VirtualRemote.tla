---------------------------- MODULE VirtualRemote ---------------------------
(***************************************************************************)
(* The Wii Remote that the host plays towards the Bluetooth stack of the   *)
(* title (projects/meteor/runtime_native/ipc_hle.cpp): a connection that   *)
(* the remote asks for, two L2CAP channels it opens one after the other,   *)
(* and input reports. What the remote says waits in two queues, events and *)
(* packets, until the pump hands it over.                                  *)
(*                                                                         *)
(* The title's stack is guest code. It is modelled by what the source says *)
(* of it: it answers what it is asked, sends a packet only while it has a  *)
(* credit, registers the device before it sets the supervision timeout,    *)
(* and may disconnect.                                                     *)
(***************************************************************************)
EXTENDS Naturals, Sequences, FiniteSets

CONSTANTS
  Credits,    \* packets the controller lets the stack send (ten)
  MaxLinks,   \* bound: connections
  MaxModes,   \* bound: output reports of the title
  MaxTimeouts \* bound: times it sets the supervision timeout on a link

RemoteAssumption ==
  {Credits, MaxLinks, MaxTimeouts} \subseteq Nat \ {0} /\ MaxModes \in Nat

Channels == {"control", "interrupt"}

VARIABLES
  \* The remote.
  scan,       \* page scan bit of g_btScanEnable
  asked,      \* g_btVirtualConnectionRequestQueued
  began,      \* g_btInitialL2capRequestQueued
  cid,        \* channels whose guest CID is known
  configured, \* channels for which the remote has sent its configuration
  extended,   \* g_btInterruptConnectionRequestQueued
  continuous, \* g_btReportContinuous with a mode that is reported
  events, packets,  \* g_btQueuedEvents, g_btQueuedAclIn
  \* The stack of the title.
  link,       \* "down", "asked", "up", "ending"
  links,      \* connections so far
  timeouts,   \* times it has set the supervision timeout on this link
  credits,    \* packets it may still send
  owes,       \* replies it owes
  opened,     \* channels it has open
  modes       \* report modes it has selected

hidVars == <<scan, asked, began, cid, configured, extended, continuous>>
queues == <<events, packets>>
stackVars == <<link, links, timeouts, credits, owes, opened, modes>>
remoteVars == <<hidVars, queues, stackVars>>

Packet == [kind : {"connect", "configRsp", "configReq"}, channel : Channels]
          \cup [kind : {"ack", "report"}, channel : {"interrupt"}]
P(k, c) == [kind |-> k, channel |-> c]

-----------------------------------------------------------------------------
(* Commands of the stack.                                                  *)

\* Write Scan Enable.
WriteScanEnable(on) ==
  /\ scan # on /\ scan' = on
  /\ events' = Append(events, "complete")
  /\ Len(events) < 3
  /\ UNCHANGED <<asked, began, cid, configured, extended, continuous, packets, stackVars>>

\* Accept Connection Request: status first, then the link.
AcceptConnection ==
  /\ link = "asked" /\ owes # <<>> /\ Head(owes) = P("accept", "control")
  /\ owes' = Tail(owes)
  /\ events' = events \o <<"status", "connected">>
  /\ UNCHANGED <<hidVars, packets, link, links, timeouts, credits, opened, modes>>

\* QueueMeteorBtInitialHidControlRequestIfReady.
BeginHid ==
  IF began THEN UNCHANGED <<packets, began>>
  ELSE packets' = Append(packets, P("connect", "control")) /\ began' = TRUE

\* Write Link Supervision Timeout, once the stack has a slot for the device.
WriteSupervisionTimeout ==
  /\ link = "up" /\ timeouts < MaxTimeouts
  /\ timeouts' = timeouts + 1
  /\ events' = Append(events, "complete")
  /\ BeginHid
  /\ UNCHANGED <<scan, asked, cid, configured, extended, continuous, link, links, credits, owes, opened, modes>>

\* A remote stays present after a disconnect: it may ask again.
AsksAgain == asked' = FALSE

\* Mutant: what is queued for the old link stays queued.
KeepsPackets == UNCHANGED packets

DropsPackets == packets' = <<>>

ForgetsBegun == began' = FALSE

\* Disconnect: everything of the link is forgotten.
Disconnect ==
  /\ link = "up" /\ links < MaxLinks
  /\ events' = events \o <<"status", "disconnected">>
  /\ AsksAgain /\ DropsPackets
  /\ ForgetsBegun /\ cid' = {} /\ configured' = {} /\ extended' = FALSE /\ continuous' = FALSE
  /\ link' = "ending" /\ owes' = <<>> /\ opened' = {}
  /\ UNCHANGED <<scan, links, timeouts, credits, modes>>

-----------------------------------------------------------------------------
(* Packets of the stack: HandleMeteorBtAclOutL2cap, then the credit.       *)

CreditBack == events' = Append(events, "credit")

SendPacket ==
  /\ link = "up" /\ credits > 0
  /\ credits' = credits - 1
  /\ CreditBack

\* Connection Response, Configuration Request and Configuration Response.
Reply ==
  /\ owes # <<>> /\ SendPacket
  /\ owes' = Tail(owes)
  /\ LET kind == Head(owes).kind
         c == Head(owes).channel
     IN  /\ cid' = cid \cup {d \in {c} : kind = "connectRsp"}
         /\ CASE kind = "configReq" /\ c \in cid ->
                   /\ packets' = packets \o <<P("configRsp", c)>> \o
                        (IF c \in configured THEN <<>> ELSE <<P("configReq", c)>>)
                   /\ configured' = configured \cup {c}
                   /\ UNCHANGED extended
              [] kind = "configRsp" /\ c = "control" /\ ~extended ->
                   /\ packets' = Append(packets, P("connect", "interrupt"))
                   /\ extended' = TRUE
                   /\ UNCHANGED configured
              [] OTHER -> UNCHANGED <<packets, configured, extended>>
  /\ opened' = opened \cup {c \in Channels : Head(owes) = P("configRsp", c)}
  /\ UNCHANGED <<scan, asked, began, continuous, link, links, timeouts, modes>>

\* An output report on the interrupt channel, which may ask for an acknowledgement.
\* 0x12 also selects a mode: one of the two that are reported, or another; the first
\* report of a mode is queued at once.
OutputReport(what, on, ack) ==
  /\ "interrupt" \in opened /\ modes < MaxModes /\ SendPacket
  /\ modes' = modes + 1
  /\ IF "interrupt" \in cid
     THEN /\ continuous' = IF what = "other" THEN continuous ELSE on /\ what = "reported"
          /\ packets' = packets \o (IF ack THEN <<P("ack", "interrupt")>> ELSE <<>>)
                                \o (IF what = "reported" THEN <<P("report", "interrupt")>> ELSE <<>>)
     ELSE UNCHANGED <<continuous, packets>>
  /\ UNCHANGED <<scan, asked, began, cid, configured, extended, link, links, timeouts, owes, opened>>

-----------------------------------------------------------------------------
(* Meteor_BtUsbPump.                                                       *)

\* QueueMeteorBtVirtualConnectionRequestIfNeeded.
AskForConnection ==
  /\ scan /\ ~asked
  /\ asked' = TRUE
  /\ events' = Append(events, "connectionRequest")
  /\ UNCHANGED <<scan, began, cid, configured, extended, continuous, packets, stackVars>>

ReportDue == continuous /\ "interrupt" \in cid /\ packets = <<>>

\* MaybeQueueMeteorBtContinuousInputReport, every 16 ms.
QueueReport ==
  /\ ReportDue
  /\ packets' = Append(packets, P("report", "interrupt"))
  /\ UNCHANGED <<hidVars, events, stackVars>>

\* An event reaches the stack, which keeps its transfer armed.
DeliverEvent ==
  /\ events # <<>> /\ events' = Tail(events)
  /\ LET e == Head(events)
     IN  /\ CASE e = "connectionRequest" ->
                   link' = "asked" /\ owes' = <<P("accept", "control")>> /\ UNCHANGED <<links, timeouts>>
              [] e = "connected" ->
                   link' = "up" /\ links' = links + 1 /\ timeouts' = 0 /\ UNCHANGED owes
              [] e = "disconnected" -> link' = "down" /\ UNCHANGED <<links, timeouts, owes>>
              [] OTHER -> UNCHANGED <<link, links, timeouts, owes>>
         /\ credits' = (IF e = "credit" THEN credits + 1 ELSE credits)
  /\ UNCHANGED <<hidVars, packets, opened, modes>>

\* A packet reaches the stack, once no event is queued; it owes its answers.
DeliverPacket ==
  /\ packets # <<>> /\ events = <<>>
  /\ packets' = Tail(packets)
  /\ LET c == Head(packets).channel
     IN  owes' = owes \o (CASE Head(packets).kind = "connect" -> <<P("connectRsp", c), P("configReq", c)>>
                            [] Head(packets).kind = "configReq" -> <<P("configRsp", c)>>
                            [] OTHER -> <<>>)
  /\ UNCHANGED <<hidVars, events, link, links, timeouts, credits, opened, modes>>

-----------------------------------------------------------------------------
RemoteInit ==
  /\ scan = FALSE /\ asked = FALSE /\ began = FALSE /\ cid = {} /\ configured = {}
  /\ extended = FALSE /\ continuous = FALSE
  /\ events = <<>> /\ packets = <<>>
  /\ link = "down" /\ links = 0 /\ timeouts = 0 /\ credits = Credits /\ owes = <<>>
  /\ opened = {} /\ modes = 0

RemoteNext ==
  \/ \E on \in BOOLEAN : WriteScanEnable(on)
  \/ AcceptConnection \/ WriteSupervisionTimeout \/ Disconnect \/ Reply
  \/ \E what \in {"other", "silent", "reported"}, on, ack \in BOOLEAN : OutputReport(what, on, ack)
  \/ AskForConnection \/ QueueReport \/ DeliverEvent \/ DeliverPacket

RemoteSpec == RemoteInit /\ [][RemoteNext]_remoteVars

\* The pump comes round; the stack accepts, sets its timeout and answers.
RemoteFairness ==
  /\ WF_remoteVars(AskForConnection) /\ WF_remoteVars(DeliverEvent) /\ SF_remoteVars(DeliverPacket)
  /\ WF_remoteVars(AcceptConnection) /\ WF_remoteVars(WriteSupervisionTimeout) /\ SF_remoteVars(Reply)

RemoteFairSpec == RemoteSpec /\ RemoteFairness

-----------------------------------------------------------------------------
(* Properties.                                                             *)

Count(s, v) == Cardinality({i \in 1 .. Len(s) : s[i] = v})

Event == {"complete", "status", "connectionRequest", "connected", "disconnected", "credit"}
Owed == [kind : {"accept"}, channel : {"control"}]
        \cup [kind : {"connectRsp", "configReq", "configRsp"}, channel : Channels]

RemoteTypeOK ==
  /\ {scan, asked, began, extended, continuous} \subseteq BOOLEAN
  /\ cid \subseteq Channels /\ configured \subseteq Channels /\ opened \subseteq Channels
  /\ events \in Seq(Event) /\ packets \in Seq(Packet) /\ owes \in Seq(Owed)
  /\ link \in {"down", "asked", "up", "ending"} /\ links \in 0 .. MaxLinks
  /\ credits \in 0 .. Credits /\ timeouts \in 0 .. MaxTimeouts /\ modes \in 0 .. MaxModes

\* Every packet the stack sends gives its credit back: with one lost per packet it
\* queues its next command for ever (ipc_hle.cpp:1868-1871).
CreditsConserved == credits + Count(events, "credit") = Credits

\* Nothing of an earlier link reaches the next: packets are queued only for the link
\* that is up, and no channel of the remote outlives it.
PacketsOfThisLink ==
  link # "up" => packets = <<>> /\ cid = {} /\ ~began /\ ~extended /\ ~continuous

\* The remote asks for each channel once per link, whatever the stack repeats.
AsksChannelOnce ==
  \A c \in Channels :
    Count(packets, P("connect", c)) + Count(owes, P("connectRsp", c))
      + (IF c \in cid THEN 1 ELSE 0) <= 1

\* Input reports wait at most two deep behind a mode that was just selected: the
\* periodic ones do not pile up while the title is slow.
ReportsBounded == Count(packets, P("report", "interrupt")) <= 1 + modes

\* While the title scans for it, the remote connects, and after each disconnect again,
\* up to input reports being possible.
RemoteConnects == (<>[](scan /\ links = MaxLinks)) => <>[](opened = Channels)

\* The first connection, and the one after a disconnect, come as well.
RemoteReturns == (<>[]scan) => []<>(link = "up")

\* What the remote promises the stack: its credits, one request per channel, packets of
\* this link only, and no more reports than it can take.
RemoteKeepsToLink == CreditsConserved /\ PacketsOfThisLink /\ AsksChannelOnce /\ ReportsBounded
=============================================================================
