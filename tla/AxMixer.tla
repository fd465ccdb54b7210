------------------------------ MODULE AxMixer -------------------------------
(***************************************************************************)
(* The audio processor (runtime/src/hle/audio/ax_mix.cpp): its mailboxes,  *)
(* and the command lists it mixes, inline or on a worker thread. A worker  *)
(* keeps what it uploads in a shadow that the guest thread publishes when  *)
(* it joins, and reads a snapshot that was taken with the mail. Everything *)
(* but the worker is the guest thread. A block stands for the consecutive  *)
(* buffers of one upload; samples are the list that made them.             *)
(***************************************************************************)
EXTENDS Naturals, Sequences, FiniteSetsExt

CONSTANTS
  AuxBlocks,      \* auxiliary buffers in guest memory
  NoBlock,        \* address 0
  Lists,          \* command lists the title sends
  MaxShadow,      \* m_auxOut and m_auxIn (24 in the code)
  MaxLists,       \* bound: lists
  MaxTitleWrites, \* bound: writes of the title
  MaxMails        \* bound: mails that wait for the title

Commands ==
  [op : {"mix"}, out : AuxBlocks \cup {NoBlock}, in : AuxBlocks] \cup [op : {"output"}]

\* A list uploads and reads no more blocks than the arrays hold ("= 17").
AxAssumption ==
  /\ {MaxShadow, MaxLists, MaxTitleWrites, MaxMails} \subseteq Nat
  /\ NoBlock \notin AuxBlocks /\ MaxMails > 0
  /\ \A l \in Lists : l \in Seq(Commands) /\ Len(l) <= MaxShadow

VARIABLES
  blocks,      \* the blocks as the title sees them: who wrote them, and when
  mailState,   \* m_mailState: "size", "address", "task"
  cpuMails,    \* m_cpuMails
  resumes,     \* m_deferredResumeCallbacks
  workerOn,    \* m_mixWorkerEnabled
  mixThread,   \* "none", "waiting" or "busy"
  mixPending, mixStop,
  cmdList,     \* m_cmdList, read by whoever mixes it
  nextCommand, \* the command the worker is at
  auxOut,      \* the shadow: uploads in their order
  auxIn,       \* the snapshot: address -> samples
  audioFrame,  \* the audio frame: the list that made it, and if all of it is there
  lists,       \* lists so far
  titleWrites,
  auxReads,    \* what the last list has read: command -> samples
  atMail,      \* the blocks when its mail came
  published,   \* its uploads are in guest memory
  ownBlocks    \* blocks the title wrote after that

mailbox == <<mailState, cpuMails, resumes>>
mixing == <<mixThread, mixPending, mixStop, nextCommand, auxOut, auxIn, audioFrame>>
sent == <<cmdList, lists>>
ghosts == <<auxReads, atMail, published, ownBlocks>>
axVars == <<blocks, mailbox, workerOn, mixing, sent, titleWrites, ghosts>>

Samples(n) == [by |-> "mix", n |-> n]
MixIdle == mixThread # "busy" /\ ~mixPending
MixAlive == ~mixStop
-----------------------------------------------------------------------------
(* What the first k commands of list n do to memory, and what they read.   *)

Uploads(c) == c.op = "mix" /\ c.out # NoBlock
Filled(list, k, b) == \E i \in 1 .. k : Uploads(list[i]) /\ list[i].out = b
MemoryAfter(list, k, memory, n) ==
  [b \in AuxBlocks |-> IF Filled(list, k, b) THEN Samples(n) ELSE memory[b]]

Mixes(list, k) == {i \in 1 .. k : list[i].op = "mix"}
ReadBy(list, k, memory, n) ==
  [i \in Mixes(list, k) |-> MemoryAfter(list, i, memory, n)[list[i].in]]

\* ScanCommandList: the blocks that a list reads, and its OUTPUT commands.
Inputs(list) == {list[i].in : i \in Mixes(list, Len(list))}
Outputs(list) == {i \in 1 .. Len(list) : list[i].op = "output"}

\* The newest upload to a block in the shadow.
UploadsTo(shadow, b) == {i \in 1 .. Len(shadow) : shadow[i].block = b}
NewestUpload(shadow, b) == shadow[Max(UploadsTo(shadow, b))].samples

\* ReadAuxInBuffer: the newest upload of this list, else the snapshot, else memory.
AuxRead(shadow, b) ==
  IF UploadsTo(shadow, b) # {} THEN NewestUpload(shadow, b)
  ELSE IF b \in DOMAIN auxIn THEN auxIn[b] ELSE blocks[b]

\* WriteAuxOutBuffer.
AuxWritten(shadow, c) ==
  IF Uploads(c) /\ Len(shadow) < MaxShadow
  THEN Append(shadow, [block |-> c.out, samples |-> Samples(lists)]) ELSE shadow

\* Mutant: the shadow is kept, and published again.
ShadowKept == auxOut

ShadowLeft == <<>>

\* PublishAuxOutputs, upload after upload.
Publishes ==
  [b \in AuxBlocks |-> IF UploadsTo(auxOut, b) # {} THEN NewestUpload(auxOut, b) ELSE blocks[b]]

\* JoinMix: the guest waits for the worker, and publishes.
JoinMix ==
  /\ MixIdle /\ auxOut' = ShadowLeft /\ blocks' = Publishes /\ published' = TRUE
  /\ ownBlocks' = IF published THEN ownBlocks
                  ELSE {b \in ownBlocks : UploadsTo(auxOut, b) = {}}

-----------------------------------------------------------------------------
(* The worker.                                                             *)

TakeList ==
  /\ mixThread = "waiting" /\ mixPending
  /\ mixThread' = "busy" /\ mixPending' = FALSE /\ nextCommand' = 1 /\ auxOut' = <<>>
  /\ UNCHANGED <<blocks, mailbox, workerOn, mixStop, auxIn, audioFrame, sent, titleWrites, ghosts>>

AtCommand(op) ==
  mixThread = "busy" /\ nextCommand <= Len(cmdList) /\ cmdList[nextCommand].op = op

MixAUX ==
  /\ AtCommand("mix") /\ nextCommand' = nextCommand + 1
  /\ LET c == cmdList[nextCommand]
         shadow == AuxWritten(auxOut, c)
     IN /\ auxOut' = shadow
        /\ auxReads' = [i \in DOMAIN auxReads \cup {nextCommand} |->
                          IF i = nextCommand THEN AuxRead(shadow, c.in) ELSE auxReads[i]]
  /\ UNCHANGED <<blocks, mailbox, workerOn, mixThread, mixPending, mixStop, auxIn, audioFrame,
                 sent, titleWrites, atMail, published, ownBlocks>>

\* OutputSamples writes guest memory itself, sample after sample.
OutputSamples ==
  /\ AtCommand("output") /\ audioFrame' = [n |-> lists, whole |-> ~audioFrame.whole]
  /\ nextCommand' = IF audioFrame.whole THEN nextCommand ELSE nextCommand + 1
  /\ UNCHANGED <<blocks, mailbox, workerOn, mixThread, mixPending, mixStop, auxOut, auxIn, sent,
                 titleWrites, ghosts>>

ListMixed ==
  /\ mixThread = "busy" /\ nextCommand > Len(cmdList) /\ mixThread' = "waiting"
  /\ UNCHANGED <<blocks, mailbox, workerOn, mixPending, mixStop, nextCommand, auxOut, auxIn,
                 audioFrame, sent, titleWrites, ghosts>>

\* The worker leaves when nothing is pending.
WorkerLeaves ==
  /\ mixThread = "waiting" /\ mixStop /\ ~mixPending /\ mixThread' = "none"
  /\ UNCHANGED <<blocks, mailbox, workerOn, mixPending, mixStop, nextCommand, auxOut, auxIn,
                 audioFrame, sent, titleWrites, ghosts>>

-----------------------------------------------------------------------------
(* Mails.                                                                  *)

MailRoom(n) == Len(cpuMails) + n <= MaxMails

SendSize ==
  /\ MixAlive /\ mailState \in {"size", "task"} /\ mailState' = "address"
  /\ UNCHANGED <<blocks, cpuMails, resumes, workerOn, mixing, sent, titleWrites, ghosts>>

\* HandleTaskMail answers a resume and a reset, and no other task.
Replies == {<<"RESUME">>, <<>>, <<"DONE">>}

SendTask(reply) ==
  /\ MixAlive /\ mailState \in {"size", "task"} /\ MailRoom(1)
  /\ cpuMails' = cpuMails \o reply /\ mailState' = "size"
  /\ UNCHANGED <<blocks, resumes, workerOn, mixing, sent, titleWrites, ghosts>>

\* EnsureMixWorker: the thread may fail to start.
CanDefer ==
  IF ~workerOn THEN {FALSE} ELSE IF mixThread # "none" THEN {TRUE} ELSE BOOLEAN

JoinsFirst == MixIdle /\ auxOut' = ShadowLeft
Syncs(list) == [i \in 1 .. Cardinality(Outputs(list)) |-> "SYNC"]

\* A list is left to the worker, with a snapshot of what it reads, or mixed now.
Defers(list, now) ==
  /\ auxIn' = [b \in Inputs(list) |-> now[b]]
  /\ blocks' = now /\ auxReads' = <<>> /\ published' = FALSE
  /\ mixPending' = TRUE /\ mixThread' = IF mixThread = "none" THEN "waiting" ELSE mixThread
  /\ UNCHANGED audioFrame

ExecuteCommandList(list, now, n) ==
  /\ auxIn' = <<>> /\ blocks' = MemoryAfter(list, Len(list), now, n)
  /\ auxReads' = ReadBy(list, Len(list), now, n) /\ published' = TRUE
  /\ audioFrame' = IF Outputs(list) # {} THEN [n |-> n, whole |-> TRUE] ELSE audioFrame
  /\ UNCHANGED <<mixPending, mixThread>>

\* The address completes a list: it is copied, dispatched and answered.
SendAddress(list) ==
  /\ MixAlive /\ mailState = "address" /\ lists < MaxLists
  /\ MailRoom(1 + Cardinality(Outputs(list))) /\ JoinsFirst
  /\ cpuMails' = cpuMails \o Syncs(list) \o <<"YIELD">>
  /\ resumes' = resumes + 1 /\ mailState' = "task"
  /\ cmdList' = list /\ lists' = lists + 1 /\ ownBlocks' = {} /\ atMail' = Publishes
  /\ \E deferred \in CanDefer :
       IF deferred THEN Defers(list, Publishes) ELSE ExecuteCommandList(list, Publishes, lists + 1)
  /\ UNCHANGED <<workerOn, mixStop, nextCommand, titleWrites>>

ReadMail ==
  /\ MixAlive /\ cpuMails # <<>> /\ cpuMails' = Tail(cpuMails)
  /\ UNCHANGED <<blocks, mailState, resumes, workerOn, mixing, sent, titleWrites, ghosts>>

\* The audio service makes the resume callbacks.
ServiceResume ==
  /\ MixAlive /\ resumes > 0 /\ resumes' = resumes - 1
  /\ UNCHANGED <<blocks, mailState, cpuMails, workerOn, mixing, sent, titleWrites, ghosts>>

-----------------------------------------------------------------------------
(* The rest of the guest thread.                                           *)

Joins ==
  /\ MixAlive /\ JoinMix
  /\ UNCHANGED <<mixThread, mixPending, mixStop, nextCommand, auxIn, audioFrame, sent,
                 titleWrites, auxReads, atMail>>

\* A block was played, or a task is configured: the mix is joined.
JoinMixWorker == Joins /\ UNCHANGED <<mailbox, workerOn>>

SetMixWorkerEnabled(on) == on # workerOn /\ Joins /\ workerOn' = on /\ UNCHANGED mailbox

StopAudio ==
  /\ lists > 0 /\ Joins /\ mailState' = "size" /\ cpuMails' = <<>> /\ resumes' = 0
  /\ UNCHANGED workerOn

InitializeAudio ==
  /\ lists > 0 /\ Joins /\ mailState' = "size" /\ cpuMails' = <<"INIT">> /\ resumes' = 0
  /\ workerOn' \in BOOLEAN \* the configuration

\* The title works on its blocks, in place.
ProcessAux(b) ==
  /\ MixAlive /\ titleWrites < MaxTitleWrites /\ titleWrites' = titleWrites + 1
  /\ blocks' = [blocks EXCEPT ![b] = [by |-> "title", n |-> titleWrites + 1]]
  /\ ownBlocks' = ownBlocks \cup {b}
  /\ UNCHANGED <<mailbox, workerOn, mixing, sent, auxReads, atMail, published>>

\* The guest waits in it until the worker has left, and the process ends.
ShutdownMixWorker ==
  /\ MixAlive /\ mixStop' = TRUE
  /\ UNCHANGED <<blocks, mailbox, workerOn, mixThread, mixPending, nextCommand, auxOut, auxIn,
                 audioFrame, sent, titleWrites, ghosts>>

-----------------------------------------------------------------------------
AxInit ==
  /\ blocks = [b \in AuxBlocks |-> [by |-> "title", n |-> 0]] /\ atMail = blocks
  /\ mailState = "size" /\ cpuMails = <<"INIT">> /\ resumes = 0 /\ workerOn = TRUE
  /\ mixThread = "none" /\ mixPending = FALSE /\ mixStop = FALSE
  /\ cmdList = <<>> /\ nextCommand = 1 /\ auxOut = <<>> /\ auxIn = <<>>
  /\ audioFrame = [n |-> 0, whole |-> TRUE] /\ lists = 0 /\ titleWrites = 0
  /\ auxReads = <<>> /\ published = TRUE /\ ownBlocks = {}

MixWorker == TakeList \/ MixAUX \/ OutputSamples \/ ListMixed \/ WorkerLeaves

AxNext ==
  \/ MixWorker \/ SendSize \/ \E reply \in Replies : SendTask(reply)
  \/ \E list \in Lists : SendAddress(list)
  \/ ReadMail \/ ServiceResume \/ JoinMixWorker \/ \E on \in BOOLEAN : SetMixWorkerEnabled(on)
  \/ StopAudio \/ InitializeAudio \/ \E b \in AuxBlocks : ProcessAux(b)
  \/ ShutdownMixWorker

AxSpec == AxInit /\ [][AxNext]_axVars

\* The worker is a thread of high priority, and the audio service runs on.
AxFairSpec == AxSpec /\ WF_axVars(MixWorker) /\ WF_axVars(ServiceResume)

-----------------------------------------------------------------------------
Contents == [by : {"title", "mix"}, n : Nat]
MailWords == {"INIT", "RESUME", "YIELD", "DONE", "SYNC"}
ShadowBlocks == [block : AuxBlocks, samples : Contents]

AxTypeOK ==
  /\ blocks \in [AuxBlocks -> Contents]
  /\ mailState \in {"size", "address", "task"} /\ resumes \in Nat
  /\ cpuMails \in Seq(MailWords) /\ Len(cpuMails) <= MaxMails
  /\ mixThread \in {"none", "waiting", "busy"}
  /\ workerOn \in BOOLEAN /\ mixPending \in BOOLEAN /\ mixStop \in BOOLEAN
  /\ cmdList \in Lists \cup {<<>>} /\ lists \in 0 .. MaxLists
  /\ nextCommand \in 1 .. MaxShadow + 1
  /\ auxOut \in Seq(ShadowBlocks) /\ Len(auxOut) <= MaxShadow
  /\ audioFrame \in [n : 0 .. MaxLists, whole : BOOLEAN]
  /\ titleWrites \in 0 .. MaxTitleWrites
  /\ atMail \in [AuxBlocks -> Contents] /\ published \in BOOLEAN /\ ownBlocks \subseteq AuxBlocks

Expected == ReadBy(cmdList, Len(cmdList), atMail, lists)

\* Whichever thread mixes it, and whatever the title does meanwhile, a list reads what it
\* would have read if it had been mixed with its mail.
ReadsAsAtMail ==
  /\ \A i \in DOMAIN auxReads : i \in DOMAIN Expected /\ auxReads[i] = Expected[i]
  /\ MixIdle => DOMAIN auxReads = DOMAIN Expected

\* The title sees the blocks change when it joins and never in between; then the uploads
\* are where an inline mix had left them, once: what it works on in place stays.
UploadsAtJoin ==
  \A b \in AuxBlocks :
    IF b \in ownBlocks THEN blocks[b].by = "title"
    ELSE blocks[b] = IF published THEN MemoryAfter(cmdList, Len(cmdList), atMail, lists)[b]
                     ELSE atMail[b]

\* A frame that is read after a join is whole.
FramesWhole == MixIdle => audioFrame.whole

MixesAsInline == ReadsAsAtMail /\ UploadsAtJoin /\ FramesWhole

\* Every list is mixed, so that joins return, and the title hears of it.
MixUnderway == ~MixIdle
ResumeOwed == resumes > 0
ListsMixed == (MixUnderway ~> ~MixUnderway) /\ (ResumeOwed ~> (~ResumeOwed \/ mixStop))
=============================================================================
