----------------------------- MODULE TaskThread -----------------------------
(***************************************************************************)
(* The worker loop of a task thread (runtime/src/hle/task_thread.cpp): job *)
(* slots that the title fills, a message queue that hands a slot to the    *)
(* worker, and a queue of finished tokens that may be full. A slot is free *)
(* while it has no callback. The callback is guest code: other threads run *)
(* in it. The preparation of a movie is the one callback the loop makes    *)
(* itself; the player it opens is shared, and may be open from before.     *)
(***************************************************************************)
EXTENDS Naturals, Sequences

CONSTANTS
  JobSlots,     \* job slots of the task thread
  MaxJobs,   \* bound: requests
  DoneSize,  \* capacity of the queue of finished tokens
  NoJob

TaskAssumption == NoJob \notin JobSlots /\ {MaxJobs, DoneSize} \subseteq Nat

VARIABLES
  job,       \* slots: token (0: no callback), whether it has a completion, its kind
  inbox,     \* message queue of the task thread
  pc,        \* where the worker is in its loop
  current,   \* current job of the task thread
  hand,      \* what the worker read from the job before its callback
  done,      \* queue of finished tokens
  requests,  \* tokens given out
  calledBack, completions,  \* history: tokens in the order of their callbacks, completions
  open, prepared,     \* the movie player is open; the movie is prepared
  refused             \* history: a movie whose file is there was not opened

movie == <<open, prepared>>
taskVars == <<job, inbox, pc, current, hand, done, requests, calledBack, completions, movie, refused>>

Free == [token |-> 0, onDone |-> FALSE, kind |-> "task"]
Job == [token : 0 .. MaxJobs, onDone : BOOLEAN, kind : {"task", "prepare"}]

\* Mutant: the worker is not told.
SendsNothing(s) == UNCHANGED inbox

Sends(s) == inbox' = Append(inbox, s)

\* A thread of the title fills a free slot and sends it. Tokens count the requests.
Request(s, onDone, kind) ==
  /\ job[s].token = 0 /\ requests < MaxJobs
  /\ requests' = requests + 1
  /\ job' = [job EXCEPT ![s] = [token |-> requests + 1, onDone |-> onDone, kind |-> kind]]
  /\ Sends(s)
  /\ UNCHANGED <<pc, current, hand, done, calledBack, completions, movie, refused>>

\* A thread of the title reads a finished token, or unloads the movie it has prepared.
TakeToken ==
  /\ done # <<>> /\ done' = Tail(done)
  /\ UNCHANGED <<job, inbox, pc, current, hand, requests, calledBack, completions, movie, refused>>

UnloadMovie ==
  /\ prepared /\ prepared' = FALSE /\ open' \in {open, FALSE}
  /\ UNCHANGED <<job, inbox, pc, current, hand, done, requests, calledBack, completions, refused>>

-----------------------------------------------------------------------------
(* TaskThread_run.                                                         *)

\* Mutant: the slot is free while its callback runs.
TakenEarly == job' = [job EXCEPT ![Head(inbox)] = Free]

Taken == UNCHANGED job

\* OSReceiveMessage, which blocks; then the job is read.
Receive ==
  /\ pc = "receive" /\ inbox # <<>>
  /\ current' = Head(inbox) /\ inbox' = Tail(inbox)
  /\ hand' = job[Head(inbox)]
  /\ Taken
  /\ pc' = "callback"
  /\ UNCHANGED <<done, requests, calledBack, completions, movie, refused>>

\* THP__PlayerOpen fails while the player is open; it is then stopped, closed, and
\* opened once more.
Opens(file) == file

\* RunMovieManagerPrepareAsync, for a file that can be opened or not and buffers that
\* suffice or not.
Prepare(file, buffers) ==
  IF prepared THEN UNCHANGED <<movie, refused>>
  ELSE /\ open' = Opens(file)
       /\ prepared' = (Opens(file) /\ buffers)
       /\ refused' = (refused \/ (file /\ ~Opens(file)))

\* The callback. The job may have lost it only if the slot was taken away.
Callback ==
  /\ pc = "callback"
  /\ calledBack' = Append(calledBack, hand.token)
  /\ IF hand.kind = "prepare"
     THEN \E file, buffers \in BOOLEAN : Prepare(file, buffers)
     ELSE UNCHANGED <<movie, refused>>
  /\ pc' = "complete"
  /\ UNCHANGED <<job, inbox, current, hand, done, requests, completions>>

\* The completion, called with the argument of the job that is current by then.
Complete ==
  /\ pc = "complete"
  /\ completions' = IF current # NoJob /\ hand.onDone THEN Append(completions, job[current].token)
                  ELSE completions
  /\ pc' = "report"
  /\ UNCHANGED <<job, inbox, current, hand, done, requests, calledBack, movie, refused>>

\* OSSendMessage without blocking: a full queue loses the token.
Report ==
  /\ pc = "report"
  /\ done' = IF Len(done) < DoneSize THEN Append(done, hand.token) ELSE done
  /\ pc' = "retire"
  /\ UNCHANGED <<job, inbox, current, hand, requests, calledBack, completions, movie, refused>>

\* ClearTaskJob.
Retire ==
  /\ pc = "retire"
  /\ job' = [job EXCEPT ![current] = Free]
  /\ current' = NoJob /\ hand' = Free
  /\ pc' = "receive"
  /\ UNCHANGED <<inbox, done, requests, calledBack, completions, movie, refused>>

-----------------------------------------------------------------------------
TaskInit ==
  /\ job = [s \in JobSlots |-> Free]
  /\ inbox = <<>> /\ pc = "receive" /\ current = NoJob /\ hand = Free /\ done = <<>>
  /\ requests = 0 /\ calledBack = <<>> /\ completions = <<>>
  /\ open = FALSE /\ prepared = FALSE /\ refused = FALSE

Worker == Receive \/ Callback \/ Complete \/ Report \/ Retire

TaskNext ==
  \/ \E s \in JobSlots, onDone \in BOOLEAN, kind \in {"task", "prepare"} : Request(s, onDone, kind)
  \/ TakeToken \/ UnloadMovie
  \/ Worker

\* The worker is a thread of the scheduler; nothing makes the others request or read.
TaskSpec == TaskInit /\ [][TaskNext]_taskVars /\ WF_taskVars(Worker)

-----------------------------------------------------------------------------
(* Properties.                                                             *)

TaskTypeOK ==
  /\ job \in [JobSlots -> Job] /\ hand \in Job
  /\ inbox \in Seq(JobSlots) /\ current \in JobSlots \cup {NoJob}
  /\ pc \in {"receive", "callback", "complete", "report", "retire"}
  /\ done \in Seq(1 .. MaxJobs) /\ Len(done) <= DoneSize
  /\ requests \in 0 .. MaxJobs
  /\ {calledBack, completions} \subseteq Seq(1 .. MaxJobs)
  /\ {open, prepared, refused} \subseteq BOOLEAN

\* A slot is taken exactly while its job waits or is in work: it is retired only after
\* completion and report, or a request made meanwhile would take the worker's place.
SlotTakenUntilRetired ==
  \A s \in JobSlots :
    job[s].token # 0 <=> s = current \/ \E i \in 1 .. Len(inbox) : inbox[i] = s

\* Each request is called once, in the order of the requests.
CalledInOrder == calledBack = [i \in 1 .. Len(calledBack) |-> i]

\* A completion is for the job whose callback has just returned: threads that ran in
\* the callback have not put another job into its slot.
CompletesWhatItCalled ==
  pc \in {"report", "retire"} /\ hand.onDone =>
    completions # <<>> /\ completions[Len(completions)] = calledBack[Len(calledBack)]

\* A movie whose file is there is never refused because the player is still open from
\* an attempt that failed half way.
NeverRefused == ~refused

\* A request is served, however full the queue of tokens is.
Requested(n) == requests >= n
Served(n) == Len(calledBack) >= n
RequestsServed == \A n \in 1 .. MaxJobs : Requested(n) ~> Served(n)

\* What the task thread promises: jobs are called once each, in order, in slots that are
\* theirs until they are reported, and no failure stands in the way of the next job.
TasksInOrder == SlotTakenUntilRetired /\ CalledInOrder /\ CompletesWhatItCalled /\ NeverRefused
=============================================================================
