----------------------------- MODULE CardFlash ------------------------------
(***************************************************************************)
(* The GameCube memory card (runtime/include/gamecube_memory_card.h): a    *)
(* flash image in memory and the file behind it. Erases and programs go to *)
(* the file at once, or, when batched, when the title has been quiet for a *)
(* whole update. Checkpoints of the process must not undo what was saved.  *)
(* Every write has a version of its own; what a page holds is the version. *)
(***************************************************************************)
EXTENDS Naturals, FiniteSetsExt

CONSTANTS
  CardPages,     \* 512-byte pages: 1..CardPages
  PerBlock,      \* pages of an erase block
  MaxCardWrites, \* bound: writes
  CardMayFail    \* the disk may refuse

CardAssumption ==
  /\ {CardPages, PerBlock} \subseteq Nat \ {0} /\ CardPages % PerBlock = 0
  /\ MaxCardWrites \in Nat /\ CardMayFail \in BOOLEAN

CardPage == 1 .. CardPages
EraseBlocks == 1 .. (CardPages \div PerBlock)
PagesOf(b) == ((b - 1) * PerBlock + 1) .. (b * PerBlock)
NothingDirty == [lo |-> 0, hi |-> 0]

VARIABLES
  cardUp,              \* the process has the card open
  cardData,            \* the image in memory
  cardDisk,            \* the file
  cardVersion,         \* writes so far
  batchWrites,         \* batchWrites_
  cardDirty,           \* pages that wait for the next commit: lo..hi
  persistedGeneration, \* persistedGeneration_
  pendingGeneration,   \* pendingWriteGeneration_
  idleObserved,        \* idleObservedGeneration_
  cardCommand,         \* between select and deselect: name, pages, whether by DMA
  cardError,           \* the error bits of the status register
  cardCheckpoint,      \* a captured state: the generation and image, if any
  toldSaved,           \* ghost: versions the title was told are saved
  lostPages            \* ghost: pages whose commit a crash or a failed close took away

flash == <<cardData, cardDisk, cardVersion>>
commits == <<cardDirty, persistedGeneration, pendingGeneration, idleObserved>>
promises == <<toldSaved, lostPages>>
cardVars ==
  <<cardUp, flash, batchWrites, commits, cardCommand, cardError, cardCheckpoint, promises>>

NoCommand == [name |-> "none", pages |-> {}, dma |-> "no"]
NoCardCheckpoint == [held |-> FALSE, generation |-> 0, data |-> [p \in CardPage |-> 0]]

InRange(r) == {p \in CardPage : r.lo <= p /\ p <= r.hi}
StoredIn(image, old, s) == [p \in CardPage |-> IF p \in s THEN image[p] ELSE old[p]]

-----------------------------------------------------------------------------
(* The file.                                                               *)

DirtyWith(s) ==
  [lo |-> IF cardDirty = NothingDirty \/ Min(s) <= cardDirty.lo THEN Min(s) ELSE cardDirty.lo,
   hi |-> IF cardDirty.hi <= Max(s) THEN Max(s) ELSE cardDirty.hi]

\* The pages s of image are written and forced out; when it fails, some are.
PersistRange(image, s, ok) ==
  IF ok THEN cardDisk' = StoredIn(image, cardDisk, s)
  ELSE CardMayFail /\ \E some \in SUBSET s : cardDisk' = StoredIn(image, cardDisk, some)

Persist(image, s, ok) ==
  /\ persistedGeneration' = persistedGeneration + 1
  /\ IF batchWrites
     THEN /\ ok /\ pendingGeneration' = pendingGeneration + 1 /\ cardDirty' = DirtyWith(s)
          /\ UNCHANGED cardDisk
     ELSE PersistRange(image, s, ok) /\ UNCHANGED <<pendingGeneration, cardDirty>>

\* Mutant: the range is given up before it is written.
AfterFlushAlways(ok) == NothingDirty

AfterFlush(ok) == IF ok THEN NothingDirty ELSE cardDirty

\* FlushPendingWrites: a commit that fails is tried again later.
FlushPendingWrites(ok) ==
  IF cardDirty = NothingDirty THEN ok /\ UNCHANGED <<cardDisk, cardDirty, idleObserved>>
  ELSE /\ PersistRange(cardData, InRange(cardDirty), ok)
       /\ cardDirty' = AfterFlush(ok)
       /\ idleObserved' = IF ok THEN pendingGeneration ELSE idleObserved

-----------------------------------------------------------------------------
(* The title, over the EXI bus.                                            *)

BeginCommand(name, s) ==
  /\ cardUp /\ cardCommand = NoCommand /\ cardVersion < MaxCardWrites
  /\ cardCommand' = [name |-> name, pages |-> s, dma |-> "no"]
  /\ cardError' = FALSE
  /\ UNCHANGED <<cardUp, flash, batchWrites, commits, cardCheckpoint, promises>>

Overwrite(s) ==
  /\ cardVersion < MaxCardWrites /\ cardVersion' = cardVersion + 1
  /\ cardData' = [p \in CardPage |-> IF p \in s THEN cardVersion + 1 ELSE cardData[p]]

TellTitle(image, told) ==
  toldSaved' = [p \in CardPage |->
    IF p \notin cardCommand.pages THEN toldSaved[p] ELSE IF told THEN image[p] ELSE 0]

\* An exception leaves the DMA undone.
DmaWrite(ok) ==
  /\ cardUp /\ cardCommand.name = "program" /\ cardCommand.dma = "no"
  /\ Overwrite(cardCommand.pages) /\ Persist(cardData', cardCommand.pages, ok)
  /\ cardCommand' = [cardCommand EXCEPT !.dma = IF ok THEN "done" ELSE "failed"]
  /\ cardError' = (cardError \/ ~ok) /\ TellTitle(cardData', FALSE)
  /\ UNCHANGED <<cardUp, batchWrites, idleObserved, cardCheckpoint, lostPages>>

\* The card is deselected: a DMA is complete, a failed one is written once more from memory,
\* an erase or a program by bytes is done now.
Completes(ok) ==
  /\ cardCommand.dma = "done" /\ ok /\ TellTitle(cardData, ~cardError)
  /\ UNCHANGED <<flash, cardDirty, persistedGeneration, pendingGeneration>>
WritesAgain(ok) ==
  /\ cardCommand.dma = "failed" /\ Persist(cardData, cardCommand.pages, ok)
  /\ TellTitle(cardData, ok /\ ~cardError) /\ UNCHANGED <<cardData, cardVersion>>
WritesNow(ok) ==
  /\ cardCommand.dma = "no" /\ Overwrite(cardCommand.pages)
  /\ Persist(cardData', cardCommand.pages, ok) /\ TellTitle(cardData', ok /\ ~cardError)

Deselect(ok) ==
  /\ cardUp /\ cardCommand # NoCommand /\ cardCommand' = NoCommand
  /\ Completes(ok) \/ WritesAgain(ok) \/ WritesNow(ok)
  /\ cardError' = (cardError \/ ~ok)
  /\ UNCHANGED <<cardUp, batchWrites, idleObserved, cardCheckpoint, lostPages>>

-----------------------------------------------------------------------------
(* The host.                                                               *)

SetBatchWrites(ok) ==
  /\ cardUp /\ FlushPendingWrites(ok)
  /\ batchWrites' = IF ok THEN ~batchWrites ELSE batchWrites
  /\ UNCHANGED <<cardUp, cardData, cardVersion, persistedGeneration, pendingGeneration,
                 cardCommand, cardError, cardCheckpoint, promises>>

Quiet == idleObserved = pendingGeneration

\* FlushPendingWritesIfIdle, once per update of the title.
FlushIfIdle(ok) ==
  /\ cardUp
  /\ IF cardDirty # NothingDirty /\ Quiet THEN FlushPendingWrites(ok)
     ELSE ok /\ idleObserved' = pendingGeneration /\ UNCHANGED <<cardDisk, cardDirty>>
  /\ UNCHANGED <<cardUp, cardData, cardVersion, batchWrites, persistedGeneration,
                 pendingGeneration, cardCommand, cardError, cardCheckpoint, promises>>

CaptureState ==
  /\ cardUp /\ cardDirty = NothingDirty
  /\ cardCheckpoint' = [held |-> TRUE, generation |-> persistedGeneration, data |-> cardData]
  /\ UNCHANGED <<cardUp, flash, batchWrites, commits, cardCommand, cardError, promises>>

MayRestore == cardCheckpoint.held /\ cardCheckpoint.generation = persistedGeneration

RestoreState ==
  /\ cardUp /\ MayRestore /\ cardData' = cardCheckpoint.data /\ cardCommand' = NoCommand
  /\ UNCHANGED <<cardUp, cardDisk, cardVersion, batchWrites, commits, cardError, cardCheckpoint,
                 promises>>

CardGone ==
  /\ cardUp /\ cardUp' = FALSE /\ cardCheckpoint' = NoCardCheckpoint /\ cardCommand' = NoCommand
  /\ batchWrites' = FALSE /\ cardDirty' = NothingDirty
  /\ persistedGeneration' = 0 /\ pendingGeneration' = 0 /\ idleObserved' = 0
  /\ UNCHANGED <<cardData, cardVersion, cardError, toldSaved>>

\* The process ends; a commit it was in the middle of has failed before.
CardCrash == CardGone /\ lostPages' = lostPages \cup InRange(cardDirty) /\ UNCHANGED cardDisk

\* The destructor: one last commit, whatever comes of it.
FlushAtClose(ok) ==
  IF cardDirty = NothingDirty THEN ok /\ UNCHANGED cardDisk
  ELSE PersistRange(cardData, InRange(cardDirty), ok)

CloseCard(ok) ==
  /\ CardGone /\ FlushAtClose(ok)
  /\ lostPages' = IF ok THEN lostPages ELSE lostPages \cup InRange(cardDirty)

OpenCard ==
  /\ ~cardUp /\ cardUp' = TRUE /\ cardData' = cardDisk /\ cardError' = FALSE
  /\ toldSaved' = [p \in CardPage |-> IF p \in lostPages THEN 0 ELSE toldSaved[p]]
  /\ lostPages' = {}
  /\ UNCHANGED <<cardDisk, cardVersion, batchWrites, commits, cardCommand, cardCheckpoint>>

-----------------------------------------------------------------------------
CardInit ==
  /\ cardUp = TRUE /\ cardData = [p \in CardPage |-> 0] /\ cardDisk = cardData
  /\ cardVersion = 0 /\ batchWrites = FALSE /\ cardDirty = NothingDirty
  /\ persistedGeneration = 0 /\ pendingGeneration = 0 /\ idleObserved = 0
  /\ cardCommand = NoCommand /\ cardError = FALSE /\ cardCheckpoint = NoCardCheckpoint
  /\ toldSaved = [p \in CardPage |-> 0] /\ lostPages = {}

CardNext ==
  \/ \E p \in CardPage : BeginCommand("program", {p})
  \/ \E b \in EraseBlocks : BeginCommand("erase", PagesOf(b))
  \/ \E ok \in BOOLEAN :
       DmaWrite(ok) \/ Deselect(ok) \/ SetBatchWrites(ok) \/ FlushIfIdle(ok) \/ CloseCard(ok)
  \/ CaptureState \/ RestoreState \/ CardCrash \/ OpenCard

CardSpec == CardInit /\ [][CardNext]_cardVars

\* The title's updates go on.
CardFairSpec == CardSpec /\ WF_cardVars(\E ok \in BOOLEAN : FlushIfIdle(ok))

-----------------------------------------------------------------------------
Versions == 0 .. MaxCardWrites
CardCommands ==
  {NoCommand} \cup
  [name : {"program", "erase"}, pages : (SUBSET CardPage) \ {{}}, dma : {"no", "done", "failed"}]

CardTypeOK ==
  /\ {cardUp, batchWrites, cardError} \subseteq BOOLEAN
  /\ {cardData, cardDisk, toldSaved, cardCheckpoint.data} \subseteq [CardPage -> Versions]
  /\ cardVersion \in Versions /\ lostPages \subseteq CardPage
  /\ cardDirty \in [lo : 0 .. CardPages, hi : 0 .. CardPages] /\ cardDirty.lo <= cardDirty.hi
  /\ {persistedGeneration, pendingGeneration, idleObserved} \subseteq Nat
  /\ idleObserved <= pendingGeneration /\ pendingGeneration <= persistedGeneration
  /\ cardCommand \in CardCommands

\* What the title was told is saved is on the disk, or the next commit will write it: over
\* failures, changes of policy, checkpoints and orderly ends.
SavedOrDirty ==
  \A p \in CardPage : toldSaved[p] # 0 =>
    cardDisk[p] = toldSaved[p] \/ p \in InRange(cardDirty) \/ p \in lostPages

\* Memory and disk only differ where a commit is due, where the title was told of an error,
\* or where a command has yet to say.
ImageIsFile ==
  cardUp => \A p \in CardPage :
    cardData[p] # cardDisk[p] => p \in InRange(cardDirty) \/ toldSaved[p] = 0

\* Only a write changes what the open card holds: a checkpoint never undoes a save.
RestoreUndoesNothing ==
  [][cardUp /\ cardUp' /\ cardData' # cardData => cardVersion' > cardVersion]_cardVars

\* What the card promises: a save the title was told of is on the disk or on its way there,
\* and nothing takes it back.
CardKeepsSaves == [](SavedOrDirty /\ ImageIsFile) /\ RestoreUndoesNothing

\* A burst is committed in the end, when the title stops writing.
BurstCommitted == cardDirty # NothingDirty ~> (cardDirty = NothingDirty)
=============================================================================
