----------------------------- MODULE CardImage ------------------------------
(***************************************************************************)
(* The memory card behind the CARD API (aurora-main/lib/card): a directory *)
(* and a block allocation table, two copies of each, in memory and in the  *)
(* image file. An operation changes the older copies and makes them        *)
(* current; a commit writes all four, one after the other. Opening takes   *)
(* the valid copy with the higher counter, of each pair on its own.        *)
(***************************************************************************)
EXTENDS Integers, FiniteSets

CONSTANTS
  FSTBlocks,       \* blocks of the system
  MaxBlock,        \* blocks of the card, those of the system included
  CardNames, DirSlots,
  MaxCount,        \* bound: blocks of a file
  MaxUpdates,      \* bound: operations that change the directory
  MaxBlockWrites,  \* bound: blocks written
  MaxTears         \* bound: crashes inside a commit

CardImageAssumption ==
  /\ FSTBlocks \in Nat \ {0} /\ MaxBlock \in Nat /\ MaxBlock > 3 * FSTBlocks
  /\ DirSlots \subseteq Nat
  /\ MaxCount \in Nat \ {0} /\ {MaxUpdates, MaxBlockWrites, MaxTears} \subseteq Nat

Blocks == FSTBlocks .. (MaxBlock - 1)
End == MaxBlock           \* 0xFFFF
NoFile == [uid |-> 0]     \* m_game[0] = 0xFF
FileEntry(n, u, b, c) == [uid |-> u, name |-> n, first |-> b, count |-> c]

VARIABLES
  dirs, bats,      \* m_dirs, m_bats: copies 0 and 1
  curDir, curBat,  \* m_currentDir, m_currentBat
  imgDirty,        \* m_dirty
  image,           \* the four blocks of the image file, each with whether it is valid
  imgOwed,         \* the API has not yet called commit()
  imgData,         \* the data blocks of the file: the write each holds
  wrote,           \* ghost: the last write to a block of a file
  saved,           \* ghost: directory and table as last committed or opened after a tear
  imgPending,      \* ghost: updates since the last commit
  imgOps, imgWrites, tears

imgVars == <<dirs, bats, curDir, curBat, imgDirty, image, imgOwed, imgData, wrote, saved,
             imgPending, imgOps, imgWrites, tears>>

Dir == dirs[curDir]
Bat == bats[curBat]
EntriesOf(files) == {s \in DirSlots : files[s] # NoFile}
Held == EntriesOf(Dir.files)

-----------------------------------------------------------------------------
(* BlockAllocationTable.                                                   *)

\* getNextBlock.
Following(map, b) == IF b \in Blocks THEN map[b] ELSE End

\* The n-th block from b on.
Chain(map, b, n) ==
  LET nth[i \in 1..n] == IF i = 1 THEN b ELSE Following(map, nth[i - 1]) IN nth

\* The k-th block of a file.
BlockOf(map, e, k) == Chain(map, e.first, e.count)[k]

\* nextFreeBlock looks from the last allocated block on, around the part of the card that
\* is used: the i-th block it looks at.
UsedBlocks == MaxBlock - 3 * FSTBlocks
Place(bat, i) ==
  LET p == bat.last - FSTBlocks + i
  IN FSTBlocks + (IF p < UsedBlocks THEN p ELSE p - UsedBlocks)

\* The places of the first n free blocks, if there are as many.
FreePlaces(bat, n) ==
  {new \in [1..n -> 1..UsedBlocks] :
     /\ \A i, j \in 1..n : i < j => new[i] < new[j]
     /\ \A i \in 1..new[n] : bat.map[Place(bat, i)] = 0 <=> \E j \in 1..n : new[j] = i}

\* allocateBlocks, where it succeeds.
Allocated(bat, n, new) ==
  LET New(b) == {i \in 1..n : Place(bat, new[i]) = b}
      After(i) == IF i = n THEN End ELSE Place(bat, new[i + 1])
  IN [bat EXCEPT !.map = [b \in Blocks |->
                            IF New(b) = {} THEN @[b] ELSE After(CHOOSE i \in New(b) : TRUE)],
                 !.free = @ - n, !.last = Place(bat, new[n])]

\* _deleteFile: clear(block, 1) only frees a block that is the last of its chain.
Freed(map, e) == {b \in Blocks : map[b] = End /\ \E i \in 1..e.count : BlockOf(map, e, i) = b}

\* Mutant: the count goes up by the blocks of the file.
DeletedAll(bat, e) ==
  [bat EXCEPT !.map = [b \in Blocks |-> IF b \in Freed(bat.map, e) THEN 0 ELSE @[b]],
              !.free = @ + e.count]

Deleted(bat, e) ==
  [bat EXCEPT !.map = [b \in Blocks |-> IF b \in Freed(bat.map, e) THEN 0 ELSE @[b]],
              !.free = @ + Cardinality(Freed(bat.map, e))]

-----------------------------------------------------------------------------
(* The file: four blocks in the order dir 0, dir 1, bat 0, bat 1.          *)

Formatted ==
  [dir |-> [ctr |-> 0, files |-> [s \in DirSlots |-> NoFile]],
   bat |-> [ctr |-> 0, map |-> [b \in Blocks |-> 0], free |-> MaxBlock - FSTBlocks,
            last |-> FSTBlocks - 1]]

\* _pumpOpen on a pair of copies: the pair it reads and which of them is current.
Copies(pair) ==
  [i \in {0, 1} |-> IF ~ pair[i].ok /\ pair[1 - i].ok THEN pair[1 - i].is ELSE pair[i].is]
Newer(mem) == IF mem[0].ctr > mem[1].ctr THEN 0 ELSE 1
OpensAs(pair) == Copies(pair)[Newer(Copies(pair))]

Readable(pair) == \E i \in {0, 1} : pair[i].ok
AllValid(pair) == \A i \in {0, 1} : pair[i].ok

\* open() and _pumpOpen of the image f.
Opened(f) ==
  /\ dirs' = Copies(f.dirs) /\ curDir' = Newer(Copies(f.dirs))
  /\ bats' = Copies(f.bats) /\ curBat' = Newer(Copies(f.bats))
  /\ imgDirty' = FALSE /\ imgOwed' = FALSE /\ imgPending' = 0

\* commit() of a pair, the first n blocks of it, and a piece of the next if torn: that
\* spoils the block unless it is written over with what it holds.
PutPair(pair, mem, n, torn) ==
  [i \in {0, 1} |->
     IF i < n THEN [ok |-> TRUE, is |-> mem[i]]
     ELSE [ok |-> pair[i].ok /\ ~ (torn /\ i = n /\ pair[i].is # mem[i]), is |-> pair[i].is]]
Committed(n, torn) ==
  [dirs |-> PutPair(image.dirs, dirs, n, torn),
   bats |-> PutPair(image.bats, bats, n - 2, torn)]

-----------------------------------------------------------------------------
(* The CARD API.                                                           *)

\* Directory and table of one state count their updates together. The title's calls are
\* followed while the image opens and its two halves are of one save: not what it does with
\* a card it must format, nor what becomes of files whose table is another save's.
CopiesSplit == Dir.ctr # Bat.ctr
ImageReadable == Readable(image.dirs) /\ Readable(image.bats)
CardCalls == ~ imgOwed /\ ~ CopiesSplit /\ ImageReadable

\* _updateDirAndBat; commits says whether the API goes on to commit().
UpdateDirAndBat(files, bat, commits) ==
  /\ imgOps < MaxUpdates /\ imgOps' = imgOps + 1
  /\ curDir' = 1 - curDir /\ curBat' = 1 - curBat
  /\ dirs' = [dirs EXCEPT ![1 - curDir] = [ctr |-> Dir.ctr + 1, files |-> files]]
  /\ bats' = [bats EXCEPT ![1 - curBat] = [bat EXCEPT !.ctr = @ + 1]]
  /\ imgDirty' = TRUE /\ imgOwed' = commits /\ imgPending' = imgPending + 1
  /\ UNCHANGED <<image, imgData, wrote, saved, imgWrites, tears>>

NamedSo(n) == {s \in Held : Dir.files[s].name = n}
FirstFree(s) == s \in DirSlots \ Held /\ \A t \in DirSlots \ Held : s <= t

\* CARDCreate.
CreateFile(n, count) ==
  /\ CardCalls /\ NamedSo(n) = {} /\ count <= Bat.free
  /\ \E s \in DirSlots, new \in FreePlaces(Bat, count) :
       /\ FirstFree(s)
       /\ UpdateDirAndBat(
            [Dir.files EXCEPT ![s] = FileEntry(n, imgOps + 1, Place(Bat, new[1]), count)],
            Allocated(Bat, count, new), TRUE)

\* CARDDelete by name, and CARDFastDelete, which takes a free entry too.
DeleteFile(s) ==
  /\ CardCalls
  /\ LET e == Dir.files[s]
     IN UpdateDirAndBat([Dir.files EXCEPT ![s] = NoFile],
                        IF e = NoFile THEN Bat ELSE Deleted(Bat, e), TRUE)

\* CARDRename, to another name: the file that has it goes, and nothing is committed.
RenameFile(s, n) ==
  /\ CardCalls /\ s \in Held /\ Dir.files[s].name # n
  /\ LET renamed == [Dir.files EXCEPT ![s].name = n]
     IN \/ NamedSo(n) = {} /\ UpdateDirAndBat(renamed, Bat, FALSE)
        \/ \E old \in NamedSo(n) :
             UpdateDirAndBat([renamed EXCEPT ![old] = NoFile], Deleted(Bat, Dir.files[old]),
                             FALSE)

\* CARDSetStatus.
SetFileStatus(s) == CardCalls /\ s \in Held /\ UpdateDirAndBat(Dir.files, Bat, TRUE)

\* CARDWrite of the k-th block of a file, past its end too: straight to the file.
WriteBlock(s, k) ==
  LET e == Dir.files[s]
      b == Chain(Bat.map, e.first, k)[k]
  IN /\ CardCalls /\ s \in Held /\ imgWrites < MaxBlockWrites
     /\ b # End
     /\ imgWrites' = imgWrites + 1
     /\ imgData' = [imgData EXCEPT ![b] = imgWrites + 1]
     /\ wrote' = [wrote EXCEPT ![<<e.uid, k>>] = imgWrites + 1]
     /\ imgOwed' = TRUE
     /\ UNCHANGED <<dirs, bats, curDir, curBat, imgDirty, image, saved, imgPending, imgOps,
                    tears>>

\* The whole of commit(), or nothing if nothing changed.
Synced ==
  IF imgDirty
  THEN image' = Committed(4, FALSE) /\ saved' = [dir |-> Dir, bat |-> Bat]
  ELSE UNCHANGED <<image, saved>>

\* commit() to its end.
CommitImage ==
  /\ imgOwed /\ imgOwed' = FALSE
  /\ Synced
  /\ imgDirty' = FALSE /\ imgPending' = 0
  /\ UNCHANGED <<dirs, bats, curDir, curBat, imgData, wrote, imgOps, imgWrites, tears>>

\* Both copies of both, in memory and in the file, as format() leaves them.
FreshImage(d, b, f) ==
  /\ d = [i \in {0, 1} |-> Formatted.dir] /\ b = [i \in {0, 1} |-> Formatted.bat]
  /\ f = [dirs |-> [i \in {0, 1} |-> [ok |-> TRUE, is |-> Formatted.dir]],
          bats |-> [i \in {0, 1} |-> [ok |-> TRUE, is |-> Formatted.bat]]]

\* CARDFormat: the image starts anew, and there is nothing left to commit.
FormatImage ==
  /\ CardCalls /\ imgOps < MaxUpdates /\ imgOps' = imgOps + 1
  /\ FreshImage(dirs', bats', image')
  /\ curDir' = 1 /\ curBat' = 1
  /\ imgDirty' = FALSE /\ imgOwed' = FALSE /\ imgPending' = 0
  /\ saved' = Formatted
  /\ imgData' = [b \in Blocks |-> 0]
  /\ UNCHANGED <<wrote, imgWrites, tears>>

\* The process ends between calls: close() commits what a rename left, then it is opened.
ReopenImage ==
  /\ CardCalls
  /\ Synced
  /\ Opened(image')
  /\ UNCHANGED <<imgData, wrote, imgOps, imgWrites, tears>>

\* The process dies between calls.
CrashImage ==
  /\ CardCalls /\ Opened(image)
  /\ UNCHANGED <<image, imgData, wrote, saved, imgOps, imgWrites, tears>>

\* The process dies inside commit().
TearCommit(n, torn) ==
  /\ imgOwed /\ imgDirty /\ tears < MaxTears /\ tears' = tears + 1
  /\ image' = Committed(n, torn)
  /\ Opened(image') /\ saved' = [dir |-> Dir', bat |-> Bat']
  /\ UNCHANGED <<imgData, wrote, imgOps, imgWrites>>

ImageInit ==
  /\ FreshImage(dirs, bats, image)
  /\ curDir = 1 /\ curBat = 1 /\ imgDirty = FALSE /\ imgOwed = FALSE /\ imgPending = 0
  /\ saved = Formatted
  /\ imgData = [b \in Blocks |-> 0]
  /\ wrote = [f \in (1..MaxUpdates) \X (1..MaxCount) |-> 0]
  /\ imgOps = 0 /\ imgWrites = 0 /\ tears = 0

ImageNext ==
  \/ \E n \in CardNames, c \in 1..MaxCount : CreateFile(n, c)
  \/ \E s \in DirSlots : DeleteFile(s) \/ SetFileStatus(s)
  \/ \E s \in DirSlots, n \in CardNames : RenameFile(s, n)
  \/ \E s \in DirSlots, k \in 1..MaxCount : WriteBlock(s, k)
  \/ CommitImage \/ FormatImage \/ ReopenImage \/ CrashImage
  \/ \E n \in 0..3, torn \in BOOLEAN : TearCommit(n, torn)

ImageSpec == ImageInit /\ [][ImageNext]_imgVars

-----------------------------------------------------------------------------
\* What an entry, a directory and a table can be.
FileRecords ==
  [uid : 1..MaxUpdates, name : CardNames, first : Blocks, count : 1..MaxCount]
Directories == [ctr : 0..MaxUpdates, files : [DirSlots -> {NoFile} \cup FileRecords]]
Tables ==
  [ctr : 0..MaxUpdates, map : [Blocks -> {0, End} \cup Blocks],
   free : 0..(MaxBlock - FSTBlocks), last : (FSTBlocks - 1)..(FSTBlocks + UsedBlocks - 1)]

\* Every variable keeps its type.
ImageTypeOK ==
  /\ curDir \in {0, 1} /\ curBat \in {0, 1}
  /\ {imgDirty, imgOwed} \subseteq BOOLEAN
  /\ \A i \in {0, 1} : dirs[i] \in Directories /\ bats[i] \in Tables
  /\ imgData \in [Blocks -> 0..MaxBlockWrites]
  /\ imgPending \in 0..MaxUpdates /\ tears \in 0..MaxTears

FreeBlocks(map) == {b \in Blocks : map[b] = 0}

\* Every file's chain has as many blocks as its entry says and shares none with another;
\* the count of free blocks is that of the table. Allocation wraps around the card,
\* deletion frees less than it should, and copies are restored from either side.
ChainsWhole(files, bat) ==
  /\ \A s \in EntriesOf(files) :
       LET e == files[s]
       IN /\ \A i \in 1..e.count : BlockOf(bat.map, e, i) \in Blocks
          /\ bat.map[BlockOf(bat.map, e, e.count)] = End
          /\ \A t \in EntriesOf(files) : \A i \in 1..e.count, j \in 1..files[t].count :
               BlockOf(bat.map, e, i) = BlockOf(bat.map, files[t], j) => s = t /\ i = j
  /\ bat.free = Cardinality(FreeBlocks(bat.map))

\* A file holds what was last written to it, whatever was created, deleted, renamed or
\* lost to a crash around it.
DataIsOwn(files, bat) ==
  \A s \in EntriesOf(files) : \A k \in 1..files[s].count :
    LET n == wrote[<<files[s].uid, k>>]
    IN n # 0 => imgData[BlockOf(bat.map, files[s], k)] = n

\* No two files have one name.
NamesOnce(files) == \A s, t \in EntriesOf(files) : files[s].name = files[t].name => s = t

\* Between calls, with nothing to commit, the file opens as what is in memory.
CommittedIsCurrent ==
  ~ imgDirty /\ ~ imgOwed => OpensAs(image.dirs) = Dir /\ OpensAs(image.bats) = Bat

\* However a commit ends: if no copy was spoilt before, one copy of each is readable; and if
\* one is, the directory is the last one the title was told is saved, or the one it was
\* saving, and so is the table. After a rename, which is not committed, this holds only if
\* the two have one counter; a commit torn once more before the copy that an earlier one
\* spoilt is mended may leave none to read.
CommitOrNot ==
  [][\A n \in 0..3, torn \in BOOLEAN : TearCommit(n, torn) =>
       /\ AllValid(image.dirs) /\ AllValid(image.bats) => ImageReadable'
       /\ ImageReadable' /\ (imgPending = 1 \/ ~ CopiesSplit') =>
            Dir' \in {saved.dir, Dir} /\ Bat' \in {saved.bat, Bat}]_imgVars

\* What the card promises, however often a commit is torn. Files are vouched for while the
\* image can be read and its directory and table are of one save.
CardStaysWhole ==
  /\ [](/\ NamesOnce(Dir.files) /\ CommittedIsCurrent
        /\ ImageReadable /\ ~ CopiesSplit =>
             ChainsWhole(Dir.files, Bat) /\ DataIsOwn(Dir.files, Bat))
  /\ CommitOrNot
=============================================================================
