------------------------------ MODULE NandFiles -----------------------------
(***************************************************************************)
(* Files of the emulated NAND on the host (runtime/src/hle/storage): the   *)
(* NAND library (nand_api.cpp, nand_async.cpp) writes an existing file     *)
(* through a shadow beside it that a close puts in its place, the IOS      *)
(* device (nand_isfs.cpp) writes in place, and the host may fail any of    *)
(* these steps, or stop between two of them.                               *)
(***************************************************************************)
EXTENDS Integers, FiniteSets, FiniteSetsExt

CONSTANTS
  NandPaths,  \* host files
  Existing,   \* those that exist at first
  InfoSlots,  \* NANDFileInfo structures of the guest
  Parts,      \* the ranges of a file that writes touch
  NoPath,     \* no commit target
  Blank,      \* what a range holds that never reached the disk
  MaxFds,     \* bound: file descriptors handed out
  MaxInodes   \* bound: files and shadows, named or open

NandAssumption ==
  /\ Existing \subseteq NandPaths /\ NoPath \notin NandPaths
  /\ MaxFds \in Nat /\ MaxInodes \in Nat
  /\ Cardinality(Existing) \in 0 .. MaxInodes

VARIABLES
  hostFiles,      \* directory: the inode of each file and of its shadow, 0 when there is none
  hostCache,      \* contents of the inodes as the running host sees them
  hostDisk,       \* contents that survive the host
  fileHandles,    \* g_fileHandles
  nextFd,         \* g_nextFd
  fileInfo,       \* openFlag and descriptor of each NANDFileInfo
  soundContents,  \* history: the contents of each file that its closes left there
  writtenInPlace, \* history: files that were written without a shadow
  sharedShadows   \* history: files a safe open gave a shadow that an open session had too

contents == <<hostCache, hostDisk>>
history == <<soundContents, writtenInPlace, sharedShadows>>
nandVars == <<hostFiles, contents, fileHandles, nextFd, fileInfo, history>>

Fds == 1 .. MaxFds
\* Content: for every range the descriptor that wrote it, 0 at first.
FileContents == [Parts -> Fds \cup {0, Blank}]
Original == [part \in Parts |-> 0]
NoData == [part \in Parts |-> Blank]
NameKinds == {"file", "shadow"}
Inodes == 1 .. MaxInodes
InfoFlags == {"none", "open", "closed", "safeOpen", "safeClosed"}

Names == NandPaths \X NameKinds
Name(path) == <<path, "file">>
\* SafeTempPathFor.
Shadow(path) == <<path, "shadow">>

\* FileHandle: path is the name it was opened under.
FileHandle ==
  [inode : Inodes, path : Names, commit : NandPaths \cup {NoPath}, writes : BOOLEAN]
NoHandles == [fd \in {} |-> 0]
NoSessions == [s \in InfoSlots |-> [flag |-> "none", fd |-> 0]]

LiveFds == {fileInfo[s].fd : s \in InfoSlots} \cap DOMAIN fileHandles
HandleOf(s) == fileHandles[fileInfo[s].fd]
HasHandle(s) == fileInfo[s].fd \in DOMAIN fileHandles
HeldInodes ==
  {fileHandles[fd].inode : fd \in DOMAIN fileHandles} \cup {hostFiles[n] : n \in Names}
FreeInodes == Inodes \ HeldInodes
NewInode == Min(FreeInodes)
Exists(path) == hostFiles[Name(path)] # 0

-----------------------------------------------------------------------------
(* Opening.                                                                *)

\* IsHostPathOpen.
IsHostPathOpen(path) ==
  \E fd \in DOMAIN fileHandles :
    fileHandles[fd].path = Name(path) \/ fileHandles[fd].commit = path

\* Mutant: the next descriptor is the same.
AllocateFdAgain(inode, name, commit, writes) ==
  /\ nextFd \in Fds
  /\ UNCHANGED nextFd
  /\ fileHandles' = [fd \in DOMAIN fileHandles \cup {nextFd} |->
       IF fd # nextFd THEN fileHandles[fd]
       ELSE [inode |-> inode, path |-> name, commit |-> commit, writes |-> writes]]

\* AllocateFd.
AllocateFd(inode, name, commit, writes) ==
  /\ nextFd \in Fds
  /\ nextFd' = nextFd + 1
  /\ fileHandles' = [fd \in DOMAIN fileHandles \cup {nextFd} |->
       IF fd # nextFd THEN fileHandles[fd]
       ELSE [inode |-> inode, path |-> name, commit |-> commit, writes |-> writes]]

\* A structure may be used for another file once its descriptor is gone.
FreeInfo(s) == ~HasHandle(s)

GuestSees(s, flag) == fileInfo' = [fileInfo EXCEPT ![s] = [flag |-> flag, fd |-> nextFd]]

OpensInPlace(s, path, writes, flag) ==
  /\ Exists(path)
  /\ AllocateFd(hostFiles[Name(path)], Name(path), NoPath, writes)
  /\ GuestSees(s, flag)
  /\ writtenInPlace' = IF writes THEN writtenInPlace \cup {path} ELSE writtenInPlace
  /\ UNCHANGED <<contents, soundContents, sharedShadows>>

\* The sessions that a close commits to path all have the one name for their shadow.
SessionsOf(path) == {fd \in DOMAIN fileHandles : fileHandles[fd].commit = path}
TakesShadow(path) ==
  sharedShadows' = IF SessionsOf(path) = {} THEN sharedShadows ELSE sharedShadows \cup {path}

\* DiscardStaleSafeTemp, then a copy of the file under the name of the shadow.
OpensShadow(s, path, flag) ==
  /\ FreeInodes # {}
  /\ AllocateFd(NewInode, Shadow(path), path, TRUE)
  /\ GuestSees(s, flag)
  /\ hostFiles' = [hostFiles EXCEPT ![Shadow(path)] = NewInode]
  /\ hostCache' = [hostCache EXCEPT ![NewInode] = hostCache[hostFiles[Name(path)]]]
  /\ hostDisk' = [hostDisk EXCEPT ![NewInode] = NoData]
  /\ TakesShadow(path) /\ UNCHANGED <<soundContents, writtenInPlace>>

\* The host cannot make the copy: what there was under that name is gone.
ShadowFails(path) == hostFiles' = [hostFiles EXCEPT ![Shadow(path)] = 0]

\* fopen "w+b" of a file that does not exist.
Creates(s, path) ==
  /\ ~Exists(path) /\ FreeInodes # {}
  /\ AllocateFd(NewInode, Name(path), NoPath, TRUE)
  /\ GuestSees(s, "open")
  /\ hostFiles' = [hostFiles EXCEPT ![Name(path)] = NewInode]
  /\ hostCache' = [hostCache EXCEPT ![NewInode] = NoData]
  /\ hostDisk' = [hostDisk EXCEPT ![NewInode] = NoData]
  /\ writtenInPlace' = writtenInPlace \cup {path}
  /\ UNCHANGED <<soundContents, sharedShadows>>

\* NANDOpen and NANDSafeOpen to read.
NANDOpenRead(s, path) ==
  /\ FreeInfo(s) /\ UNCHANGED hostFiles
  /\ \E flag \in {"open", "safeOpen"} : OpensInPlace(s, path, FALSE, flag)

\* NANDOpen to write.
NANDOpenWrite(s, path) ==
  /\ FreeInfo(s)
  /\ \/ /\ Exists(path) /\ ~IsHostPathOpen(path)
        /\ OpensShadow(s, path, "open")
     \/ /\ Exists(path) /\ ~IsHostPathOpen(path)
        /\ UNCHANGED hostFiles \/ ShadowFails(path)
        /\ OpensInPlace(s, path, TRUE, "open")
     \/ /\ IsHostPathOpen(path) /\ UNCHANGED hostFiles
        /\ OpensInPlace(s, path, TRUE, "open")
     \/ Creates(s, path)

\* NANDSafeOpen to write: other handles are not looked at, and a shadow of an open session
\* is taken for a stale one.
NANDSafeOpen(s, path) ==
  /\ FreeInfo(s) /\ Exists(path)
  /\ OpensShadow(s, path, "safeOpen")

\* The copy fails: the guest gets an error and no descriptor.
NANDSafeOpenFails(s, path) ==
  /\ FreeInfo(s) /\ Exists(path) /\ hostFiles[Shadow(path)] # 0
  /\ ShadowFails(path) /\ TakesShadow(path)
  /\ UNCHANGED <<contents, fileHandles, nextFd, fileInfo, soundContents, writtenInPlace>>

\* IOS_Open to write: the descriptor has no structure of the library.
IOS_Open(path) ==
  /\ Exists(path)
  /\ AllocateFd(hostFiles[Name(path)], Name(path), NoPath, TRUE)
  /\ writtenInPlace' = writtenInPlace \cup {path}
  /\ UNCHANGED <<hostFiles, contents, fileInfo, soundContents, sharedShadows>>

-----------------------------------------------------------------------------
(* Writing and closing.                                                    *)

\* NANDWrite and IOS_Write: to the cache of the host.
WriteFile(fd, part) ==
  /\ fileHandles[fd].writes
  /\ hostCache' = [hostCache EXCEPT ![fileHandles[fd].inode][part] = fd]
  /\ UNCHANGED <<hostFiles, hostDisk, fileHandles, nextFd, fileInfo, history>>

RetireFd(fd) == fileHandles' = [f \in DOMAIN fileHandles \ {fd} |-> fileHandles[f]]

\* The name of the shadow is that of this session alone again.
ShadowsAfter(fd) ==
  LET h == fileHandles[fd]
  IN  IF hostFiles[Shadow(h.commit)] = h.inode /\ SessionsOf(h.commit) = {fd}
      THEN sharedShadows \ {h.commit} ELSE sharedShadows

\* Mutant: the rename is not preceded by a flush.
PublishesUnflushed(fd) ==
  LET h == fileHandles[fd]
  IN  /\ hostFiles' = [hostFiles EXCEPT ![Name(h.commit)] = hostFiles[Shadow(h.commit)],
                                        ![Shadow(h.commit)] = 0]
      /\ soundContents' = [soundContents EXCEPT ![h.commit] = {hostCache[h.inode]}]
      /\ sharedShadows' = ShadowsAfter(fd)
      /\ UNCHANGED hostDisk

\* FlushFileToDisk of the session, then AtomicReplaceHostFile by name.
PublishesShadow(fd) ==
  LET h == fileHandles[fd]
  IN  /\ hostDisk' = [hostDisk EXCEPT ![h.inode] = hostCache[h.inode]]
      /\ hostFiles[Shadow(h.commit)] # 0
      /\ hostFiles' = [hostFiles EXCEPT ![Name(h.commit)] = hostFiles[Shadow(h.commit)],
                                        ![Shadow(h.commit)] = 0]
      /\ soundContents' = [soundContents EXCEPT ![h.commit] = {hostCache[h.inode]}]
      /\ sharedShadows' = ShadowsAfter(fd)

\* The flush or the rename fails: the shadow is dropped.
DropsShadow(fd) ==
  /\ hostFiles' = [hostFiles EXCEPT ![Shadow(fileHandles[fd].commit)] = 0]
  /\ \/ UNCHANGED hostDisk
     \/ hostDisk' = [hostDisk EXCEPT ![fileHandles[fd].inode] = hostCache[fileHandles[fd].inode]]
  /\ UNCHANGED <<soundContents, sharedShadows>>

\* A handle without a shadow: only a flush.
FlushesFile(fd) ==
  /\ hostDisk' = [hostDisk EXCEPT ![fileHandles[fd].inode] = hostCache[fileHandles[fd].inode]]
  /\ UNCHANGED <<hostFiles, soundContents, sharedShadows>>

FlagOnSuccess(s, flag) == fileInfo' = [fileInfo EXCEPT ![s].flag = flag]

\* CommitAndCloseFd of a live descriptor for a structure of the library.
CommitAndCloseFd(s, closed) ==
  LET fd == fileInfo[s].fd
  IN  /\ RetireFd(fd)
      /\ \/ fileHandles[fd].commit # NoPath /\ PublishesShadow(fd) /\ FlagOnSuccess(s, closed)
         \/ fileHandles[fd].commit # NoPath /\ DropsShadow(fd) /\ UNCHANGED fileInfo
         \/ /\ fileHandles[fd].commit = NoPath /\ FlagOnSuccess(s, closed)
            /\ IF fileHandles[fd].writes THEN FlushesFile(fd)
               ELSE UNCHANGED <<hostFiles, hostDisk, soundContents, sharedShadows>>
         \/ /\ fileHandles[fd].commit = NoPath /\ fileHandles[fd].writes
            /\ UNCHANGED <<hostFiles, hostDisk, soundContents, sharedShadows, fileInfo>>
      /\ UNCHANGED <<hostCache, nextFd, writtenInPlace>>

\* NANDClose: a descriptor that is gone counts as closed.
NANDClose(s) ==
  /\ fileInfo[s].flag = "open"
  /\ IF HasHandle(s) THEN CommitAndCloseFd(s, "closed")
     ELSE /\ FlagOnSuccess(s, "closed")
          /\ UNCHANGED <<hostFiles, contents, fileHandles, nextFd, history>>

\* NANDSafeClose: a plain handle is passed on, a descriptor that is gone is an error.
NANDSafeClose(s) ==
  \/ NANDClose(s)
  \/ fileInfo[s].flag = "safeOpen" /\ HasHandle(s) /\ CommitAndCloseFd(s, "safeClosed")

\* CloseFd: no flush.
IOS_Close(fd) ==
  /\ fd \notin LiveFds
  /\ RetireFd(fd)
  /\ UNCHANGED <<hostFiles, contents, nextFd, fileInfo, history>>

-----------------------------------------------------------------------------
(* Names.                                                                  *)

\* NANDCreate.
NANDCreate(path) ==
  /\ ~Exists(path) /\ FreeInodes # {}
  /\ hostFiles' = [hostFiles EXCEPT ![Name(path)] = NewInode]
  /\ hostCache' = [hostCache EXCEPT ![NewInode] = NoData]
  /\ hostDisk' = [hostDisk EXCEPT ![NewInode] = NoData]
  /\ writtenInPlace' = writtenInPlace \cup {path}
  /\ UNCHANGED <<fileHandles, nextFd, fileInfo, soundContents, sharedShadows>>

\* The ISFS creation of a file that exists empties it.
ISFS_CreateFile(path) ==
  /\ Exists(path)
  /\ hostCache' = [hostCache EXCEPT ![hostFiles[Name(path)]] = NoData]
  /\ writtenInPlace' = writtenInPlace \cup {path}
  /\ UNCHANGED <<hostFiles, hostDisk, fileHandles, nextFd, fileInfo, soundContents,
                 sharedShadows>>

\* NANDDelete and the ISFS deletion.
NANDDelete(path) ==
  /\ Exists(path)
  /\ hostFiles' = [hostFiles EXCEPT ![Name(path)] = 0]
  /\ UNCHANGED <<contents, fileHandles, nextFd, fileInfo, history>>

\* NANDMove refuses an existing target, the ISFS rename replaces it.
RenameFile(from, to) ==
  /\ from # to /\ Exists(from)
  /\ hostFiles' = [hostFiles EXCEPT ![Name(to)] = hostFiles[Name(from)], ![Name(from)] = 0]
  /\ soundContents' = [soundContents EXCEPT ![to] = soundContents[from]]
  /\ writtenInPlace' =
       IF from \in writtenInPlace THEN writtenInPlace \cup {to} ELSE writtenInPlace \ {to}
  /\ sharedShadows' =
       IF from \in sharedShadows THEN sharedShadows \cup {to} ELSE sharedShadows
  /\ UNCHANGED <<contents, fileHandles, nextFd, fileInfo>>

-----------------------------------------------------------------------------
(* The host stops. What was not flushed may be lost; the guest starts anew. *)

HostStops ==
  /\ DOMAIN fileHandles # {}
  /\ \E lost \in SUBSET {hostFiles[n] : n \in {m \in Names : hostFiles[m] # 0}} :
       hostCache' = [i \in Inodes |-> IF i \in lost THEN hostDisk[i] ELSE hostCache[i]]
  /\ hostDisk' = hostCache'
  /\ fileHandles' = NoHandles
  /\ fileInfo' = NoSessions
  /\ UNCHANGED <<hostFiles, nextFd, history>>

NandInit ==
  /\ \E inode \in [Existing -> 1 .. Cardinality(Existing)] :
       /\ \A e, f \in Existing : e # f => inode[e] # inode[f]
       /\ hostFiles = [n \in Names |->
            IF n[2] = "file" /\ n[1] \in Existing THEN inode[n[1]] ELSE 0]
  /\ hostCache = [i \in Inodes |-> Original] /\ hostDisk = hostCache
  /\ fileHandles = NoHandles /\ nextFd = 1
  /\ fileInfo = NoSessions
  /\ soundContents = [path \in NandPaths |-> {Original}]
  /\ writtenInPlace = {} /\ sharedShadows = {}

NandNext ==
  \/ \E s \in InfoSlots, p \in NandPaths :
       \/ NANDOpenRead(s, p) \/ NANDOpenWrite(s, p)
       \/ NANDSafeOpen(s, p) \/ NANDSafeOpenFails(s, p)
  \/ \E p \in NandPaths : IOS_Open(p) \/ NANDCreate(p) \/ ISFS_CreateFile(p) \/ NANDDelete(p)
  \/ \E fd \in DOMAIN fileHandles : IOS_Close(fd) \/ \E part \in Parts : WriteFile(fd, part)
  \/ \E s \in InfoSlots : NANDClose(s) \/ NANDSafeClose(s)
  \/ \E p, q \in NandPaths : RenameFile(p, q)
  \/ HostStops

NandSpec == NandInit /\ [][NandNext]_nandVars

-----------------------------------------------------------------------------
(* Properties.                                                             *)

NandTypeOK ==
  /\ hostFiles \in [Names -> Inodes \cup {0}]
  /\ hostCache \in [Inodes -> FileContents] /\ hostDisk \in [Inodes -> FileContents]
  /\ DOMAIN fileHandles \subseteq 1 .. nextFd - 1 /\ nextFd \in 1 .. MaxFds + 1
  /\ \A fd \in DOMAIN fileHandles : fileHandles[fd] \in FileHandle
  /\ fileInfo \in [InfoSlots -> [flag : InfoFlags, fd : Fds \cup {0}]]
  /\ soundContents \in [NandPaths -> SUBSET FileContents]
  /\ writtenInPlace \subseteq NandPaths /\ sharedShadows \subseteq NandPaths

\* A file that is written through shadows holds what its last successful close left
\* there, to the running host and to one that comes up after a crash at any point
\* (nand_api.cpp:96-98, nand_async.cpp:344-345). Not so a file with two sessions at once,
\* the second a safe open: the close of the first may put the unfinished shadow of the
\* second in place, until a session that had the name of the shadow to itself is closed.
NoTornFile ==
  \A p \in NandPaths \ (writtenInPlace \cup sharedShadows) :
    Exists(p) => /\ hostCache[hostFiles[Name(p)]] \in soundContents[p]
                 /\ hostDisk[hostFiles[Name(p)]] \in soundContents[p]

\* A close that finds its session and reports success has put what the session wrote
\* in place of the file, where it survives a crash, unless the shadow was shared.
ClosesSave ==
  \A s \in InfoSlots :
    (/\ fileInfo[s].flag \in {"open", "safeOpen"}
     /\ fileInfo'[s].flag \in {"closed", "safeClosed"}
     /\ HasHandle(s) /\ HandleOf(s).commit \notin sharedShadows \cup {NoPath})
    => /\ hostFiles'[Name(HandleOf(s).commit)] # 0
       /\ hostDisk'[hostFiles'[Name(HandleOf(s).commit)]] = hostCache[HandleOf(s).inode]
CloseMeansSaved == [][ClosesSave]_nandVars

\* The shadow of a live handle is the file the handle writes to: what a close publishes is
\* its own session. Only a safe open of a file that an open session shadows takes the name
\* from it (nand_async.cpp:498): NANDOpen asks first.
ShadowIsOwn ==
  \A fd \in DOMAIN fileHandles :
    fileHandles[fd].commit \notin sharedShadows \cup {NoPath} =>
      hostFiles[Shadow(fileHandles[fd].commit)] = fileHandles[fd].inode

\* A close that failed leaves the structure and the descriptor so that the guest
\* can try again (nand_async.cpp:587-590).
RetryHasHandle ==
  \A s \in InfoSlots : fileInfo[s].flag = "safeOpen" => HasHandle(s)

\* What the code does not promise: that no safe open takes the shadow of an open session.
ShadowsApart == sharedShadows = {}

\* What the file system promises: a file is what its last successful close made of it, to
\* the running host and after a crash, but for files whose shadow two sessions shared.
FilesSurvive ==
  /\ []/\ NoTornFile
       /\ ShadowIsOwn
  /\ CloseMeansSaved
=============================================================================
