------------------------------ MODULE MCClient ------------------------------
(***************************************************************************)
(* Instances of the components on the client's side, open files, listings, *)
(* the FUSE daemon and the questions put to the user, and of the backends  *)
(* that are clients of a web drive, with a cache of it: Google Drive and   *)
(* OneDrive.  A behaviour runs one of them, its part; the variables of the *)
(* others keep the value 0.                                                *)
(***************************************************************************)
EXTENDS Naturals, TLC

CONSTANT Parts       \* the parts that are run: names of Init's cases

VARIABLE part        \* the one that runs

VARIABLES readOp, readCancelled, readOffset, cgen, readSeqNr, pre, block, readOut, closed, readOps,
          res, readSure, readC2d, readD2c, shut, readQueue, readJob, dgen, readCount, readBpos,
          readBlocked   \* ReadStream
VARIABLES writeOp, writeCancelled, writeOffset, canSeek, writeSeqNr, writeOut, mem, writeOpen,
          writeSure, last, writeC2d, writeD2c, eof, writeQueue, writeJob, writeFile, writeBpos,
          writeOps, faults   \* WriteStream
VARIABLES srv, net, cl, enumTask, lock, pc, canceller, cancels, told   \* Enumerator
VARIABLES pathMap, fuseActive, refcount, hpath, owner, birth, exists, fuseFd, thread, crashed,
          fuseOps   \* FuseHandles
VARIABLES fileFile, content, handle, fileOp, stream, pos, size, fileFd, answer, fileOps   \* FuseFile
VARIABLES asked, ask, dummy, toClient, toDaemon, client, mop, handlers, invocation, showing,
          completed, said, relay   \* MountOperation
VARIABLES dialogBlocked, dialogTask, timer, noMore, decision, dialogCalls   \* MountOperation's dialog
VARIABLES googleSrv, googleC, googleHandle, googleLast, googleSteps, googleOthers,
          googleFaults   \* GoogleCache
VARIABLES cloud, oneC, oneHandle, monitors, oneTold, oneLast, oneSteps, oneOthers,
          oneFaults   \* OneDriveCache

readVars == <<readOp, readCancelled, readOffset, cgen, readSeqNr, pre, block, readOut, closed,
              readOps, res, readSure, readC2d, readD2c, shut, readQueue, readJob, dgen, readCount,
              readBpos, readBlocked>>
writeVars == <<writeOp, writeCancelled, writeOffset, canSeek, writeSeqNr, writeOut, mem, writeOpen,
               writeSure, last, writeC2d, writeD2c, eof, writeQueue, writeJob, writeFile,
               writeBpos, writeOps, faults>>
enumVars == <<srv, net, cl, enumTask, lock, pc, canceller, cancels, told>>
fuseVars == <<pathMap, fuseActive, refcount, hpath, owner, birth, exists, fuseFd, thread, crashed,
              fuseOps>>
fileVars == <<fileFile, content, handle, fileOp, stream, pos, size, fileFd, answer, fileOps>>
askVars == <<asked, ask, dummy, toClient, toDaemon, client, mop, handlers, invocation, showing,
             completed, said, relay>>
dialogVars == <<dialogBlocked, dialogTask, timer, noMore, decision, dialogCalls>>
clientVars == <<readVars, writeVars, enumVars, fuseVars, fileVars, askVars, dialogVars>>
googleVars == <<googleSrv, googleC, googleHandle, googleLast, googleSteps, googleOthers,
                googleFaults>>
oneVars == <<cloud, oneC, oneHandle, monitors, oneTold, oneLast, oneSteps, oneOthers, oneFaults>>

\* Google Drive: Home is 1; a folder (2) and two files of one title; a file more in the
\* folder; a file in two folders beside one of the same title
OwnFile(title, parents, isdir) ==
  [title |-> title, parents |-> parents, isdir |-> isdir, mine |-> TRUE, src |-> 0, par |-> 0]
Twins == (2 :> OwnFile(9, {1}, TRUE)) @@ (3 :> OwnFile(7, {1}, FALSE)) @@ (4 :> OwnFile(7, {1}, FALSE))
Full == Twins @@ (5 :> OwnFile(8, {2}, FALSE))
InTwo == [Twins EXCEPT ![4].parents = {1, 2}]
MovePaths == {<<3>>, <<7>>, <<2, 7>>}
ListPaths == {<<2>>, <<7>>, <<2, 7>>}
LookPaths == {<<2>>, <<3>>, <<7>>, <<2, 7>>}

\* OneDrive: a folder with a file and a file beside it; a file, and one shared by others
Entry(parent, name, dir) == [parent |-> parent, name |-> name, dir |-> dir, ver |-> 0]
HomeTree == ("i1" :> Entry("home", "a", FALSE)) @@ ("i2" :> Entry("home", "s", TRUE))
            @@ ("i3" :> Entry("i2", "b", FALSE))
SharedTree == ("i1" :> Entry("home", "a", FALSE)) @@ ("i4" :> Entry("shared", "x", FALSE))
Files == <<"name", "Files">>
HomePaths == {<<Files, <<"name", "s">>>>, <<Files, <<"D", "i1">>>>, <<Files, <<"name", "s">>, <<"name", "b">>>>}
TopPaths == {<<Files>>, <<Files, <<"", "i1">>>>, <<Files, <<"name", "a">>>>}
WritePaths == {<<Files>>, <<Files, <<"name", "b">>>>}
SharedPaths == {<<<<"name", "Shared">>>>, <<<<"name", "Shared">>, <<"D", "i4">>>>}

-----------------------------------------------------------------------------
\* ReadStream: two operations and a close, with readahead, short reads and
\* cancellation at every point.
Read == INSTANCE ReadStream WITH FileSize <- 2, ReadSizes <- {1, 2}, MaxOps <- 2,
          EarlyCancel <- {"read", "seek", "close"}, Blocks <- FALSE, op <- readOp,
          cancelled <- readCancelled, offset <- readOffset, seqNr <- readSeqNr, out <- readOut,
          ops <- readOps, sure <- readSure, c2d <- readC2d, d2c <- readD2c, queue <- readQueue,
          job <- readJob, bpos <- readBpos, blocked <- readBlocked
ReadOff == readOp = 0 /\ readCancelled = 0 /\ readOffset = 0 /\ cgen = 0 /\ readSeqNr = 0 /\
           pre = 0 /\ block = 0 /\ readOut = 0 /\ closed = 0 /\ readOps = 0 /\ res = 0 /\
           readSure = 0 /\ readC2d = 0 /\ readD2c = 0 /\ shut = 0 /\ readQueue = 0 /\
           readJob = 0 /\ dgen = 0 /\ readCount = 0 /\ readBpos = 0 /\ readBlocked = 0

\* WriteStream: three operations, one of which may fail, each cancelled at any point.
Write == INSTANCE WriteStream WITH Modes <- {"append", "edit"}, MaxWrite <- 2, MaxOps <- 3,
           MaxFaults <- 1, EarlyCancel <- {"write", "seek", "truncate", "close"},
           LateCancel <- TRUE, Async <- FALSE, op <- writeOp, cancelled <- writeCancelled,
           offset <- writeOffset, seqNr <- writeSeqNr, out <- writeOut, open <- writeOpen,
           sure <- writeSure, c2d <- writeC2d, d2c <- writeD2c, queue <- writeQueue,
           job <- writeJob, file <- writeFile, bpos <- writeBpos, ops <- writeOps
WriteOff == writeOp = 0 /\ writeCancelled = 0 /\ writeOffset = 0 /\ canSeek = 0 /\
            writeSeqNr = 0 /\ writeOut = 0 /\ mem = 0 /\ writeOpen = 0 /\ writeSure = 0 /\
            last = 0 /\ writeC2d = 0 /\ writeD2c = 0 /\ eof = 0 /\ writeQueue = 0 /\
            writeJob = 0 /\ writeFile = 0 /\ writeBpos = 0 /\ writeOps = 0 /\ faults = 0

\* Enumerator: four to six files in batches of two; reads cancelled by the main loop, by a
\* thread, or made synchronously.
Enum == INSTANCE Enumerator WITH Files <- 5, Batch <- 2, MaxAsk <- 3, Sync <- FALSE,
          CancelFrom <- "main", MaxCancels <- 2, Timeouts <- FALSE, Breaks <- FALSE,
          task <- enumTask
EnumThread == INSTANCE Enumerator WITH Files <- 4, Batch <- 2, MaxAsk <- 3, Sync <- FALSE,
                CancelFrom <- "thread", MaxCancels <- 2, Timeouts <- FALSE, Breaks <- FALSE,
                task <- enumTask
EnumSync == INSTANCE Enumerator WITH Files <- 6, Batch <- 2, MaxAsk <- 2, Sync <- TRUE,
              CancelFrom <- "nowhere", MaxCancels <- 0, Timeouts <- FALSE, Breaks <- FALSE,
              task <- enumTask
EnumOff == srv = 0 /\ net = 0 /\ cl = 0 /\ enumTask = 0 /\ lock = 0 /\ pc = 0 /\ canceller = 0 /\
           cancels = 0 /\ told = 0

\* FuseHandles: two threads on one path, where a handle that was given up may be found
\* again but not given up again before the first thread has looked (Twice), and one thread
\* that renames between two paths.
Fuse == INSTANCE FuseHandles WITH Thread <- {"t1", "t2"}, Path <- {"p"}, Addr <- {"a1", "a2"},
          Fd <- {"f1", "f2"}, Ops <- {"open", "create", "release", "io", "path", "unlink"},
          Twice <- FALSE, MaxOps <- 4, active <- fuseActive, fd <- fuseFd, ops <- fuseOps
FuseRename == INSTANCE FuseHandles WITH Thread <- {"t1"}, Path <- {"p", "q"}, Addr <- {"a1", "a2"},
                Fd <- {"f1", "f2"},
                Ops <- {"open", "create", "release", "io", "path", "unlink", "rename"},
                Twice <- FALSE, MaxOps <- 5, active <- fuseActive, fd <- fuseFd, ops <- fuseOps
FuseOff == pathMap = 0 /\ fuseActive = 0 /\ refcount = 0 /\ hpath = 0 /\ owner = 0 /\ birth = 0 /\
           exists = 0 /\ fuseFd = 0 /\ thread = 0 /\ crashed = 0 /\ fuseOps = 0

\* FuseFile: six requests on one file, through one descriptor or two.
File == INSTANCE FuseFile WITH Fd <- {"f1"}, OpenFlags <- {"r", "w", "t", "a"}, Byte <- {1},
          MaxSize <- 3, MaxOps <- 6, CanSeek <- TRUE, CanTruncate <- TRUE, Staged <- TRUE,
          Faults <- FALSE, file <- fileFile, op <- fileOp, fd <- fileFd, ops <- fileOps
FileShared == INSTANCE FuseFile WITH Fd <- {"f1", "f2"}, OpenFlags <- {"r", "w"}, Byte <- {1},
                MaxSize <- 3, MaxOps <- 6, CanSeek <- FALSE, CanTruncate <- TRUE, Staged <- TRUE,
                Faults <- TRUE, file <- fileFile, op <- fileOp, fd <- fileFd, ops <- fileOps
FileOff == fileFile = 0 /\ content = 0 /\ handle = 0 /\ fileOp = 0 /\ stream = 0 /\ pos = 0 /\
           size = 0 /\ fileFd = 0 /\ answer = 0 /\ fileOps = 0

\* MountOperation: two questions, one after the other.
Ask == INSTANCE MountOperation WITH MaxAsks <- 2, Overlap <- FALSE, Patient <- TRUE,
         blocked <- dialogBlocked, task <- dialogTask, calls <- dialogCalls
AskOff == asked = 0 /\ ask = 0 /\ dummy = 0 /\ toClient = 0 /\ toDaemon = 0 /\ client = 0 /\
          mop = 0 /\ handlers = 0 /\ invocation = 0 /\ showing = 0 /\ completed = 0 /\ said = 0 /\
          relay = 0

\* MountOperation: the dialog of a busy mount, asked up to three times.
Dialog == INSTANCE MountOperation WITH MaxAsks <- 3, Overlap <- TRUE, Patient <- FALSE,
            blocked <- dialogBlocked, task <- dialogTask, calls <- dialogCalls
DialogOff == dialogBlocked = 0 /\ dialogTask = 0 /\ timer = 0 /\ noMore = 0 /\ decision = 0 /\
             dialogCalls = 0

\* GoogleCache: a folder with files of the same title.
GoogleLook == INSTANCE GoogleCache WITH Names <- {7, 8}, Path <- LookPaths, MaxId <- 5,
                Start <- Full, Ops <- {"query", "enumerate", "delete", "rename"}, MaxSteps <- 3,
                Others <- 0, Faults <- 1, OnePage <- TRUE, srv <- googleSrv, c <- googleC,
                handle <- googleHandle, last <- googleLast, steps <- googleSteps,
                others <- googleOthers, faults <- googleFaults
GoogleMove == INSTANCE GoogleCache WITH Names <- {7, 8}, Path <- MovePaths, MaxId <- 5,
                Start <- Twins, Ops <- {"query", "copy", "move"}, MaxSteps <- 2, Others <- 0,
                Faults <- 1, OnePage <- TRUE, srv <- googleSrv, c <- googleC,
                handle <- googleHandle, last <- googleLast, steps <- googleSteps,
                others <- googleOthers, faults <- googleFaults
GoogleWrite == INSTANCE GoogleCache WITH Names <- {7, 8}, Path <- ListPaths, MaxId <- 5,
                 Start <- Twins, Ops <- {"query", "create", "push", "mkdir"}, MaxSteps <- 2,
                 Others <- 0, Faults <- 1, OnePage <- TRUE, srv <- googleSrv, c <- googleC,
                 handle <- googleHandle, last <- googleLast, steps <- googleSteps,
                 others <- googleOthers, faults <- googleFaults
GoogleOthers == INSTANCE GoogleCache WITH Names <- {7, 8}, Path <- MovePaths, MaxId <- 5,
                  Start <- InTwo, Ops <- {"query", "enumerate", "delete"}, MaxSteps <- 3,
                  Others <- 1, Faults <- 0, OnePage <- TRUE, srv <- googleSrv, c <- googleC,
                  handle <- googleHandle, last <- googleLast, steps <- googleSteps,
                  others <- googleOthers, faults <- googleFaults
GoogleOff == googleSrv = 0 /\ googleC = 0 /\ googleHandle = 0 /\ googleLast = 0 /\ googleSteps = 0 /\
             googleOthers = 0 /\ googleFaults = 0

\* OneDriveCache: a drive whose items name their drive or do not, and one item shared by others.
OneLook == INSTANCE OneDriveCache WITH Drive <- "", Names <- {"a", "b"}, NewIds <- {"n1", "n2"},
             Start <- HomeTree, Path <- TopPaths,
             Ops <- {"query", "enumerate", "delete", "rename"}, MaxSteps <- 3, Others <- 0,
             Faults <- 1, told <- oneTold, c <- oneC, handle <- oneHandle, last <- oneLast,
             steps <- oneSteps, others <- oneOthers, faults <- oneFaults
OneInDrive == INSTANCE OneDriveCache WITH Drive <- "D", Names <- {"a", "b"},
                NewIds <- {"n1", "n2"}, Start <- HomeTree, Path <- HomePaths,
                Ops <- {"query", "delete"}, MaxSteps <- 3, Others <- 0, Faults <- 1,
                told <- oneTold, c <- oneC, handle <- oneHandle, last <- oneLast,
                steps <- oneSteps, others <- oneOthers,
                faults <- oneFaults
OneWrite == INSTANCE OneDriveCache WITH Drive <- "D", Names <- {"b"}, NewIds <- {"n1", "n2"},
              Start <- HomeTree, Path <- WritePaths,
              Ops <- {"query", "write", "mkdir", "monitor", "read"}, MaxSteps <- 3, Others <- 0,
              Faults <- 1, told <- oneTold, c <- oneC, handle <- oneHandle, last <- oneLast,
              steps <- oneSteps, others <- oneOthers, faults <- oneFaults
OneShared == INSTANCE OneDriveCache WITH Drive <- "D", Names <- {"a", "b"}, NewIds <- {"n1", "n2"},
               Start <- SharedTree, Path <- SharedPaths,
               Ops <- {"query", "enumerate", "delete", "read"}, MaxSteps <- 4, Others <- 1,
               Faults <- 0, told <- oneTold, c <- oneC, handle <- oneHandle, last <- oneLast,
               steps <- oneSteps, others <- oneOthers, faults <- oneFaults
OneOff == cloud = 0 /\ oneC = 0 /\ oneHandle = 0 /\ monitors = 0 /\ oneTold = 0 /\ oneLast = 0 /\
          oneSteps = 0 /\ oneOthers = 0 /\ oneFaults = 0

ASSUME Read!StreamAssumption /\ Write!WriteAssumption /\ Enum!EnumeratorAssumption /\
       EnumThread!EnumeratorAssumption /\ EnumSync!EnumeratorAssumption /\
       Fuse!HandlesAssumption /\ FuseRename!HandlesAssumption /\ File!FuseAssumption /\
       FileShared!FuseAssumption /\ Ask!MaxAsksAssumption /\ Ask!BooleanAssumption /\
       GoogleLook!Sizes /\ GoogleMove!Sizes /\ GoogleWrite!Sizes /\ GoogleOthers!Sizes /\
       OneLook!Bounds /\ OneInDrive!Bounds /\ OneWrite!Bounds /\ OneShared!Bounds

-----------------------------------------------------------------------------
Init ==
  /\ part \in Parts
  /\ IF part = "read" THEN Read!Init ELSE ReadOff
  /\ IF part = "write" THEN Write!Init ELSE WriteOff
  /\ CASE part = "enum" -> Enum!Init
       [] part = "enumThread" -> EnumThread!Init
       [] part = "enumSync" -> EnumSync!Init
       [] OTHER -> EnumOff
  /\ CASE part = "fuse" -> Fuse!Init
       [] part = "fuseRename" -> FuseRename!Init
       [] OTHER -> FuseOff
  /\ CASE part = "file" -> File!Init
       [] part = "fileShared" -> FileShared!Init
       [] OTHER -> FileOff
  /\ CASE part = "ask" -> Ask!Init /\ DialogOff
       [] part = "dialog" -> Dialog!DialogInit
       [] OTHER -> AskOff /\ DialogOff
  /\ CASE part = "googleLook" -> GoogleLook!Init
       [] part = "googleMove" -> GoogleMove!Init
       [] part = "googleWrite" -> GoogleWrite!Init
       [] part = "googleOthers" -> GoogleOthers!Init
       [] OTHER -> GoogleOff
  /\ CASE part = "oneLook" -> OneLook!Init
       [] part = "oneDrive" -> OneInDrive!Init
       [] part = "oneWrite" -> OneWrite!Init
       [] part = "oneShared" -> OneShared!Init
       [] OTHER -> OneOff

Next ==
  \/ /\ part = "read"
     /\ Read!Next
     /\ UNCHANGED <<part, writeVars, enumVars, fuseVars, fileVars, askVars,
                     dialogVars, googleVars, oneVars>>
  \/ /\ part = "write"
     /\ Write!Next
     /\ UNCHANGED <<part, readVars, enumVars, fuseVars, fileVars, askVars,
                     dialogVars, googleVars, oneVars>>
  \/ /\ part = "enum"
     /\ Enum!Next
     /\ UNCHANGED <<part, readVars, writeVars, fuseVars, fileVars, askVars,
                     dialogVars, googleVars, oneVars>>
  \/ /\ part = "enumThread"
     /\ EnumThread!Next
     /\ UNCHANGED <<part, readVars, writeVars, fuseVars, fileVars, askVars,
                     dialogVars, googleVars, oneVars>>
  \/ /\ part = "enumSync"
     /\ EnumSync!Next
     /\ UNCHANGED <<part, readVars, writeVars, fuseVars, fileVars, askVars,
                     dialogVars, googleVars, oneVars>>
  \/ /\ part = "fuse"
     /\ Fuse!Next
     /\ UNCHANGED <<part, readVars, writeVars, enumVars, fileVars, askVars,
                     dialogVars, googleVars, oneVars>>
  \/ /\ part = "fuseRename"
     /\ FuseRename!Next
     /\ UNCHANGED <<part, readVars, writeVars, enumVars, fileVars, askVars,
                     dialogVars, googleVars, oneVars>>
  \/ /\ part = "file"
     /\ File!Next
     /\ UNCHANGED <<part, readVars, writeVars, enumVars, fuseVars, askVars,
                     dialogVars, googleVars, oneVars>>
  \/ /\ part = "fileShared"
     /\ FileShared!Next
     /\ UNCHANGED <<part, readVars, writeVars, enumVars, fuseVars, askVars,
                     dialogVars, googleVars, oneVars>>
  \/ /\ part = "ask"
     /\ Ask!Next
     /\ UNCHANGED <<part, readVars, writeVars, enumVars, fuseVars,
                     fileVars, dialogVars, googleVars, oneVars>>
  \/ /\ part = "dialog"
     /\ Dialog!DialogNext
     /\ UNCHANGED <<part, readVars, writeVars, enumVars, fuseVars, fileVars, googleVars, oneVars>>
  \/ /\ part = "googleLook"
     /\ GoogleLook!Next
     /\ UNCHANGED <<part, clientVars, oneVars>>
  \/ /\ part = "googleMove"
     /\ GoogleMove!Next
     /\ UNCHANGED <<part, clientVars, oneVars>>
  \/ /\ part = "googleWrite"
     /\ GoogleWrite!Next
     /\ UNCHANGED <<part, clientVars, oneVars>>
  \/ /\ part = "googleOthers"
     /\ GoogleOthers!Next
     /\ UNCHANGED <<part, clientVars, oneVars>>
  \/ /\ part = "oneLook"
     /\ OneLook!Next
     /\ UNCHANGED <<part, clientVars, googleVars>>
  \/ /\ part = "oneDrive"
     /\ OneInDrive!Next
     /\ UNCHANGED <<part, clientVars, googleVars>>
  \/ /\ part = "oneWrite"
     /\ OneWrite!Next
     /\ UNCHANGED <<part, clientVars, googleVars>>
  \/ /\ part = "oneShared"
     /\ OneShared!Next
     /\ UNCHANGED <<part, clientVars, googleVars>>

Spec == Init /\ [][Next]_<<part, clientVars, googleVars, oneVars>>

-----------------------------------------------------------------------------
\* Whoever waits for the answer to a request on an open file will find one, in its turn,
\* and both ends have counted the same seeks, so that stale data is known (ReadStream).
RepliesArrive ==
  part = "read" => Read!PipelineOrdered /\ Read!AnswerPending /\ Read!GenerationsExact

\* What a write reported is where the writer believes it is, a cancelled write does not
\* reach the file later, and the kernel reads back through the FUSE daemon what it wrote
\* there, at the size and the position it was told (WriteStream, FuseFile).
WritesAreTrue ==
  /\ part = "write" => /\ Write!TypeOK /\ Write!OffsetTrue /\ Write!ReportedWritten
                       /\ Write!NothingLater /\ Write!BufferClean
  /\ part = "file" => /\ File!TypeOK /\ File!NothingLost /\ File!ReadsBack /\ File!SizeTold
                      /\ File!AccessTold /\ File!PositionTrue
  /\ part = "fileShared" => /\ FileShared!NothingLost /\ FileShared!ReadsBack
                            /\ FileShared!SizeTold /\ FileShared!PositionTrue

\* A listing reaches the client whole, in order and once, however its reads are
\* answered and cancelled (Enumerator).
ListingsWhole ==
  /\ part = "enum" => Enum!TypeOK /\ Enum!NothingLost /\ Enum!EndIsEnd /\ Enum!BatchesFull /\ Enum!ReturnedOnce
  /\ part = "enumThread" => EnumThread!NothingLost /\ EnumThread!EndIsEnd
  /\ part = "enumSync" => EnumSync!NothingLost /\ EnumSync!EndIsEnd

\* A file handle of the FUSE daemon counts what its open files and its requests hold, the two
\* tables agree, and it is not used after file_handle_free (FuseHandles): with two threads, a
\* handle found again between the last unref and the look under the mutex included, as long
\* as it does not fall to 0 again in between; and over renames of one thread at a time.
ReferencesExact ==
  /\ part = "fuse" => Fuse!TypeOK /\ Fuse!RefsExact /\ Fuse!MapsAgree /\ Fuse!NoUseAfterFree
  /\ part = "fuseRename" => FuseRename!MapsAgree /\ FuseRename!NoUseAfterFree

\* An asker is told what the user said to that question, once, and a busy mount goes
\* only if nobody uses it any more or the user wants it to (MountOperation).
AnswersAreTheUsers ==
  /\ part = "ask" => Ask!TypeOK /\ Ask!AnswerTrue /\ Ask!AnswerKept /\ Ask!CompletedOnce
  /\ part = "dialog" => Dialog!DialogTypeOK /\ Dialog!UnmountJustified /\ Dialog!NoMoreProceeds

\* What the caches of the web drives answer is true of the drive: "not found" when nothing
\* has the name, the entry that has it otherwise, and every file in a listing
\* (GoogleCache, OneDriveCache).
CachesTrue ==
  /\ part = "googleLook" => /\ GoogleLook!TypeOK /\ GoogleLook!NamesTrue
                            /\ GoogleLook!NotFoundTrue /\ GoogleLook!ListingComplete
  /\ part = "googleMove" => GoogleMove!RealIds /\ GoogleMove!NamesTrue /\ GoogleMove!NotFoundTrue
  /\ part = "googleWrite" => GoogleWrite!NotFoundTrue
  /\ part = "googleOthers" => GoogleOthers!RealIds
  /\ part = "oneLook" => OneLook!FoundIsThere /\ OneLook!NotFoundTrue /\ OneLook!ListingExact
  /\ part = "oneDrive" => OneInDrive!TypeOK /\ OneInDrive!NotFoundTrue
  /\ part = "oneWrite" => OneWrite!NotFoundTrue /\ OneWrite!InfoFresh
  /\ part = "oneShared" => OneShared!NotFoundTrue

\* An operation on a web drive removes a folder only when it is empty and overwrites a file
\* only where it was asked to, what it creates is new, and the monitors are told of every
\* change (GoogleCache, OneDriveCache).
CloudKept ==
  /\ [][/\ part = "googleLook" => GoogleLook!EmptyOnly
        /\ part = "googleMove" => GoogleMove!OnlyOverwritesAsked]_googleVars
  /\ [][/\ part = "oneLook" => OneLook!EmptyOnly
        /\ part = "oneDrive" => OneInDrive!EmptyOnly
        /\ part = "oneWrite" => OneWrite!CreatedIsNew /\ OneWrite!ChangesTold]_oneVars
=============================================================================
