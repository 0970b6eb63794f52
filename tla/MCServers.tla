----------------------------- MODULE MCServers -----------------------------
(***************************************************************************)
(* Instances of the backends of file servers: SFTP, FTP, NFS and WebDAV.   *)
(* A behaviour runs one component, its part; the variables of the others   *)
(* keep the value 0.                                                       *)
(***************************************************************************)
EXTENDS Naturals

CONSTANT Parts       \* the parts that are run: names of Init's cases

VARIABLE part        \* the one that runs

VARIABLES currentId, conns, connJobs, forceUnmounted, blocked   \* SftpConnection
VARIABLES user, userSpecified, tmpPassword, loginKeyring, loginConn, login, ssh, loggedIn,
          loginAnswers, past   \* SftpLogin
VARIABLES removeSource, pullSource, pullPhase, size, pullOffset, maxReq, reads, queued, writing,
          written, remoteOpen, pullFreed, pullCancelled, pullAnswers   \* SftpPull
VARIABLES flags, pushSource, dest, pushTemp, target, named, pushTempCount, truncated, pushPhase,
          input, pushOffset, writes, numReq, pushFreed, pushCancelled, pushAnswers   \* SftpPush
VARIABLES replaceJob, file, backup, replaceTemp, replacePhase, replaceHandle, replaceTempCount,
          replaceCursor, replaceAnswers   \* SftpReplace
VARIABLES sftpTree, sftpJob, pending, sftpHandles, infos, sftpGone   \* SftpJobs
VARIABLES queue, mounted, connections, busyConnections, maxConnections, lastThread, usable,
          allocated, poolStreams, poolTask, woken, poolJobs, poolFaults, refused   \* FtpPool
VARIABLES fs, cache, stamp, ftpJob, ftpStreams, ftpJobs, ftpFaults   \* FtpFiles
VARIABLES server, tlsMode, initialUser, account, ftpLoginKeyring, saved, pc, ftpLoginConn,
          workaround, features, prompted, accepted, present, exposed, prompts, drops   \* FtpLogin
VARIABLES family, advertised, works, method, dataTask, transfers, changes   \* FtpData
VARIABLES nfsJob, was, entry, body, others, seen, nfsPhase, nfsHandle, copy, fhs, nfsCursor,
          nfsAnswers   \* NfsReplace
VARIABLES mount, nfsJobsSource, nfsJobsTree, times, nfsJobsJob, nfsJobsHandles, nfsJobsGone   \* NfsJobs
VARIABLES node, etag, job, local, lost, put, done, davFaults, davOthers   \* DavFiles
VARIABLES davServer, keyring, base, good, interactive, after403, pw, save, davCache, cert, msg, ans,
          asked, askedGood, davExposed, davMountFaults   \* DavMount

connVars == <<currentId, conns, connJobs, forceUnmounted, blocked>>
loginVars == <<user, userSpecified, tmpPassword, loginKeyring, loginConn, login, ssh, loggedIn,
               loginAnswers, past>>
pullVars == <<removeSource, pullSource, pullPhase, size, pullOffset, maxReq, reads, queued,
              writing, written, remoteOpen, pullFreed, pullCancelled, pullAnswers>>
pushVars == <<flags, pushSource, dest, pushTemp, target, named, pushTempCount, truncated,
              pushPhase, input, pushOffset, writes, numReq, pushFreed, pushCancelled, pushAnswers>>
replaceVars == <<replaceJob, file, backup, replaceTemp, replacePhase, replaceHandle,
                 replaceTempCount, replaceCursor, replaceAnswers>>
sftpVars == <<sftpTree, sftpJob, pending, sftpHandles, infos, sftpGone>>
poolVars == <<queue, mounted, connections, busyConnections, maxConnections, lastThread, usable,
              allocated, poolStreams, poolTask, woken, poolJobs, poolFaults, refused>>
ftpVars == <<fs, cache, stamp, ftpJob, ftpStreams, ftpJobs, ftpFaults>>
ftpLoginVars == <<server, tlsMode, initialUser, account, ftpLoginKeyring, saved, pc, ftpLoginConn,
                  workaround, features, prompted, accepted, present, exposed, prompts, drops>>
dataVars == <<family, advertised, works, method, dataTask, transfers, changes>>
nfsVars == <<nfsJob, was, entry, body, others, seen, nfsPhase, nfsHandle, copy, fhs, nfsCursor,
             nfsAnswers>>
nfsJobsVars == <<mount, nfsJobsSource, nfsJobsTree, times, nfsJobsJob, nfsJobsHandles, nfsJobsGone>>
davVars == <<node, etag, job, local, lost, put, done, davFaults, davOthers>>
davMountVars == <<davServer, keyring, base, good, interactive, after403, pw, save, davCache, cert,
                 msg, ans, asked, askedGood, davExposed, davMountFaults>>

serverVars == <<connVars, loginVars, pullVars, pushVars, replaceVars, sftpVars, poolVars, ftpVars,
                ftpLoginVars, dataVars, nfsVars, nfsJobsVars>>
webVars == <<davVars, davMountVars>>

\* Paths of exports, character by character where it matters.
Mnt == <<"/", "m">>
MntA == <<"/", "m", "/", "a">>
Mnta == <<"/", "m", "a">>
ExportLists == {<<>>, <<Mnt>>, <<Mnta>>, <<MntA, Mnt>>, <<Mnt, MntA>>, <<Mnta, MntA>>}

\* WebDAV: a tree, and the operations that the jobs choose from
Resource(k) == [k |-> IF k = "full" THEN "dir" ELSE k, e |-> IF k = "file" THEN 1 ELSE 0,
                c |-> IF k = "file" THEN <<"1">> ELSE <<>>, kids |-> IF k = "full" THEN {"k"} ELSE {}]
Trees == [n \in {"a", "b", "e"} |-> Resource(IF n = "b" THEN "none" ELSE "file")]
FullTree == [Trees EXCEPT !["a"] = Resource("full")]
DavOp(kind, n, d, ow, tag, rm) == [kind |-> kind, n |-> n, d |-> d, ow |-> ow, tag |-> tag, rm |-> rm]
WriteOps == {DavOp("create", "b", "b", FALSE, FALSE, FALSE)}
            \cup {DavOp("replace", "a", "a", FALSE, t, FALSE) : t \in BOOLEAN}
MoveOps == {DavOp(k, "a", "b", ow, FALSE, FALSE) : k \in {"move", "copy"}, ow \in BOOLEAN}
           \cup {DavOp("rename", "a", "b", FALSE, FALSE, FALSE)}
DirOps == {DavOp(k, "a", "a", FALSE, FALSE, FALSE) : k \in {"delete", "query", "enumerate", "read"}}
          \cup {DavOp("mkdir", "b", "b", FALSE, FALSE, FALSE)}
PushOps == {DavOp("push", "b", "b", ow, FALSE, rm) : ow \in BOOLEAN, rm \in BOOLEAN}

-----------------------------------------------------------------------------
\* SftpConnection: two jobs over the connections of a mount, with ids that wrap around: with
\* ssh processes that may end, and with commands left behind while ssh lives.
Ssh == INSTANCE SftpConnection WITH Jobs <- {"j1", "j2"}, IdSpace <- 6, MaxAsked <- 4,
         Leftovers <- FALSE, SshExits <- TRUE, jobs <- connJobs
SshLive == INSTANCE SftpConnection WITH Jobs <- {"j1", "j2"}, IdSpace <- 6, MaxAsked <- 3,
             Leftovers <- TRUE, SshExits <- FALSE, jobs <- connJobs
ConnOff == currentId = 0 /\ conns = 0 /\ connJobs = 0 /\ forceUnmounted = 0 /\ blocked = 0

\* SftpLogin: two accounts with different passwords.
Login == INSTANCE SftpLogin WITH Users <- {"u1", "u2"}, Passwords <- {"p1", "p2"},
           LocalUser <- "u1", Password <- [u \in {"u1", "u2"} |-> IF u = "u1" THEN "p1" ELSE "p2"],
           Tries <- 3, MaxOther <- 1, None <- "none", keyring <- loginKeyring, conn <- loginConn,
           answers <- loginAnswers
LoginOff == user = 0 /\ userSpecified = 0 /\ tmpPassword = 0 /\ loginKeyring = 0 /\
            loginConn = 0 /\ login = 0 /\ ssh = 0 /\ loggedIn = 0 /\ loginAnswers = 0 /\ past = 0

\* SftpPull: a file of four blocks, read in a window of two or three requests.
Pull == INSTANCE SftpPull WITH Size <- 8, Block <- 2, MaxRequests <- 2, ShortReads <- TRUE,
          Reorder <- TRUE, Faults <- FALSE, source <- pullSource, phase <- pullPhase,
          offset <- pullOffset, freed <- pullFreed, cancelled <- pullCancelled,
          answers <- pullAnswers
PullFaults == INSTANCE SftpPull WITH Size <- 8, Block <- 2, MaxRequests <- 3, ShortReads <- FALSE,
                Reorder <- FALSE, Faults <- TRUE, source <- pullSource, phase <- pullPhase,
                offset <- pullOffset, freed <- pullFreed, cancelled <- pullCancelled,
                answers <- pullAnswers
PullOff == removeSource = 0 /\ pullSource = 0 /\ pullPhase = 0 /\ size = 0 /\ pullOffset = 0 /\
           maxReq = 0 /\ reads = 0 /\ queued = 0 /\ writing = 0 /\ written = 0 /\ remoteOpen = 0 /\
           pullFreed = 0 /\ pullCancelled = 0 /\ pullAnswers = 0

\* SftpPush: a file of four blocks; any request may fail.
Push == INSTANCE SftpPush WITH Blocks <- 4, MaxRequests <- 3, MaxTemp <- 3, Faults <- TRUE,
          source <- pushSource, temp <- pushTemp, tempCount <- pushTempCount, phase <- pushPhase,
          offset <- pushOffset, freed <- pushFreed, cancelled <- pushCancelled,
          answers <- pushAnswers
PushOff == flags = 0 /\ pushSource = 0 /\ dest = 0 /\ pushTemp = 0 /\ target = 0 /\ named = 0 /\
           pushTempCount = 0 /\ truncated = 0 /\ pushPhase = 0 /\ input = 0 /\ pushOffset = 0 /\
           writes = 0 /\ numReq = 0 /\ pushFreed = 0 /\ pushCancelled = 0 /\ pushAnswers = 0

\* SftpReplace: a file of two units, replaced, appended to or created; any request may fail.
Replace == INSTANCE SftpReplace WITH MaxLen <- 2, MaxTemp <- 3, Faults <- TRUE,
             BadReplies <- FALSE, job <- replaceJob, temp <- replaceTemp, phase <- replacePhase,
             handle <- replaceHandle, tempCount <- replaceTempCount, cursor <- replaceCursor,
             answers <- replaceAnswers
ReplaceOff == replaceJob = 0 /\ file = 0 /\ backup = 0 /\ replaceTemp = 0 /\ replacePhase = 0 /\
              replaceHandle = 0 /\ replaceTempCount = 0 /\ replaceCursor = 0 /\ replaceAnswers = 0

\* SftpJobs: two jobs on two names, and one that opens, lists or looks.
Sftp == INSTANCE SftpJobs WITH Jobs <- {"j1", "j2"},
          Ops <- {"move", "rename", "delete", "symlink", "mkdir"}, LateFailure <- FALSE,
          tree <- sftpTree, job <- sftpJob, handles <- sftpHandles, gone <- sftpGone
SftpRead == INSTANCE SftpJobs WITH Jobs <- {"j1"},
              Ops <- {"open", "enumerate", "info", "time", "mode"}, LateFailure <- FALSE,
              tree <- sftpTree, job <- sftpJob, handles <- sftpHandles, gone <- sftpGone
SftpOff == sftpTree = 0 /\ sftpJob = 0 /\ pending = 0 /\ sftpHandles = 0 /\ infos = 0 /\
           sftpGone = 0

\* FtpPool: two threads over at most two connections.
Pool == INSTANCE FtpPool WITH Task <- {"t1", "t2"}, Conn <- {"c1", "c2", "c3"}, MaxConn <- 2,
          MaxJobs <- 2, MaxFaults <- 1, MaxRefused <- 1, ServerDown <- FALSE,
          streams <- poolStreams, task <- poolTask, jobs <- poolJobs, faults <- poolFaults
PoolOff == queue = 0 /\ mounted = 0 /\ connections = 0 /\ busyConnections = 0 /\
           maxConnections = 0 /\ lastThread = 0 /\ usable = 0 /\ allocated = 0 /\
           poolStreams = 0 /\ poolTask = 0 /\ woken = 0 /\ poolJobs = 0 /\ poolFaults = 0 /\
           refused = 0

\* FtpFiles: three jobs one after the other, and two at a time.
Ftp == INSTANCE FtpFiles WITH Thread <- {"t1"},
         Ops <- {"create", "append", "write", "replace", "query", "enumerate", "rename", "delete", "mkdir", "move", "setattr"},
         MaxJobs <- 3, MaxFaults <- 1, job <- ftpJob, streams <- ftpStreams, jobs <- ftpJobs,
         faults <- ftpFaults
FtpTwo == INSTANCE FtpFiles WITH Thread <- {"t1", "t2"},
            Ops <- {"create", "enumerate", "delete", "pull", "pullaway"}, MaxJobs <- 2,
            MaxFaults <- 1, job <- ftpJob, streams <- ftpStreams, jobs <- ftpJobs,
            faults <- ftpFaults
FtpOff == fs = 0 /\ cache = 0 /\ stamp = 0 /\ ftpJob = 0 /\ ftpStreams = 0 /\ ftpJobs = 0 /\
          ftpFaults = 0

\* FtpLogin: two prompts, and a server that drops the connection twice.
FLogin == INSTANCE FtpLogin WITH MaxPrompts <- 2, MaxDrops <- 2, keyring <- ftpLoginKeyring,
            conn <- ftpLoginConn
FtpLoginOff == server = 0 /\ tlsMode = 0 /\ initialUser = 0 /\ account = 0 /\
               ftpLoginKeyring = 0 /\ saved = 0 /\ pc = 0 /\ ftpLoginConn = 0 /\ workaround = 0 /\
               features = 0 /\ prompted = 0 /\ accepted = 0 /\ present = 0 /\ exposed = 0 /\
               prompts = 0 /\ drops = 0

\* FtpData: three transfers through a network that changes once.
Data == INSTANCE FtpData WITH Task <- {"t1", "t2"}, MaxTransfers <- 3, MaxChanges <- 1,
          task <- dataTask
DataOff == family = 0 /\ advertised = 0 /\ works = 0 /\ method = 0 /\ dataTask = 0 /\
           transfers = 0 /\ changes = 0

\* NfsReplace: every way to open a file of three units for writing, beside another client.
Nfs == INSTANCE NfsReplace WITH MaxLen <- 3, Faults <- TRUE, Disturbed <- TRUE, job <- nfsJob,
         phase <- nfsPhase, handle <- nfsHandle, cursor <- nfsCursor, answers <- nfsAnswers
NfsOff == nfsJob = 0 /\ was = 0 /\ entry = 0 /\ body = 0 /\ others = 0 /\ seen = 0 /\
          nfsPhase = 0 /\ nfsHandle = 0 /\ copy = 0 /\ fhs = 0 /\ nfsCursor = 0 /\ nfsAnswers = 0

\* NfsJobs: two jobs on two names; one that opens or lists with failures; and infos below
\* several exports.
NfsTwo == INSTANCE NfsJobs WITH JobIds <- {"j1", "j2"},
            Ops <- {"move", "rename", "mkdir", "symlink", "delete", "owner"}, Faults <- TRUE,
            ExportLists <- {<<Mnt>>}, MountPaths <- {MntA}, MaxSockets <- 1,
            source <- nfsJobsSource, tree <- nfsJobsTree, job <- nfsJobsJob,
            handles <- nfsJobsHandles, gone <- nfsJobsGone
NfsRead == INSTANCE NfsJobs WITH JobIds <- {"j1"}, Ops <- {"open", "enumerate"}, Faults <- TRUE,
             ExportLists <- {<<Mnt>>}, MountPaths <- {MntA}, MaxSockets <- 1,
             source <- nfsJobsSource, tree <- nfsJobsTree, job <- nfsJobsJob,
             handles <- nfsJobsHandles, gone <- nfsJobsGone
NfsInfo == INSTANCE NfsJobs WITH JobIds <- {"j1"}, Ops <- {"enumerate", "info", "time"},
             Faults <- FALSE, ExportLists <- ExportLists, MountPaths <- {MntA, Mnta, Mnt},
             MaxSockets <- 1, source <- nfsJobsSource, tree <- nfsJobsTree, job <- nfsJobsJob,
             handles <- nfsJobsHandles, gone <- nfsJobsGone
NfsJobsOff == mount = 0 /\ nfsJobsSource = 0 /\ nfsJobsTree = 0 /\ times = 0 /\ nfsJobsJob = 0 /\
              nfsJobsHandles = 0 /\ nfsJobsGone = 0

\* DavFiles: two jobs, of one kind each, on a tree that another client changes once.
DavWrite == INSTANCE DavFiles WITH Jobs <- {"j1", "j2"}, Ops <- WriteOps, Init0 <- Trees,
              MaxEtag <- 3, MaxFaults <- 1, MaxOthers <- 1, MaxRedirects <- 1,
              Redirects <- {"slash", "moved"}, faults <- davFaults, others <- davOthers
DavMove == INSTANCE DavFiles WITH Jobs <- {"j1", "j2"}, Ops <- MoveOps, Init0 <- Trees,
             MaxEtag <- 4, MaxFaults <- 1, MaxOthers <- 1, MaxRedirects <- 2,
             Redirects <- {"slash", "moved"}, faults <- davFaults, others <- davOthers
DavDir == INSTANCE DavFiles WITH Jobs <- {"j1", "j2"}, Ops <- DirOps, Init0 <- FullTree,
            MaxEtag <- 3, MaxFaults <- 2, MaxOthers <- 1, MaxRedirects <- 1,
            Redirects <- {"slash", "moved"}, faults <- davFaults, others <- davOthers
DavPush == INSTANCE DavFiles WITH Jobs <- {"j1", "j2"}, Ops <- PushOps, Init0 <- Trees,
             MaxEtag <- 6, MaxFaults <- 1, MaxOthers <- 1, MaxRedirects <- 2,
             Redirects <- {"slash", "moved"}, faults <- davFaults, others <- davOthers
DavOff == node = 0 /\ etag = 0 /\ job = 0 /\ local = 0 /\ lost = 0 /\ put = 0 /\ done = 0 /\
          davFaults = 0 /\ davOthers = 0

\* DavMount: a location two levels below the root of a server.
DavMounting == INSTANCE DavMount WITH Depth <- 2,
                 Kinds <- {"col", "file", "plain", "forbidden", "denied"},
                 Styles <- {"401", "403"}, Keyrings <- {"none", "good", "stale"},
                 Certs <- {"valid", "bad"}, MaxAsks <- 2, MaxFaults <- 1, server <- davServer,
                 cache <- davCache, exposed <- davExposed, faults <- davMountFaults
DavMountOff == davServer = 0 /\ keyring = 0 /\ base = 0 /\ good = 0 /\ interactive = 0 /\
               after403 = 0 /\ pw = 0 /\ save = 0 /\ davCache = 0 /\ cert = 0 /\ msg = 0 /\ ans = 0 /\
               asked = 0 /\ askedGood = 0 /\ davExposed = 0 /\ davMountFaults = 0

ASSUME Ssh!IdSpaceAssumption /\ SshLive!IdSpaceAssumption /\ Login!LoginAssumption /\
       Pull!PullAssumption /\ PullFaults!PullAssumption /\ Push!PushAssumption /\ Replace!ReplaceAssumption /\
       Sftp!JobsAssumption /\ SftpRead!JobsAssumption /\ Pool!PoolAssumption /\
       Nfs!NfsReplaceAssumption /\ NfsTwo!NfsJobsAssumption /\ NfsRead!NfsJobsAssumption /\
       NfsInfo!NfsJobsAssumption /\
       DavWrite!DavAssumption /\ DavMove!DavAssumption /\ DavDir!DavAssumption /\
       DavPush!DavAssumption /\ DavMounting!MountAssumption

-----------------------------------------------------------------------------
Init ==
  /\ part \in Parts
  /\ CASE part = "conn" -> Ssh!Init
       [] part = "connLive" -> SshLive!Init
       [] OTHER -> ConnOff
  /\ IF part = "login" THEN Login!Init ELSE LoginOff
  /\ CASE part = "pull" -> Pull!Init
       [] part = "pullFaults" -> PullFaults!Init
       [] OTHER -> PullOff
  /\ IF part = "push" THEN Push!Init ELSE PushOff
  /\ IF part = "replace" THEN Replace!Init ELSE ReplaceOff
  /\ CASE part = "sftp" -> Sftp!Init
       [] part = "sftpRead" -> SftpRead!Init
       [] OTHER -> SftpOff
  /\ IF part = "pool" THEN Pool!Init ELSE PoolOff
  /\ CASE part = "ftp" -> Ftp!Init
       [] part = "ftpTwo" -> FtpTwo!Init
       [] OTHER -> FtpOff
  /\ IF part = "ftpLogin" THEN FLogin!Init ELSE FtpLoginOff
  /\ IF part = "data" THEN Data!Init ELSE DataOff
  /\ IF part = "nfs" THEN Nfs!Init ELSE NfsOff
  /\ CASE part = "nfsJobs" -> NfsTwo!Init
       [] part = "nfsRead" -> NfsRead!Init
       [] part = "nfsInfo" -> NfsInfo!Init
       [] OTHER -> NfsJobsOff
  /\ CASE part = "davWrite" -> DavWrite!Init
       [] part = "davMove" -> DavMove!Init
       [] part = "davDir" -> DavDir!Init
       [] part = "davPush" -> DavPush!Init
       [] OTHER -> DavOff
  /\ IF part = "davMount" THEN DavMounting!Init ELSE DavMountOff

Next ==
  \/ /\ part = "conn"
     /\ Ssh!Next
     /\ UNCHANGED <<part, loginVars, pullVars, pushVars, replaceVars, sftpVars, poolVars, ftpVars,
                     ftpLoginVars, dataVars, nfsVars, nfsJobsVars, webVars>>
  \/ /\ part = "connLive"
     /\ SshLive!Next
     /\ UNCHANGED <<part, loginVars, pullVars, pushVars, replaceVars, sftpVars, poolVars, ftpVars,
                     ftpLoginVars, dataVars, nfsVars, nfsJobsVars, webVars>>
  \/ /\ part = "login"
     /\ Login!Next
     /\ UNCHANGED <<part, connVars, pullVars, pushVars, replaceVars, sftpVars, poolVars, ftpVars,
                     ftpLoginVars, dataVars, nfsVars, nfsJobsVars, webVars>>
  \/ /\ part = "pull"
     /\ Pull!Next
     /\ UNCHANGED <<part, connVars, loginVars, pushVars, replaceVars, sftpVars, poolVars, ftpVars,
                     ftpLoginVars, dataVars, nfsVars, nfsJobsVars, webVars>>
  \/ /\ part = "pullFaults"
     /\ PullFaults!Next
     /\ UNCHANGED <<part, connVars, loginVars, pushVars, replaceVars, sftpVars, poolVars, ftpVars,
                     ftpLoginVars, dataVars, nfsVars, nfsJobsVars, webVars>>
  \/ /\ part = "push"
     /\ Push!Next
     /\ UNCHANGED <<part, connVars, loginVars, pullVars, replaceVars, sftpVars, poolVars, ftpVars,
                     ftpLoginVars, dataVars, nfsVars, nfsJobsVars, webVars>>
  \/ /\ part = "replace"
     /\ Replace!Next
     /\ UNCHANGED <<part, connVars, loginVars, pullVars, pushVars, sftpVars, poolVars, ftpVars,
                     ftpLoginVars, dataVars, nfsVars, nfsJobsVars, webVars>>
  \/ /\ part = "sftp"
     /\ Sftp!Next
     /\ UNCHANGED <<part, connVars, loginVars, pullVars, pushVars, replaceVars, poolVars, ftpVars,
                     ftpLoginVars, dataVars, nfsVars, nfsJobsVars, webVars>>
  \/ /\ part = "sftpRead"
     /\ SftpRead!Next
     /\ UNCHANGED <<part, connVars, loginVars, pullVars, pushVars, replaceVars, poolVars, ftpVars,
                     ftpLoginVars, dataVars, nfsVars, nfsJobsVars, webVars>>
  \/ /\ part = "pool"
     /\ Pool!Next
     /\ UNCHANGED <<part, connVars, loginVars, pullVars, pushVars, replaceVars, sftpVars, ftpVars,
                     ftpLoginVars, dataVars, nfsVars, nfsJobsVars, webVars>>
  \/ /\ part = "ftp"
     /\ Ftp!Next
     /\ UNCHANGED <<part, connVars, loginVars, pullVars, pushVars, replaceVars, sftpVars, poolVars,
                     ftpLoginVars, dataVars, nfsVars, nfsJobsVars, webVars>>
  \/ /\ part = "ftpTwo"
     /\ FtpTwo!Next
     /\ UNCHANGED <<part, connVars, loginVars, pullVars, pushVars, replaceVars, sftpVars, poolVars,
                     ftpLoginVars, dataVars, nfsVars, nfsJobsVars, webVars>>
  \/ /\ part = "ftpLogin"
     /\ FLogin!Next
     /\ UNCHANGED <<part, connVars, loginVars, pullVars, pushVars, replaceVars, sftpVars, poolVars,
                     ftpVars, dataVars, nfsVars, nfsJobsVars, webVars>>
  \/ /\ part = "data"
     /\ Data!Next
     /\ UNCHANGED <<part, connVars, loginVars, pullVars, pushVars, replaceVars, sftpVars, poolVars,
                     ftpVars, ftpLoginVars, nfsVars, nfsJobsVars, webVars>>
  \/ /\ part = "nfs"
     /\ Nfs!Next
     /\ UNCHANGED <<part, connVars, loginVars, pullVars, pushVars, replaceVars, sftpVars, poolVars,
                     ftpVars, ftpLoginVars, dataVars, nfsJobsVars, webVars>>
  \/ /\ part = "nfsJobs"
     /\ NfsTwo!Next
     /\ UNCHANGED <<part, connVars, loginVars, pullVars, pushVars, replaceVars, sftpVars, poolVars,
                     ftpVars, ftpLoginVars, dataVars, nfsVars, webVars>>
  \/ /\ part = "nfsRead"
     /\ NfsRead!Next
     /\ UNCHANGED <<part, connVars, loginVars, pullVars, pushVars, replaceVars, sftpVars, poolVars,
                     ftpVars, ftpLoginVars, dataVars, nfsVars, webVars>>
  \/ /\ part = "nfsInfo"
     /\ NfsInfo!Next
     /\ UNCHANGED <<part, connVars, loginVars, pullVars, pushVars, replaceVars, sftpVars, poolVars,
                     ftpVars, ftpLoginVars, dataVars, nfsVars, webVars>>
  \/ /\ part = "davWrite"
     /\ DavWrite!Next
     /\ UNCHANGED <<part, serverVars, davMountVars>>
  \/ /\ part = "davMove"
     /\ DavMove!Next
     /\ UNCHANGED <<part, serverVars, davMountVars>>
  \/ /\ part = "davDir"
     /\ DavDir!Next
     /\ UNCHANGED <<part, serverVars, davMountVars>>
  \/ /\ part = "davPush"
     /\ DavPush!Next
     /\ UNCHANGED <<part, serverVars, davMountVars>>
  \/ /\ part = "davMount"
     /\ DavMounting!Next
     /\ UNCHANGED <<part, serverVars, davVars>>

Spec == Init /\ [][Next]_<<part, serverVars, webVars>>

-----------------------------------------------------------------------------
\* Every reply finds the request it answers and every connection one owner: no job of a
\* mount is forgotten, and none is answered twice as long as the ssh processes live and,
\* while a file is pulled, no request fails (after either, the code does answer again:
\* gvfsbackendsftp.c:1440, :6577); the pool's count is the connections that exist, and a
\* transfer without a data connection has tried every method, or only the one the mount
\* remembered (SftpConnection, SftpJobs, SftpPull, SftpPush, FtpPool, FtpData).
ConnectionsExact ==
  /\ part = "conn" => /\ Ssh!TypeOK /\ Ssh!RepliesExpected /\ Ssh!NobodyForgotten
                      /\ Ssh!MultiComplete /\ (forceUnmounted \/ Ssh!AnsweredOnce)
  /\ part = "connLive" => /\ SshLive!RepliesExpected /\ SshLive!NobodyForgotten
                          /\ SshLive!MultiComplete /\ SshLive!AnsweredOnce
  /\ part = "sftp" => Sftp!AnsweredOnce
  /\ part = "sftpRead" => SftpRead!TypeOK /\ SftpRead!AnsweredOnce
  /\ part = "pull" => Pull!TypeOK /\ Pull!AnsweredOnce
  /\ part = "push" => Push!TypeOK /\ Push!AnsweredOnce
  /\ part = "pool" => Pool!TypeOK /\ Pool!CountExact /\ Pool!OwnedOnce /\ Pool!WithinLimit
  /\ part = "data" => Data!TypeOK /\ Data!AnyTriesAll /\ Data!TransferHasData

\* Whatever request of a copy, a move or a replacement fails, one complete copy is left,
\* success means that the new content is where it was asked for, and nothing the transfer
\* has freed is used again (SftpPull, SftpPush, SftpReplace, FtpFiles, NfsReplace).
ContentKept ==
  /\ part = "pull" => Pull!NothingLost /\ Pull!NoUseAfterFree
  /\ part = "pullFaults" => PullFaults!NothingLost /\ PullFaults!NoUseAfterFree
  /\ part = "push" => Push!NothingLost /\ Push!NewKept /\ Push!NoUseAfterFree
  /\ part = "replace" => /\ Replace!TypeOK /\ Replace!NeverBothLost /\ Replace!BackupFirst
                         /\ Replace!NoStrayTemp /\ Replace!ClosedMeansReplaced
                         /\ Replace!WrittenWhereAsked
  /\ part = "ftp" => Ftp!TypeOK /\ Ftp!BackupKept
  /\ part = "nfs" => /\ Nfs!TypeOK /\ Nfs!NeverBothLost /\ Nfs!BackupKept /\ Nfs!ClosedMeansWritten
                     /\ Nfs!LinksKept /\ Nfs!EtagGuards /\ Nfs!CreatedIsNew /\ Nfs!FilesClosed

\* Old content goes only when the new one is complete, or where the job said it may: not with
\* a temporary file half written, a move that was not to overwrite, or a pull that failed
\* (SftpPush, SftpReplace, FtpFiles).
OldUntilNew ==
  /\ [][part = "push" => Push!OldOrNew]_pushVars
  /\ [][part = "replace" => Replace!OldUntilClosed]_replaceVars
  /\ [][/\ part = "ftp" => Ftp!OnlyOverwritesAsked
        /\ part = "ftpTwo" => FtpTwo!SourceKept]_ftpVars

\* What a job reports and destroys is what it was asked to: listings are complete and of the
\* time of the job, infos hold what was asked, success means done, and with two jobs
\* interleaved no file is lost that no job named (SftpJobs, FtpFiles, NfsJobs).
JobsDoAsAsked ==
  /\ part = "sftp" => Sftp!OnlyOverwritesAsked
  /\ part = "sftpRead" => SftpRead!EnumerationComplete /\ SftpRead!HandlesOwned
  /\ part = "ftp" => Ftp!CacheFresh /\ Ftp!SuccessMeansDone
  /\ part = "ftpTwo" => FtpTwo!EnumerateFresh
  /\ part = "nfsJobs" => NfsTwo!TypeOK /\ NfsTwo!OnlyOverwritesAsked
  /\ part = "nfsRead" => NfsRead!EnumeratedOnce /\ NfsRead!HandlesOwned
  /\ part = "nfsInfo" => NfsInfo!InfoComplete /\ NfsInfo!OthersKept /\ NfsInfo!ShortestExport

\* A mount logs in as one user, answers once and sends no secret in the clear where encryption
\* was asked for nor to a server it does not trust (FTP, WebDAV), nor to another account than
\* the one it was given for (SFTP).  It saves only a password that works, over SFTP unless
\* the mount fails (gvfsbackendsftp.c:1084), keeps none in memory afterwards (SFTP), and over
\* WebDAV takes what the keyring has first, asks nothing once its credentials are good, and
\* is of the highest collection that answers (SftpLogin, FtpLogin, DavMount).
LoginsSafe ==
  /\ part = "login" => /\ Login!TypeOK /\ Login!AnsweredOnce /\ Login!OneAccount
                       /\ Login!DataLoginOnce /\ Login!PasswordDropped
                       /\ Login!PasswordToItsAccount /\ Login!SavedWorks
  /\ part = "ftpLogin" => /\ FLogin!TypeOK /\ FLogin!NeverExposed /\ FLogin!FeaturesKnown
                          /\ FLogin!SavedWorks /\ FLogin!PoolCanLogin
  /\ part = "davMount" => /\ DavMounting!TypeOK /\ DavMounting!RootIsCollection
                          /\ DavMounting!RootIsTop /\ DavMounting!NoQuestionAfterGood
                          /\ DavMounting!SavedWorks /\ DavMounting!KeyringFirst
                          /\ DavMounting!NeverExposed

\* A file of a WebDAV server is changed only from the version the job saw, becomes complete
\* content or stays, is not overwritten unasked, and a refused request changes nothing
\* (DavFiles).
ContentGuarded ==
  /\ part = "davWrite" => DavWrite!EtagGuards /\ DavWrite!WholeContent /\ DavWrite!SeenIsKept
  /\ part = "davPush" => DavPush!SeenIsKept /\ DavPush!SourceKept /\ DavPush!WholeContent
  /\ part = "davMove" => DavMove!OnlyOverwritesAsked /\ DavMove!RefusedChangesNothing
  /\ part = "davDir" => /\ DavDir!TypeOK /\ DavDir!EmptyOnly /\ DavDir!TargetRecognised
                        /\ DavDir!ChangesAtHome
=============================================================================
