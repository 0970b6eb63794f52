----------------------------- MODULE MCLiveness -----------------------------
(***************************************************************************)
(* What must happen in the end, for small instances of the components that *)
(* wait for others.  A behaviour runs one component, its part; the         *)
(* variables of the others keep the value 0.                               *)
(***************************************************************************)
EXTENDS Naturals

CONSTANT Parts       \* the parts that are run: names of Init's cases

VARIABLE part        \* the one that runs

VARIABLES daemonPhase, autounmount, blockRequests, idleId, activityCount, checks, forced,
          backendSource, exitTag, daemonExited, kind, daemonPc, newchan, pool, chst, daemonUp,
          connClosed, handle, daemonQueue   \* MountDaemon
VARIABLES readOp, readCancelled, readOffset, cgen, readSeqNr, pre, block, readOut, closed,
          readOps, res, readSure, readC2d, readD2c, shut, readQueue, readJob, dgen, readCount,
          readBpos, readBlocked   \* ReadStream
VARIABLES writeOp, writeCancelled, writeOffset, canSeek, writeSeqNr, writeOut, mem, writeOpen,
          writeSure, last, writeC2d, writeD2c, eof, writeQueue, writeJob, writeFile, writeBpos,
          writeOps, writeFaults   \* WriteStream
VARIABLES srv, net, cl, enumTask, lock, enumPc, canceller, cancels, enumTold   \* Enumerator
VARIABLES gen, refs, subs, timers, emits, monitorCalls, monitorBackend, monitorActive, now,
          monitorOpen, monitorUp, down, monitorFile, bad   \* FileMonitor
VARIABLES callsLife, made, host, home, reg, cache, callsLocal, async, unseen, callsOp   \* ClientCalls
VARIABLES pathMap, fuseActive, refcount, hpath, fuseOwner, birth, exists, fd, thread, crashed,
          fuseOps   \* FuseHandles
VARIABLES asked, dialogAsk, dummy, dialogToClient, dialogToDaemon, client, mop, handlers,
          invocation, showing, completed, said, relay, dialogBlocked, dialogTask, dialogTimer,
          noMore, decision, dialogCalls   \* MountOperation's dialog
VARIABLES configured, mounts, data, trackerAsk, proc, trackerOwner, trackerBackend, trackerOut,
          trackerLost, restarts   \* MountTracker
VARIABLES cur, used, base, rotated, linked, num, st, map, jfile, storeSeen, new, old, pending,
          storeTimer, storeOwner, total, since   \* MetaStore
VARIABLES proxyLife, lives, remote, bus, tbl, objs, idle, proxyTold, foreign, shadowed, changes,
          foreigns   \* ProxyMonitor
VARIABLES opsTask, handler, opsTold, opsCancelled, wrapped, dialog, given, opsSeen, alive,
          inCall, supp, opsToDaemon, opsToClient, monitor, handled, watched, native, asks,
          opsResult, pend, outstanding, mops, ncancelled, answered, objects, buried   \* ProxyOps
VARIABLES currentId, conns, connJobs, forceUnmounted, connBlocked   \* SftpConnection
VARIABLES poolQueue, mounted, connections, busyConnections, maxConnections, lastThread, usable,
          allocated, streams, poolTask, woken, poolJobs, poolFaults, refused   \* FtpPool
VARIABLES node, etag, davJob, davLocal, davLost, put, done, davFaults, others   \* DavFiles
VARIABLES state, worker, wait, afpPhase, afpResult, afpCancelled, afpQueue, hash, nextId,
          tickleId, sendLoop, starts, writing, headerId, reading, readHeader, toServer,
          afpToClient, tickles, tickled, afpExited   \* AfpConnection

daemonVars == <<daemonPhase, autounmount, blockRequests, idleId, activityCount, checks, forced,
                backendSource, exitTag, daemonExited, kind, daemonPc, newchan, pool, chst,
                daemonUp, connClosed, handle, daemonQueue>>
readVars == <<readOp, readCancelled, readOffset, cgen, readSeqNr, pre, block, readOut, closed,
              readOps, res, readSure, readC2d, readD2c, shut, readQueue, readJob, dgen,
              readCount, readBpos, readBlocked>>
writeVars == <<writeOp, writeCancelled, writeOffset, canSeek, writeSeqNr, writeOut, mem,
               writeOpen, writeSure, last, writeC2d, writeD2c, eof, writeQueue, writeJob,
               writeFile, writeBpos, writeOps, writeFaults>>
enumVars == <<srv, net, cl, enumTask, lock, enumPc, canceller, cancels, enumTold>>
monitorVars == <<gen, refs, subs, timers, emits, monitorCalls, monitorBackend, monitorActive,
                 now, monitorOpen, monitorUp, down, monitorFile, bad>>
callsVars == <<callsLife, made, host, home, reg, cache, callsLocal, async, unseen, callsOp>>
fuseVars == <<pathMap, fuseActive, refcount, hpath, fuseOwner, birth, exists, fd, thread,
              crashed, fuseOps>>
dialogVars == <<asked, dialogAsk, dummy, dialogToClient, dialogToDaemon, client, mop, handlers,
                invocation, showing, completed, said, relay, dialogBlocked, dialogTask,
                dialogTimer, noMore, decision, dialogCalls>>
trackerVars == <<configured, mounts, data, trackerAsk, proc, trackerOwner, trackerBackend,
                 trackerOut, trackerLost, restarts>>
storeVars == <<cur, used, base, rotated, linked, num, st, map, jfile, storeSeen, new, old,
               pending, storeTimer, storeOwner, total, since>>
proxyVars == <<proxyLife, lives, remote, bus, tbl, objs, idle, proxyTold, foreign, shadowed,
               changes, foreigns>>
opsVars == <<opsTask, handler, opsTold, opsCancelled, wrapped, dialog, given, opsSeen, alive,
             inCall, supp, opsToDaemon, opsToClient, monitor, handled, watched, native, asks,
             opsResult, pend, outstanding, mops, ncancelled, answered, objects, buried>>
connVars == <<currentId, conns, connJobs, forceUnmounted, connBlocked>>
poolVars == <<poolQueue, mounted, connections, busyConnections, maxConnections, lastThread,
              usable, allocated, streams, poolTask, woken, poolJobs, poolFaults, refused>>
davVars == <<node, etag, davJob, davLocal, davLost, put, done, davFaults, others>>
afpVars == <<state, worker, wait, afpPhase, afpResult, afpCancelled, afpQueue, hash, nextId,
             tickleId, sendLoop, starts, writing, headerId, reading, readHeader, toServer,
             afpToClient, tickles, tickled, afpExited>>

\* Three operations on one drive, as in MCServices; a move of a directory onto a file; a
\* command that a thread waits for.
ProxyOp(n, k, x, a) == [n |-> n, client |-> "a", kind |-> k, cancel |-> x, asks |-> a]
Drives == {ProxyOp(1, "stop", "p", FALSE), ProxyOp(2, "poll", "none", TRUE), ProxyOp(3, "foreign", "p", FALSE)}
DavTree == [n \in {"a", "b", "e"} |-> IF n = "a" THEN [k |-> "dir", e |-> 0, c |-> <<>>, kids |-> {}]
                                      ELSE [k |-> "file", e |-> 1, c |-> <<"1">>, kids |-> {}]]
DavOps == {[kind |-> "move", n |-> "a", d |-> "b", ow |-> o, tag |-> FALSE, rm |-> FALSE] : o \in BOOLEAN}
Cmd == [n |-> 1, data |-> FALSE, room |-> 0, sync |-> TRUE]

-----------------------------------------------------------------------------
\* MountDaemon: one channel, one job, an unmount that may be forced.
Daemon == INSTANCE MountDaemon WITH Jobs <- {"j1"}, Channels <- {"c1"}, ThreadedUnmount <- TRUE,
            MaxThreads <- 1, MaxQueue <- 0, MaxChecks <- 1, MaxForced <- 1, NoChannel <- "none",
            phase <- daemonPhase, exited <- daemonExited, pc <- daemonPc, up <- daemonUp,
            queue <- daemonQueue
DaemonOff == daemonPhase = 0 /\ autounmount = 0 /\ blockRequests = 0 /\ idleId = 0 /\
             activityCount = 0 /\ checks = 0 /\ forced = 0 /\ backendSource = 0 /\ exitTag = 0 /\
             daemonExited = 0 /\ kind = 0 /\ daemonPc = 0 /\ newchan = 0 /\ pool = 0 /\
             chst = 0 /\ daemonUp = 0 /\ connClosed = 0 /\ handle = 0 /\ daemonQueue = 0

\* ReadStream: two operations and a close, cancelled at any time.
Read == INSTANCE ReadStream WITH FileSize <- 1, ReadSizes <- {1}, MaxOps <- 1,
          EarlyCancel <- {"read", "seek", "close"}, Blocks <- FALSE, op <- readOp,
          cancelled <- readCancelled, offset <- readOffset, seqNr <- readSeqNr, out <- readOut,
          ops <- readOps, sure <- readSure, c2d <- readC2d, d2c <- readD2c, queue <- readQueue,
          job <- readJob, bpos <- readBpos, blocked <- readBlocked
ReadOff == readOp = 0 /\ readCancelled = 0 /\ readOffset = 0 /\ cgen = 0 /\ readSeqNr = 0 /\
           pre = 0 /\ block = 0 /\ readOut = 0 /\ closed = 0 /\ readOps = 0 /\ res = 0 /\
           readSure = 0 /\ readC2d = 0 /\ readD2c = 0 /\ shut = 0 /\ readQueue = 0 /\
           readJob = 0 /\ dgen = 0 /\ readCount = 0 /\ readBpos = 0 /\ readBlocked = 0

\* WriteStream: two operations, one of which may fail.
Write == INSTANCE WriteStream WITH Modes <- {"append"}, MaxWrite <- 1, MaxOps <- 2,
           MaxFaults <- 1, EarlyCancel <- {"write", "seek", "truncate", "close"},
           LateCancel <- FALSE, Async <- FALSE, op <- writeOp, cancelled <- writeCancelled,
           offset <- writeOffset, seqNr <- writeSeqNr, out <- writeOut, open <- writeOpen,
           sure <- writeSure, c2d <- writeC2d, d2c <- writeD2c, queue <- writeQueue,
           job <- writeJob, file <- writeFile, bpos <- writeBpos, ops <- writeOps,
           faults <- writeFaults
WriteOff == writeOp = 0 /\ writeCancelled = 0 /\ writeOffset = 0 /\ canSeek = 0 /\
            writeSeqNr = 0 /\ writeOut = 0 /\ mem = 0 /\ writeOpen = 0 /\ writeSure = 0 /\
            last = 0 /\ writeC2d = 0 /\ writeD2c = 0 /\ eof = 0 /\ writeQueue = 0 /\
            writeJob = 0 /\ writeFile = 0 /\ writeBpos = 0 /\ writeOps = 0 /\ writeFaults = 0

\* Enumerator: three files, and a daemon that may die.
Enum == INSTANCE Enumerator WITH Files <- 3, Batch <- 2, MaxAsk <- 2, Sync <- FALSE,
          CancelFrom <- "main", MaxCancels <- 1, Timeouts <- TRUE, Breaks <- TRUE,
          task <- enumTask, pc <- enumPc, told <- enumTold
EnumOff == srv = 0 /\ net = 0 /\ cl = 0 /\ enumTask = 0 /\ lock = 0 /\ enumPc = 0 /\
           canceller = 0 /\ cancels = 0 /\ enumTold = 0

\* FileMonitor: a monitor that is cancelled at any time.
Monitor == INSTANCE FileMonitor WITH Clients <- {"c1"}, MaxEvents <- 1, MaxGens <- 2,
             Prompt <- FALSE, calls <- monitorCalls, backend <- monitorBackend,
             active <- monitorActive, open <- monitorOpen, up <- monitorUp, file <- monitorFile
MonitorOff == gen = 0 /\ refs = 0 /\ subs = 0 /\ timers = 0 /\ emits = 0 /\ monitorCalls = 0 /\
              monitorBackend = 0 /\ monitorActive = 0 /\ now = 0 /\ monitorOpen = 0 /\
              monitorUp = 0 /\ down = 0 /\ monitorFile = 0 /\ bad = 0

\* ClientCalls: a thread that calls on a mount whose daemon may die.
Calls == INSTANCE ClientCalls WITH Daemons <- {"d1", "d2"}, Threads <- {"t1"}, Tasks <- {},
           MaxObjs <- 2, MaxRuns <- 1, Shared <- FALSE, Sandboxed <- FALSE, life <- callsLife,
           local <- callsLocal, op <- callsOp
CallsOff == callsLife = 0 /\ made = 0 /\ host = 0 /\ home = 0 /\ reg = 0 /\ cache = 0 /\
            callsLocal = 0 /\ async = 0 /\ unseen = 0 /\ callsOp = 0

\* FuseHandles: two threads and one handle.
Fuse == INSTANCE FuseHandles WITH Thread <- {"t1", "t2"}, Path <- {"p"}, Addr <- {"a1"},
          Fd <- {"f1", "f2"}, Ops <- {"open", "release", "io", "path"}, Twice <- TRUE, MaxOps <- 3,
          active <- fuseActive, owner <- fuseOwner, ops <- fuseOps
FuseOff == pathMap = 0 /\ fuseActive = 0 /\ refcount = 0 /\ hpath = 0 /\ fuseOwner = 0 /\
           birth = 0 /\ exists = 0 /\ fd = 0 /\ thread = 0 /\ crashed = 0 /\ fuseOps = 0

\* MountOperation: a busy mount, asked about up to twice.
Dialog == INSTANCE MountOperation WITH MaxAsks <- 2, Overlap <- TRUE, Patient <- FALSE,
            ask <- dialogAsk, toClient <- dialogToClient, toDaemon <- dialogToDaemon,
            blocked <- dialogBlocked, task <- dialogTask, timer <- dialogTimer,
            calls <- dialogCalls
DialogOff == asked = 0 /\ dialogAsk = 0 /\ dummy = 0 /\ dialogToClient = 0 /\
             dialogToDaemon = 0 /\ client = 0 /\ mop = 0 /\ handlers = 0 /\ invocation = 0 /\
             showing = 0 /\ completed = 0 /\ said = 0 /\ relay = 0 /\ dialogBlocked = 0 /\
             dialogTask = 0 /\ dialogTimer = 0 /\ noMore = 0 /\ decision = 0 /\ dialogCalls = 0

\* MountTracker: a caller, a daemon and a restart of gvfsd.
Tracker == INSTANCE MountTracker WITH Specs <- {"s1"}, Callers <- {"c1"}, Daemons <- {"d1"},
             HasDBusName <- FALSE, Automount <- TRUE, MaxCalls <- 2, MaxRestarts <- 1,
             MayDieEarly <- FALSE, NoDaemon <- "none", ask <- trackerAsk, owner <- trackerOwner,
             backend <- trackerBackend, out <- trackerOut, lost <- trackerLost
TrackerOff == configured = 0 /\ mounts = 0 /\ data = 0 /\ trackerAsk = 0 /\ proc = 0 /\
              trackerOwner = 0 /\ trackerBackend = 0 /\ trackerOut = 0 /\ trackerLost = 0 /\
              restarts = 0

\* MetaStore: a metadata daemon that is replaced by another.
Store == INSTANCE MetaStore WITH Readers <- {}, Writers <- {"w1", "w2"}, First <- "w1",
           JournalSize <- 3, MaxEntries <- 3, MaxTrees <- 8, Faults <- {}, seen <- storeSeen,
           timer <- storeTimer, owner <- storeOwner
StoreOff == cur = 0 /\ used = 0 /\ base = 0 /\ rotated = 0 /\ linked = 0 /\ num = 0 /\ st = 0 /\
            map = 0 /\ jfile = 0 /\ storeSeen = 0 /\ new = 0 /\ old = 0 /\ pending = 0 /\
            storeTimer = 0 /\ storeOwner = 0 /\ total = 0 /\ since = 0

\* ProxyMonitor: two changes by a monitor that is restarted.
Proxy == INSTANCE ProxyMonitor WITH Roots <- {"r1"}, MaxChanges <- 2, MaxForeign <- 0,
           MaxLives <- 2, Replaces <- FALSE, life <- proxyLife, told <- proxyTold
ProxyOff == proxyLife = 0 /\ lives = 0 /\ remote = 0 /\ bus = 0 /\ tbl = 0 /\ objs = 0 /\
            idle = 0 /\ proxyTold = 0 /\ foreign = 0 /\ shadowed = 0 /\ changes = 0 /\
            foreigns = 0

\* ProxyOps: three operations on a drive.
Vol == INSTANCE ProxyOps WITH Ops <- Drives, Clients <- {"a"}, Threads <- FALSE,
         NativeSync <- FALSE, StartsSupported <- TRUE, Goes <- {}, MaxAsk <- 1, task <- opsTask,
         told <- opsTold, cancelled <- opsCancelled, seen <- opsSeen, toDaemon <- opsToDaemon,
         toClient <- opsToClient, result <- opsResult
OpsOff == opsTask = 0 /\ handler = 0 /\ opsTold = 0 /\ opsCancelled = 0 /\ wrapped = 0 /\
          dialog = 0 /\ given = 0 /\ opsSeen = 0 /\ alive = 0 /\ inCall = 0 /\ supp = 0 /\
          opsToDaemon = 0 /\ opsToClient = 0 /\ monitor = 0 /\ handled = 0 /\ watched = 0 /\
          native = 0 /\ asks = 0 /\ opsResult = 0 /\ pend = 0 /\ outstanding = 0 /\ mops = 0 /\
          ncancelled = 0 /\ answered = 0 /\ objects = 0 /\ buried = 0

\* SftpConnection: two jobs over the connections of a mount.
Ssh == INSTANCE SftpConnection WITH Jobs <- {"j1", "j2"}, IdSpace <- 16, MaxAsked <- 2,
         Leftovers <- TRUE, SshExits <- FALSE, jobs <- connJobs, blocked <- connBlocked
ConnOff == currentId = 0 /\ conns = 0 /\ connJobs = 0 /\ forceUnmounted = 0 /\ connBlocked = 0

\* FtpPool: a thread whose connections are lost, to a server that may go away.
Pool == INSTANCE FtpPool WITH Task <- {"t1"}, Conn <- {"c1", "c2", "c3"}, MaxConn <- 3,
          MaxJobs <- 2, MaxFaults <- 2, MaxRefused <- 0, ServerDown <- TRUE, queue <- poolQueue,
          task <- poolTask, jobs <- poolJobs, faults <- poolFaults
PoolOff == poolQueue = 0 /\ mounted = 0 /\ connections = 0 /\ busyConnections = 0 /\
           maxConnections = 0 /\ lastThread = 0 /\ usable = 0 /\ allocated = 0 /\ streams = 0 /\
           poolTask = 0 /\ woken = 0 /\ poolJobs = 0 /\ poolFaults = 0 /\ refused = 0

\* DavFiles: two moves of a directory, one of which overwrites a file.
Dav == INSTANCE DavFiles WITH Jobs <- {"j1", "j2"}, Ops <- DavOps, Init0 <- DavTree,
         MaxEtag <- 2, MaxFaults <- 1, MaxOthers <- 0, MaxRedirects <- 1, Redirects <- {},
         job <- davJob, local <- davLocal, lost <- davLost, faults <- davFaults
DavOff == node = 0 /\ etag = 0 /\ davJob = 0 /\ davLocal = 0 /\ davLost = 0 /\ put = 0 /\
          done = 0 /\ davFaults = 0 /\ others = 0

\* AfpConnection: a command that is waited for, and a server that closes.
Afp == INSTANCE AfpConnection WITH Cmds <- {Cmd}, IdSpan <- 3, Overtaken <- FALSE,
         StrayTickles <- FALSE, MaxTickles <- 1, MaxReply <- 1,
         Closes <- TRUE, Prompt <- TRUE, CheckedSends <- TRUE, QuietClose <- TRUE,
         MayFail <- FALSE, phase <- afpPhase, result <- afpResult, cancelled <- afpCancelled,
         queue <- afpQueue, toClient <- afpToClient, exited <- afpExited
AfpOff == state = 0 /\ worker = 0 /\ wait = 0 /\ afpPhase = 0 /\ afpResult = 0 /\
          afpCancelled = 0 /\ afpQueue = 0 /\ hash = 0 /\ nextId = 0 /\ tickleId = 0 /\
          sendLoop = 0 /\ starts = 0 /\ writing = 0 /\ headerId = 0 /\ reading = 0 /\
          readHeader = 0 /\ toServer = 0 /\ afpToClient = 0 /\ tickles = 0 /\ tickled = 0 /\
          afpExited = 0

ASSUME Daemon!JobsAssumption /\ Daemon!BoundsAssumption /\ Read!StreamAssumption /\
       Write!WriteAssumption /\ Enum!EnumeratorAssumption /\ Monitor!ClientsAssumption /\
       Monitor!BoundsAssumption /\ Calls!SetsAssumption /\ Calls!BoundsAssumption /\
       Fuse!HandlesAssumption /\ Tracker!TrackerAssumption /\ Store!StoreAssumption /\
       Proxy!Bounds /\ Ssh!IdSpaceAssumption /\ Pool!PoolAssumption /\ Dav!DavAssumption

-----------------------------------------------------------------------------
Init ==
  /\ part \in Parts
  /\ IF part = "daemon" THEN Daemon!Init ELSE DaemonOff
  /\ IF part = "read" THEN Read!Init ELSE ReadOff
  /\ IF part = "write" THEN Write!Init ELSE WriteOff
  /\ IF part = "enum" THEN Enum!Init ELSE EnumOff
  /\ IF part = "monitor" THEN Monitor!Init ELSE MonitorOff
  /\ IF part = "calls" THEN Calls!Init ELSE CallsOff
  /\ IF part = "fuse" THEN Fuse!Init ELSE FuseOff
  /\ IF part = "dialog" THEN Dialog!DialogInit ELSE DialogOff
  /\ IF part = "tracker" THEN Tracker!Init ELSE TrackerOff
  /\ IF part = "store" THEN Store!Init ELSE StoreOff
  /\ IF part = "proxy" THEN Proxy!Init ELSE ProxyOff
  /\ IF part = "ops" THEN Vol!Init ELSE OpsOff
  /\ IF part = "conn" THEN Ssh!Init ELSE ConnOff
  /\ IF part = "pool" THEN Pool!Init ELSE PoolOff
  /\ IF part = "dav" THEN Dav!Init ELSE DavOff
  /\ IF part = "afp" THEN Afp!Init ELSE AfpOff

Next ==
  \/ /\ part = "daemon"
     /\ Daemon!Next
     /\ UNCHANGED <<part, readVars, writeVars, enumVars, monitorVars, callsVars, fuseVars,
                     dialogVars, trackerVars, storeVars, proxyVars, opsVars, connVars, poolVars,
                     davVars, afpVars>>
  \/ /\ part = "read"
     /\ Read!Next
     /\ UNCHANGED <<part, daemonVars, writeVars, enumVars, monitorVars, callsVars, fuseVars,
                     dialogVars, trackerVars, storeVars, proxyVars, opsVars, connVars, poolVars,
                     davVars, afpVars>>
  \/ /\ part = "write"
     /\ Write!Next
     /\ UNCHANGED <<part, daemonVars, readVars, enumVars, monitorVars, callsVars, fuseVars,
                     dialogVars, trackerVars, storeVars, proxyVars, opsVars, connVars, poolVars,
                     davVars, afpVars>>
  \/ /\ part = "enum"
     /\ Enum!Next
     /\ UNCHANGED <<part, daemonVars, readVars, writeVars, monitorVars, callsVars, fuseVars,
                     dialogVars, trackerVars, storeVars, proxyVars, opsVars, connVars, poolVars,
                     davVars, afpVars>>
  \/ /\ part = "monitor"
     /\ Monitor!Next
     /\ UNCHANGED <<part, daemonVars, readVars, writeVars, enumVars, callsVars, fuseVars,
                     dialogVars, trackerVars, storeVars, proxyVars, opsVars, connVars, poolVars,
                     davVars, afpVars>>
  \/ /\ part = "calls"
     /\ Calls!Next
     /\ UNCHANGED <<part, daemonVars, readVars, writeVars, enumVars, monitorVars, fuseVars,
                     dialogVars, trackerVars, storeVars, proxyVars, opsVars, connVars, poolVars,
                     davVars, afpVars>>
  \/ /\ part = "fuse"
     /\ Fuse!Next
     /\ UNCHANGED <<part, daemonVars, readVars, writeVars, enumVars, monitorVars, callsVars,
                     dialogVars, trackerVars, storeVars, proxyVars, opsVars, connVars, poolVars,
                     davVars, afpVars>>
  \/ /\ part = "dialog"
     /\ Dialog!DialogNext
     /\ UNCHANGED <<part, daemonVars, readVars, writeVars, enumVars, monitorVars, callsVars,
                     fuseVars, trackerVars, storeVars, proxyVars, opsVars, connVars, poolVars,
                     davVars, afpVars>>
  \/ /\ part = "tracker"
     /\ Tracker!Next
     /\ UNCHANGED <<part, daemonVars, readVars, writeVars, enumVars, monitorVars, callsVars,
                     fuseVars, dialogVars, storeVars, proxyVars, opsVars, connVars, poolVars,
                     davVars, afpVars>>
  \/ /\ part = "store"
     /\ Store!Next
     /\ UNCHANGED <<part, daemonVars, readVars, writeVars, enumVars, monitorVars, callsVars,
                     fuseVars, dialogVars, trackerVars, proxyVars, opsVars, connVars, poolVars,
                     davVars, afpVars>>
  \/ /\ part = "proxy"
     /\ Proxy!Next
     /\ UNCHANGED <<part, daemonVars, readVars, writeVars, enumVars, monitorVars, callsVars,
                     fuseVars, dialogVars, trackerVars, storeVars, opsVars, connVars, poolVars,
                     davVars, afpVars>>
  \/ /\ part = "ops"
     /\ Vol!Next
     /\ UNCHANGED <<part, daemonVars, readVars, writeVars, enumVars, monitorVars, callsVars,
                     fuseVars, dialogVars, trackerVars, storeVars, proxyVars, connVars, poolVars,
                     davVars, afpVars>>
  \/ /\ part = "conn"
     /\ Ssh!Next
     /\ UNCHANGED <<part, daemonVars, readVars, writeVars, enumVars, monitorVars, callsVars,
                     fuseVars, dialogVars, trackerVars, storeVars, proxyVars, opsVars, poolVars,
                     davVars, afpVars>>
  \/ /\ part = "pool"
     /\ Pool!Next
     /\ UNCHANGED <<part, daemonVars, readVars, writeVars, enumVars, monitorVars, callsVars,
                     fuseVars, dialogVars, trackerVars, storeVars, proxyVars, opsVars, connVars,
                     davVars, afpVars>>
  \/ /\ part = "dav"
     /\ Dav!Next
     /\ UNCHANGED <<part, daemonVars, readVars, writeVars, enumVars, monitorVars, callsVars,
                     fuseVars, dialogVars, trackerVars, storeVars, proxyVars, opsVars, connVars,
                     poolVars, afpVars>>
  \/ /\ part = "afp"
     /\ Afp!Next
     /\ UNCHANGED <<part, daemonVars, readVars, writeVars, enumVars, monitorVars, callsVars,
                     fuseVars, dialogVars, trackerVars, storeVars, proxyVars, opsVars, connVars,
                     poolVars, davVars>>

(***************************************************************************)
(* The fairness of each component, as its module states it: threads and    *)
(* main loops run, the bus delivers, timers expire, and a server or a      *)
(* backend answers what it was asked.  Users, applications and the network *)
(* may stay silent for ever.                                               *)
(***************************************************************************)
DaemonFair ==
  /\ WF_daemonVars(part = "daemon" /\ Daemon!StartRun)
  /\ WF_daemonVars(part = "daemon" /\ Daemon!ActivityCheckMain)
  /\ WF_daemonVars(part = "daemon" /\ Daemon!ForcedUnregisterMountCallback)
  /\ WF_daemonVars(part = "daemon" /\ Daemon!ExitAtIdle)
  /\ WF_daemonVars(part = "daemon" /\ Daemon!ThreadStep("j1"))
  /\ WF_daemonVars(part = "daemon" /\ Daemon!JobDoneMain("j1"))
  /\ WF_daemonVars(part = "daemon" /\ Daemon!UnregisterMountCallback("j1"))
  /\ WF_daemonVars(part = "daemon" /\ Daemon!ChannelJobDone("c1"))
  /\ WF_daemonVars(part = "daemon" /\ \E w \in Daemon!Ways : Daemon!ConnectionClosed("c1", w))
  /\ WF_daemonVars(part = "daemon" /\ Daemon!SendReplyCbClose("c1"))
  /\ WF_daemonVars(part = "daemon" /\ \E f, ra \in BOOLEAN, w \in Daemon!Ways :
                                          Daemon!SendReplyCb("c1", f, ra, w))
StreamFair ==
  /\ WF_readVars(part = "read" /\ Read!Client) /\ WF_readVars(part = "read" /\ Read!Channel)
  /\ WF_readVars(part = "read" /\ Read!Backend)
  /\ WF_writeVars(part = "write" /\ Write!Client) /\ WF_writeVars(part = "write" /\ Write!Daemon)
  /\ WF_enumVars(part = "enum" /\ Enum!Daemon) /\ WF_enumVars(part = "enum" /\ Enum!MainLoop)
  /\ WF_enumVars(part = "enum" /\ Enum!AsyncCancelled)
ClientFair ==
  /\ WF_monitorVars(part = "monitor" /\ Monitor!ClientReceives)
  /\ WF_monitorVars(part = "monitor" /\ Monitor!DaemonReceives)
  /\ WF_monitorVars(part = "monitor" /\ Monitor!GotProxyCb)
  /\ WF_monitorVars(part = "monitor" /\ Monitor!UnrefMonitorTimeout("c1"))
  /\ WF_callsVars(part = "calls" /\ Calls!Step("t1")) /\ WF_callsVars(part = "calls" /\ Calls!NameVanished)
  /\ \A d \in {"d1", "d2"} : WF_callsVars(part = "calls" /\ Calls!VfsConnectionClosed(d))
  /\ \A t \in {"t1", "t2"} : WF_fuseVars(part = "fuse" /\ Fuse!Step(t)) /\ SF_fuseVars(part = "fuse" /\ Fuse!Lock(t))
DialogFair ==
  /\ WF_dialogVars(part = "dialog" /\ Dialog!OnShowProcessesReply)
  /\ WF_dialogVars(part = "dialog" /\ Dialog!LateReply)
  /\ WF_dialogVars(part = "dialog" /\ Dialog!Receive /\ UNCHANGED <<dialogBlocked, dialogTask, dialogTimer, noMore, decision, dialogCalls>>)
  /\ WF_dialogVars(part = "dialog" /\ Dialog!Undeliverable /\ UNCHANGED <<dialogBlocked, dialogTask, dialogTimer, noMore, decision, dialogCalls>>)
  /\ \A n \in 1 .. 2 : WF_dialogVars(part = "dialog" /\ Dialog!AskTimesOut(n))
ServiceFair ==
  /\ WF_trackerVars(part = "tracker" /\ Tracker!TrackerStep("d1"))
  /\ WF_trackerVars(part = "tracker" /\ Tracker!StartUp("d1"))
  /\ WF_trackerVars(part = "tracker" /\ Tracker!ExitAtIdle("d1"))
  /\ WF_trackerVars(part = "tracker" /\ Tracker!ReRegister("d1"))
  /\ \A n \in 1 .. 2 : /\ WF_trackerVars(part = "tracker" /\ Tracker!DaemonStep(n))
                       /\ WF_trackerVars(part = "tracker" /\ Tracker!MountUndelivered(n))
  /\ \A w \in {"w1", "w2"} : /\ WF_storeVars(part = "store" /\ Store!ViewStep(w))
                             /\ WF_storeVars(part = "store" /\ Store!FlushStep(w))
                             /\ WF_storeVars(part = "store" /\ Store!WriteoutTimeout(w))
                             /\ WF_storeVars(part = "store" /\ Store!SetPending(w))
  /\ WF_proxyVars(part = "proxy" /\ Proxy!DriveSignal) /\ WF_proxyVars(part = "proxy" /\ Proxy!VolumeSignal)
  /\ WF_proxyVars(part = "proxy" /\ Proxy!MountSignal) /\ WF_proxyVars(part = "proxy" /\ Proxy!OwnerChanged)
  /\ WF_proxyVars(part = "proxy" /\ Proxy!IdleStep)
  /\ WF_opsVars(part = "ops" /\ Vol!ClientReceives("a")) /\ WF_opsVars(part = "ops" /\ Vol!DaemonReceives("a"))
  /\ \A o \in Drives : /\ WF_opsVars(part = "ops" /\ Vol!Connects(o)) /\ WF_opsVars(part = "ops" /\ Vol!Calls(o))
                       /\ WF_opsVars(part = "ops" /\ Vol!NativeAborts(o))
                       /\ SF_opsVars(part = "ops" /\ \E r \in {"ok", "error"} : Vol!NativeEnds(o, r))
                       /\ WF_opsVars(part = "ops" /\ \E r \in {"ok", "error"} : Vol!ForeignDone(o, r))
ServerFair ==
  /\ \A c \in {"command", "data"} :
       /\ WF_connVars(part = "conn" /\ (Ssh!SendCommand(c) \/ Ssh!SendFails(c)))
       /\ WF_connVars(part = "conn" /\ Ssh!GotData(c))
       /\ WF_connVars(part = "conn" /\ (Ssh!GotLen(c) \/ Ssh!ReadFails(c)))
  /\ WF_poolVars(part = "pool" /\ Pool!Step("t1"))
  /\ \A j \in {"j1", "j2"} : /\ WF_davVars(part = "dav" /\ Dav!Callback(j))
                             /\ WF_davVars(part = "dav" /\ Dav!Handle(j))
                             /\ WF_davVars(part = "dav" /\ Dav!CloseWrite(j))
  /\ WF_afpVars(part = "afp" /\ Afp!OpenThread) /\ WF_afpVars(part = "afp" /\ Afp!WorkerRuns)
  /\ WF_afpVars(part = "afp" /\ Afp!StartSendLoop) /\ WF_afpVars(part = "afp" /\ Afp!PartWritten)
  /\ WF_afpVars(part = "afp" /\ Afp!ReadWhileClosing) /\ WF_afpVars(part = "afp" /\ Afp!ReadHeader)
  /\ WF_afpVars(part = "afp" /\ Afp!ReadData) /\ WF_afpVars(part = "afp" /\ Afp!SkipData)
  /\ \A w \in Afp!Waiters : WF_afpVars(part = "afp" /\ Afp!Waits(w))
  /\ WF_afpVars(part = "afp" /\ Afp!QueueCommand(Cmd))
  /\ WF_afpVars(part = "afp" /\ \E r \in toServer, n \in 0 .. 1 : Afp!ServerReplies(r, n))

Spec == Init /\ [][Next]_<<part, daemonVars, readVars, writeVars, enumVars, monitorVars, callsVars, fuseVars, dialogVars,
          trackerVars, storeVars, proxyVars, opsVars, connVars, poolVars, davVars, afpVars>>
        /\ DaemonFair /\ StreamFair /\ ClientFair /\ DialogFair /\ ServiceFair /\ ServerFair

-----------------------------------------------------------------------------
\* What an application asks of the client library ends, whatever it is cancelled in and
\* whatever daemon dies: operations on streams, reads of a directory, calls on a mount,
\* requests of the kernel to the FUSE daemon (ReadStream, WriteStream, Enumerator,
\* ClientCalls, FuseHandles).
Called ==
  CASE part = "read" -> readOp.kind # "none"
    [] part = "write" -> writeOp.kind # "none"
    [] part = "enum" -> enumTask.state = "waiting"
    [] part = "calls" -> callsOp["t1"].pc = "lookup"
    [] part = "fuse" -> \E t \in {"t1", "t2"} : thread[t].pc # "idle"
    [] OTHER -> FALSE
Returned ==
  CASE part = "read" -> readOp.kind = "none"
    [] part = "write" -> writeOp.kind = "none"
    [] part = "enum" -> enumTask.state # "waiting"
    [] part = "calls" -> callsOp["t1"].pc = "done"
    [] part = "fuse" -> crashed \/ \A t \in {"t1", "t2"} : thread[t].pc = "idle"
    [] OTHER -> FALSE
CallsEnd == Called ~> Returned

\* What a daemon has begun ends: an unmount that does not wait for the user, a dialog about
\* a busy mount, an operation of a volume monitor, a job that waits for a server
\* (MountDaemon, MountOperation, ProxyOps, SftpConnection, FtpPool, DavFiles, AfpConnection).
Begun ==
  CASE part = "daemon" -> kind["j1"] = "unmount" /\ daemonPc["j1"] \notin {"unused", "wait"}
    [] part = "dialog" -> dialogTask = "alive"
    [] part = "ops" -> \E o \in Drives : opsTask[o] # "idle"
    [] part = "conn" -> \E j \in {"j1", "j2"} : connJobs[j].started
    [] part = "pool" -> poolTask["t1"].pc # "idle"
    [] part = "dav" -> \E j \in {"j1", "j2"} : davJob[j].pc # "idle"
    [] part = "afp" -> afpPhase[Cmd] = "sent"
    [] OTHER -> FALSE
Ended ==
  CASE part = "daemon" -> daemonPc["j1"] = "unused" \/ daemonExited
    [] part = "dialog" -> decision # "none"
    [] part = "ops" -> ~alive["a"] \/ \A o \in Drives : opsTask[o] # "idle" => opsTold[o] # <<>>
    [] part = "conn" -> forceUnmounted \/ \A j \in {"j1", "j2"} : connJobs[j].started => connJobs[j].answers # <<>>
    [] part = "pool" -> poolTask["t1"].pc = "idle"
    [] part = "dav" -> \A j \in {"j1", "j2"} : davJob[j].pc # "idle" => davJob[j].ans # "none"
    [] part = "afp" -> afpResult[Cmd] # <<>> \/ afpExited
    [] OTHER -> FALSE
JobsEnd == Begun ~> Ended

\* What is gone disappears: a channel whose connection broke while a job was at work, a
\* registered mount whose backend is gone, the subscription of a cancelled monitor
\* (MountDaemon, MountTracker, FileMonitor).
Gone ==
  CASE part = "daemon" -> connClosed["c1"] /\ chst["c1"] = "active" /\ daemonPc["c1"] # "unused"
    [] part = "tracker" -> \E n \in 1 .. 2 : <<"d1", n>> \in mounts /\ trackerBackend[n].st = "gone"
    [] part = "monitor" -> monitorFile["c1"].cancelled
    [] OTHER -> FALSE
Forgotten ==
  CASE part = "daemon" -> chst["c1"] = "closed" \/ daemonExited
    [] part = "tracker" -> \A n \in 1 .. 2 : <<"d1", n>> \in mounts => trackerBackend[n].st # "gone"
    [] part = "monitor" -> "c1" \notin subs
    [] OTHER -> FALSE
GoneIsForgotten == Gone ~> Forgotten

\* What was said arrives: who asks gvfsd for a mount is answered, accepted metadata reaches
\* the tree file, and an application comes to see the volumes that are there (MountTracker,
\* MetaStore, ProxyMonitor).
Said ==
  CASE part = "tracker" -> Tracker!Waits("c1")
    [] part = "store" -> total > 0
    [] part = "proxy" -> TRUE
    [] OTHER -> FALSE
Arrived ==
  CASE part = "tracker" -> ~Tracker!Waits("c1")
    [] part = "store" -> base[cur] = total
    [] part = "proxy" -> /\ Proxy!Quiet
                         /\ \A k \in Proxy!Kinds :
                              DOMAIN tbl[k] = IF remote[k].on THEN {Proxy!IdOf(k)} ELSE {}
    [] OTHER -> FALSE
NewsArrive == Said ~> Arrived
=============================================================================
