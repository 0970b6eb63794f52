----------------------------- MODULE MCServices -----------------------------
(***************************************************************************)
(* Instances of the services of the session: gvfsd's list of mounts, the   *)
(* metadata store, and the proxies of remote volume monitors.  A behaviour *)
(* runs one of them, its part; the variables of the others keep the value  *)
(* 0.                                                                      *)
(***************************************************************************)
EXTENDS Naturals

CONSTANT Parts       \* the parts that are run: names of Init's cases

VARIABLE part        \* the one that runs

VARIABLES configured, mounts, data, ask, proc, trackerOwner, backend, out, lost, restarts   \* MountTracker
VARIABLES cur, used, base, rotated, linked, num, st, map, jfile, storeSeen, new, old, pending,
          timer, storeOwner, total, since   \* MetaStore
VARIABLES tree, journal, written   \* MetaJournal
VARIABLES life, lives, remote, bus, tbl, objs, idle, proxyTold, foreign, shadowed, changes,
          foreigns   \* ProxyMonitor
VARIABLES task, handler, opsTold, cancelled, wrapped, dialog, given, opsSeen, alive, inCall, supp,
          toDaemon, toClient, monitor, handled, watched, native, asks, result, pend, outstanding,
          mops, ncancelled, answered, objects, buried   \* ProxyOps

trackerVars == <<configured, mounts, data, ask, proc, trackerOwner, backend, out, lost, restarts>>
storeVars == <<cur, used, base, rotated, linked, num, st, map, jfile, storeSeen, new, old, pending,
               timer, storeOwner, total, since>>
journalVars == <<tree, journal, written>>
proxyVars == <<life, lives, remote, bus, tbl, objs, idle, proxyTold, foreign, shadowed, changes,
               foreigns>>
opsVars == <<task, handler, opsTold, cancelled, wrapped, dialog, given, opsSeen, alive, inCall,
             supp, toDaemon, toClient, monitor, handled, watched, native, asks, result, pend,
             outstanding, mops, ncancelled, answered, objects, buried>>

\* An operation of an application: its object and kind, the address of its cancellable,
\* and whether the native operation asks the user.
ProxyOp(n, c, k, x, a) == [n |-> n, client |-> c, kind |-> k, cancel |-> x, asks |-> a]
TwoClients == {ProxyOp(1, "a", "eject", "p", TRUE), ProxyOp(2, "b", "stop", "p", TRUE)}
OneClient == {ProxyOp(1, "a", "start", "p", TRUE), ProxyOp(2, "a", "unmount", "q", TRUE)}
Drives == {ProxyOp(1, "a", "stop", "p", FALSE), ProxyOp(2, "a", "poll", "none", TRUE),
           ProxyOp(3, "a", "foreign", "p", FALSE)}
Through == {ProxyOp(1, "a", "ejectMount", "p", FALSE), ProxyOp(2, "a", "ejectVolume", "p", FALSE),
            ProxyOp(3, "a", "mount", "q", FALSE)}

-----------------------------------------------------------------------------
\* MountTracker: a caller and a restart of gvfsd; and daemons with names on the bus. All may
\* die before they are ready.
TrackerRestart == INSTANCE MountTracker WITH Specs <- {"s1"}, Callers <- {"c1"},
                    Daemons <- {"d1", "d2"}, HasDBusName <- FALSE, Automount <- TRUE,
                    MaxCalls <- 2, MaxRestarts <- 1, MayDieEarly <- TRUE, NoDaemon <- "nobody",
                    owner <- trackerOwner
TrackerNamed == INSTANCE MountTracker WITH Specs <- {"s1", "s2"}, Callers <- {"c1", "c2"},
                  Daemons <- {"d1", "d2"}, HasDBusName <- TRUE, Automount <- FALSE, MaxCalls <- 2,
                  MaxRestarts <- 0, MayDieEarly <- TRUE, NoDaemon <- "nobody",
                  owner <- trackerOwner
TrackerOff == configured = 0 /\ mounts = 0 /\ data = 0 /\ ask = 0 /\ proc = 0 /\
              trackerOwner = 0 /\ backend = 0 /\ out = 0 /\ lost = 0 /\ restarts = 0

\* MetaStore: two readers and a writer whose rotations fail at any step, and a writer
\* that is killed at any step.
Store == INSTANCE MetaStore WITH Readers <- {"r1", "r2"}, Writers <- {"w1"}, First <- "w1",
           JournalSize <- 2, MaxEntries <- 3, MaxTrees <- 4,
           Faults <- {"tmp", "journal", "rename"}, seen <- storeSeen, owner <- storeOwner
StoreCrash == INSTANCE MetaStore WITH Readers <- {"r1"}, Writers <- {"w1"}, First <- "w1",
                JournalSize <- 2, MaxEntries <- 3, MaxTrees <- 4,
                Faults <- {"tmp", "journal", "rename", "crash"}, seen <- storeSeen,
                owner <- storeOwner
StoreOff == cur = 0 /\ used = 0 /\ base = 0 /\ rotated = 0 /\ linked = 0 /\ num = 0 /\ st = 0 /\
            map = 0 /\ jfile = 0 /\ storeSeen = 0 /\ new = 0 /\ old = 0 /\ pending = 0 /\
            timer = 0 /\ storeOwner = 0 /\ total = 0 /\ since = 0

\* MetaJournal: every journal of three entries over a tree of depth two.
Journal == INSTANCE MetaJournal WITH Names <- {"a", "b"}, Depth <- 2, Keys <- {"k"},
             Strings <- {"v"}, Lists <- {}, MaxJournal <- 3, MaxEntries <- 3
JournalOff == tree = 0 /\ journal = 0 /\ written = 0

\* ProxyMonitor: three changes by a monitor that is started three times, and two
\* activation roots.
Proxy == INSTANCE ProxyMonitor WITH Roots <- {"r1"}, MaxChanges <- 3, MaxForeign <- 1,
           MaxLives <- 2, Replaces <- FALSE, told <- proxyTold
ProxyRoots == INSTANCE ProxyMonitor WITH Roots <- {"r1", "r2"}, MaxChanges <- 3, MaxForeign <- 2,
                MaxLives <- 1, Replaces <- FALSE, told <- proxyTold
ProxyOff == life = 0 /\ lives = 0 /\ remote = 0 /\ bus = 0 /\ tbl = 0 /\ objs = 0 /\ idle = 0 /\
            proxyTold = 0 /\ foreign = 0 /\ shadowed = 0 /\ changes = 0 /\ foreigns = 0

\* ProxyOps: two applications whose cancellables have the same address, one with two
\* operations, and three operations on a drive that may go away.
OpsTwo == INSTANCE ProxyOps WITH Ops <- TwoClients, Clients <- {"a", "b"}, Threads <- FALSE,
            NativeSync <- FALSE, StartsSupported <- TRUE, Goes <- {}, MaxAsk <- 1, told <- opsTold,
            seen <- opsSeen
OpsOne == INSTANCE ProxyOps WITH Ops <- OneClient, Clients <- {"a"}, Threads <- FALSE,
            NativeSync <- FALSE, StartsSupported <- TRUE, Goes <- {}, MaxAsk <- 1, told <- opsTold,
            seen <- opsSeen
OpsDrives == INSTANCE ProxyOps WITH Ops <- Drives, Clients <- {"a"}, Threads <- FALSE,
               NativeSync <- FALSE, StartsSupported <- TRUE, Goes <- {"drive"}, MaxAsk <- 1,
               told <- opsTold, seen <- opsSeen
OpsThrough == INSTANCE ProxyOps WITH Ops <- Through, Clients <- {"a"}, Threads <- FALSE,
                NativeSync <- FALSE, StartsSupported <- TRUE, Goes <- {"drive"}, MaxAsk <- 1,
                told <- opsTold, seen <- opsSeen
OpsOff == task = 0 /\ handler = 0 /\ opsTold = 0 /\ cancelled = 0 /\ wrapped = 0 /\ dialog = 0 /\
          given = 0 /\ opsSeen = 0 /\ alive = 0 /\ inCall = 0 /\ supp = 0 /\ toDaemon = 0 /\
          toClient = 0 /\ monitor = 0 /\ handled = 0 /\ watched = 0 /\ native = 0 /\ asks = 0 /\
          result = 0 /\ pend = 0 /\ outstanding = 0 /\ mops = 0 /\ ncancelled = 0 /\
          answered = 0 /\ objects = 0 /\ buried = 0

ASSUME TrackerRestart!TrackerAssumption /\ TrackerNamed!TrackerAssumption /\ Store!StoreAssumption /\ StoreCrash!StoreAssumption /\
       Journal!JournalAssumption /\ Proxy!Bounds /\ ProxyRoots!Bounds

-----------------------------------------------------------------------------
Init ==
  /\ part \in Parts
  /\ CASE part = "trackerRestart" -> TrackerRestart!Init
       [] part = "trackerNamed" -> TrackerNamed!Init
       [] OTHER -> TrackerOff
  /\ CASE part = "store" -> Store!Init
       [] part = "storeCrash" -> StoreCrash!Init
       [] OTHER -> StoreOff
  /\ IF part = "journal" THEN Journal!Init ELSE JournalOff
  /\ CASE part = "proxy" -> Proxy!Init
       [] part = "proxyRoots" -> ProxyRoots!Init
       [] OTHER -> ProxyOff
  /\ CASE part = "opsTwo" -> OpsTwo!Init
       [] part = "opsOne" -> OpsOne!Init
       [] part = "opsDrives" -> OpsDrives!Init
       [] part = "opsThrough" -> OpsThrough!Init
       [] OTHER -> OpsOff

Next ==
  \/ /\ part = "trackerRestart"
     /\ TrackerRestart!Next
     /\ UNCHANGED <<part, storeVars, journalVars, proxyVars, opsVars>>
  \/ /\ part = "trackerNamed"
     /\ TrackerNamed!Next
     /\ UNCHANGED <<part, storeVars, journalVars, proxyVars, opsVars>>
  \/ /\ part = "store"
     /\ Store!Next
     /\ UNCHANGED <<part, trackerVars, journalVars, proxyVars, opsVars>>
  \/ /\ part = "storeCrash"
     /\ StoreCrash!Next
     /\ UNCHANGED <<part, trackerVars, journalVars, proxyVars, opsVars>>
  \/ /\ part = "journal"
     /\ Journal!Next
     /\ UNCHANGED <<part, trackerVars, storeVars, proxyVars, opsVars>>
  \/ /\ part = "proxy"
     /\ Proxy!Next
     /\ UNCHANGED <<part, trackerVars, storeVars, journalVars, opsVars>>
  \/ /\ part = "proxyRoots"
     /\ ProxyRoots!Next
     /\ UNCHANGED <<part, trackerVars, storeVars, journalVars, opsVars>>
  \/ /\ part = "opsTwo"
     /\ OpsTwo!Next
     /\ UNCHANGED <<part, trackerVars, storeVars, journalVars, proxyVars>>
  \/ /\ part = "opsOne"
     /\ OpsOne!Next
     /\ UNCHANGED <<part, trackerVars, storeVars, journalVars, proxyVars>>
  \/ /\ part = "opsDrives"
     /\ OpsDrives!Next
     /\ UNCHANGED <<part, trackerVars, storeVars, journalVars, proxyVars>>
  \/ /\ part = "opsThrough"
     /\ OpsThrough!Next
     /\ UNCHANGED <<part, trackerVars, storeVars, journalVars, proxyVars>>

Spec == Init /\ [][Next]_<<part, trackerVars, storeVars, journalVars, proxyVars, opsVars>>

-----------------------------------------------------------------------------
\* Metadata that was accepted is never missing from what a process finds that opens the
\* store, at whichever step the writer failed or was killed, and a lookup reads through the
\* journal what it will read from the tree after the flush (MetaStore, MetaJournal).
MetadataKept ==
  /\ part = "store" => Store!TypeOK /\ Store!Durable /\ Store!WriterOnCurrent
  /\ part = "storeCrash" => StoreCrash!Durable /\ StoreCrash!WriterOnCurrent
  /\ part = "journal" => /\ Journal!TypeOK /\ Journal!LookupMatchesFlush /\ Journal!KeysMatchFlush
                         /\ Journal!DirMissesNothing

\* Volumes, mounts and drives of another process are shown as that process has them when
\* everything is delivered, each announced once and before anything else is said of it, and a
\* real mount is hidden by exactly its shadows (ProxyMonitor).
VolumesTrue ==
  /\ part = "proxy" => /\ Proxy!TypeOK /\ Proxy!AnnouncedOnce /\ Proxy!SignalsTellAll
                       /\ Proxy!ShadowsCounted /\ Proxy!ViewTrue
  /\ part = "proxyRoots" => ProxyRoots!ShadowAtRoot

\* An operation on another process's volume is answered once, with its own outcome and by
\* its own user, and cancelled only for its own application (ProxyOps).
OperationsOwned ==
  /\ part = "opsTwo" => OpsTwo!CancelsOwn /\ OpsTwo!AbandonedStopped
  /\ part = "opsOne" => /\ OpsOne!TypeOK /\ OpsOne!AnsweredOnce /\ OpsOne!AnswersOwn
                        /\ OpsOne!SuccessTrue /\ OpsOne!CancelTold
  /\ part = "opsDrives" => OpsDrives!OneAtATime /\ OpsDrives!AnsweredOnce
  /\ part = "opsThrough" => OpsThrough!OneAtATime

\* What is asked is answered from the present: one mount of a spec is found, whichever daemon
\* got the name and however gvfsd restarted, a caller waits in exactly one place and is told
\* that its mount succeeded only if the spec has been in the list since it asked, and a
\* reader of metadata that has refreshed its view sees everything accepted before
\* (MountTracker, MetaStore).
AnswersOfThePresent ==
  /\ [](part = "trackerRestart" => TrackerRestart!OneMountPerSpec /\ TrackerRestart!WaitersOwned)
  /\ [](part = "trackerNamed" => /\ TrackerNamed!OneMountPerSpec /\ TrackerNamed!WaitersOwned
                                 /\ TrackerNamed!ChildDataAlive /\ TrackerNamed!MountsServed)
  /\ [][/\ part = "trackerRestart" => TrackerRestart!SuccessMeansRegistered
        /\ part = "trackerNamed" => TrackerNamed!SuccessMeansRegistered]_trackerVars
  /\ [][part = "store" => Store!ReaderFresh]_storeVars
=============================================================================
