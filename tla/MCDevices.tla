----------------------------- MODULE MCDevices -----------------------------
(***************************************************************************)
(* Instances of the AFP backend and of the backends of devices: cameras    *)
(* (gphoto2) and players (MTP).  A behaviour runs one component, its part; *)
(* the variables of the others keep the value 0.                           *)
(***************************************************************************)
EXTENDS Naturals

CONSTANT Parts       \* the parts that are run: names of Init's cases

VARIABLE part        \* the one that runs

VARIABLES state, worker, wait, phase, result, cancelled, queue, hash, nextId, tickleId, sendLoop,
          starts, writing, headerId, reading, readHeader, toServer, toClient, tickles, tickled,
          exited   \* AfpConnection
VARIABLES account, uams, version, initial, loginPc, conns, conn, user, pw, anon, olduser,
          prompted, save, keyring, err, answer, asks, loginFaults, sent, tried   \* AfpLogin
VARIABLES listed, mounts, browseCache, browseJob, wire, replies, changes, browseFaults, seen   \* AfpBrowse
VARIABLES node, home, afpJob, lost, before, afpFaults, afpOthers   \* AfpFiles
VARIABLES file, fork, h, mode, forkPc, cmd, tail, forkAns, wrote, first, forkFaults, forkOthers   \* AfpForks
VARIABLES camMounted, access, cam, info, dirs, files, free, handles, open, reader, dirMon,
          fileMon, camEv, camLocal, last, camAns, camBad, untold, camJobs, camFaults   \* Gphoto2
VARIABLES obj, stores, mtpCache, pool, watch, view, mtpEv, mtpLocal, started, freed, crashed,
          mtpBad, mtpDid, mtpAns, mtpJobs, mtpFaults, phone   \* Mtp
VARIABLES caps, hndMounted, kind, data, w, r, out, hndAns, hndDid, want, pos, failed, over,
          hndJobs, hndFaults   \* MtpHandles

connVars == <<state, worker, wait, phase, result, cancelled, queue, hash, nextId, tickleId,
              sendLoop, starts, writing, headerId, reading, readHeader, toServer, toClient,
              tickles, tickled, exited>>
loginVars == <<account, uams, version, initial, loginPc, conns, conn, user, pw, anon, olduser,
               prompted, save, keyring, err, answer, asks, loginFaults, sent, tried>>
browseVars == <<listed, mounts, browseCache, browseJob, wire, replies, changes, browseFaults,
                seen>>
afpVars == <<node, home, afpJob, lost, before, afpFaults, afpOthers>>
forkVars == <<file, fork, h, mode, forkPc, cmd, tail, forkAns, wrote, first, forkFaults,
              forkOthers>>
camVars == <<camMounted, access, cam, info, dirs, files, free, handles, open, reader, dirMon,
             fileMon, camEv, camLocal, last, camAns, camBad, untold, camJobs, camFaults>>
mtpVars == <<obj, stores, mtpCache, pool, watch, view, mtpEv, mtpLocal, started, freed, crashed,
             mtpBad, mtpDid, mtpAns, mtpJobs, mtpFaults, phone>>
hndVars == <<caps, hndMounted, kind, data, w, r, out, hndAns, hndDid, want, pos, failed, over,
             hndJobs, hndFaults>>

\* AFP: commands of a connection, offers of servers, entries of the keyring
Cmd(n, d, m) == [n |-> n, data |-> d, room |-> m, sync |-> FALSE]
Three == {Cmd(1, TRUE, 0), Cmd(2, FALSE, 1), Cmd(3, FALSE, 0)}
Two == {Cmd(1, TRUE, 1), Cmd(2, FALSE, 0)}
Offers == {{"dhx2", "dhx", "nouser"}, {"dhx"}, {"nouser"}, {"dhx2"}}
Rings == {[user |-> "none", pw |-> "none"], [user |-> "u", pw |-> "p"], [user |-> "u", pw |-> "wrong"],
          [user |-> "none", pw |-> "p"]}

\* AFP: trees of three names, and the operations that the jobs choose from
Absent == [k |-> "none", v |-> 0, kids |-> FALSE, priv |-> <<0, 0, 0>>]
File(v) == [Absent EXCEPT !.k = "file", !.v = v]
Dir(kids) == [Absent EXCEPT !.k = "dir", !.kids = kids]
Tree(a, b, c) == [n \in {"a", "b", "c"} |-> CASE n = "a" -> a [] n = "b" -> b [] n = "c" -> c]
AfpOp(op, n, d, ow, attr) == [kind |-> op, n |-> n, d |-> d, ow |-> ow, attr |-> attr]
RaceTrees == {Tree(File(1), b, Absent) : b \in {Absent, File(2)}}
RaceOps == {AfpOp("copy", "a", "b", TRUE, {}), AfpOp("copy", "a", "b", FALSE, {}),
            AfpOp("move", "b", "a", FALSE, {}), AfpOp("rename", "a", "b", FALSE, {})}
AllTrees == {Tree(a, b, Absent) : a \in {Absent, File(1), Dir(FALSE), Dir(TRUE)},
                                  b \in {Absent, File(2), Dir(FALSE), Dir(TRUE)}}
ManyOps == {AfpOp(k, "a", "b", ow, {}) : k \in {"copy", "move"}, ow \in BOOLEAN}
           \cup {AfpOp("rename", "a", "b", FALSE, {}), AfpOp("rename", "b", "a", FALSE, {}),
                 AfpOp("move", "b", "c", FALSE, {}), AfpOp("delete", "b", "b", FALSE, {}),
                 AfpOp("mkdir", "b", "b", FALSE, {})}
OwnedTrees == {Tree([File(1) EXCEPT !.priv = <<4, 5, 6>>], b, File(3)) : b \in {Absent, File(2)}}
LookOps == {AfpOp("set", "a", "a", FALSE, {i}) : i \in 1 .. 3}
           \cup {AfpOp("query", "a", "a", FALSE, s) : s \in SUBSET {"user", "real", "group"}}
           \cup {AfpOp("list", "a", "a", FALSE, {})}

-----------------------------------------------------------------------------
\* AfpConnection: three commands with two ids that come again; two on a connection that closes,
\* or fails, beside tickles with the ids of the commands.
AfpConn == INSTANCE AfpConnection WITH Cmds <- Three, IdSpan <- 2, Overtaken <- FALSE,
             StrayTickles <- FALSE, MaxTickles <- 0, MaxReply <- 1, Closes <- FALSE, Prompt <- TRUE, CheckedSends <- TRUE,
             QuietClose <- TRUE, MayFail <- FALSE
AfpClose == INSTANCE AfpConnection WITH Cmds <- Two, IdSpan <- 2, Overtaken <- FALSE,
              StrayTickles <- FALSE, MaxTickles <- 1, MaxReply <- 2, Closes <- TRUE, Prompt <- TRUE, CheckedSends <- TRUE, QuietClose <- FALSE,
              MayFail <- FALSE
AfpFail == INSTANCE AfpConnection WITH Cmds <- Two, IdSpan <- 2, Overtaken <- FALSE,
             StrayTickles <- FALSE, MaxTickles <- 2, MaxReply <- 2, Closes <- FALSE, Prompt <- TRUE, CheckedSends <- TRUE, QuietClose <- FALSE,
             MayFail <- TRUE
ConnOff == state = 0 /\ worker = 0 /\ wait = 0 /\ phase = 0 /\ result = 0 /\ cancelled = 0 /\
           queue = 0 /\ hash = 0 /\ nextId = 0 /\ tickleId = 0 /\ sendLoop = 0 /\ starts = 0 /\
           writing = 0 /\ headerId = 0 /\ reading = 0 /\ readHeader = 0 /\ toServer = 0 /\
           toClient = 0 /\ tickles = 0 /\ tickled = 0 /\ exited = 0

\* AfpLogin: servers with several ways to log in, keyrings with right and wrong entries.
AfpIn == INSTANCE AfpLogin WITH Uams <- Offers, Rings <- Rings, MaxAsks <- 2, MaxFaults <- 1,
           pc <- loginPc, faults <- loginFaults
LoginOff == account = 0 /\ uams = 0 /\ version = 0 /\ initial = 0 /\ loginPc = 0 /\ conns = 0 /\
            conn = 0 /\ user = 0 /\ pw = 0 /\ anon = 0 /\ olduser = 0 /\ prompted = 0 /\
            save = 0 /\ keyring = 0 /\ err = 0 /\ answer = 0 /\ asks = 0 /\ loginFaults = 0 /\
            sent = 0 /\ tried = 0

\* AfpBrowse: two jobs, and a server whose volumes change.
Browse == INSTANCE AfpBrowse WITH Jobs <- {"j1", "j2"}, Volumes <- {"v", "w"}, MaxChanges <- 3,
            MaxFaults <- 1, cache <- browseCache, job <- browseJob, faults <- browseFaults
BrowseOff == listed = 0 /\ mounts = 0 /\ browseCache = 0 /\ browseJob = 0 /\ wire = 0 /\
             replies = 0 /\ changes = 0 /\ browseFaults = 0 /\ seen = 0

\* AfpFiles: two jobs that race for names, one job on every tree, one that looks.
AfpMove == INSTANCE AfpFiles WITH Jobs <- {"j1", "j2"}, Ops <- RaceOps, Trees <- RaceTrees,
             MaxFaults <- 0, MaxOthers <- 1, UnixPrivs <- TRUE, ReqCount <- 2, MaxIndex <- 5,
             job <- afpJob, faults <- afpFaults, others <- afpOthers
AfpOne == INSTANCE AfpFiles WITH Jobs <- {"j1"}, Ops <- ManyOps, Trees <- AllTrees,
            MaxFaults <- 1, MaxOthers <- 1, UnixPrivs <- TRUE, ReqCount <- 2, MaxIndex <- 5,
            job <- afpJob, faults <- afpFaults, others <- afpOthers
AfpLook == INSTANCE AfpFiles WITH Jobs <- {"j1"}, Ops <- LookOps, Trees <- OwnedTrees,
             MaxFaults <- 1, MaxOthers <- 1, UnixPrivs <- TRUE, ReqCount <- 2, MaxIndex <- 5,
             job <- afpJob, faults <- afpFaults, others <- afpOthers
AfpOff == node = 0 /\ home = 0 /\ afpJob = 0 /\ lost = 0 /\ before = 0 /\ afpFaults = 0 /\
          afpOthers = 0

\* AfpForks: every way to open a file, on a volume that can exchange files and on one that cannot.
Forks == INSTANCE AfpForks WITH Modes <- {"create", "append", "edit", "replace", "backup"},
           Exchange <- TRUE, MaxLen <- 3, MaxFaults <- 1, MaxOthers <- 0,
           Refused <- {"denied", "misc", "lockerr", "busy", "diskfull"}, pc <- forkPc,
           ans <- forkAns, faults <- forkFaults, others <- forkOthers
Direct == INSTANCE AfpForks WITH Modes <- {"append", "replace", "backup", "read", "create"},
            Exchange <- FALSE, MaxLen <- 3, MaxFaults <- 1, MaxOthers <- 1,
            Refused <- {"denied", "misc"}, pc <- forkPc, ans <- forkAns, faults <- forkFaults,
            others <- forkOthers
ForkOff == file = 0 /\ fork = 0 /\ h = 0 /\ mode = 0 /\ forkPc = 0 /\ cmd = 0 /\ tail = 0 /\
           forkAns = 0 /\ wrote = 0 /\ first = 0 /\ forkFaults = 0 /\ forkOthers = 0

\* Gphoto2: a folder with two names: writing, where a call fails; changes of names, where two do.
CamWrite == INSTANCE Gphoto2 WITH Names <- {"a", "b"}, Handles <- {1}, Access <- {"rw"},
              Ops <- {"write", "info", "list", "seek", "read", "rename", "delete", "filemon"},
              SelfMoves <- FALSE, MaxLen <- 2, MaxJobs <- 4, MaxFaults <- 1, mounted <- camMounted, ev <- camEv,
              local <- camLocal, ans <- camAns, bad <- camBad, jobs <- camJobs,
              faults <- camFaults
CamNames == INSTANCE Gphoto2 WITH Names <- {"a", "b"}, Handles <- {1},
              Access <- {"rw", "rd", "ro"},
              Ops <- {"rename", "move", "delete", "mkdir", "pull", "info", "list", "space", "dirmon", "unplug"},
              SelfMoves <- FALSE, MaxLen <- 2, MaxJobs <- 3, MaxFaults <- 2, mounted <- camMounted, ev <- camEv,
              local <- camLocal, ans <- camAns, bad <- camBad, jobs <- camJobs,
              faults <- camFaults
CamOff == camMounted = 0 /\ access = 0 /\ cam = 0 /\ info = 0 /\ dirs = 0 /\ files = 0 /\
          free = 0 /\ handles = 0 /\ open = 0 /\ reader = 0 /\ dirMon = 0 /\ fileMon = 0 /\
          camEv = 0 /\ camLocal = 0 /\ last = 0 /\ camAns = 0 /\ camBad = 0 /\ untold = 0 /\
          camJobs = 0 /\ camFaults = 0

\* Mtp: names of which one begins with the other, and changes made on the phone.
MtpOwn == INSTANCE Mtp WITH Stores <- {"S"}, Names <- {"a", "ab"}, Longer <- {<<"a", "ab">>},
            Depth <- 2, Watched <- <<"S">>, Listed <- {<<"S">>},
            Ops <- {"query", "fsinfo", "watch", "enumerate", "mkdir", "push", "delete", "rename"},
            MaxId <- 3, MaxJobs <- 3, MaxFaults <- 1, MaxPhone <- 0, cache <- mtpCache,
            ev <- mtpEv, local <- mtpLocal, bad <- mtpBad, did <- mtpDid, ans <- mtpAns,
            jobs <- mtpJobs, faults <- mtpFaults
MtpTransfer == INSTANCE Mtp WITH Stores <- {"S"}, Names <- {"a", "ab"},
                 Longer <- {<<"a", "ab">>}, Depth <- 2, Watched <- <<"S">>, Listed <- {},
                 Ops <- {"mkdir", "push", "move", "copy", "pull"}, MaxId <- 3, MaxJobs <- 3,
                 MaxFaults <- 1, MaxPhone <- 0, cache <- mtpCache, ev <- mtpEv,
                 local <- mtpLocal, bad <- mtpBad, did <- mtpDid, ans <- mtpAns, jobs <- mtpJobs,
                 faults <- mtpFaults
MtpPhone == INSTANCE Mtp WITH Stores <- {"S"}, Names <- {"a", "b"}, Longer <- {}, Depth <- 2,
              Watched <- <<"S", "a">>, Listed <- {},
              Ops <- {"query", "watch", "phone", "unmount", "unplug"}, MaxId <- 3, MaxJobs <- 2,
              MaxFaults <- 0, MaxPhone <- 2, cache <- mtpCache, ev <- mtpEv, local <- mtpLocal,
              bad <- mtpBad, did <- mtpDid, ans <- mtpAns, jobs <- mtpJobs, faults <- mtpFaults
MtpOff == obj = 0 /\ stores = 0 /\ mtpCache = 0 /\ pool = 0 /\ watch = 0 /\ view = 0 /\
          mtpEv = 0 /\ mtpLocal = 0 /\ started = 0 /\ freed = 0 /\ crashed = 0 /\ mtpBad = 0 /\
          mtpDid = 0 /\ mtpAns = 0 /\ mtpJobs = 0 /\ mtpFaults = 0 /\ phone = 0

\* MtpHandles: one file open for writing and for reading, on three kinds of device.
Hnd == INSTANCE MtpHandles WITH MaxLen <- 3, MaxJobs <- 5, MaxFaults <- 1,
         Devices <- {{"get", "send", "edit"}, {"get"}, {}}, Limit <- 2,
         Ops <- {"create", "append", "edit", "replace", "write", "seek", "truncate", "close", "read", "readseek", "icon"},
         mounted <- hndMounted, ans <- hndAns, did <- hndDid, jobs <- hndJobs,
         faults <- hndFaults
HndOff == caps = 0 /\ hndMounted = 0 /\ kind = 0 /\ data = 0 /\ w = 0 /\ r = 0 /\ out = 0 /\
          hndAns = 0 /\ hndDid = 0 /\ want = 0 /\ pos = 0 /\ failed = 0 /\ over = 0 /\
          hndJobs = 0 /\ hndFaults = 0

ASSUME AfpIn!AfpLoginAssumption /\ Browse!AfpBrowseAssumption /\ AfpMove!AfpFilesAssumption /\
       AfpOne!AfpFilesAssumption /\ AfpLook!AfpFilesAssumption /\ Forks!AfpForksAssumption /\
       Direct!AfpForksAssumption /\ CamWrite!Gphoto2Assumption /\ CamNames!Gphoto2Assumption /\
       MtpOwn!MtpAssumption /\ MtpTransfer!MtpAssumption /\ MtpPhone!MtpAssumption /\
       Hnd!HandlesAssumption

-----------------------------------------------------------------------------
Init ==
  /\ part \in Parts
  /\ CASE part = "afpConn" -> AfpConn!Init
       [] part = "afpClose" -> AfpClose!Init
       [] part = "afpFail" -> AfpFail!Init
       [] OTHER -> ConnOff
  /\ IF part = "afpLogin" THEN AfpIn!Init ELSE LoginOff
  /\ IF part = "afpBrowse" THEN Browse!Init ELSE BrowseOff
  /\ CASE part = "afpMove" -> AfpMove!Init
       [] part = "afpOne" -> AfpOne!Init
       [] part = "afpLook" -> AfpLook!Init
       [] OTHER -> AfpOff
  /\ CASE part = "afpForks" -> Forks!Init
       [] part = "afpDirect" -> Direct!Init
       [] OTHER -> ForkOff
  /\ CASE part = "camWrite" -> CamWrite!Init
       [] part = "camNames" -> CamNames!Init
       [] OTHER -> CamOff
  /\ CASE part = "mtpOwn" -> MtpOwn!Init
       [] part = "mtpTransfer" -> MtpTransfer!Init
       [] part = "mtpPhone" -> MtpPhone!Init
       [] OTHER -> MtpOff
  /\ IF part = "mtpHandles" THEN Hnd!Init ELSE HndOff

Next ==
  \/ /\ part = "afpConn"
     /\ AfpConn!Next
     /\ UNCHANGED <<part, loginVars, browseVars, afpVars, forkVars, camVars, mtpVars, hndVars>>
  \/ /\ part = "afpClose"
     /\ AfpClose!Next
     /\ UNCHANGED <<part, loginVars, browseVars, afpVars, forkVars, camVars, mtpVars, hndVars>>
  \/ /\ part = "afpFail"
     /\ AfpFail!Next
     /\ UNCHANGED <<part, loginVars, browseVars, afpVars, forkVars, camVars, mtpVars, hndVars>>
  \/ /\ part = "afpLogin"
     /\ AfpIn!Next
     /\ UNCHANGED <<part, connVars, browseVars, afpVars, forkVars, camVars, mtpVars, hndVars>>
  \/ /\ part = "afpBrowse"
     /\ Browse!Next
     /\ UNCHANGED <<part, connVars, loginVars, afpVars, forkVars, camVars, mtpVars, hndVars>>
  \/ /\ part = "afpMove"
     /\ AfpMove!Next
     /\ UNCHANGED <<part, connVars, loginVars, browseVars, forkVars, camVars, mtpVars, hndVars>>
  \/ /\ part = "afpOne"
     /\ AfpOne!Next
     /\ UNCHANGED <<part, connVars, loginVars, browseVars, forkVars, camVars, mtpVars, hndVars>>
  \/ /\ part = "afpLook"
     /\ AfpLook!Next
     /\ UNCHANGED <<part, connVars, loginVars, browseVars, forkVars, camVars, mtpVars, hndVars>>
  \/ /\ part = "afpForks"
     /\ Forks!Next
     /\ UNCHANGED <<part, connVars, loginVars, browseVars, afpVars, camVars, mtpVars, hndVars>>
  \/ /\ part = "afpDirect"
     /\ Direct!Next
     /\ UNCHANGED <<part, connVars, loginVars, browseVars, afpVars, camVars, mtpVars, hndVars>>
  \/ /\ part = "camWrite"
     /\ CamWrite!Next
     /\ UNCHANGED <<part, connVars, loginVars, browseVars, afpVars, forkVars, mtpVars, hndVars>>
  \/ /\ part = "camNames"
     /\ CamNames!Next
     /\ UNCHANGED <<part, connVars, loginVars, browseVars, afpVars, forkVars, mtpVars, hndVars>>
  \/ /\ part = "mtpOwn"
     /\ MtpOwn!Next
     /\ UNCHANGED <<part, connVars, loginVars, browseVars, afpVars, forkVars, camVars, hndVars>>
  \/ /\ part = "mtpTransfer"
     /\ MtpTransfer!Next
     /\ UNCHANGED <<part, connVars, loginVars, browseVars, afpVars, forkVars, camVars, hndVars>>
  \/ /\ part = "mtpPhone"
     /\ MtpPhone!Next
     /\ UNCHANGED <<part, connVars, loginVars, browseVars, afpVars, forkVars, camVars, hndVars>>
  \/ /\ part = "mtpHandles"
     /\ Hnd!Next
     /\ UNCHANGED <<part, connVars, loginVars, browseVars, afpVars, forkVars, camVars, mtpVars>>

Spec == Init /\ [][Next]_<<part, connVars, loginVars, browseVars, afpVars, forkVars, camVars, mtpVars, hndVars>>

-----------------------------------------------------------------------------
\* A command of an AFP connection is answered once at most, with the reply to it, and waits
\* under an id that stays its own, while ids wrap around, tickles carry the same ids and
\* writes fail; all are answered when the connection closes.  A command that 2^16 others
\* overtake, or whose id a failed tickle carries, is left out: the code forgets it
\* (gvfsafpconnection.c:855, :1420).  A server's mounts and volumes are offered as they are
\* (AfpConnection, AfpBrowse).
RepliesOwned ==
  /\ part = "afpConn" => AfpConn!TypeOK /\ AfpConn!NoneReplaced /\ AfpConn!RepliesOwn
  /\ part = "afpClose" => /\ AfpClose!AnsweredOnce /\ AfpClose!ClosedAnswersAll
                          /\ AfpClose!RepliesOwn
  /\ part = "afpFail" => AfpFail!AnsweredOnce /\ AfpFail!NoneReplaced /\ AfpFail!RepliesOwn
  /\ part = "afpBrowse" => Browse!TypeOK /\ Browse!AnswersTrue /\ Browse!OneReplyEach

\* A login to an AFP server leaves one connection, is of the user that was asked for, sends
\* a password only as the server's strongest method does, asks again only after a refusal,
\* and saves what works (AfpLogin).
LoginsRight ==
  part = "afpLogin" => /\ AfpIn!TypeOK /\ AfpIn!OneConnection /\ AfpIn!RightUser
                       /\ AfpIn!PasswordsGuarded /\ AfpIn!AsksAgainOnlyIfDenied

\* No job on an AFP volume loses a file it was not asked to overwrite or tells of something
\* that is not so, and a replaced file is the old one until the new one is closed
\* (AfpFiles, AfpForks).
VolumesKept ==
  /\ part = "afpMove" => AfpMove!OnlyOverwritesAsked /\ AfpMove!AnsweredOnce
  /\ part = "afpOne" => AfpOne!RefusedKeepsTarget /\ AfpOne!SuccessMeansDone
  /\ part = "afpLook" => /\ AfpLook!TypeOK /\ AfpLook!OthersKept /\ AfpLook!InfoComplete
                         /\ AfpLook!ListingExact /\ AfpLook!AnsweredOnce
  /\ part = "afpForks" => /\ Forks!TypeOK /\ Forks!OldUntilClosed /\ Forks!BackupKept
                          /\ Forks!CreatedIsNew /\ Forks!SizeTrue /\ Forks!NothingLeftOnSuccess
  /\ part = "afpDirect" => Direct!AppendAdds /\ Direct!ReplacedWhole

\* What the backends of cameras and players remember of a device (infos, listings, free
\* space, ids of objects, written ranges) is so, and what they tell the monitors adds up to
\* what is on the device (Gphoto2, Mtp, MtpHandles).  What do_move leaves cached of a file
\* that it overwrote (gvfsbackendgphoto2.c:3197), and a rename that stopped half-way of the
\* new name, is not so until a later job drops it: just these entries are untold and left
\* out.
DeviceRemembered ==
  /\ part = "camWrite" => CamWrite!TypeOK /\ CamWrite!CachesTrue
  /\ part = "camNames" => CamNames!CachesTrue /\ CamNames!FreeTrue
  /\ part = "mtpOwn" => MtpOwn!CacheTrue /\ MtpOwn!ViewTrue
  /\ part = "mtpPhone" => MtpPhone!TypeOK /\ MtpPhone!CacheTrue /\ MtpPhone!ViewTrue /\ MtpPhone!NoUseAfterFree
  /\ part = "mtpHandles" => Hnd!TypeOK /\ Hnd!WrittenExact /\ Hnd!FailureHarmless

\* No step loses content of a device that its job did not name: a closed file is written, a
\* move that fails keeps its source, a refused job changes nothing, reads stay inside the
\* file; and only a password that worked is saved (Gphoto2, Mtp, MtpHandles, AfpLogin,
\* AfpBrowse).  Not claimed of a file whose data a job other than the close failed to put
\* there, which the close forgets (gvfsbackendgphoto2.c:3048), nor of a move of a file onto
\* itself, which deletes it (:3091; SelfMoves).
NothingElseTouched ==
  /\ [][/\ part = "camWrite" => CamWrite!ClosedIsWritten
        /\ part = "camNames" => /\ CamNames!NothingLost /\ CamNames!RefusedUnchanged
                                /\ CamNames!ChangesTold]_camVars
  /\ [][/\ part = "mtpOwn" => MtpOwn!OnlyTouchesNamed /\ MtpOwn!RefusedUnchanged
        /\ part = "mtpTransfer" => /\ MtpTransfer!OnlyTouchesNamed /\ MtpTransfer!RefusedUnchanged
                                   /\ MtpTransfer!MovedWhole]_mtpVars
  /\ [][part = "mtpHandles" => Hnd!ReadsInside]_hndVars
  /\ [][part = "afpLogin" => AfpIn!SavedWorks]_loginVars
  /\ [][part = "afpBrowse" => Browse!OffersTrue]_browseVars
=============================================================================
