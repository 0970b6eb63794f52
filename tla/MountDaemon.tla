---------------------------- MODULE MountDaemon ----------------------------
(***************************************************************************)
(* One mount daemon process (gvfsd-sftp, gvfsd-trash, ...) serving one     *)
(* backend: its job list and thread pool (gvfsdaemon.c, gvfsjob.c), the    *)
(* mount and unmount jobs (gvfsjobmount.c, gvfsjobunmount.c), the blocking *)
(* of requests and the auto-unmount accounting (gvfsbackend.c), and the    *)
(* life of the channels that open files leave behind (gvfschannel.c).      *)
(*                                                                         *)
(* Everything the main loop does in one callback is one action; what a     *)
(* pool thread does is cut at the places where the main loop may interfere *)
(* (the daemon lock, the atomic counter, the marshalled idle checks).      *)
(***************************************************************************)
EXTENDS Naturals, Integers, Sequences, FiniteSets

CONSTANTS
  Jobs,             \* slots for the jobs that arrive over D-Bus
  Channels,         \* the channels the daemon may create, each used once
  ThreadedUnmount,  \* does the backend class implement unmount()?
  MaxThreads,       \* MAX_JOB_THREADS of the backend
  MaxQueue,         \* bound on queued_requests of a channel
  MaxChecks,        \* bound on marshalled activity_check_main callbacks
  MaxForced,        \* bound on outstanding forced unregistrations
  NoChannel

ASSUME JobsAssumption ==
  /\ IsFiniteSet(Jobs) /\ IsFiniteSet(Channels)
  /\ Jobs \cap Channels = {}
  /\ NoChannel \notin Channels
ASSUME BoundsAssumption ==
  /\ ThreadedUnmount \in BOOLEAN
  /\ MaxThreads \in Nat \ {0} /\ MaxQueue \in Nat
  /\ MaxChecks \in Nat \ {0} /\ MaxForced \in Nat \ {0}

(* A channel runs at most one job at a time (priv->current_job), so that   *)
(* job is named by its channel.                                            *)
JobIds == Jobs \cup Channels

VARIABLES
  phase,         \* progress of the mount job
  autounmount,   \* backend->priv->autounmount
  blockRequests, \* backend->priv->block_requests
  idleId,        \* is the idle timer of the backend running?
  activityCount, \* backend->priv->activity_count
  checks,        \* activity_check_main callbacks waiting for the main loop
  forced,        \* forced unregistrations waiting for their callback
  backendSource, \* is the backend in daemon->job_sources?
  exitTag,       \* is the one second exit timer running?
  exited,        \* the process is gone
  kind,          \* kind of every job
  pc,            \* what every job is at
  newchan,       \* the channel an open job has created
  pool,          \* the thread pool's queue
  chst,          \* life of every channel as a job source
  up,            \* is the client's end of the socket open?
  connClosed,    \* priv->connection_closed of a channel
  handle,        \* is priv->backend_handle of a channel non-NULL?
  queue          \* priv->queued_requests of a channel

backendVars == <<autounmount, blockRequests, idleId, activityCount>>
daemonVars  == <<backendSource, exitTag, exited>>
jobVars     == <<kind, pc, newchan, pool>>
chanVars    == <<chst, up, connClosed, handle, queue>>
vars == <<phase, backendVars, checks, forced, daemonVars, jobVars, chanVars>>

Phases == {"mounting",     \* the backend's mount() is at work
           "registering",  \* RegisterMount sent to the mount tracker
           "registered",   \* accepted by the tracker, reply under way
           "mounted", "failed"}
Kinds  == {"op", "open", "unmount", "request", "close", "error"}
PCs    == {"unused",   \* no job in this slot
           "async",    \* try() took it; it completes on the main loop
           "pool",     \* waiting for a pool thread
           "run",      \* on a pool thread
           "started",  \* channel added on a thread, activity_started to come
           "finish",   \* thread about to emit finished
           "post",     \* counter decremented, idle check not yet posted
           "remove",   \* about to leave daemon->jobs
           "wait",     \* unmount waiting for the show-processes answer
           "unreg",    \* unmount waiting for the UnregisterMount answer
           "reply",    \* channel job whose reply is being written
           "orphan"}   \* job created by a channel that is no longer a source
ChanStates == {"none",       \* not created
               "added",      \* in job_sources, activity not yet counted
               "active",     \* in job_sources and counted
               "preclosed",  \* force-closed between the two
               "closed"}     \* removed from job_sources
Requests == {"data", "close"}

(* What a state may look like: every variable has its type.                *)
FlagsOK ==
  /\ autounmount \in BOOLEAN /\ blockRequests \in BOOLEAN
  /\ idleId \in BOOLEAN
  /\ backendSource \in BOOLEAN /\ exitTag \in BOOLEAN /\ exited \in BOOLEAN

DataOK ==
  /\ phase \in Phases
  /\ activityCount \in Int /\ checks \in Nat /\ forced \in Nat
  /\ kind \in [JobIds -> Kinds]
  /\ pc \in [JobIds -> PCs]
  /\ newchan \in [Jobs -> Channels \cup {NoChannel}]
  /\ pool \in Seq(JobIds)
  /\ chst \in [Channels -> ChanStates]
  /\ up \in [Channels -> BOOLEAN]
  /\ connClosed \in [Channels -> BOOLEAN]
  /\ handle \in [Channels -> BOOLEAN]
  /\ queue \in [Channels -> Seq(Requests)]

TypeOK == FlagsOK /\ DataOK

-----------------------------------------------------------------------------
(* Jobs and sources of the daemon.                                         *)

InList(j) == pc[j] \notin {"unused", "orphan"}

(* The jobs whose activity_started has not been matched yet. *)
CountedPCs == PCs \ {"unused", "post", "remove", "orphan"}
CountedJobs == {j \in JobIds : pc[j] \in CountedPCs}

IsSource(c) == chst[c] \in {"added", "active"}
OnThread == {"run", "started", "finish", "post", "remove"}
Threads == {j \in JobIds : pc[j] \in OnThread}

(* g_vfs_daemon_has_blocking_processes: any job that is not an unmount,    *)
(* the mount job (which lives until phase "mounted") included.             *)
HasBlockingProcesses ==
  \/ phase # "mounted"
  \/ \E j \in JobIds : InList(j) /\ kind[j] # "unmount"

(* Does a D-Bus call pass g_vfs_backend_invocation_first_handler, and is   *)
(* there a job source to take its job?                                     *)
AcceptsRequests ==
  /\ phase \in {"registered", "mounted"}
  /\ backendSource
  /\ ~blockRequests

CheckIdle_NoCount(idle, blk, count) ==
  IF ~autounmount \/ blk THEN idle ELSE TRUE
CheckIdle_OnlyCancels(idle, blk, count) == idle /\ count = 0

(* backend_check_idle: the timer state it leaves behind *)
CheckIdle(idle, blk, count) ==
  IF ~autounmount \/ blk THEN idle ELSE count = 0

(* g_vfs_daemon_queue_job after activity_started: try() either takes the   *)
(* job, which then completes on the main loop, or it goes to the pool.     *)
QueueJob(j, k, way) ==
  /\ kind' = [kind EXCEPT ![j] = k]
  /\ pc' = [pc EXCEPT ![j] = way]
  /\ pool' = IF way = "pool" THEN Append(pool, j) ELSE pool

ActivityStarted ==
  /\ activityCount' = activityCount + 1
  /\ idleId' = FALSE

(* A job emits "finished" on the main loop: the count falls, the idle      *)
(* check runs, and the job leaves daemon->jobs.                            *)
FinishOnMain(j, blk) ==
  /\ pc' = [pc EXCEPT ![j] = "unused"]
  /\ activityCount' = activityCount - 1
  /\ idleId' = CheckIdle(idleId, blk, activityCount - 1)

-----------------------------------------------------------------------------
(* Mounting.                                                               *)

Init ==
  /\ phase = "mounting"
  /\ autounmount = FALSE /\ blockRequests = FALSE
  /\ idleId = FALSE /\ activityCount = 0
  /\ checks = 0 /\ forced = 0
  /\ backendSource = TRUE /\ exitTag = FALSE /\ exited = FALSE
  /\ kind = [j \in JobIds |-> "op"]
  /\ pc = [j \in JobIds |-> "unused"]
  /\ newchan = [j \in Jobs |-> NoChannel]
  /\ pool = << >>
  /\ chst = [c \in Channels |-> "none"]
  /\ up = [c \in Channels |-> FALSE]
  /\ connClosed = [c \in Channels |-> FALSE]
  /\ handle = [c \in Channels |-> FALSE]
  /\ queue = [c \in Channels |-> << >>]

(* The backend's mount() succeeds; auto: it has called                     *)
(* g_vfs_backend_set_autounmount (backend, TRUE).                          *)
MountSucceeded(auto) ==
  /\ ~exited
  /\ phase = "mounting"
  /\ phase' = "registering"
  /\ autounmount' = auto
  /\ idleId' = (auto /\ ~blockRequests /\ activityCount = 0)
  /\ UNCHANGED <<blockRequests, activityCount, checks, forced, daemonVars,
                 jobVars, chanVars>>

(* mount_failed: the backend leaves the daemon and, finalized, drops its   *)
(* timer; it was the only source, so the exit is scheduled.                *)
MountFailed ==
  /\ ~exited
  /\ phase \in {"mounting", "registering"}
  /\ phase' = "failed"
  /\ backendSource' = FALSE
  /\ exitTag' = TRUE
  /\ idleId' = FALSE
  /\ UNCHANGED <<autounmount, blockRequests, activityCount, checks, forced,
                 exited, jobVars, chanVars>>

(* The tracker accepts RegisterMount and announces the mount to clients.   *)
RegisterAccepted ==
  /\ ~exited
  /\ phase = "registering"
  /\ phase' = "registered"
  /\ UNCHANGED <<backendVars, checks, forced, daemonVars, jobVars, chanVars>>

RegisterMountCallback ==
  /\ ~exited
  /\ phase = "registered"
  /\ phase' = "mounted"
  /\ UNCHANGED <<backendVars, checks, forced, daemonVars, jobVars, chanVars>>

-----------------------------------------------------------------------------
(* Jobs that arrive over D-Bus.                                            *)

NewJob(j, k, way) ==
  /\ ~exited
  /\ pc[j] = "unused"
  /\ AcceptsRequests
  /\ ActivityStarted
  /\ QueueJob(j, k, way)
  /\ UNCHANGED <<phase, autounmount, blockRequests, checks, forced,
                 daemonVars, newchan, chanVars>>

(* A job completes on the main loop without creating a channel. *)
JobDoneMain(j) ==
  /\ ~exited
  /\ pc[j] = "async"
  /\ FinishOnMain(j, blockRequests)
  /\ UNCHANGED <<phase, autounmount, blockRequests, checks, forced,
                 daemonVars, kind, newchan, pool, chanVars>>

(* An open completes on the main loop: create_reply makes the channel,     *)
(* new-source adds it (cancelling a scheduled exit) and counts it, the     *)
(* client gets its fd, and the job finishes.                               *)
OpenDoneMain(j, c) ==
  /\ ~exited
  /\ pc[j] = "async" /\ kind[j] = "open"
  /\ chst[c] = "none"
  /\ chst' = [chst EXCEPT ![c] = "active"]
  /\ up' = [up EXCEPT ![c] = TRUE]
  /\ handle' = [handle EXCEPT ![c] = TRUE]
  /\ exitTag' = FALSE
  /\ pc' = [pc EXCEPT ![j] = "unused"]
  /\ idleId' = CheckIdle(FALSE, blockRequests, activityCount)
  /\ UNCHANGED <<phase, autounmount, blockRequests, activityCount, checks,
                 forced, backendSource, exited, kind, newchan, pool,
                 connClosed, queue>>

-----------------------------------------------------------------------------
(* The pool threads.                                                       *)

(* job_handler_callback picks the oldest queued job. *)
StartRun ==
  /\ ~exited
  /\ pool # << >>
  /\ Cardinality(Threads) < MaxThreads
  /\ pool' = Tail(pool)
  /\ pc' = [pc EXCEPT ![Head(pool)] = "run"]
  /\ UNCHANGED <<phase, backendVars, checks, forced, daemonVars, kind,
                 newchan, chanVars>>

(* run() replies without a new source (any job but an unmount). *)
RunJob(j) ==
  /\ ~exited
  /\ pc[j] = "run" /\ kind[j] \in {"op", "open"}
  /\ pc' = [pc EXCEPT ![j] = "finish"]
  /\ UNCHANGED <<phase, backendVars, checks, forced, daemonVars, kind,
                 newchan, pool, chanVars>>

(* run() of an open succeeds: create_reply emits new-source and            *)
(* g_vfs_daemon_add_job_source adds the channel under the daemon's lock.   *)
RunOpen(j, c) ==
  /\ ~exited
  /\ pc[j] = "run" /\ kind[j] = "open"
  /\ chst[c] = "none"
  /\ chst' = [chst EXCEPT ![c] = "added"]
  /\ handle' = [handle EXCEPT ![c] = TRUE]
  /\ newchan' = [newchan EXCEPT ![j] = c]
  /\ exitTag' = FALSE
  /\ pc' = [pc EXCEPT ![j] = "started"]
  /\ UNCHANGED <<phase, backendVars, checks, forced, backendSource, exited,
                 kind, pool, up, connClosed, queue>>

(* The rest of job_new_source_callback: g_vfs_backend_activity_started on  *)
(* a thread counts the channel and marshals an idle check; then the reply  *)
(* hands the client its end of the socket.                                 *)
ChannelStarted(j) ==
  /\ ~exited
  /\ pc[j] = "started"
  /\ checks < MaxChecks
  /\ checks' = checks + 1
  /\ activityCount' = activityCount + 1
  /\ LET c == newchan[j] IN
       /\ chst' = [chst EXCEPT ![c] = IF @ = "added" THEN "active" ELSE "closed"]
       /\ up' = [up EXCEPT ![c] = (chst[c] = "added")]
  /\ newchan' = [newchan EXCEPT ![j] = NoChannel]
  /\ pc' = [pc EXCEPT ![j] = "finish"]
  /\ UNCHANGED <<phase, autounmount, blockRequests, idleId, forced,
                 daemonVars, kind, pool, connClosed, handle, queue>>

(* g_vfs_job_emit_finished on a thread, handler by handler:                *)
(* backend_activity_finished_cb was connected first.                       *)
FinishThread(j) ==
  /\ ~exited
  /\ pc[j] = "finish"
  /\ activityCount' = activityCount - 1
  /\ pc' = [pc EXCEPT ![j] = "post"]
  /\ UNCHANGED <<phase, autounmount, blockRequests, idleId, checks, forced,
                 daemonVars, kind, newchan, pool, chanVars>>

PostCheck(j) ==
  /\ ~exited
  /\ pc[j] = "post"
  /\ checks < MaxChecks
  /\ checks' = checks + 1
  /\ pc' = [pc EXCEPT ![j] = "remove"]
  /\ UNCHANGED <<phase, backendVars, forced, daemonVars, kind, newchan, pool,
                 chanVars>>

(* job_finished_callback *)
RemoveJob(j) ==
  /\ ~exited
  /\ pc[j] = "remove"
  /\ pc' = [pc EXCEPT ![j] = "unused"]
  /\ UNCHANGED <<phase, backendVars, checks, forced, daemonVars, kind,
                 newchan, pool, chanVars>>

ActivityCheckMain_Unposted ==
  /\ ~exited
  /\ checks' = checks - 1
  /\ idleId' = CheckIdle(idleId, blockRequests, activityCount)
  /\ UNCHANGED <<phase, autounmount, blockRequests, activityCount, forced,
                 daemonVars, jobVars, chanVars>>

(* activity_check_main on the main loop *)
ActivityCheckMain ==
  /\ ~exited
  /\ checks > 0
  /\ checks' = checks - 1
  /\ idleId' = CheckIdle(idleId, blockRequests, activityCount)
  /\ UNCHANGED <<phase, autounmount, blockRequests, activityCount, forced,
                 daemonVars, jobVars, chanVars>>

-----------------------------------------------------------------------------
(* Unmounting.                                                             *)

(* What try() and unmount_cb do once nothing stands in the way: without an *)
(* unmount() method the job succeeds at once (as try_unmount of sftp and   *)
(* nfs do), otherwise requests are blocked and the job goes to the pool;   *)
(* send_reply of a success blocks requests and unregisters the mount.      *)
ProceedUnmount(j) ==
  /\ blockRequests' = TRUE
  /\ QueueJob(j, "unmount", IF ThreadedUnmount THEN "pool" ELSE "unreg")

(* try() of an unmount job: a busy mount is refused outright when there is *)
(* no GMountOperation to ask (dummy), unless force is given.               *)
NewUnmount(j, force, dummy) ==
  /\ ~exited
  /\ pc[j] = "unused"
  /\ AcceptsRequests
  /\ LET busy == HasBlockingProcesses /\ ~force IN
     \/ /\ busy /\ dummy
        /\ idleId' = CheckIdle(FALSE, FALSE, activityCount)
        /\ UNCHANGED <<blockRequests, activityCount, kind, pc, pool>>
     \/ /\ busy /\ ~dummy
        /\ ActivityStarted
        /\ QueueJob(j, "unmount", "wait")
        /\ UNCHANGED blockRequests
     \/ /\ ~busy
        /\ ActivityStarted
        /\ ProceedUnmount(j)
  /\ UNCHANGED <<phase, autounmount, checks, forced, daemonVars, newchan,
                 chanVars>>

(* The user chose "Unmount Anyway", or the blocking processes went away.   *)
ShowProcessesProceed(j) ==
  /\ ~exited
  /\ pc[j] = "wait"
  /\ ProceedUnmount(j)
  /\ UNCHANGED <<phase, autounmount, idleId, activityCount, checks, forced,
                 daemonVars, newchan, chanVars>>

(* The dialog was cancelled or could not be shown: the job fails and       *)
(* send_reply lifts the blocking of requests.                              *)
ShowProcessesAbort(j) ==
  /\ ~exited
  /\ pc[j] = "wait"
  /\ blockRequests' = FALSE
  /\ FinishOnMain(j, FALSE)
  /\ UNCHANGED <<phase, autounmount, checks, forced, daemonVars, kind,
                 newchan, pool, chanVars>>

(* The backend's unmount() answers on a pool thread.                       *)
RunUnmountSucceeded(j) ==
  /\ ~exited
  /\ pc[j] = "run" /\ kind[j] = "unmount"
  /\ blockRequests' = TRUE
  /\ pc' = [pc EXCEPT ![j] = "unreg"]
  /\ UNCHANGED <<phase, autounmount, idleId, activityCount, checks, forced,
                 daemonVars, kind, newchan, pool, chanVars>>

RunUnmountFailed(j) ==
  /\ ~exited
  /\ pc[j] = "run" /\ kind[j] = "unmount"
  /\ blockRequests' = FALSE
  /\ pc' = [pc EXCEPT ![j] = "finish"]
  /\ UNCHANGED <<phase, autounmount, idleId, activityCount, checks, forced,
                 daemonVars, kind, newchan, pool, chanVars>>

(* g_vfs_daemon_close_active_channels and then g_vfs_job_source_closed of  *)
(* the backend. Every channel in job_sources is shut down, loses its       *)
(* queued requests and its source; a source that is already gone has no    *)
(* "closed" handler any more. The exit is scheduled when the last source   *)
(* goes. n: activity given up by the caller just before.                   *)
CloseActiveChannels(n) ==
  LET open  == {c \in Channels : IsSource(c)}
      count == activityCount - n - Cardinality(open)
  IN
  /\ chst' = [c \in Channels |->
                CASE chst[c] = "added"  -> "preclosed"
                  [] chst[c] = "active" -> "closed"
                  [] OTHER              -> chst[c]]
  /\ up' = [c \in Channels |-> up[c] /\ c \notin open]
  /\ queue' = [c \in Channels |-> IF c \in open THEN << >> ELSE queue[c]]
  /\ activityCount' = count
  /\ idleId' = IF n = 0 /\ open = {} THEN idleId
               ELSE CheckIdle(idleId, blockRequests, count)
  /\ backendSource' = FALSE
  /\ exitTag' = (exitTag \/ backendSource \/ open # {})
  /\ UNCHANGED <<blockRequests, connClosed, handle>>

(* unregister_mount_callback: reply to the unmount (finishing its job),    *)
(* close the channels, take the backend out of the daemon. An error of     *)
(* UnregisterMount is only logged.                                         *)
UnregisterMountCallback(j) ==
  /\ ~exited
  /\ pc[j] = "unreg"
  /\ pc' = [pc EXCEPT ![j] = "unused"]
  /\ CloseActiveChannels(1)
  /\ UNCHANGED <<phase, autounmount, checks, forced, exited, kind, newchan,
                 pool>>

(* g_vfs_backend_force_unmount *)
ForceUnmount ==
  /\ forced < MaxForced
  /\ forced' = forced + 1
  /\ blockRequests' = TRUE

(* The backend itself lost its connection or device. *)
BackendLost ==
  /\ ~exited
  /\ phase = "mounted" /\ backendSource
  /\ ForceUnmount
  /\ UNCHANGED <<phase, autounmount, idleId, activityCount, checks,
                 daemonVars, jobVars, chanVars>>

(* idle_unmount_cb. The timer runs 600 s, a D-Bus call times out after     *)
(* 25 s, so it cannot expire while RegisterMount is outstanding.           *)
IdleUnmountCb ==
  /\ ~exited
  /\ idleId /\ phase = "mounted"
  /\ idleId' = FALSE
  /\ \/ blockRequests /\ UNCHANGED <<blockRequests, forced>>
     \/ ~blockRequests /\ ForceUnmount
  /\ UNCHANGED <<phase, autounmount, activityCount, checks, daemonVars,
                 jobVars, chanVars>>

ForcedUnregisterMountCallback ==
  /\ ~exited
  /\ forced > 0
  /\ forced' = forced - 1
  /\ CloseActiveChannels(0)
  /\ UNCHANGED <<phase, autounmount, checks, exited, jobVars>>

(* exit_at_idle *)
ExitAtIdle ==
  /\ ~exited
  /\ exitTag
  /\ exited' = TRUE
  /\ UNCHANGED <<phase, backendVars, checks, forced, backendSource, exitTag,
                 jobVars, chanVars>>

-----------------------------------------------------------------------------
(* Channels.                                                               *)

(* g_vfs_job_source_new_job of a channel, starting from the given count    *)
(* and timer: only a channel still in job_sources has a "new_job" handler. *)
ChannelNewJob(c, k, way, count, idle) ==
  IF chst[c] = "active"
    THEN /\ QueueJob(c, k, way)
         /\ activityCount' = count + 1
         /\ idleId' = FALSE
    ELSE /\ QueueJob(c, k, "orphan")
         /\ activityCount' = count
         /\ idleId' = idle

(* The job start_queued_request makes of a request. *)
StartRequest(c, r, way, count, idle) ==
  IF blockRequests
    THEN ChannelNewJob(c, "error", "reply", count, idle)
    ELSE ChannelNewJob(c, IF r = "close" THEN "close" ELSE "request", way,
                       count, idle)

(* got_request: the client's request is queued and, with no job at work,   *)
(* started.                                                                *)
GotRequest(c, r, way) ==
  /\ ~exited
  /\ chst[c] = "active" /\ up[c] /\ ~connClosed[c]
  /\ IF pc[c] = "unused"
       THEN /\ StartRequest(c, r, way, activityCount, idleId)
            /\ UNCHANGED queue
       ELSE /\ Len(queue[c]) < MaxQueue
            /\ queue' = [queue EXCEPT ![c] = Append(@, r)]
            /\ UNCHANGED <<activityCount, idleId, kind, pc, pool>>
  /\ UNCHANGED <<phase, autounmount, blockRequests, checks, forced,
                 daemonVars, newchan, chst, up, connClosed, handle>>

(* The client closes its end. *)
ClientDrop(c) ==
  /\ ~exited
  /\ up[c]
  /\ up' = [up EXCEPT ![c] = FALSE]
  /\ UNCHANGED <<phase, backendVars, checks, forced, daemonVars, jobVars,
                 chst, connClosed, handle, queue>>

(* g_vfs_channel_connection_closed, on the end of the command stream       *)
ConnectionClosed(c, way) ==
  /\ ~exited
  /\ chst[c] \in {"active", "preclosed", "closed"}
  /\ ~up[c] /\ ~connClosed[c]
  /\ connClosed' = [connClosed EXCEPT ![c] = TRUE]
  /\ IF ~blockRequests /\ pc[c] = "unused" /\ handle[c]
       THEN ChannelNewJob(c, "close", way, activityCount, idleId)
       ELSE UNCHANGED <<activityCount, idleId, kind, pc, pool>>
  /\ UNCHANGED <<phase, autounmount, blockRequests, checks, forced,
                 daemonVars, newchan, chst, up, handle, queue>>

(* A channel's job calls g_vfs_job_succeeded or _failed, on the main loop  *)
(* or on a thread: its reply goes to the socket.                           *)
ChannelJobDone(c) ==
  /\ ~exited
  /\ pc[c] \in {"async", "run"}
  /\ pc' = [pc EXCEPT ![c] = "reply"]
  /\ UNCHANGED <<phase, backendVars, checks, forced, daemonVars, kind,
                 newchan, pool, chanVars>>

NoOtherSource_Never(c) == FALSE

NoOtherSource(c) ==
  ~backendSource /\ \A d \in Channels \ {c} : ~IsSource(d)

SourceActivity_Twice(c) == 1

(* The activity job_source_closed_callback gives up: a channel that is no  *)
(* longer a source has no such handler any more.                           *)
SourceActivity(c) == IF IsSource(c) THEN 1 ELSE 0

(* connection_closed, which a failed write sets *)
MustClose(c, failed) == connClosed[c] \/ failed

(* send_reply_cb of a close job: the job finishes, the channel leaves      *)
(* job_sources (if it is still there) and gives up its handle.             *)
SendReplyCbClose(c) ==
  /\ ~exited
  /\ pc[c] = "reply" /\ kind[c] = "close"
  /\ pc' = [pc EXCEPT ![c] = "unused"]
  /\ handle' = [handle EXCEPT ![c] = FALSE]
  /\ LET count == activityCount - 1 - SourceActivity(c) IN
       /\ activityCount' = count
       /\ idleId' = CheckIdle(idleId, blockRequests, count)
  /\ chst' = [chst EXCEPT ![c] = "closed"]
  /\ exitTag' = (exitTag \/ (IsSource(c) /\ NoOtherSource(c)))
  /\ UNCHANGED <<phase, autounmount, blockRequests, checks, forced,
                 backendSource, exited, kind, newchan, pool, up, connClosed,
                 queue>>

(* send_reply_cb of any other job; failed: the write did not go through.   *)
(* The job finishes; then a channel whose connection is gone is closed,    *)
(* the next queued request is started, or a read channel reads ahead.      *)
SendReplyCb(c, failed, readahead, way) ==
  /\ ~exited
  /\ pc[c] = "reply" /\ kind[c] # "close"
  /\ failed => ~up[c]
  /\ connClosed' = [connClosed EXCEPT ![c] = @ \/ failed]
  /\ LET count == activityCount - 1
         idle  == CheckIdle(idleId, blockRequests, count)
     IN
     \/ /\ MustClose(c, failed)
        /\ ChannelNewJob(c, "close", way, count, idle)
        /\ UNCHANGED queue
     \/ /\ ~MustClose(c, failed) /\ queue[c] # << >>
        /\ StartRequest(c, Head(queue[c]), way, count, idle)
        /\ queue' = [queue EXCEPT ![c] = Tail(@)]
     \/ /\ ~MustClose(c, failed) /\ queue[c] = << >> /\ readahead
        /\ kind[c] = "request"
        /\ ChannelNewJob(c, "request", way, count, idle)
        /\ UNCHANGED queue
     \/ /\ ~MustClose(c, failed) /\ queue[c] = << >> /\ ~readahead
        /\ pc' = [pc EXCEPT ![c] = "unused"]
        /\ activityCount' = count
        /\ idleId' = idle
        /\ UNCHANGED <<kind, pool, queue>>
  /\ UNCHANGED <<phase, autounmount, blockRequests, checks, forced,
                 daemonVars, newchan, chst, up, handle>>

-----------------------------------------------------------------------------
Ways == {"async", "pool"}

MainStep ==
  \/ \E auto \in BOOLEAN : MountSucceeded(auto)
  \/ MountFailed \/ RegisterAccepted \/ RegisterMountCallback
  \/ \E j \in Jobs, k \in {"op", "open"}, w \in Ways : NewJob(j, k, w)
  \/ \E j \in Jobs : JobDoneMain(j)
  \/ \E j \in Jobs, c \in Channels : OpenDoneMain(j, c)
  \/ ActivityCheckMain

ThreadStep(j) ==
  \/ RunJob(j)
  \/ \E c \in Channels : RunOpen(j, c)
  \/ ChannelStarted(j) \/ FinishThread(j) \/ PostCheck(j) \/ RemoveJob(j)
  \/ RunUnmountSucceeded(j) \/ RunUnmountFailed(j)

UnmountStep ==
  \/ \E j \in Jobs, f \in BOOLEAN, d \in BOOLEAN : NewUnmount(j, f, d)
  \/ \E j \in Jobs : ShowProcessesProceed(j) \/ ShowProcessesAbort(j)
  \/ \E j \in Jobs : UnregisterMountCallback(j)
  \/ BackendLost \/ IdleUnmountCb \/ ForcedUnregisterMountCallback
  \/ ExitAtIdle

ChannelStep(c) ==
  \/ \E r \in Requests, w \in Ways : GotRequest(c, r, w)
  \/ ClientDrop(c)
  \/ \E w \in Ways : ConnectionClosed(c, w)
  \/ ChannelJobDone(c)
  \/ SendReplyCbClose(c)
  \/ \E f \in BOOLEAN, ra \in BOOLEAN, w \in Ways : SendReplyCb(c, f, ra, w)

(* The process has left its main loop: nothing more happens. *)
Exited == exited /\ UNCHANGED vars

Next ==
  \/ MainStep \/ UnmountStep \/ StartRun
  \/ \E j \in Jobs : ThreadStep(j)
  \/ \E c \in Channels : ChannelStep(c)
  \/ Exited

Spec == Init /\ [][Next]_vars

-----------------------------------------------------------------------------
(* Properties.                                                             *)

ActiveChannels == {c \in Channels : chst[c] = "active"}
PreclosedChannels == {c \in Channels : chst[c] = "preclosed"}

(* The atomic counter that decides about auto-unmounting is exact at every *)
(* step: one unit per unfinished job and per channel in job_sources, and   *)
(* one short for a channel that was force-closed before its opening thread *)
(* reached activity_started. No path counts anything twice or forgets it   *)
(* (gvfsdaemon.c: job_source_new_job_callback, job_new_source_callback,    *)
(* job_source_closed_callback).                                            *)
ActivityExact ==
  activityCount = Cardinality(CountedJobs) + Cardinality(ActiveChannels)
                    - Cardinality(PreclosedChannels)

(* The idle timer of a mounted backend runs only while no job is queued or *)
(* running and no channel is open: idle_unmount_cb need not look again     *)
(* (docs: "the backend is considered idle when ...").                      *)
IdleMeansInactive ==
  idleId /\ backendSource => CountedJobs = {} /\ ActiveChannels = {}

(* No wake-up is lost: an inactive auto-unmounting backend that accepts    *)
(* requests has its timer running, or an idle check is on its way to the   *)
(* main loop, whichever thread ended the activity.                         *)
IdleIsArmed ==
  /\ autounmount /\ ~blockRequests /\ backendSource
  /\ activityCount = 0
  => idleId \/ checks > 0 \/ \E j \in Jobs : pc[j] = "post"

(* A daemon whose last source is gone has its exit scheduled, even when a  *)
(* thread adds a channel after the unmount emptied the list.               *)
ExitIsScheduled ==
  ~backendSource /\ (\A c \in Channels : ~IsSource(c)) => exitTag

(* gvfsjobunmount.c:282: "We're going to run the backend's unmount method  *)
(* on a thread, block new jobs coming in."                                 *)
BlockedWhileUnmounting ==
  \A j \in Jobs : kind[j] = "unmount" /\ pc[j] \in {"pool", "run", "unreg"}
                  => blockRequests

-----------------------------------------------------------------------------
(* The parts of the inductive invariant behind the properties above.       *)

(* The pool queues jobs that are waiting for it, each once. *)
PoolInv ==
  /\ \A i \in DOMAIN pool : pc[pool[i]] = "pool"
  /\ \A i, k \in DOMAIN pool : pool[i] = pool[k] => i = k

(* The opening thread between add_job_source and activity_started owns a   *)
(* channel of its own, uncounted or closed ahead of time.                  *)
NewChanInv ==
  /\ \A j \in Jobs : pc[j] = "started" =>
       newchan[j] \in Channels /\ chst[newchan[j]] \in {"added", "preclosed"}
  /\ \A j, k \in Jobs : pc[j] = "started" /\ pc[k] = "started"
                          /\ newchan[j] = newchan[k] => j = k

(* A channel has jobs only once its client has it. *)
ChannelInv ==
  \A c \in Channels :
    /\ InList(c) => chst[c] \in {"active", "closed"}
    /\ pc[c] # "started"
    /\ backendSource => chst[c] # "preclosed"

IdleInv == idleId /\ backendSource => activityCount = 0

StructInv == PoolInv /\ NewChanInv /\ ChannelInv

IInv == TypeOK /\ StructInv /\ ActivityExact /\ IdleInv
=============================================================================
