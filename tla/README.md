# A verification project for GVfs

GVfs gives GIO applications access to files on servers and devices. A session
runs one *master daemon* (`gvfsd`), one *mount daemon* per mounted location or
backend type (`gvfsd-sftp`, `gvfsd-trash`, ...), optional helpers (a FUSE
daemon, a metadata daemon, volume monitors), and a client library inside every
application. This directory holds TLA+ models of the parts whose correctness
depends on the order in which things happen, TLC configurations that check
them on small instances, and TLAPS proofs for all instances. Paths below are
relative to `src/`.

## 1. Inventory

### 1.1 Components

| Component | State it keeps | Operations | Modelled in |
|---|---|---|---|
| Mount daemon core: `daemon/gvfsdaemon.c`, `gvfsjob.c`, `gvfsjobsource.c`, `gvfsjobdbus.c` | list of jobs, list of job sources (the backend and its open channels), thread pool, exit timer | take a job from a source, `try()` it on the main loop or `run()` it on a thread, remove it when finished, add and drop sources, exit when none is left | `MountDaemon` |
| Backend base class: `daemon/gvfsbackend.c` | `block_requests`, `activity_count`, `idle_id`, `autounmount`, mount spec | register and unregister the mount, count activity, unmount when idle, forced unmount, show-processes dialog | `MountDaemon`, the dialog in `MountOperation` |
| Mount and unmount jobs: `gvfsjobmount.c`, `gvfsjobunmount.c` | their stage | mount, register, reply; ask the user, block requests, unmount, unregister, close channels | `MountDaemon` |
| D-Bus jobs: `gvfsjob*.c` | arguments, result | one life cycle for all of them | `MountDaemon` (kinds `op`, `open`) |
| Channel: `daemon/gvfschannel.c` | queued requests, current job, `connection_closed`, reply being written | take requests, cancel, start the next, reply, readahead, close | `MountDaemon` (as a job source), `ReadStream`, `WriteStream` (as a protocol end) |
| Read channel and client input stream: `gvfsreadchannel.c`, `client/gdaemonfileinputstream.c` | position, seek generations, sequence number, pre-read blocks, partial block, output buffer | read, seek, query_info, close, each a state machine that may be cancelled; readahead | `ReadStream`, `FileStream` |
| Write channel and client output stream: `gvfswritechannel.c`, `client/gdaemonfileoutputstream.c` | offset, buffers, one request outstanding | write, seek, truncate, query, close | `WriteStream` |
| Mount tracker: `daemon/mount.c`, `main.c`, `daemon-main.c` | registered mounts, mounts in progress with their waiting callers, mountables | RegisterMount, UnregisterMount, LookupMount with automount, MountLocation, spawning, reload | `MountTracker` |
| Client VFS and connections: `client/gdaemonvfs.c`, `gvfsdaemondbus.c` | cached mount infos, connections per thread and shared | look up, invalidate, retry | `ClientCalls` |
| Enumeration: `gvfsjobenumerate.c`, `client/gdaemonfileenumerator.c` | infos received, done flag, the read under way | batches over D-Bus, next_files, cancel, time out, close | `Enumerator` |
| Monitors: `daemon/gvfsmonitor.c`, `client/gdaemonfilemonitor.c` | subscribers, references | create, subscribe, emit, unsubscribe, disconnect | `FileMonitor` |
| Mount operation proxy: `common/gmountsource.c`, `gmountoperationdbus.c` | pending question | ask password, ask question, show processes, abort | `MountOperation` |
| Metadata store: `metadata/` | memory-mapped tree and journal, rotated flag | set, unset, copy, remove, flush and rotate, reread | `MetaStore`, `MetaJournal` |
| FUSE daemon: `client/gvfsfusedaemon.c` | file handles with position, size and stream | open, read, write, truncate, rename, release | `FuseHandles`, `FuseFile` |
| Remote volume monitor: `monitor/proxy/` | replica of drives, volumes, mounts; operations under way | signals in, operations out, recovery from a lost name | `ProxyMonitor`, `ProxyOps` |
| SFTP backend | expected replies, two ssh processes, handles | login, jobs, replace, pull, push, failure of ssh | `SftpConnection`, `SftpLogin`, `SftpJobs`, `SftpReplace`, `SftpPull`, `SftpPush` |
| FTP backend | connection pool, directory cache, chosen methods | login, acquire and release connections, transfers, file operations | `FtpPool`, `FtpLogin`, `FtpData`, `FtpFiles` |
| NFS backend | poll source, chains of callbacks | mount, jobs, replace | `NfsJobs`, `NfsReplace` |
| WebDAV backend | the share's root, credentials, requests under way | mount, write, move, copy, delete, push | `DavMount`, `DavFiles` |
| Google Drive and OneDrive backends | caches of items and names, stamps, monitors | lookups, listings, changes | `GoogleCache`, `OneDriveCache` |
| AFP backend | request queue and table, login, volumes, forks | send, dispatch, close; login; file operations | `AfpConnection`, `AfpLogin`, `AfpBrowse`, `AfpFiles`, `AfpForks` |
| gphoto2 and MTP backends | caches of infos and objects, handles, device events | listings, writes, renames, deletions | `Gphoto2`, `Mtp`, `MtpHandles` |
| Other backends, native volume monitors, client mount tracker, URI mapping, serialisation | see `PROJECT.json` | one library call or conversion per operation | not modelled (section 8) |

### 1.2 How they interact

An application's `GDaemonFile` asks `gvfsd` which daemon serves a location
(LookupMount, possibly mounting it first), connects to that daemon with a
private D-Bus connection and sends the operation, which becomes a *job*. A job
that opens a file creates a *channel*: one end of a socket pair whose other end
goes to the client's stream. From then on stream and channel talk a binary
protocol of requests and replies without D-Bus. Everything in a daemon happens
on its main loop, except that jobs whose `try()` declines run on pool threads;
they touch the daemon's lists under a lock, an atomic counter, and post idle
checks to the main loop. A backend answers its jobs from callbacks of a library
(libsoup, libnfs), from its own connection (SFTP, AFP), or from threads that
block (FTP, gphoto2, MTP).

### 1.3 What is hard

* **Threads against the main loop.** A job on a thread adds a channel and counts
  it in two steps; another finishes, decrements the counter and posts a check
  in three. In between the main loop may start an unmount, force-close
  channels, expire the idle timer or schedule the exit.
* **Several unmounts.** Each may wait for a user's answer, block requests, fail
  and unblock; a forced unmount may come from the idle timer or from a backend
  that lost its server.
* **Ends of connections.** A client, a daemon, gvfsd, a server or a volume
  monitor may vanish at any point, and what it had under way must be answered,
  dropped or taken over.
* **The pipelined stream.** Replies may be to requests given up, readaheads may
  be the data a later read wants, data of an older seek generation must be
  skipped whatever part of it has been consumed, and cancellation races all of
  it.
* **Chains of requests.** A backend's job looks at a file and acts on it in
  different requests; others change the file in between, and any request may
  fail and leave the chain half done.
* **Caches.** What is remembered of a server, a drive or a device must be
  forgotten when it changes, by the backend or by others.

`PROJECT.json` lists each hazard at its line together with the properties that
cover it.

### 1.4 What makes the components correct

* Daemon: the activity counter is exact; the idle timer runs only when nothing
  is active, and always then; an empty daemon is about to exit; new jobs are
  kept out while the backend unmounts; a channel without a client is closed; an
  unmount is answered.
* Streams: seen by its user a stream is a plain file; requests are answered once
  and in order; client and channel agree on generation and offset; every
  operation returns.
* Mount tracker: at most one mount per spec, each caller answered once, no
  mount of a daemon that has gone.
* Metadata: a reader sees a tree together with its own journal; no acknowledged
  change is lost by a rotation or a crash.
* Backends: a reply goes to its own request; a job is answered once; old or new
  content is there at any time; nothing is overwritten that was not asked for;
  passwords go only where they belong; caches do not contradict what they cache.

## 2. How the project is built

One module per component. `ReadStream` implements the abstract `FileStream`
(refinement, checked as a `PROPERTY` and proved step by step in `ReadStreamProofs`). Five modules are checked on their own:
`MountDaemon`, `ReadStream`, `MountTracker`, `FileMonitor` and `ClientCalls`. The
others are instantiated by four *family* modules, `MCClient`, `MCServices`,
`MCServers` and `MCDevices`, and all that must end by `MCLiveness`: a family has
one *part* for each instance of a component, with the constants of that
instance; a behaviour chooses its `part` at the start and runs that component
only. The variables of the other parts stay 0. So one TLC run asks one question
of a family ("is content ever lost?") of all its components, and a property of a
family is a conjunction of the components' own invariants or step properties,
one line per part. The constant `Parts` of the configuration names the parts; to
look at one component alone, name only its part.

Proofs stand in modules of their own for the two core components
(`MountDaemonProofs`, `ReadStreamProofs`), and at the end of the component's module
for six others: `MountTracker`, `FileMonitor`, `ClientCalls`, `WriteStream`,
`MetaStore` and `FtpPool` (5.7).

Names follow the code: an action or helper has the name of the function it
translates, in capitals, and `PROJECT.json` maps every definition to its lines.

## 3. `MountDaemon`

### 3.1 State and actions

One mount daemon serving one backend. `Jobs` are slots for jobs that arrive
over D-Bus and are reused; a channel runs at most one job at a time
(`priv->current_job`), which is named by the channel itself. `pc[j]` says where
a job is; the states from `run` to `remove` are cuts of one thread's path
through `g_vfs_job_run`, chosen at the points where the main loop can observe
or change something:

| Code | Model |
|---|---|
| `job_source_new_job_callback`, `g_vfs_daemon_queue_job` | `NewJob`, `NewUnmount`, `ChannelNewJob` using `ActivityStarted` and `QueueJob` |
| completion on the main loop | `JobDoneMain`, `OpenDoneMain` using `FinishOnMain` |
| pool thread | `StartRun`, `RunJob`, `RunOpen`, `ChannelStarted`, `FinishThread`, `PostCheck`, `RemoveJob` |
| idle check posted to the main loop | `checks`, `ActivityCheckMain`, `CheckIdle` |
| mount job | `MountSucceeded`, `MountFailed`, `RegisterAccepted`, `RegisterMountCallback` |
| unmount job | `NewUnmount` (`try`), `ShowProcessesProceed` / `ShowProcessesAbort` (the dialog), `RunUnmountSucceeded` / `RunUnmountFailed`, `UnregisterMountCallback` |
| forced unmount | `ForceUnmount` from `BackendLost` (as `fail_jobs_and_unmount` of the SFTP backend does) and from `IdleUnmountCb`, then `ForcedUnregisterMountCallback` |
| exit timer | `exitTag`, `ExitAtIdle` |
| channel | `GotRequest`, `StartRequest`, `ChannelJobDone`, `SendReplyCb`, `SendReplyCbClose`, `ConnectionClosed`, `CloseActiveChannels` |
| the client's `close()` of its socket end | `ClientDrop` (external) |

A channel is `added` when a thread has put it in `job_sources` and not yet
counted it, `active` when counted, `preclosed` when an unmount closed it in
between. `orphan` is a job made by a channel that is no source any more: it has
no handler and never runs.

Abstractions: which operation a job performs, its result and its error text;
the registration proxy (one step to be accepted, one for the answer); the
processes listed by the dialog; the lengths of timers, which may expire
whenever they run. File monitors also count as activity; they are not in the
model.

### 3.2 Runs and bounds

| Run | Instance | Properties | Shows |
|---|---|---|---|
| `daemon_threaded` | 2 jobs, 1 channel, a backend with an `unmount()` method that may fail, 1 thread | `TypeOK`, `ActivityExact`, `IdleMeansInactive`, `IdleIsArmed`, `ExitIsScheduled` | accounting, idle timer and exit when request blocking is set on the main loop and cleared on a thread |
| `daemon_blocked` | 3 jobs, 1 channel | `BlockedWhileUnmounting` is violated | see 6 |

Two jobs are enough for a job on a thread beside one on the main loop, or an
unmount beside an open; with the channel's own job, three activities overlap.
One queued request per channel already separates "queue empty" from "request
waiting". Two posted idle checks (`MaxChecks`) let the check of one thread run
after the decrement of another; `MaxForced` bounds repeated forced unmounts,
which change nothing after the first. `MaxThreads = 1` is the default of a
backend and the case in which jobs wait for each other; the proofs hold for any
number. Deadlock is not checked, because the daemon really can come to rest for
ever (6, `gvfschannel.c:275`).

### 3.3 Proofs

`MountDaemonProofs` proves, for every finite set of jobs and channels, any
number of threads and all bounds:

* `TypeCorrect`: `Spec => []TypeOK`;
* `Invariance`: `Spec => []IInv`;
* `ActivityIsExact`: `Spec => []ActivityExact`;
* `IdleOnlyWhenInactive`: `Spec => []IdleMeansInactive`;
* `ExitScheduled`: `Spec => []ExitIsScheduled`;
* `IdleTimerArmed`: `Spec => []IdleIsArmed`.

`IInv` is `TypeOK /\ StructInv /\ ActivityExact /\ IdleInv`.

* `ActivityExact` alone is not inductive. `RemoveJob` and `StartRun` change
  where a job is without touching the counter, so the pool must hold only jobs
  that wait for it, and each only once (`PoolInv`). `ChannelStarted` counts a
  channel without looking whose it is, so the thread must own a channel that is
  still `added` or was closed ahead of time, and no other thread may own the
  same one (`NewChanInv`). A channel's close takes one unit back, so its job
  must belong to a channel that was counted (`ChannelInv`).
* `IdleMeansInactive` follows from `IdleInv` (a running timer of a backend that
  is a source means a counter of zero) and `ActivityExact`, once no channel is
  `preclosed` while the backend is still a source (the last part of
  `ChannelInv`): otherwise a counter of zero could be one channel minus one
  `preclosed`. The lemma that a sum of cardinalities is positive when one set
  has an element closes the argument.
* `ExitIsScheduled` is inductive relative to `IInv`. The steps that take
  sources away (`MountFailed`, `CloseActiveChannels`, `SendReplyCbClose`) look
  whether one is left and start the exit timer; the others keep the sources
  (`SourcesKept`). The thread that counts its channel is the delicate one: it
  makes no source of a channel closed in between only because that was
  `preclosed` already (`NewChanInv`).
* `IdleIsArmed`, no lost wake-up, is inductive relative to `IInv` too: a step
  keeps the count, the timer and every check not yet posted (`ArmedKept`), or
  ends with the idle check itself (`ArmedByCheck`), or starts an activity, after
  which the count cannot be zero because it was not negative before
  (`ArmedByActivity`, from `ActivityExact`).

The argument for `IInv` goes action by action: `MainStepInv`, `StartRunInv`,
`ThreadStepInv`, `ChannelStepInv`, `UnmountStepInv`, resting on lemmas on how a
single update of `pc` or `chst` changes the counted sets (`CountedUpdate`,
`ChannelUpdate`, `JobCounted`, `JobUncounted`, `ClosingChannels`). Assumptions:
`JobsAssumption` (finite disjoint sets, `NoChannel` is no channel) and
`BoundsAssumption` (types of the bounds); nothing else.

## 4. `ReadStream` and `FileStream`

### 4.1 State and actions

One open file from the application's call to the backend's handle. Client and
daemon are separate processes joined by two FIFO queues `c2d` and `d2c`.

| Code | Model |
|---|---|
| start of read, seek, query_info, close | `ReadFromPre`, `ReadFromBlock`, `SendRead`, `SendSeek`, `SendQuery`, `SendClose` |
| `append_request`, `unappend_request` | `Begin` with `Request`; `Unappend` |
| `*_STATE_WROTE_REQUEST` | `WriteRequest`, `CancelUnsent`; a broken socket is `StreamError` |
| `*_STATE_HANDLE_INPUT` | `HandleInput`, `SendCancel` |
| `*_STATE_HANDLE_HEADER` | `ReadHeader` |
| `*_STATE_HANDLE_INPUT_BLOCK`, `READ_BLOCK`, `SKIP_BLOCK` | `ReadBlock`, `ReadBlockCancelled`, `KeepBlock`, `SkipBlock`, `SkipCancelled` |
| `got_request`, `start_queued_request`, `read_channel_handle_request` | `GotRequest`, `MarkCancelled`, `Enqueue`, `StartQueued`, `HandleRequest`, `RefuseRequest` |
| jobs and their replies | `ReadDone`, `SeekDone`, `QueryOrCloseDone`, `JobFails` |
| `send_reply_cb`, `read_channel_readahead` | `SendReplyCb`, `Readahead` |
| forced close, request blocking | `ForceClose`, `SetBlockRequests` |

Data is abstracted to where it begins and how long it is; the unit is 4 KiB,
the smallest read size of `modify_read_size`. A header arrives whole; a block
may be consumed in any pieces, as `read()` may return less than asked, and a
backend may return less than asked. Seeks are to positions in the file: a seek
relative to the end differs only in the position computed. `res` and `sure` are
history: what the last operation delivered, and whether a sent seek has failed
since the last one that succeeded.

`FileStream` is the promise to the application. A read delivers bytes starting
at the position, end of file is reported only there, a seek sets the position,
other operations leave it. The one concession to the code: a sent seek that
fails has already thrown away what was read ahead, so until the next successful
seek a read may skip bytes (never repeat any) although `tell()` does not show
it.

### 4.2 Runs and bounds

| Run | Instance | Properties |
|---|---|---|
| `stream_pipeline` | 3 operations and a close, readahead, short reads, cancellation, forced close | `TypeOK`, `PipelineOrdered`, `ImplementsFileStream` |
| `stream_generations` | 2 operations with blocking | `GenerationsExact` is violated (6) |
| `client`, part `read` | a smaller instance | `PipelineOrdered`, `AnswerPending`, `GenerationsExact` |
| `liveness`, part `read` | 2 operations, fair processes | `CallsEnd` |

Three operations are what it takes: the readahead starts after the second read
in a row, and a third operation (a seek, a query, another read, the close) then
meets its data; two reads after a cancelled seek show skipped bytes. `readCount`
stops at 6, from where `modify_read_size` no longer depends on it.

`EarlyCancel` names the operations that may be cancelled before their first
byte is sent. The passing runs leave the query out (6,
`gdaemonfileinputstream.c:410`). `stream_pipeline` and `stream_generations`
block and unblock requests; the part `read` of `client` does not, as client and
channel may lose count of generations when a seek is refused (6).

### 4.3 Proofs

`ReadStreamProofs` proves, for files and buffers of any size, any number of
operations, with or without blocking of requests, under `StreamAssumption` (the
types of the constants) and the hypothesis `"query" \notin EarlyCancel`:

* `StreamTypes`: `Spec => []TypeOK`;
* `StreamOrder`: `Spec => []PipelineOrdered`;
* `StreamRefinement`: `Spec => ImplementsFileStream`, that is `FileStream!Spec`
  under the refinement mapping.

The hypothesis excludes the one flaw that breaks the stream itself: a query
withdrawn before its first byte is sent leaves the front of its request in the output
buffer (6), to be sent ahead of the next request. All other cancellations, early
and late, are in.

All three rest on one inductive invariant, `RInv`:

| Part | Says |
|---|---|
| `TypeOK` | types; the position and the backend's handle are inside the file |
| `OpInv` | the state machine's state fits the operation, its number has been given out, and the output buffer holds exactly its request or its cancellation |
| `ChannelInv` | a closed channel has no requests left; seeks go to positions of the file; reads ask for something |
| `OrderInv` | numbers rise in every stage (answered, at work, queued, on the way), each stage is ahead of the next, and all are below the number given out next |
| `SeekInv` | at most one seek is under way, and it is the one the client waits for |
| `GenInv` | generations of replies never fall, none is ahead of the channel's, the channel's never ahead of the client's; with no seek out and none refused all are equal |
| `DataInv` | the blocks a query kept, the block being read and the replies in the socket follow on each other |

None of the three theorems is inductive by itself. `TypeOK` says that the
position stays in the file, which needs the data delivered to begin at or behind
the position, so already the types need `DataInv`. `PipelineOrdered` speaks of
one joined sequence; `OrderInv` says it stage by stage with a bound by the next
number, so that each action disturbs a few pairs only (`Joined` and
`OrderSuffices` put the stages together again).

`DataInv` carries the refinement. A read must deliver what follows the
position, although what it takes out of the socket may be the answer to a read
given up long ago or to nobody's request (a readahead). So there must be a
*trace*: a sequence of positions of the backend's handle, one before each reply
in the socket, such that a data reply starts at its position and moves to the
next by its length, a seek's reply moves to where it says, and the last position
is that of the handle now. The first one `Follows` the end of what the client
already has: it is equal to it, or, once a seek was sent and failed, not in
front of it. Whether the first reply may be used is decided by its generation,
which is why `Follows` is exact only for data of the client's generation, and
why `GenInv` and `SeekInv` are needed: a reply of the current generation behind
a seek's reply would follow on the wrong position. When the socket was shut down
and nobody reads the rest of it (`Dead`), nothing is claimed of the trace.

The proof that a step preserves `RInv` has one lemma for each part and each of
the two processes (`ClientTypes`, `ClientOp`, ... `DaemonGen`, `DaemonData`),
with one step per action below; lemmas on what an action does to a queue
(`WrittenFacts`, `TakenFacts`, `StartedFacts`, `RepliedFacts`, `HeaderFacts`,
...) are shared by the parts. `Inductive` joins them. `StepSimulates` shows that
every step is a step of `FileStream` or leaves its variables alone: `ReadStep`
for the steps that deliver bytes, `FailStep` for those that end an operation
with an error.

With the further hypothesis `Blocks = FALSE`, that the backend refuses no
request, two more theorems hold:

* `GenerationsAgree`: `Spec => []GenerationsExact`. With blocking it is false
  (6), so refused requests are the only way in which client and channel lose
  count; `GenInv` is what remains of it then.
* `AnswersComing`: `Spec => []AnswerPending`. An operation that waits always has
  its request or its answer somewhere between itself and the backend. With
  blocking this fails too: after a refused seek a read skips its own answer as
  data of an older generation.

They come from `EInv`, inductive together with `RInv`: `ExactInv` (channel and
client agree on the generation, or the channel lacks the one seek it has not
started), `FramedInv` (a query in the socket is followed by its attributes, so
that taking it takes nothing else) and `PendingInv` (whatever has the number of
the waiting operation is a request of its kind or an answer to one, and there is
such a thing, unless the operation is a read that has come to a block). The
three need each other. A read may skip a block that was its own answer only if
the block is of an older generation, which `ExactInv` and `GenInv` exclude
(`BlockServes`); an answer with the right number is not dropped because
`PendingInv` makes it one of the right kind (`ClientExact`).

## 5. The other components

Each row is one module. Those that have a run of their own say so;
the instances of the others are those of the family module in the heading
(bounds are written beside each `INSTANCE` there).

### 5.1 The client side and the web drives (`client`, module `MCClient`)

| Module | State and actions | Checked |
|---|---|---|
| `WriteStream` | the output stream's state machines (`SendWrite` ... `SendClose`, `WriteRequest`, `CancelUnsent`, `ReadReply`, `SendCancel`), the socket, and the write channel's queue, jobs and replies | the offset is where the backend writes, what is reported written was written, nothing happens after a cancelled request was withdrawn (`WritesAreTrue`) |
| `Enumerator` | the job's batches, the infos received under the lock, synchronous and asynchronous reads, time limits, a cancelling thread with the wait of `g_cancellable_disconnect` | no info is lost or repeated, the end is reported at the end, a read returns once (`ListingsWhole`) |
| `FileMonitor` | a monitor's references, subscribers, five-second timers, emissions, calls that wait for their answer (a set of a client and an event each), and the client's proxies, subscriptions and cancellations | run `file_monitor`: references and activity are exact, no use after free (`CountInv`); a proxy means a subscription, events arrive in order, and none made after the listing is missed (`ChangesReachMonitors`). The listing goes over the connection of Subscribe (`ListDir`) or over another one (`ListElsewhere`), which a thread's synchronous calls and asynchronous calls each have; one that comes before Subscribe counts from the subscription (section 6). Two clients, which may be exchanged (`ClientSymmetry`), two events, two generations |
| `ClientCalls` | the cache of mount infos, a list in an order, thread-local connections, the asynchronous map, daemons that die or are replaced, retries | run `client_calls`: a mount that stays is reached, the asynchronous map never keeps a dead connection (`MountsAreReached`). A thread and an asynchronous call, two mounts, two runs each |
| `FuseHandles` | the two tables, references, handle locks, memory that is reused, renames | references are exact, the tables agree, no handle is used after it was freed (`ReferencesExact`): by two threads, one of which may find a handle again between the other's last unref and its look under the mutex (part `fuse`), and over renames by one thread (part `fuseRename`). The order in which both threads free it, each having brought the count to 0, is left out (`Twice`, section 6); the liveness instance has it |
| `FuseFile` | one file's stream, direction, position, size under open, read, write, truncate, stat, release | what was written is read back and kept, sizes and access modes are told right (`WritesAreTrue`) |
| `MountOperation` | questions over D-Bus, handlers and the remembered invocation in the client, aborts, time limits, clients that go, a relay; the unmount dialog that asks again every two seconds | the answer is what the user said to that question, no call is completed twice; a mount goes only if nobody uses it or the user insists (`AnswersAreTheUsers`) |
| `GoogleCache`, `OneDriveCache` | the backends that are clients of a web drive: drive and cache with several names per item, collisions, stamps, monitors, other clients | found is there, not found is not, listings complete (`CachesTrue`); only empty folders go, created is new, changes are told (`CloudKept`) |

### 5.2 The session's services (`services`, module `MCServices`)

| Module | State and actions | Checked |
|---|---|---|
| `MountTracker` | registered mounts, `MountData` of mounts in progress with their callers, spawned processes, bus names, messages of daemons, a reload and a restart of gvfsd | run `mount_tracker`, one spec of a type whose daemons have a bus name, three Mount calls (one that finds no daemon, two that race): one mount per spec (`OneMountPerSpec`), every waiting caller belongs to a mount in progress (`WaitersOwned`), mounts are served (`MountsServed`); in `services`: success means registered (`AnswersOfThePresent`), for daemons with a name and without |
| `MetaStore` | tree files, journals and their tags, mapped views of writers and readers, every system call of a rotation, crashes | accepted entries survive, a writer works on the current pair (`MetadataKept`); a refreshed reader is current (`AnswersOfThePresent`) |
| `MetaJournal` | trees as functions from paths, journals of set, unset, copy and remove entries | a lookup, the keys and a listing computed backwards through the journal agree with a flush applied forwards (`MetadataKept`) |
| `ProxyMonitor` | tables of drives, volumes and mounts, idle signals, shadow mounts, lives of the daemon | every object is announced once and withdrawn, shadows are counted, the view is what the daemon said (`VolumesTrue`) |
| `ProxyOps` | operations of two applications, their questions, cancellation messages, the daemon's lists | a cancellation and an answer reach the sender's own operation, each task returns once, an application that left has its operations stopped (`OperationsOwned`) |

### 5.3 SFTP, FTP, NFS, WebDAV (`servers`, module `MCServers`)

| Module | State and actions | Checked |
|---|---|---|
| `SftpConnection` | two ssh processes, queues, tables of expected replies, ids that wrap, exit of ssh | every reply is expected, nobody is forgotten, multi-requests complete, a job is answered once as long as ssh runs (`ConnectionsExact`): part `conn` with the exit of ssh, part `connLive` without it and with replies to jobs that a failed batch has answered |
| `SftpLogin` | the dialogue with ssh, keyring, user, the data connection, restarts with another user | one answer, one account; a password is sent only to the account it was typed or stored for, saved only if it is that account's when the mount does not fail, and dropped (`LoginsSafe`). The ghost `past` keeps what was sent and saved |
| `SftpJobs` | chains of requests of two jobs: move, delete, mkdir, open, enumerate | jobs are answered once, overwrite only what is asked, own their handles (`ConnectionsExact`, `JobsDoAsAsked`) |
| `SftpReplace` | create, append, edit, replace with temporary file and backup, write, seek, truncate, close | never both contents lost, old until closed (`ContentKept`, `OldUntilNew`) |
| `SftpPull`, `SftpPush` | windows of outstanding reads and writes, short and late replies, temporary files | nothing lost, no use after free, old or new (`ContentKept`, `OldUntilNew`) |
| `FtpPool` | queue, counts and limit of connections, waiting threads, streams that keep a connection | counts exact, each connection owned once, within the limit (`ConnectionsExact`) |
| `FtpLogin`, `FtpData` | TLS, FEAT, keyring and dialog; methods of data connections | no password over an unaccepted certificate, features known; a transfer without a data connection has tried all methods, or the remembered one (`LoginsSafe`, `ConnectionsExact`) |
| `FtpFiles` | directory cache with stamps, commands of two jobs | cache fresh, backup kept, success means done (`ContentKept`, `JobsDoAsAsked`, `OldUntilNew`) |
| `NfsReplace`, `NfsJobs` | callbacks of open, write, close and of jobs, the poll source, exports | backup and links kept, etag guards, handles closed, listings once (`ContentKept`, `JobsDoAsAsked`) |
| `DavMount` | locations, certificates, credentials, keyring, redirections | the mount's root is the topmost collection, what is saved works, no password before a certificate is accepted (`LoginsSafe`) |
| `DavFiles` | requests of two jobs with If-Match and Overwrite, redirections, other clients | what was seen is kept, whole content, only asked overwriting, refused requests change nothing (`ContentGuarded`) |

### 5.4 AFP, gphoto2, MTP (`devices`, module `MCDevices`)

| Module | State and actions | Checked |
|---|---|---|
| `AfpConnection` | queue, table by id, send and read loops, tickles, closing, threads that wait | a reply goes to its request, each is answered once, none is replaced (`RepliesOwned`). There are fewer ids than commands and tickles (`IdSpan` 2), so that numbers come again and a tickle meets a command's; the ids of a waiting command are not reached again (`Overtaken`, `StrayTickles`) |
| `AfpLogin`, `AfpBrowse` | login attempts and methods; the shared list of volumes | right user and guarded passwords (`LoginsRight`); answers true, offers true (`RepliesOwned`, `NothingElseTouched`) |
| `AfpFiles`, `AfpForks` | commands and errors; jobs on names; open forks and exchange of files | only asked overwriting, refused keeps the target, sizes true, old until closed (`VolumesKept`) |
| `Gphoto2` | files written in memory, caches of infos, names and free space, monitors | caches true but for the entries a rename left untouched (`untold`); a closed file is written unless a failed commit was forgotten; nothing lost, refused unchanged, changes told (`DeviceRemembered`, `NothingElseTouched`). One failing call while files are written, two while names change |
| `Mtp`, `MtpHandles` | objects, cached paths, events of the device, handles | cache and views true, only the named object touched, reads inside (`DeviceRemembered`, `NothingElseTouched`) |

Bounds: two actors (jobs, threads, callers, applications, clients) wherever a
race needs two, one where the chain of one job against the outside world is the
question; one or two faults per behaviour; one to three changes by others. A
fault or a change may happen at every point, so one is enough to hit each step
of a chain, and a second one shows recovery from the first. Names, items and
connections are two or three: one that is worked on, one in its way, one free.

### 5.5 Liveness (`liveness`, module `MCLiveness`)

Sixteen small instances with the fairness their schedulers give. `CallsEnd`:
a read, write, listing, call or FUSE request returns. `JobsEnd`: an unmount
that does not wait for the user, a dialog, a volume operation and jobs that wait
for a server end. `GoneIsForgotten`: a channel that lost its client during a
job, a registered mount whose backend went, the subscription of a cancelled
monitor disappear. `NewsArrive`: callers of gvfsd are answered, metadata reaches
the tree file, an application sees the volumes there are.

Fairness is weak fairness of: a thread or pool that has work, a main loop's
dispatch of a ready source or timer, the delivery of a message on a connection
that stays, a backend or server that has taken a request (it answers or
fails). These are what GLib's main loop and thread pool, the kernel and the bus
provide; the last is what a backend owes. Strong fairness is assumed twice: of
taking a mutex that is free again and again (`FuseHandles`), and of a native
operation of a volume that is interrupted by questions (`ProxyOps`). Users,
applications and other clients are under no fairness.

Deadlock is not checked in the family runs: every part has bounds on jobs and
faults and comes to rest when they are used up; that no one waits then for ever
is what the liveness run and the invariants about waiting callers say.

### 5.6 The runs

| Run | Module | States, about | Question |
|---|---|---|---|
| `daemon_threaded` | `MountDaemon` | section 3 | is activity counted, the idle timer right, the exit scheduled? |
| `stream_pipeline` | `ReadStream` | section 4 | does the pipelined stream behave as a file? |
| `mount_tracker` | `MountTracker` | 0.4 million | one mount per spec, nobody forgotten? |
| `file_monitor` | `FileMonitor` | 3 million, clients exchanged | does every monitor live as long as needed, and hear of every change? |
| `client_calls` | `ClientCalls` | 1 million | is a mount that stays reached? |
| `client`, `services`, `servers`, `devices` | `MC...` | 1 to 2 million each | 5.1 to 5.4 |
| `liveness` | `MCLiveness` | | what must end, ends (5.5) |
| `daemon_blocked`, `stream_generations` | | | the disagreements of section 6 |

### 5.7 Proofs about the components

Six components have an inductive invariant, proved for every value of their
constants; the bounds of a model (how many events, jobs, faults, generations) are
constants like the others, so a theorem holds for behaviours of any length. Each
proof goes action by action, one lemma for each: `X` and the invariant give the
invariant after `X`. Hypotheses beyond the types of the constants are named.

| Module | Invariant | Hypothesis | Proved properties |
|---|---|---|---|
| `MountTracker` | `TrackerInv` | none | `OneMountPerSpec`, `WaitersOwned`, `MountsServed`, `ChildDataAlive`, the step property `SuccessMeansRegistered` |
| `FileMonitor` | `MonitorInv` | none | `CountInv` (`RefsExact`, `ActivityExact`, `NoUseAfterFree`), `EventsInOrder` |
| | `PromptInv` | `PromptClients` | `ChangesReachMonitors` (`ListedThenTold`, `ProxyMeansSubscribed`) |
| `ClientCalls` | `ClientInv` | none | `AsyncMapFresh` |
| | `TrackInv` | `OwnDaemons` | `MountsAreReached` (`StableMountWorks`) |
| `WriteStream` | `WriteInv` | `Plain` | `OffsetTrue`, `ReportedWritten`, `NothingLater` |
| `MetaStore` | `StoreInv` | `OneWriter` | `Durable`, `WriterOnCurrent` |
| | `ReadersInv` | `Calm` | the step property `ReaderFresh` |
| `FtpPool` | `PoolInv` | none | `CountExact`, `OwnedOnce`, `WithinLimit` |

**`MountTracker`.** `OneMountPerSpec` follows from the look `RegisterMount` takes at
the list, and needs nothing. `MountsServed` does not: a mount has a backend because
the daemon that registered it was running then (`BackendsPlaced`), and if it is not
any more, because its `gone` is the last message of its queue (`GoneIsLast`), which
has not been handled. A message from before a restart may register a mount whose
backend is over, hence `RegisteredOnce`, `Registering` and `MountsServed` are
claimed until gvfsd restarts. `SuccessMeansRegistered` needs `SeenSince`: a reply in
a queue can only be reported by a `MountData` that has seen its spec in the list.

**`FileMonitor`.** `RefsExact` is about one number, but a step that drops a
reference must know that somebody had it: `GotProxyCb` and the reply to `Changed`
that the emission or the call is there (`MessagesInv`), a second `Unsubscribe` that
the client is no subscriber any more. What makes messages manageable is
`Compatible`: it says which two messages of one client may be under way one ahead
of the other, wherever they are (to the daemon, waiting for a proxy, to the client),
so `QueuesInv` is the same statement within a queue and between two. From it: a
client shakes hands once at a time, no event overtakes another. `EventsInOrder`
needs more, that the events of a client, told or under way, have no gap and reach
up to the present while it is subscribed (`SeenInv`). `PromptInv` adds that whoever
listens is a subscriber or its `Subscribe` is under way. For a listing on the connection
of `Subscribe` this gives what the comment in the code promises, because a queue keeps
its order; a listing on another connection that came first is only promised the changes
after the subscription (`asked = "early"`), which is all that the code can keep. It holds only when Subscribe
comes within the five seconds (`PromptClients`): later the monitor may be gone, the
error is printed and the client keeps its proxy (section 6). The order of events
and the counting of references hold even then.

**`ClientCalls`.** `StableMountWorks` is not inductive: in between, a call holds an
entry found in the cache, an answer of gvfsd on its way, or a connection.
`TrackInv` says what each of those is worth while the mount stays: an answer under
way names the mount or nothing, a connection being made leads to a daemon that runs,
a call goes to the mount's object. `OwnDaemons` excludes two environments. A daemon
that outlives the unmount because it has other mounts (`Shared`) still takes calls:
one on the old object path fails there, and nothing tells the client that its cache
is stale. A client that may not use the
socket directory (`Sandboxed`) does not find out that a cached name is stale
(section 6). `ClientInv` and `AsyncMapFresh` need neither hypothesis.

**`WriteStream`.** `WriteInv` says where the one request of the client is: in its
buffer (`Buffered`), on the wire, in the channel's queue, at work, answered, or
taken in part (`Underway`), and what the file and the backend's position are at
each place; nothing else than cancel commands is beside it. That is why an answer is
never taken for another request's, and why nothing is written later. `Plain` leaves
out two behaviours of the code that break the properties themselves: `write_async`
does not move the offset, and a query withdrawn before its first byte is sent
leaves part of its request in the buffer (both in section 6).

**`MetaStore`.** `StoreInv` carries what every process relies on: the pair in the
directory is whole and unmarked (`CurrentWhole`), the daemon's view is of that pair
(`WriterView`), and the tree it is writing is complete and nobody else's (`NewTree`).
With it `Durable` holds at every system call of a rotation, whichever fails and
wherever the daemon is killed. It needs one metadata daemon (`OneWriter`). The bus
name gives that; while `--replace` hands it over two daemons write for a moment, and
then the invariants (not only their proof) fail, so what holds of two writers is
only what the run checks. `ReadersInv` says that the pair a reader looks at is
current, marked, or about to be marked; a daemon killed between the rename and the
mark leaves it unmarked, and no later one marks it (section 6), so `ReaderFresh`
assumes that the daemon is not killed (`Calm`).

**`FtpPool`.** `CountExact` counts what is in the queue, with tasks and files and
being opened. A step moves a connection from one of these sets to another, so the
proof needs that they are disjoint, that a task has a connection at exactly the
places where it uses one (`Sits`), and that none is queued or held twice (`Owners`).
`WithinLimit` concerns what a thread that failed read before it unlocked:
`LastOpened`, that nobody opened a connection since it began if it is still the
last thread. After the unmount only a bound remains (`Slots`).

## 6. Disagreements between the code and its comments

Two are runs that TLC must find violated:

1. **`daemon_blocked`.** "We're going to run the backend's unmount method on a
   thread, block new jobs coming in." (`daemon/gvfsjobunmount.c:282`). `send_reply`
   of any failing unmount job clears `block_requests` (line 324), also for
   another unmount that is being carried out.
2. **`stream_generations`.** A cancelled request is still turned into a job "to
   rely on handle_request side effects like seek generations, etc"
   (`daemon/gvfschannel.c:342`), but one refused because requests are blocked
   (line 323) is not. The client has counted the seek; if the unmount fails,
   all data carries a generation it skips.

While modelling, these were met as well. The constants named in brackets, or
the way an instance is bounded, keep them out of the passing runs, because what
follows them is already wrong; where no constant is named, the property in
question is simply not claimed.

| Where | What the code does | Against |
|---|---|---|
| `daemon/gvfschannel.c:275` | a channel whose client leaves while requests are blocked and no job is at work is never closed | "Otherwise we'll close when current_job is finished", :287 |
| `client/gdaemonfileinputstream.c:410`, `gdaemonfileoutputstream.c:1266` | a query withdrawn before it is sent leaves part of its request in the buffer [`EarlyCancel`] | "Allow cancel before first byte of request sent", :1405, :1261 |
| `client/gdaemonfileinputstream.c:757` | the wait for a reply header cannot be cancelled | "on cancel, send cancel command and go back to loop", :570 |
| `client/gdaemonfileoutputstream.c:594` | a cancelled wait may take old bytes for a header | "The operation always succeeds, or gets cancelled.", :167 |
| `client/gdaemonfileoutputstream.c:1579` | an asynchronous write does not move the offset | :697 does |
| `metadata/metabuilder.c:1238` | a crash between rename and marking leaves readers on the old tree | `metatree.c:497` |
| `daemon/gvfsbackendsftp.c:1440` | jobs failed at the exit of ssh may be answered again by late replies [part `conn` claims one answer only until ssh exits; in `connLive` it does not exit, `SshExits`] | `g_assert (!job->finished)`, `gvfsjob.c:320` |
| `daemon/gvfsbackendsftp.c:1084` | when the login fails, the last refused password is saved [`SavedWorks` is claimed of mounts that do not fail] | "Login succeed, save password in keyring", :1401 |
| `daemon/gvfsbackendsftp.c:6577`, `:3722` | a pull or a replace that failed is answered again [`AnsweredOnce` is claimed of pulls without faults only, part `pull`; `BadReplies`] | `gvfsjob.c:320` |
| `daemon/gvfsbackendsftp.c:5951` | a push that ends early leaves its temporary file | :5633 |
| `daemon/gvfsbackendsftp.c:2815` | an OPEN refused after the STAT was answered leaves the job without an answer | comment at :2815 |
| `daemon/gvfsftptask.c:265`, `:340` | two threads may retry refused connections for ever; a freed slot wakes nobody | :198, :192 |
| `daemon/gvfsbackendftp.c:1330`, `:1774` | an attribute of the wrong type is answered twice; a pull of a missing file succeeds | `gvfsjob.c:320`, :1224 |
| `daemon/gvfsftptask.c:1129` | a remembered method that fails is not followed by the others; nor is EPSV when its connection fails [`AnyTriesAll` says when all are tried] | "be sure to try all possibilities if one failed", :1126 |
| `client/gvfsfusedaemon.c:246`, `:368` | two threads that each bring a handle's count to 0 both free it [`Twice`]; a rename over an open file frees its handle [renames by one thread only, part `fuseRename`] | :239, :339 |
| `client/gvfsfusedaemon.c:1027`, `:1959`, `:1944`, `:1043` | O_TRUNC on a shared stream, padding, truncation and a failed replace leave content, position or size wrong | :2478, :1422, :1941, :924 |
| `client/gdaemonfileenumerator.c:543` | a minute of silence ends a listing without an error [`Timeouts`] | :521 |
| `client/gdaemonfileenumerator.c:426`, `:637` | cancelling may deadlock on the infos lock [`CancelFrom`] | :416, :458 |
| `common/gmountoperationdbus.c:255`, `:107` | with two questions open, or after a time-out, answers go to the wrong call [`Overlap`, `Patient`] | :254, `gmountsource.c:312` |
| `common/gmountsource.c:458` | a relay drops the anonymous flag | :306 |
| `daemon/gvfsbackend.c:942` | a refreshed dialog may call back with a freed task | :1005 |
| `client/gdaemonfilemonitor.c:148` | a subscription that comes too late leaves a proxy without events [`Prompt`] | :49 |
| `client/gdaemonfilemonitor.c:184`, `gvfsdaemondbus.c:350`, `:568` | Subscribe is sent on the connection of the thread or of asynchronous calls; a listing over another one may come before it, and changes in between are told by nobody [such a listing counts from the subscription, `ListElsewhere`] | "any i/o we do to the mount such as listing a directory will happen after the mount receives the subscribe message", :240 |
| `client/gvfsdaemondbus.c:655` | a sandboxed client keeps a stale name [`Sandboxed`] | :251 |
| `monitor/proxy/gproxyvolumemonitor.c:946`, `gproxyvolume.c:243` | a replaced daemon's objects stay; a shadow mount outlives its root | `gvfsproxyvolumemonitordaemon.c:2031`, :293 |
| `monitor/proxy/gvfsproxyvolumemonitordaemon.c:1777`, `:449`, `:1980`, `gproxydrive.c:641` | cancellations of a shared cancellable, of another thread, or of a vanished owner are lost; a monitor made late serves nothing | `gproxydrive.c:570`, :462, :1743 |
| `daemon/gvfsbackendgoogle.c:1790`, `:2677`, `:593`, `:697`, `:879` | corner cases of colliding titles | comments at :663, :2676, :482, :815, :490 |
| `daemon/gvfsbackendonedrive.c:432` | names are removed under the short id of the folder [`Drive`] | "Remove item from hash", :426 |
| `daemon/gvfsafpconnection.c:1613`, `:757`, `:1229` | a command queued while the connection closes, or a signal before the wait, is lost [`CheckedSends`, `Prompt`, `QuietClose`] | :1830, :1972, :1816 |
| `daemon/gvfsafpconnection.c:1420`, `:1422` | a failed write of a command removes its entry, whose destroy function (:819) frees it, and frees it again; a failed write of a tickle removes a command that waits under the same number, which is never answered [`StrayTickles`] | :819 |
| `daemon/gvfsafpconnection.c:855` | an id comes again after 2^16 requests though a command still waits under it; that one's entry is replaced and it is never answered [`Overtaken`] | `dispatch_reply` |
| `daemon/gvfsafpvolume.c:1359`, `gvfsbackendafp.c:957` | a locked object is reported missing; a failed exchange leaves the temporary file | :1360, :965 |
| `daemon/gvfsbackendgphoto2.c:3048` | a commit that fails for another job is forgotten: the later close succeeds and nothing was written [ghost `failed`] | "all pending writes are written", :296 |
| `daemon/gvfsbackendgphoto2.c:3197` | a move that overwrites leaves the information cached of the file that went, and the free space; a rename that fails half-way leaves what is cached of the new name [ghost `untold`] | "If -1 we can't do try_query_fs_info()": -1 is to follow every change, :191 |
| `daemon/gvfsbackendgphoto2.c:3091` | a file moved onto itself with overwriting allowed is deleted, put and deleted again [`SelfMoves`] | `do_set_display_name` refuses a taken name |
| `daemon/gvfsbackendgphoto2.c:3460` | a file monitor is freed and kept | :3461 |
| `daemon/gvfsbackendmtp.c:3180`, `:3304`, `:3137`, `:2252`, `:316`, `:1427` | moved, copied and vanished objects | :633, :3139, :1451, :243, :1427 |
| `daemon/gvfsbackendmtp.c:2792`, `:2590` | a device without partial writes; previews read past their end | :2638, :2556 |
| `daemon/gvfsbackendnfs.c:1205`, `:228` | a temporary file that cannot be given its owner fails the job; an export `/` is never found | :1003, :209 |

## 7. What is proved and what is only checked

Proved by TLAPS, for all constants: the theorems of sections 3.3, 4.3 and 5.7, 45
of them listed in `PROJECT.json`, in eight modules. Nothing is assumed but the named
assumptions on constants and the hypotheses named there. Each of the
fourteen properties that the runs `daemon_threaded`, `stream_pipeline`,
`mount_tracker`, `file_monitor` and `client_calls` check is a theorem. The
theorems about `WriteStream`, `MetaStore` and `FtpPool` are about conjuncts of the
family properties `WritesAreTrue`, `MetadataKept`, `AnswersOfThePresent` and
`ConnectionsExact`.

Model-checked only, and why:

* Liveness (`liveness`): fairness and `ENABLED` are outside TLAPS 1.4.5.
* The store with several writers and after a crash (parts of `services`), calls of a
  sandboxed client or on shared daemons, a monitor's late subscription, a query
  withdrawn unsent: there the invariants do not hold, because the code does not keep
  them; the runs check what is left.
* `MetaJournal`, `GoogleCache`, `OneDriveCache`: what they
  say is computed by folding over a tree or a journal, so a proof would be an
  induction over data, which none of the provers can do here.
* `SftpPull`: it uses a `RECURSIVE` operator, which takes the SMT prover away.
* `FuseHandles`: a handle can be freed twice when it is found again while its last
  reference goes and is given up once more (section 6), so an invariant needs
  `Twice = FALSE`, and renames by one thread.
* The other backends: chains of requests against a server, checked with one or two
  jobs. Nothing stands against a proof but its length.

Every property of a passing run has a mutant in `PROJECT.json`: a definition of
the model changed as a plausible mistake in the code would change it (for
instance a closed source counted twice, a request queued in front, a cancelled
request removed instead of marked), under which TLC finds the property
violated. The mutated forms are the operators whose names end in an underscore
and a word (`Enqueue_InFront`), beside the definitions they change.

## 8. What is not modelled

SMB and admin backends (one blocking library call per operation), AFC, audio CD,
archive, trash, recent, computer, network, DNS-SD and WS-Discovery backends
(views of local directories, devices and discovered services), plain HTTP; the
native volume monitors (udisks2, gphoto2, MTP, AFC, GOA), which mirror device
databases; the client's mount tracker, whose replica follows the pattern of
`ProxyMonitor`; URI mapping, mount specs and serialisation, which are conversions
without control state; the keyring and service discovery wrappers; AFP reply
parsing, FTP list parsing and multistatus parsing; tools and tests.
`PROJECT.json` gives the reason for each and what is left out of the parts that
are modelled.
