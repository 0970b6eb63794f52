------------------------------ MODULE FtpPool ------------------------------
(***************************************************************************)
(* The connection pool of the FTP backend (gvfsftptask.c,                  *)
(* gvfsftpconnection.c).  Every job runs in a thread of its own and takes  *)
(* a control connection from ftp->queue, opens one, or waits for one; an   *)
(* open file keeps its connection until it is closed.  What happens under  *)
(* ftp->mutex is one action.                                               *)
(***************************************************************************)
EXTENDS Integers, Sequences, FiniteSets, FiniteSetTheorems, TLAPS

CONSTANTS Task,        \* the threads that run the jobs
          Conn,        \* control connections that can be open at once
          MaxConn,     \* ftp->max_connections at mount time
          MaxJobs,     \* bound: jobs started
          MaxFaults,   \* bound: connections that time out or are lost
          MaxRefused,  \* bound: failed connection attempts before the server is fine
          ServerDown   \* TRUE: the server never accepts a connection again

NoOne == "none"
Nobody == "nobody"

PoolAssumption ==
    /\ IsFiniteSet(Task) /\ IsFiniteSet(Conn) /\ NoOne \notin Conn
    /\ MaxConn \in Nat \ {0} /\ Cardinality(Conn) >= MaxConn
    /\ ServerDown \in BOOLEAN

VARIABLES
    queue,            \* ftp->queue, idle connections; <<>> after the unmount
    mounted,          \* ftp->queue /= NULL
    connections,      \* ftp->connections
    busyConnections,  \* ftp->busy_connections
    maxConnections,   \* ftp->max_connections
    lastThread,       \* the static last_thread
    usable,           \* connections that g_vfs_ftp_connection_is_usable accepts
    allocated,        \* connections that exist
    streams,          \* connections that belong to an open file
    task,             \* what each thread does
    woken,            \* waiting threads that were signalled
    jobs, faults, refused

pool == <<queue, mounted, connections, busyConnections, maxConnections, lastThread>>
conn == <<usable, allocated, streams>>
bounds == <<jobs, faults, refused>>
vars == <<pool, conn, task, woken, bounds>>

Idle == [pc |-> "idle", kind |-> "plain", conn |-> NoOne, cancelled |-> FALSE,
         retry |-> FALSE, maybe |-> 0, error |-> "none"]

Queued == {queue[i] : i \in 1 .. Len(queue)}
Waiting == {t \in Task : task[t].pc = "waiting"}

\* Connections being opened count in ftp->connections before they exist.
Opening == {t \in Task : task[t].pc = "opening"}
Held == {task[t].conn : t \in Task} \ {NoOne}
Holders == {t \in Task : task[t].conn /= NoOne}
Usable(c) == c \in usable
Least(a, b) == IF a < b THEN a ELSE b
Free(c) == /\ allocated' = allocated \ {c}
           /\ usable' = usable \ {c}

Goto(t, pc) == task' = [task EXCEPT ![t].pc = pc]
Fail(t, e) == task' = [task EXCEPT ![t].pc = "done", ![t].error = e]

Init == /\ \E c \in Conn : queue = <<c>> /\ usable = {c} /\ allocated = {c}
        /\ mounted = TRUE /\ connections = 1 /\ busyConnections = 0
        /\ maxConnections = MaxConn /\ lastThread = Nobody /\ streams = {}
        /\ task = [t \in Task |-> Idle] /\ woken = {}
        /\ jobs = 0 /\ faults = 0 /\ refused = 0
-----------------------------------------------------------------------------
\* G_VFS_FTP_TASK_INIT and the first g_vfs_ftp_task_send of a job: a plain one
\* sends a command, "open" leaves a file open that keeps the connection.
Start(t, kind) ==
    /\ task[t].pc = "idle" /\ jobs < MaxJobs
    /\ jobs' = jobs + 1
    /\ task' = [task EXCEPT ![t].pc = "acquire", ![t].kind = kind]
    /\ UNCHANGED <<pool, conn, woken, faults, refused>>

\* One turn of the loop of g_vfs_ftp_task_acquire_connection, up to where it
\* gives up the mutex.
AcquireConnection(t) ==
    LET head == IF queue = <<>> THEN NoOne ELSE Head(queue)
        dead == head /= NoOne /\ ~Usable(head)
        left == IF dead THEN connections - 1 ELSE connections
    IN
    /\ task[t].pc = "acquire" /\ mounted /\ ~task[t].cancelled /\ (head = NoOne \/ dead)
    /\ queue' = IF dead THEN Tail(queue) ELSE queue
    /\ IF dead THEN Free(head) ELSE UNCHANGED <<allocated, usable>>
    /\ IF left < maxConnections
       THEN /\ connections' = left + 1 /\ lastThread' = t
            /\ task' = [task EXCEPT ![t].pc = "opening", ![t].maybe = left]
       ELSE /\ connections' = left /\ UNCHANGED lastThread
            /\ IF busyConnections >= left
               THEN Fail(t, "busy") ELSE Goto(t, "waiting")
    /\ woken' = woken \ {t}
    /\ UNCHANGED <<mounted, busyConnections, maxConnections, streams, bounds>>

\* The loop finds a usable connection in the queue.
Reuse(t) ==
    /\ task[t].pc = "acquire" /\ mounted /\ ~task[t].cancelled
    /\ queue /= <<>> /\ Usable(Head(queue))
    /\ queue' = Tail(queue)
    /\ task' = [task EXCEPT ![t].pc = "have", ![t].conn = Head(queue), ![t].retry = TRUE]
    /\ UNCHANGED <<mounted, connections, busyConnections, maxConnections, lastThread,
                   conn, woken, bounds>>

\* The loop is left because the job was cancelled or the backend unmounted.
GiveUp(t) ==
    /\ task[t].pc = "acquire" /\ (task[t].cancelled \/ ~mounted)
    /\ Fail(t, IF mounted THEN "cancelled" ELSE "not mounted")
    /\ UNCHANGED <<pool, conn, woken, bounds>>

\* g_vfs_ftp_connection_new, the handshake, USER and PASS, TYPE I succeed.
Opened(t) ==
    /\ task[t].pc = "opening" /\ ~task[t].cancelled /\ ~ServerDown
    /\ \E c \in Conn \ allocated :
        /\ task' = [task EXCEPT ![t].pc = "have", ![t].conn = c, ![t].retry = TRUE]
        /\ allocated' = allocated \cup {c} /\ usable' = usable \cup {c}
    /\ UNCHANGED <<pool, streams, woken, bounds>>

\* One of them fails: nobody else opened a connection meanwhile, so the server
\* allows no more than there were.  With none left the backend is unmounted.
OpenFailed(t) ==
    LET reliable == lastThread = t /\ ~task[t].cancelled
        limit == IF reliable THEN Least(maxConnections, task[t].maybe) ELSE maxConnections
    IN
    /\ task[t].pc = "opening" /\ (task[t].cancelled \/ ServerDown \/ refused < MaxRefused)
    /\ refused' = IF task[t].cancelled \/ ServerDown THEN refused ELSE refused + 1
    /\ connections' = connections - 1 /\ maxConnections' = limit
    /\ IF reliable /\ limit = 0
       THEN Fail(t, "closed") /\ woken' = Waiting
       ELSE Goto(t, "acquire") /\ UNCHANGED woken
    /\ UNCHANGED <<queue, mounted, busyConnections, lastThread, conn, jobs, faults>>

\* g_cond_wait_until returns: signalled, or after 30 seconds.
Woken(t) == /\ task[t].pc = "waiting" /\ t \in woken
            /\ Goto(t, "acquire")
            /\ woken' = woken \ {t}
            /\ UNCHANGED <<pool, conn, bounds>>

TimedOut(t) == /\ task[t].pc = "waiting" /\ t \notin woken
               /\ Fail(t, IF mounted THEN "busy" ELSE "not mounted")
               /\ UNCHANGED <<pool, conn, woken, bounds>>
-----------------------------------------------------------------------------
\* g_vfs_ftp_task_release_connection with the connection of t; is what the
\* reply left behind.  g_cond_signal wakes one of the waiting threads.
ReleaseConnection_Twice(t, ok) ==
    LET c == task[t].conn IN
    IF mounted
    THEN /\ queue' = Append(queue, c) /\ UNCHANGED <<connections, allocated>>
         /\ usable' = IF ok THEN usable ELSE usable \ {c}
         /\ IF Waiting = {} THEN woken' = woken ELSE \E w \in Waiting : woken' = woken \cup {w}
    ELSE UNCHANGED <<queue, woken, connections, allocated, usable>>

ReleaseConnection(t, ok) ==
    LET c == task[t].conn IN
    IF mounted /\ ok /\ Usable(c)
    THEN /\ queue' = Append(queue, c) /\ UNCHANGED <<connections, usable, allocated>>
         /\ IF Waiting = {} THEN woken' = woken ELSE \E w \in Waiting : woken' = woken \cup {w}
    ELSE Free(c) /\ connections' = connections - 1 /\ UNCHANGED <<queue, woken>>

\* g_vfs_ftp_task_sendv on the connection the task has: the reply arrives, or
\* the connection turns out to be dead.  Only a connection that this call
\* acquired itself is exchanged for another one.
SendReplied(t, ok) ==
    /\ task[t].pc = "have" /\ Usable(task[t].conn) /\ ~task[t].cancelled
    /\ task' = [task EXCEPT ![t].pc = IF ok /\ task[t].kind = "open" THEN "take" ELSE "release",
                            ![t].error = IF ok THEN "none" ELSE "refused"]
    /\ UNCHANGED <<pool, conn, woken, bounds>>

SendFailed(t) ==
    /\ task[t].pc = "have" /\ (~Usable(task[t].conn) \/ task[t].cancelled)
    /\ IF task[t].retry
       THEN /\ ReleaseConnection(t, FALSE)
            /\ task' = [task EXCEPT ![t].pc = "acquire", ![t].conn = NoOne, ![t].retry = FALSE]
       ELSE /\ usable' = usable \ {task[t].conn}
            /\ task' = [task EXCEPT ![t].pc = "release", ![t].error = "lost"]
            /\ UNCHANGED <<queue, connections, allocated, woken>>
    /\ UNCHANGED <<mounted, busyConnections, maxConnections, lastThread, streams, bounds>>

\* g_vfs_ftp_task_take_connection: the open file keeps the connection, which
\* still waits for the reply that ends the transfer.
TakeConnection(t) ==
    /\ task[t].pc = "take"
    /\ streams' = streams \cup {task[t].conn}
    /\ busyConnections' = busyConnections + 1
    /\ woken' = IF busyConnections + 1 >= connections THEN Waiting ELSE woken
    /\ task' = [task EXCEPT ![t].pc = "done", ![t].conn = NoOne]
    /\ UNCHANGED <<queue, mounted, connections, maxConnections, lastThread, usable,
                   allocated, bounds>>

\* do_close_read, do_close_write: g_vfs_ftp_task_give_connection; the task then
\* waits for the last reply of the transfer.
GiveConnection(t) ==
    /\ task[t].pc = "idle" /\ jobs < MaxJobs
    /\ \E c \in streams :
        /\ streams' = streams \ {c}
        /\ task' = [task EXCEPT ![t].pc = "release", ![t].kind = "close", ![t].conn = c]
    /\ busyConnections' = busyConnections - 1
    /\ jobs' = jobs + 1
    /\ UNCHANGED <<queue, mounted, connections, maxConnections, lastThread, usable,
                   allocated, woken, faults, refused>>

\* g_vfs_ftp_task_done with a connection; without one the job is only answered.
Release(t) ==
    /\ task[t].pc = "release"
    /\ \E ok \in (IF task[t].kind = "close" /\ ~task[t].cancelled THEN BOOLEAN
                  ELSE {~task[t].cancelled}) :
        ReleaseConnection(t, ok)
    /\ task' = [task EXCEPT ![t].pc = "done", ![t].conn = NoOne]
    /\ UNCHANGED <<mounted, busyConnections, maxConnections, lastThread, streams, bounds>>

Answered(t) ==
    /\ task[t].pc = "done"
    /\ task' = [task EXCEPT ![t] = Idle]
    /\ UNCHANGED <<pool, conn, woken, bounds>>
-----------------------------------------------------------------------------
\* The caller cancels: do_broadcast wakes every thread that waits already.
Cancel(t) ==
    /\ task[t].pc \notin {"idle", "done"} /\ ~task[t].cancelled
    /\ faults < MaxFaults /\ faults' = faults + 1
    /\ task' = [task EXCEPT ![t].cancelled = TRUE]
    /\ woken' = Waiting
    /\ UNCHANGED <<pool, conn, jobs, refused>>

\* The server closes or loses a control connection.
ServerCloses(c) ==
    /\ c \in usable /\ faults < MaxFaults
    /\ faults' = faults + 1
    /\ usable' = usable \ {c}
    /\ UNCHANGED <<pool, allocated, streams, task, woken, jobs, refused>>

\* do_unmount, asked for by the user or by g_vfs_backend_force_unmount: the idle
\* connections are freed, but stay counted in ftp->connections.
Unmount ==
    /\ mounted
    /\ mounted' = FALSE /\ queue' = <<>>
    /\ allocated' = allocated \ Queued /\ usable' = usable \ Queued
    /\ woken' = Waiting
    /\ UNCHANGED <<connections, busyConnections, maxConnections, lastThread, streams,
                   task, bounds>>

Step(t) == \/ AcquireConnection(t)
           \/ Reuse(t)
           \/ GiveUp(t)
           \/ Opened(t)
           \/ OpenFailed(t)
           \/ Woken(t)
           \/ TimedOut(t)
           \/ SendReplied(t, TRUE)
           \/ SendReplied(t, FALSE)
           \/ SendFailed(t)
           \/ TakeConnection(t)
           \/ Release(t)
           \/ Answered(t)

Next == \/ \E t \in Task : \/ Start(t, "plain") \/ Start(t, "open")
                           \/ GiveConnection(t) \/ Cancel(t) \/ Step(t)
        \/ \E c \in Conn : ServerCloses(c)
        \/ Unmount

Spec == Init /\ [][Next]_vars

-----------------------------------------------------------------------------
Jobs == [pc : {"idle", "acquire", "opening", "waiting", "have", "take", "release", "done"},
         kind : {"plain", "open", "close"}, conn : Conn \cup {NoOne},
         cancelled : BOOLEAN, retry : BOOLEAN, maybe : 0 .. MaxConn,
         error : {"none", "busy", "cancelled", "not mounted", "closed", "refused", "lost"}]

TypeOK ==
    /\ queue \in Seq(Conn) /\ mounted \in BOOLEAN
    /\ connections \in Nat /\ maxConnections \in 0 .. MaxConn
    /\ busyConnections = Cardinality(streams)     \* the assertion of give_connection
    /\ usable \subseteq allocated /\ allocated \subseteq Conn
    /\ streams \subseteq Conn /\ woken \subseteq Waiting
    /\ task \in [Task -> Jobs]

\* While mounted ftp->connections counts exactly the idle connections, those of
\* running tasks, of open files, and the ones being opened: a slot that leaked
\* would lower what the backend can do until the unmount.
CountExact == mounted => connections = Len(queue) + Cardinality(Held)
                                       + Cardinality(streams) + Cardinality(Opening)

\* Every connection that exists belongs to the queue, to one task or to one open
\* file, and to one of them only: two users would mix their replies, and one
\* with no owner stays open after the unmount.
OwnedOnce ==
    /\ allocated = Queued \cup Held \cup streams
    /\ Cardinality(allocated) = Len(queue) + Cardinality(Holders)
                                + Cardinality(streams)

\* ftp->max_connections is lowered only to what really exists: it never drops
\* below the connections in use, and reaches 0 (which unmounts the backend) only
\* when there is none.
WithinLimit == connections <= maxConnections

-----------------------------------------------------------------------------
\* The inductive invariant behind these three.

\* A task has a connection exactly while it sends, takes it for a file or releases
\* it; no connection is twice in the queue, with two tasks, or in two places.
Sits == \A t \in Task : task[t].conn /= NoOne <=> task[t].pc \in {"have", "take", "release"}
HeldOnce == \A t, u \in Holders : task[t].conn = task[u].conn => t = u
QueuedOnce == \A i, j \in 1 .. Len(queue) : queue[i] = queue[j] => i = j
Apart == Queued \cap Held = {} /\ Queued \cap streams = {} /\ Held \cap streams = {}

Owners == Sits /\ HeldOnce /\ QueuedOnce /\ Apart /\ Cardinality(Held) = Cardinality(Holders)

\* After the unmount the idle connections stay counted.
Slots ==
    ~mounted => /\ queue = <<>>
                /\ connections >= Cardinality(Held) + Cardinality(streams) + Cardinality(Opening)

\* Nobody has opened a connection since the last thread began to open one.
LastOpened ==
    \A t \in Opening : lastThread = t => connections <= task[t].maybe + 1

PoolInv == TypeOK /\ Owners /\ Slots /\ LastOpened /\ CountExact /\ OwnedOnce /\ WithinLimit

-----------------------------------------------------------------------------
\* Proofs, for any number of threads, connections, jobs and faults.

\* A set in a finite one, with one element more and with one less.
LEMMA Added ==
  ASSUME NEW U, IsFiniteSet(U), NEW S \in SUBSET U, NEW x \in U, x \notin S
  PROVE  Cardinality(S) \in Nat /\ Cardinality(S \cup {x}) = Cardinality(S) + 1
<1>1. IsFiniteSet(S) BY FS_Subset
<1>2. QED BY <1>1, FS_AddElement, FS_CardinalityType

\* The same with one element less.
LEMMA Removed ==
  ASSUME NEW U, IsFiniteSet(U), NEW S \in SUBSET U, NEW x \in S
  PROVE  Cardinality(S) \in Nat /\ Cardinality(S) >= 1 /\ Cardinality(S \ {x}) = Cardinality(S) - 1
<1>1. IsFiniteSet(S) BY FS_Subset
<1>2. /\ Cardinality(S) \in Nat /\ IsFiniteSet(S \ {x})
      /\ Cardinality(S \ {x}) = Cardinality(S) - 1
  BY <1>1, FS_RemoveElement, FS_CardinalityType
<1>3. Cardinality(S \ {x}) \in Nat BY <1>2, FS_CardinalityType
<1>4. QED BY <1>2, <1>3

\* Moving one unit from one place to another.
LEMMA Sums ==
  ASSUME NEW q \in Int, NEW p \in Int, NEW h \in Int, NEW s \in Int, NEW o \in Int
  PROVE  /\ (q + h + s + o) - (q - p) = p + h + s + o
         /\ (q + h + s) - (q - p) = p + h + s
         /\ (q + h + s + o) + 1 = q + h + s + (o + 1)
         /\ (h + 1) + s + (o - 1) = h + s + o
         /\ q + (h + 1) + s + (o - 1) = q + h + s + o
         /\ (q + 1) + (h - 1) + s + o = q + h + s + o
         /\ (q + h + s + o) - 1 = q + (h - 1) + s + o
         /\ (q + h + s) - 1 = q + (h - 1) + s
OBVIOUS

\* Addition associates, for the sizes below.
LEMMA Regroup ==
  ASSUME NEW q \in Int, NEW h \in Int, NEW s \in Int
  PROVE  q + h + s = q + (h + s)
OBVIOUS

\* The connections and threads that are counted are finitely many.
LEMMA Sizes ==
  ASSUME PoolAssumption, TypeOK
  PROVE  /\ Held \subseteq Conn /\ Holders \subseteq Task /\ Opening \subseteq Task
         /\ Queued \subseteq Conn
         /\ Cardinality(Held) \in Nat /\ Cardinality(Holders) \in Nat
         /\ Cardinality(streams) \in Nat /\ Cardinality(Opening) \in Nat
         /\ Cardinality(allocated) \in Nat /\ Len(queue) \in Nat
<1>1. Held \subseteq Conn /\ Holders \subseteq Task /\ Opening \subseteq Task
  BY DEF Held, Holders, Opening, TypeOK, Jobs
<1>2. Queued \subseteq Conn /\ Len(queue) \in Nat
  BY DEF TypeOK, Queued
<1>3. IsFiniteSet(Task) /\ IsFiniteSet(Conn) BY DEF PoolAssumption
<1>4. /\ IsFiniteSet(Held) /\ IsFiniteSet(Holders) /\ IsFiniteSet(Opening)
      /\ IsFiniteSet(streams) /\ IsFiniteSet(allocated)
  <2>1. streams \subseteq Conn /\ allocated \subseteq Conn BY DEF TypeOK
  <2>2. QED BY <1>1, <1>3, <2>1, FS_Subset
<1>5. QED BY <1>1, <1>2, <1>4, FS_CardinalityType

\* What a thread does to its own job.
LEMMA JobChanges ==
  ASSUME TypeOK, NEW t \in Task, NEW r \in Jobs, task' = [task EXCEPT ![t] = r]
  PROVE  /\ task' \in [Task -> Jobs] /\ task'[t] = r
         /\ \A u \in Task : u # t => task'[u] = task[u]
         /\ Waiting \ {t} \subseteq Waiting' /\ (r.pc = task[t].pc => Waiting' = Waiting)
         /\ (r.pc = "opening" <=> task[t].pc = "opening") => Opening' = Opening
         /\ r.pc = "opening" => Opening' = Opening \cup {t}
         /\ r.pc # "opening" => Opening' = Opening \ {t}
<1>1. task' \in [Task -> Jobs] /\ task'[t] = r /\ \A u \in Task : u # t => task'[u] = task[u]
  BY DEF TypeOK
<1>2. Waiting \ {t} \subseteq Waiting' /\ (r.pc = task[t].pc => Waiting' = Waiting)
  BY <1>1 DEF Waiting
<1>3. /\ (r.pc = "opening" <=> task[t].pc = "opening") => Opening' = Opening
      /\ r.pc = "opening" => Opening' = Opening \cup {t}
      /\ r.pc # "opening" => Opening' = Opening \ {t}
  BY <1>1 DEF Opening
<1>4. QED BY <1>1, <1>2, <1>3

\* A job that goes on with the connection it has, or still without one.
LEMMA KeepsConnection ==
  ASSUME TypeOK, Owners, NEW t \in Task, NEW r \in Jobs, task' = [task EXCEPT ![t] = r],
         r.conn = task[t].conn
  PROVE  Holders' = Holders /\ Held' = Held /\ HeldOnce'
<1>1. \A u \in Task : task'[u].conn = task[u].conn
  BY DEF TypeOK
<1>2. Holders' = Holders BY <1>1 DEF Holders
<1>3. Held' = Held BY <1>1 DEF Held
<1>4. HeldOnce' BY <1>1, <1>2 DEF Owners, HeldOnce, Holders
<1>5. QED BY <1>2, <1>3, <1>4

\* A job gets a connection that no other job has.
LEMMA GetsConnection ==
  ASSUME PoolAssumption, TypeOK, Owners, NEW t \in Task, NEW r \in Jobs,
         task' = [task EXCEPT ![t] = r],
         task[t].conn = NoOne, r.conn # NoOne, r.conn \notin Held
  PROVE  /\ Holders' = Holders \cup {t} /\ Held' = Held \cup {r.conn} /\ HeldOnce'
         /\ Cardinality(Held') = Cardinality(Held) + 1
         /\ Cardinality(Holders') = Cardinality(Holders) + 1
<1>1. task'[t] = r /\ \A u \in Task : u # t => task'[u] = task[u]
  BY DEF TypeOK
<1>2. Holders' = Holders \cup {t} /\ t \notin Holders BY <1>1 DEF Holders
<1>3. Held' = Held \cup {r.conn}
  <2>1. Held = {task[u].conn : u \in Task \ {t}} \ {NoOne} BY DEF Held
  <2>2. {task'[u].conn : u \in Task} = {task[u].conn : u \in Task \ {t}} \cup {r.conn}
    BY <1>1
  <2>3. QED BY <2>1, <2>2 DEF Held
<1>4. HeldOnce'
  <2>1. \A u \in Holders : task[u].conn \in Held /\ u # t
    BY DEF Holders, Held
  <2>2. QED BY <1>1, <1>2, <2>1 DEF Owners, HeldOnce, Holders
<1>5. Held \subseteq Conn /\ Holders \subseteq Task BY Sizes
<1>6. r.conn \in Conn BY DEF Jobs
<1>7. QED BY <1>2, <1>3, <1>4, <1>5, <1>6, Added DEF PoolAssumption

\* A job gives up its connection.
LEMMA LosesConnection ==
  ASSUME PoolAssumption, TypeOK, Owners, NEW t \in Task, NEW r \in Jobs,
         task' = [task EXCEPT ![t] = r],
         task[t].conn # NoOne, r.conn = NoOne
  PROVE  /\ task[t].conn \in Held
         /\ Holders' = Holders \ {t} /\ Held' = Held \ {task[t].conn} /\ HeldOnce'
         /\ Cardinality(Held') = Cardinality(Held) - 1 /\ Cardinality(Held) >= 1
         /\ Cardinality(Holders') = Cardinality(Holders) - 1
<1>1. task'[t] = r /\ \A u \in Task : u # t => task'[u] = task[u]
  BY DEF TypeOK
<1>2. Holders' = Holders \ {t} /\ t \in Holders BY <1>1 DEF Holders
<1>3. \A u \in Holders : task[u].conn = task[t].conn => u = t
  BY <1>2 DEF Owners, HeldOnce
<1>4. Held' = Held \ {task[t].conn} /\ task[t].conn \in Held
  <2>1. ASSUME NEW x PROVE x \in Held' <=> x \in Held /\ x # task[t].conn
    <3>1. x \in Held' <=> x # NoOne /\ \E u \in Task : task'[u].conn = x BY DEF Held
    <3>2. x \in Held <=> x # NoOne /\ \E u \in Task : task[u].conn = x BY DEF Held
    <3>3. \A u \in Task : task[u].conn # NoOne /\ task[u].conn = task[t].conn => u = t
      BY <1>3 DEF Holders
    <3>4. QED BY <1>1, <3>1, <3>2, <3>3
  <2>2. QED BY <2>1 DEF Held
<1>5. HeldOnce' BY <1>1, <1>2 DEF Owners, HeldOnce, Holders
<1>6. Held \subseteq Conn /\ Holders \subseteq Task BY Sizes
<1>7. QED BY <1>2, <1>4, <1>5, <1>6, Removed DEF PoolAssumption

\* A connection leaves the queue at its head, or is put back.
LEMMA PopQueue ==
  ASSUME TypeOK, Owners, queue # <<>>, queue' = Tail(queue)
  PROVE  /\ queue' \in Seq(Conn) /\ Len(queue) \in Nat /\ Len(queue') = Len(queue) - 1
         /\ Head(queue) \in Queued /\ Queued' = Queued \ {Head(queue)} /\ QueuedOnce'
<1>1. /\ queue \in Seq(Conn) /\ Tail(queue) \in Seq(Conn) /\ Len(queue) \in Nat
      /\ Len(queue) >= 1 /\ Len(Tail(queue)) = Len(queue) - 1 /\ Head(queue) = queue[1]
      /\ \A i \in 1 .. Len(queue) - 1 : Tail(queue)[i] = queue[i + 1]
  BY DEF TypeOK
<1>2. \A i, j \in 1 .. Len(queue) : queue[i] = queue[j] => i = j
  BY DEF Owners, QueuedOnce
<1>3. 1 \in 1 .. Len(queue) /\ Head(queue) \in Queued BY <1>1 DEF Queued
<1>4. ASSUME NEW x PROVE x \in Queued' <=> x \in Queued /\ x # Head(queue)
  <2>1. x \in Queued' <=> \E i \in 1 .. Len(queue) - 1 : x = queue[i + 1]
    BY <1>1 DEF Queued
  <2>2. x \in Queued <=> \E i \in 1 .. Len(queue) : x = queue[i] BY DEF Queued
  <2>3. ASSUME x \in Queued' PROVE x \in Queued /\ x # Head(queue)
    <3>1. PICK i \in 1 .. Len(queue) - 1 : x = queue[i + 1] BY <2>1, <2>3
    <3>2. i + 1 \in 1 .. Len(queue) /\ i + 1 # 1 BY <1>1
    <3>3. QED BY <1>1, <1>2, <1>3, <2>2, <3>1, <3>2
  <2>4. ASSUME x \in Queued, x # Head(queue) PROVE x \in Queued'
    <3>1. PICK i \in 1 .. Len(queue) : x = queue[i] BY <2>2, <2>4
    <3>2. i - 1 \in 1 .. Len(queue) - 1 /\ (i - 1) + 1 = i BY <1>1, <2>4, <3>1
    <3>3. QED BY <2>1, <3>1, <3>2
  <2>5. QED BY <2>3, <2>4
<1>5. QueuedOnce'
  <2> SUFFICES ASSUME NEW i \in 1 .. Len(queue'), NEW j \in 1 .. Len(queue'),
                      queue'[i] = queue'[j]
               PROVE  i = j
    BY DEF QueuedOnce
  <2>1. i + 1 \in 1 .. Len(queue) /\ j + 1 \in 1 .. Len(queue) /\ queue[i + 1] = queue[j + 1]
    BY <1>1
  <2>2. QED BY <1>2, <2>1
<1>6. QED BY <1>1, <1>3, <1>4, <1>5

\* One that is not in the queue is appended.
LEMMA PushQueue ==
  ASSUME TypeOK, Owners, NEW c \in Conn, c \notin Queued, queue' = Append(queue, c)
  PROVE  /\ queue' \in Seq(Conn) /\ Len(queue) \in Nat /\ Len(queue') = Len(queue) + 1
         /\ Queued' = Queued \cup {c} /\ QueuedOnce'
<1>1. /\ queue \in Seq(Conn) /\ Append(queue, c) \in Seq(Conn) /\ Len(queue) \in Nat
      /\ Len(Append(queue, c)) = Len(queue) + 1 /\ Append(queue, c)[Len(queue) + 1] = c
      /\ \A i \in 1 .. Len(queue) : Append(queue, c)[i] = queue[i]
  BY DEF TypeOK
<1>2. \A i, j \in 1 .. Len(queue) : queue[i] = queue[j] => i = j
  BY DEF Owners, QueuedOnce
<1>3. \A i \in 1 .. Len(queue) + 1 : i \in 1 .. Len(queue) \/ i = Len(queue) + 1 BY <1>1
<1>4. Queued' = Queued \cup {c}
  <2>1. Queued' = {Append(queue, c)[i] : i \in 1 .. Len(queue) + 1} BY <1>1 DEF Queued
  <2>2. ASSUME NEW x PROVE x \in Queued' <=> x \in Queued \cup {c}
    <3>1. x \in Queued <=> \E i \in 1 .. Len(queue) : x = queue[i] BY DEF Queued
    <3>2. Len(queue) + 1 \in 1 .. Len(queue) + 1
          /\ \A i \in 1 .. Len(queue) : i \in 1 .. Len(queue) + 1
      BY <1>1
    <3>3. QED BY <1>1, <1>3, <2>1, <3>1, <3>2
  <2>3. QED BY <2>2
<1>5. QueuedOnce'
  <2> SUFFICES ASSUME NEW i \in 1 .. Len(queue'), NEW j \in 1 .. Len(queue'),
                      queue'[i] = queue'[j]
               PROVE  i = j
    BY DEF QueuedOnce
  <2>1. \A k \in 1 .. Len(queue) : queue[k] # c BY DEF Queued
  <2>2. QED BY <1>1, <1>2, <1>3, <2>1
<1>6. QED BY <1>1, <1>4, <1>5

\* The pool as do_mount leaves it: one connection, in the queue.
LEMMA InitInv == ASSUME PoolAssumption, Init PROVE PoolInv
<1>1. PICK c \in Conn : queue = <<c>> /\ usable = {c} /\ allocated = {c}
  BY DEF Init
<1>2. /\ mounted = TRUE /\ connections = 1 /\ busyConnections = 0 /\ streams = {}
      /\ maxConnections = MaxConn /\ woken = {} /\ task = [t \in Task |-> Idle]
  BY DEF Init
<1>3. MaxConn \in Nat /\ MaxConn >= 1 /\ NoOne \notin Conn BY DEF PoolAssumption
<1>4. Idle \in Jobs /\ Idle.conn = NoOne /\ Idle.pc = "idle" BY <1>3 DEF Idle, Jobs
<1>5. Cardinality({}) = 0 /\ Cardinality({c}) = 1 BY FS_EmptySet, FS_Singleton
<1>6. Held = {} /\ Holders = {} /\ Opening = {} /\ Waiting = {}
  BY <1>2, <1>4 DEF Held, Holders, Opening, Waiting
<1>7. /\ queue \in Seq(Conn) /\ Len(queue) = 1 /\ Queued = {c}
  BY <1>1 DEF Queued
<1>8. TypeOK
  BY <1>1, <1>2, <1>3, <1>4, <1>5, <1>6, <1>7 DEF TypeOK
<1>9. Owners
  <2>1. Sits BY <1>2, <1>4 DEF Sits
  <2>2. HeldOnce /\ QueuedOnce /\ Apart BY <1>2, <1>6, <1>7 DEF HeldOnce, QueuedOnce, Apart
  <2>3. QED BY <1>6, <2>1, <2>2, <1>5 DEF Owners
<1>10. Slots /\ LastOpened BY <1>2, <1>6 DEF Slots, LastOpened
<1>11. CountExact /\ OwnedOnce /\ WithinLimit
  BY <1>1, <1>2, <1>3, <1>5, <1>6, <1>7 DEF CountExact, OwnedOnce, WithinLimit
<1>12. QED BY <1>8, <1>9, <1>10, <1>11 DEF PoolInv

\* A step of a thread that leaves the connections where they are.
LEMMA QuietInv ==
  ASSUME PoolAssumption, PoolInv, NEW t \in Task, NEW r \in Jobs,
         task' = [task EXCEPT ![t] = r], r.conn = task[t].conn, r.maybe = task[t].maybe,
         r.conn # NoOne <=> r.pc \in {"have", "take", "release"},
         r.pc = "opening" <=> task[t].pc = "opening",
         UNCHANGED <<pool, allocated, streams>>, usable' \subseteq usable,
         woken' \subseteq Waiting'
  PROVE  PoolInv'
<1> USE DEF PoolInv
<1>1. /\ task' \in [Task -> Jobs] /\ task'[t] = r
      /\ \A u \in Task : u # t => task'[u] = task[u]
      /\ Opening' = Opening
  BY JobChanges
<1>2. Holders' = Holders /\ Held' = Held /\ HeldOnce' BY KeepsConnection
<1>3. /\ queue' = queue /\ mounted' = mounted /\ connections' = connections
      /\ busyConnections' = busyConnections /\ maxConnections' = maxConnections
      /\ lastThread' = lastThread /\ allocated' = allocated /\ streams' = streams
      /\ Queued' = Queued
  BY DEF pool, Queued
<1>4. TypeOK' BY <1>1, <1>3 DEF TypeOK
<1>5. Owners'
  <2>1. Sits' BY <1>1 DEF Owners, Sits
  <2>2. QueuedOnce' /\ Apart' BY <1>2, <1>3 DEF Owners, QueuedOnce, Apart
  <2>3. QED BY <1>2, <2>1, <2>2 DEF Owners
<1>6. Slots' /\ CountExact' /\ OwnedOnce' /\ WithinLimit'
  BY <1>1, <1>2, <1>3 DEF Slots, CountExact, OwnedOnce, WithinLimit
<1>7. LastOpened'
  BY <1>1, <1>3 DEF LastOpened, Opening
<1>8. QED BY <1>4, <1>5, <1>6, <1>7

\* A job begins.
LEMMA StartInv ==
  ASSUME PoolAssumption, PoolInv, NEW t \in Task, NEW kind \in {"plain", "open"}, Start(t, kind)
  PROVE  PoolInv'
<1> DEFINE r == [task[t] EXCEPT !.pc = "acquire", !.kind = kind]
<1>1. /\ task[t] \in Jobs /\ task[t].pc = "idle" /\ task[t].conn = NoOne
  BY DEF Start, PoolInv, TypeOK, Owners, Sits
<1>2. task' = [task EXCEPT ![t] = r] BY DEF Start
<1>3. /\ r \in Jobs /\ r.pc = "acquire" /\ r.conn = task[t].conn /\ r.maybe = task[t].maybe
  BY <1>1 DEF Jobs
<1>4. UNCHANGED <<pool, allocated, streams, usable, woken>> BY DEF Start, conn
<1> HIDE DEF r
<1>5. woken' \subseteq Waiting'
  <2>1. Waiting \ {t} \subseteq Waiting' BY <1>2, <1>3, JobChanges DEF PoolInv
  <2>2. QED BY <1>1, <1>4, <2>1 DEF PoolInv, TypeOK, Waiting
<1>6. QED BY <1>1, <1>2, <1>3, <1>4, <1>5, QuietInv

\* A job that gives up, or fails while it waits.
LEMMA FailInv ==
  ASSUME PoolAssumption, PoolInv, NEW t \in Task, NEW e \in {"busy", "cancelled", "not mounted"},
         task[t].pc \in {"acquire", "waiting"}, t \notin woken,
         Fail(t, e), UNCHANGED <<pool, conn, woken>>
  PROVE  PoolInv'
<1> DEFINE r == [task[t] EXCEPT !.pc = "done", !.error = e]
<1>1. task[t] \in Jobs /\ task[t].conn = NoOne
  BY DEF PoolInv, TypeOK, Owners, Sits
<1>2. task' = [task EXCEPT ![t] = r] BY DEF Fail
<1>3. /\ r \in Jobs /\ r.pc = "done" /\ r.conn = task[t].conn /\ r.maybe = task[t].maybe
  BY <1>1 DEF Jobs
<1>4. UNCHANGED <<pool, allocated, streams, usable, woken>> BY DEF conn
<1> HIDE DEF r
<1>5. woken' \subseteq Waiting'
  <2>1. Waiting \ {t} \subseteq Waiting' BY <1>2, <1>3, JobChanges DEF PoolInv
  <2>2. QED BY <1>4, <2>1 DEF PoolInv, TypeOK
<1>6. QED BY <1>1, <1>2, <1>3, <1>4, <1>5, QuietInv

\* It was cancelled, the backend was unmounted, or nothing came free in time.
LEMMA GiveUpInv ==
  ASSUME PoolAssumption, PoolInv, NEW t \in Task, GiveUp(t) \/ TimedOut(t)
  PROVE  PoolInv'
<1>1. \A u \in woken : task[u].pc = "waiting" BY DEF PoolInv, TypeOK, Waiting
<1>2. PICK e \in {"busy", "cancelled", "not mounted"} :
        /\ task[t].pc \in {"acquire", "waiting"} /\ t \notin woken
        /\ Fail(t, e) /\ UNCHANGED <<pool, conn, woken>>
  BY <1>1 DEF GiveUp, TimedOut
<1>3. QED BY <1>2, FailInv

\* A signalled thread goes on.
LEMMA WokenInv ==
  ASSUME PoolAssumption, PoolInv, NEW t \in Task, Woken(t)
  PROVE  PoolInv'
<1> DEFINE r == [task[t] EXCEPT !.pc = "acquire"]
<1>1. task[t] \in Jobs /\ task[t].pc = "waiting" /\ task[t].conn = NoOne
  BY DEF Woken, PoolInv, TypeOK, Owners, Sits
<1>2. task' = [task EXCEPT ![t] = r] BY DEF Woken, Goto
<1>3. /\ r \in Jobs /\ r.pc = "acquire" /\ r.conn = task[t].conn /\ r.maybe = task[t].maybe
  BY <1>1 DEF Jobs
<1>4. UNCHANGED <<pool, allocated, streams, usable>> /\ woken' = woken \ {t} BY DEF Woken, conn
<1> HIDE DEF r
<1>5. woken' \subseteq Waiting'
  <2>1. Waiting \ {t} \subseteq Waiting' BY <1>2, <1>3, JobChanges DEF PoolInv
  <2>2. QED BY <1>4, <2>1 DEF PoolInv, TypeOK
<1>6. QED BY <1>1, <1>2, <1>3, <1>4, <1>5, QuietInv

\* g_vfs_ftp_task_sendv with a connection, which the task keeps.
LEMMA SendRepliedInv ==
  ASSUME PoolAssumption, PoolInv, NEW t \in Task, NEW ok \in BOOLEAN, SendReplied(t, ok)
  PROVE  PoolInv'
<1> DEFINE pc == IF ok /\ task[t].kind = "open" THEN "take" ELSE "release"
           e == IF ok THEN "none" ELSE "refused"
           r == [task[t] EXCEPT !.pc = pc, !.error = e]
<1>1. task[t] \in Jobs /\ task[t].pc = "have" /\ task[t].conn # NoOne
  BY DEF SendReplied, PoolInv, TypeOK, Owners, Sits
<1>2. task' = [task EXCEPT ![t] = r] BY DEF SendReplied
<1>3. pc \in {"take", "release"} /\ e \in {"none", "refused"} OBVIOUS
<1> HIDE DEF pc, e
<1>4. /\ r \in Jobs /\ r.pc = pc /\ r.conn = task[t].conn /\ r.maybe = task[t].maybe
  BY <1>1, <1>3 DEF Jobs
<1>5. UNCHANGED <<pool, allocated, streams, usable, woken>> BY DEF SendReplied, conn
<1> HIDE DEF r
<1>6. woken' \subseteq Waiting'
  <2>1. Waiting \ {t} \subseteq Waiting' BY <1>2, <1>4, JobChanges DEF PoolInv
  <2>2. QED BY <1>1, <1>5, <2>1 DEF PoolInv, TypeOK, Waiting
<1>7. r.pc \in {"take", "release"} /\ r.conn # NoOne /\ r.pc # "opening" /\ task[t].pc # "opening"
  BY <1>1, <1>3, <1>4
<1>8. QED BY <1>2, <1>4, <1>5, <1>6, <1>7, QuietInv

\* The thread is free for another job.
LEMMA AnsweredInv ==
  ASSUME PoolAssumption, PoolInv, NEW t \in Task, Answered(t)
  PROVE  PoolInv'
<1> USE DEF PoolInv
<1>1. task[t] \in Jobs /\ task[t].pc = "done" /\ task[t].conn = NoOne
  BY DEF Answered, TypeOK, Owners, Sits
<1>2. task' = [task EXCEPT ![t] = Idle] /\ UNCHANGED <<pool, allocated, streams, usable, woken>>
  BY DEF Answered, conn
<1>3. Idle \in Jobs /\ Idle.conn = NoOne /\ Idle.pc = "idle"
  BY DEF Idle, Jobs, PoolAssumption
<1>4. /\ task' \in [Task -> Jobs] /\ task'[t] = Idle
      /\ \A u \in Task : u # t => task'[u] = task[u]
      /\ Waiting \ {t} \subseteq Waiting' /\ Opening' = Opening
  BY <1>1, <1>2, <1>3, JobChanges
<1>5. Holders' = Holders /\ Held' = Held /\ HeldOnce' BY <1>1, <1>2, <1>3, KeepsConnection
<1>6. Queued' = Queued /\ queue' = queue /\ mounted' = mounted /\ connections' = connections
      /\ busyConnections' = busyConnections /\ maxConnections' = maxConnections
      /\ lastThread' = lastThread
  BY <1>2 DEF pool, Queued
<1>7. TypeOK'
  BY <1>1, <1>2, <1>4, <1>6 DEF TypeOK, Waiting
<1>8. Owners'
  <2>1. Sits' BY <1>3, <1>4 DEF Owners, Sits
  <2>2. QueuedOnce' /\ Apart' BY <1>2, <1>5, <1>6 DEF Owners, QueuedOnce, Apart
  <2>3. QED BY <1>5, <2>1, <2>2 DEF Owners
<1>9. Slots' /\ CountExact' /\ OwnedOnce' /\ WithinLimit'
  BY <1>2, <1>4, <1>5, <1>6 DEF Slots, CountExact, OwnedOnce, WithinLimit
<1>10. LastOpened'
  <2>1. \A u \in Opening : task'[u] = task[u] BY <1>1, <1>4 DEF Opening
  <2>2. QED BY <1>4, <1>6, <2>1 DEF LastOpened
<1>11. QED BY <1>7, <1>8, <1>9, <1>10

\* A cancelled job keeps its connection until it notices.
LEMMA CancelInv ==
  ASSUME PoolAssumption, PoolInv, NEW t \in Task, Cancel(t)
  PROVE  PoolInv'
<1> DEFINE r == [task[t] EXCEPT !.cancelled = TRUE]
<1>1. task[t] \in Jobs /\ (task[t].conn # NoOne <=> task[t].pc \in {"have", "take", "release"})
  BY DEF PoolInv, TypeOK, Owners, Sits
<1>2. task' = [task EXCEPT ![t] = r] BY DEF Cancel
<1>3. /\ r \in Jobs /\ r.pc = task[t].pc /\ r.conn = task[t].conn /\ r.maybe = task[t].maybe
  BY <1>1 DEF Jobs
<1>4. UNCHANGED <<pool, allocated, streams, usable>> /\ woken' = Waiting BY DEF Cancel, conn
<1> HIDE DEF r
<1>5. Waiting' = Waiting BY <1>2, <1>3, JobChanges DEF PoolInv
<1>6. QED BY <1>1, <1>2, <1>3, <1>4, <1>5, QuietInv

\* The server closes a connection: its owner has it still.
LEMMA ServerClosesInv ==
  ASSUME PoolInv, NEW c \in Conn, ServerCloses(c)
  PROVE  PoolInv'
<1>1. /\ usable' = usable \ {c} /\ UNCHANGED <<pool, allocated, streams, task, woken>>
  BY DEF ServerCloses
<1>2. TypeOK' BY <1>1 DEF PoolInv, TypeOK, pool, Waiting
<1>3. QED
  BY <1>1, <1>2 DEF PoolInv, pool, Owners, Sits, HeldOnce, QueuedOnce, Apart, Queued, Held,
     Holders, Opening, Slots, LastOpened, CountExact, OwnedOnce, WithinLimit

\* g_vfs_ftp_task_acquire_connection finds no usable connection.  A dead one at
\* the head of the queue is freed; then the thread opens one, fails or waits.
LEMMA AcquireConnectionInv ==
  ASSUME PoolAssumption, PoolInv, NEW t \in Task, AcquireConnection(t)
  PROVE  PoolInv'
<1> USE DEF PoolInv
<1> DEFINE head == IF queue = <<>> THEN NoOne ELSE Head(queue)
           dead == head /= NoOne /\ ~Usable(head)
           left == IF dead THEN connections - 1 ELSE connections
           opens == left < maxConnections
           r == IF opens THEN [task[t] EXCEPT !.pc = "opening", !.maybe = left]
                ELSE IF busyConnections >= left
                THEN [task[t] EXCEPT !.pc = "done", !.error = "busy"]
                ELSE [task[t] EXCEPT !.pc = "waiting"]
<1>1. /\ task[t].pc = "acquire" /\ mounted
      /\ queue' = IF dead THEN Tail(queue) ELSE queue
      /\ IF dead THEN Free(head) ELSE UNCHANGED <<allocated, usable>>
      /\ connections' = IF opens THEN left + 1 ELSE left
      /\ lastThread' = IF opens THEN t ELSE lastThread
      /\ task' = [task EXCEPT ![t] = r]
      /\ woken' = woken \ {t}
      /\ UNCHANGED <<mounted, busyConnections, maxConnections, streams>>
  BY DEF AcquireConnection, Fail, Goto
<1>2. /\ Held \subseteq Conn /\ Holders \subseteq Task /\ Opening \subseteq Task
      /\ Cardinality(Held) \in Nat /\ Cardinality(Holders) \in Nat
      /\ Cardinality(streams) \in Nat /\ Cardinality(Opening) \in Nat
      /\ Cardinality(allocated) \in Nat /\ Len(queue) \in Nat
  BY Sizes
<1>3. task[t] \in Jobs /\ task[t].conn = NoOne /\ t \notin Opening
  BY <1>1 DEF TypeOK, Owners, Sits, Opening
<1>4. dead => queue # <<>> /\ head = Head(queue) OBVIOUS
<1>5. /\ queue' \in Seq(Conn)
      /\ Len(queue') = IF dead THEN Len(queue) - 1 ELSE Len(queue)
      /\ dead => head \in Queued /\ head \in Conn
      /\ Queued' = IF dead THEN Queued \ {head} ELSE Queued
      /\ QueuedOnce'
  <2>1. CASE dead
    <3>1. queue # <<>> /\ head = Head(queue) /\ queue' = Tail(queue) BY <1>1, <1>4, <2>1
    <3>2. /\ queue' \in Seq(Conn) /\ Len(queue') = Len(queue) - 1 /\ head \in Queued
          /\ Queued' = Queued \ {head} /\ QueuedOnce'
      BY <3>1, PopQueue
    <3>3. Queued \subseteq Conn BY Sizes
    <3>4. QED BY <2>1, <3>2, <3>3
  <2>2. CASE ~dead
    BY <1>1, <2>2 DEF TypeOK, Queued, Owners, QueuedOnce
  <2>3. QED BY <2>1, <2>2
<1>6. /\ dead => allocated' = allocated \ {head} /\ usable' = usable \ {head}
      /\ ~dead => allocated' = allocated /\ usable' = usable
  BY <1>1 DEF Free
<1>7. left \in Nat /\ left <= connections /\ left = Len(queue') + Cardinality(Held)
                                   + Cardinality(streams) + Cardinality(Opening)
  <2>1. connections = Len(queue) + Cardinality(Held) + Cardinality(streams) + Cardinality(Opening)
    BY <1>1 DEF CountExact
  <2>2. Len(queue') \in Nat /\ Len(queue') = IF dead THEN Len(queue) - 1 ELSE Len(queue)
    BY <1>5
  <2>3. left = IF dead THEN connections - 1 ELSE connections OBVIOUS
  <2> HIDE DEF left, dead, head
  <2>8. connections \in Int BY <1>2, <2>1
  <2>4. left = connections - (Len(queue) - Len(queue')) /\ left \in Int /\ left <= connections
    <3>1. CASE dead BY <3>1, <1>2, <2>2, <2>3, <2>8
    <3>2. CASE ~dead BY <3>2, <1>2, <2>2, <2>3, <2>8
    <3>3. QED BY <3>1, <3>2
  <2>5. left <= connections BY <2>4
  <2>6. left = Len(queue') + Cardinality(Held) + Cardinality(streams) + Cardinality(Opening)
    BY <1>2, <2>1, <2>2, <2>4, Sums
  <2>7. QED BY <1>2, <2>2, <2>5, <2>6
<1> HIDE DEF head, dead, left
<1>8. /\ r \in Jobs /\ r.conn = NoOne
      /\ IF opens THEN r.pc = "opening" /\ r.maybe = left ELSE r.pc \in {"done", "waiting"}
  <2>1. opens => left \in 0 .. MaxConn
    BY <1>7 DEF TypeOK, PoolAssumption
  <2>2. QED BY <1>3, <2>1 DEF Jobs
<1> HIDE DEF r
<1>9. /\ task' \in [Task -> Jobs] /\ task'[t] = r
      /\ \A u \in Task : u # t => task'[u] = task[u]
      /\ Waiting \ {t} \subseteq Waiting'
      /\ Opening' = IF opens THEN Opening \cup {t} ELSE Opening
  <2>1. /\ task' \in [Task -> Jobs] /\ task'[t] = r
        /\ \A u \in Task : u # t => task'[u] = task[u]
        /\ Waiting \ {t} \subseteq Waiting'
        /\ r.pc = "opening" => Opening' = Opening \cup {t}
        /\ r.pc # "opening" => Opening' = Opening \ {t}
    BY <1>1, <1>8, JobChanges
  <2>2. QED BY <1>3, <1>8, <2>1
<1>10. Holders' = Holders /\ Held' = Held /\ HeldOnce'
  BY <1>1, <1>3, <1>8, KeepsConnection
<1>11. Cardinality(Opening') = IF opens THEN Cardinality(Opening) + 1 ELSE Cardinality(Opening)
  <2>1. Cardinality(Opening \cup {t}) = Cardinality(Opening) + 1
    BY <1>2, <1>3, Added DEF PoolAssumption
  <2>2. QED BY <1>9, <2>1
<1>12. TypeOK'
  <2>1. connections' \in Nat BY <1>1, <1>7
  <2>2. usable' \subseteq allocated' /\ allocated' \subseteq Conn BY <1>6 DEF TypeOK
  <2>3. QED BY <1>1, <1>5, <1>9, <2>1, <2>2 DEF TypeOK
<1>13. Owners'
  <2>1. Sits' BY <1>8, <1>9 DEF Owners, Sits
  <2>2. Apart' BY <1>1, <1>5, <1>10 DEF Owners, Apart
  <2>3. QED BY <1>5, <1>10, <2>1, <2>2 DEF Owners
<1>14. Slots' /\ CountExact'
  <2>1. connections' = Len(queue') + Cardinality(Held) + Cardinality(streams) + Cardinality(Opening')
    <3>1. Len(queue') \in Nat BY <1>5
    <3>2. CASE opens
      <4>1. connections' = left + 1 /\ Cardinality(Opening') = Cardinality(Opening) + 1
        BY <1>1, <1>11, <3>2
      <4>2. QED BY <1>2, <1>7, <3>1, <4>1, Sums
    <3>3. CASE ~opens BY <1>1, <1>2, <1>7, <1>11, <3>1, <3>3
    <3>4. QED BY <3>2, <3>3
  <2>2. QED BY <1>1, <1>10, <2>1 DEF Slots, CountExact
<1>15. OwnedOnce'
  <2>1. allocated' = Queued' \cup Held' \cup streams'
    BY <1>1, <1>5, <1>6, <1>10 DEF OwnedOnce, Owners, Apart
  <2>2. dead => Cardinality(allocated') = Cardinality(allocated) - 1
    <3>1. dead => head \in allocated BY <1>5 DEF OwnedOnce
    <3>2. allocated \subseteq Conn BY DEF TypeOK
    <3>3. QED BY <1>6, <3>1, <3>2, Removed DEF PoolAssumption
  <2>3. Cardinality(allocated') = Len(queue') + Cardinality(Holders') + Cardinality(streams')
    <3>1. Cardinality(allocated) = Len(queue) + Cardinality(Holders) + Cardinality(streams)
      BY DEF OwnedOnce
    <3>2. Cardinality(allocated') = Cardinality(allocated) - (Len(queue) - Len(queue'))
      BY <1>2, <1>5, <1>6, <2>2
    <3>3. Len(queue') \in Nat /\ Cardinality(allocated') \in Int BY <1>2, <1>5, <1>6, <2>2
    <3>4. Cardinality(allocated') = Len(queue') + Cardinality(Holders) + Cardinality(streams)
      BY <1>2, <3>1, <3>2, <3>3, Sums
    <3>5. QED BY <1>1, <1>10, <3>4
  <2>4. QED BY <2>1, <2>3 DEF OwnedOnce
<1>16. WithinLimit'
  BY <1>1, <1>7 DEF WithinLimit, TypeOK
<1>17. LastOpened'
  <2> SUFFICES ASSUME NEW u \in Opening', lastThread' = u
               PROVE  connections' <= task'[u].maybe + 1
    BY DEF LastOpened
  <2>1. CASE opens
    BY <1>1, <1>7, <1>8, <1>9, <2>1
  <2>2. CASE ~opens
    <3>1. u \in Opening /\ u # t /\ u \in Task /\ lastThread = u BY <1>1, <1>2, <1>3, <1>9, <2>2
    <3>2. connections <= task[u].maybe + 1 BY <3>1 DEF LastOpened
    <3>3. task[u].maybe \in Nat /\ task'[u] = task[u] /\ connections \in Nat
      <4>1. task[u].maybe \in 0 .. MaxConn /\ connections \in Nat BY <3>1 DEF TypeOK, Jobs
      <4>2. MaxConn \in Nat BY DEF PoolAssumption
      <4>3. QED BY <1>9, <3>1, <4>1, <4>2
    <3>4. QED BY <1>1, <1>7, <2>2, <3>2, <3>3
  <2>3. QED BY <2>1, <2>2
<1>18. QED BY <1>12, <1>13, <1>14, <1>15, <1>16, <1>17

\* The thread takes a usable connection from the queue.
LEMMA ReuseInv ==
  ASSUME PoolAssumption, PoolInv, NEW t \in Task, Reuse(t)
  PROVE  PoolInv'
<1> USE DEF PoolInv
<1> DEFINE c == Head(queue)
           r == [task[t] EXCEPT !.pc = "have", !.conn = c, !.retry = TRUE]
<1>1. /\ task[t].pc = "acquire" /\ mounted /\ queue # <<>> /\ queue' = Tail(queue)
      /\ task' = [task EXCEPT ![t] = r]
      /\ UNCHANGED <<mounted, connections, busyConnections, maxConnections, lastThread,
                     usable, allocated, streams, woken>>
  BY DEF Reuse, conn
<1>2. /\ queue' \in Seq(Conn) /\ Len(queue) \in Nat /\ Len(queue') = Len(queue) - 1
      /\ c \in Queued /\ Queued' = Queued \ {c} /\ QueuedOnce'
  BY <1>1, PopQueue
<1>3. task[t] \in Jobs /\ task[t].conn = NoOne BY <1>1 DEF TypeOK, Owners, Sits
<1>4. c \in Conn /\ c # NoOne /\ c \notin Held /\ c \notin streams
  <2>1. Queued \subseteq Conn BY Sizes
  <2>2. QED BY <1>2, <2>1 DEF Owners, Apart, PoolAssumption
<1>5. r \in Jobs /\ r.pc = "have" /\ r.conn = c /\ r.maybe = task[t].maybe
  BY <1>3, <1>4 DEF Jobs
<1> HIDE DEF c, r
<1>6. /\ task' \in [Task -> Jobs] /\ task'[t] = r
      /\ \A u \in Task : u # t => task'[u] = task[u]
      /\ Waiting \ {t} \subseteq Waiting' /\ Opening' = Opening
  BY <1>1, <1>5, JobChanges
<1>7. /\ Holders' = Holders \cup {t} /\ Held' = Held \cup {c} /\ HeldOnce'
      /\ Cardinality(Held') = Cardinality(Held) + 1
      /\ Cardinality(Holders') = Cardinality(Holders) + 1
  BY <1>1, <1>3, <1>4, <1>5, GetsConnection
<1>8. /\ Cardinality(Held) \in Nat /\ Cardinality(Holders) \in Nat
      /\ Cardinality(streams) \in Nat /\ Cardinality(Opening) \in Nat
  BY Sizes
<1>9. TypeOK' BY <1>1, <1>2, <1>6 DEF TypeOK, Waiting
<1>10. Owners'
  <2>1. Sits' BY <1>4, <1>5, <1>6 DEF Owners, Sits
  <2>2. Apart' BY <1>1, <1>2, <1>4, <1>7 DEF Owners, Apart
  <2>3. QED BY <1>2, <1>7, <2>1, <2>2 DEF Owners
<1>11. Slots' /\ CountExact' /\ WithinLimit'
  BY <1>1, <1>2, <1>6, <1>7, <1>8 DEF Slots, CountExact, WithinLimit
<1>12. OwnedOnce'
  <2>1. allocated' = Queued' \cup Held' \cup streams' BY <1>1, <1>2, <1>7 DEF OwnedOnce
  <2>2. Cardinality(allocated) = Len(queue) + Cardinality(Holders) + Cardinality(streams)
    BY DEF OwnedOnce
  <2>3. Len(queue') + Cardinality(Holders') = Len(queue) + Cardinality(Holders)
    BY <1>2, <1>7, <1>8
  <2>4. QED BY <1>1, <2>1, <2>2, <2>3 DEF OwnedOnce
<1>13. LastOpened' BY <1>1, <1>5, <1>6 DEF LastOpened, Opening
<1>14. QED BY <1>9, <1>10, <1>11, <1>12, <1>13

\* The connection that was being opened exists now, and is counted already.
LEMMA OpenedInv ==
  ASSUME PoolAssumption, PoolInv, NEW t \in Task, Opened(t)
  PROVE  PoolInv'
<1> USE DEF PoolInv
<1>1. PICK c \in Conn \ allocated :
        /\ task' = [task EXCEPT ![t].pc = "have", ![t].conn = c, ![t].retry = TRUE]
        /\ allocated' = allocated \cup {c} /\ usable' = usable \cup {c}
  BY DEF Opened
<1>2. task[t].pc = "opening" /\ UNCHANGED <<pool, streams, woken>> BY DEF Opened
<1> DEFINE r == [task[t] EXCEPT !.pc = "have", !.conn = c, !.retry = TRUE]
<1>3. task' = [task EXCEPT ![t] = r] BY <1>1
<1>4. task[t] \in Jobs /\ task[t].conn = NoOne /\ t \in Opening
  BY <1>2 DEF TypeOK, Owners, Sits, Opening
<1>5. c \in Conn /\ c # NoOne /\ c \notin Held /\ c \notin streams /\ c \notin Queued
  BY DEF OwnedOnce, PoolAssumption
<1>6. r \in Jobs /\ r.pc = "have" /\ r.conn = c
  BY <1>4, <1>5 DEF Jobs
<1> HIDE DEF r
<1>7. /\ task' \in [Task -> Jobs] /\ task'[t] = r
      /\ \A u \in Task : u # t => task'[u] = task[u]
      /\ Waiting \ {t} \subseteq Waiting' /\ Opening' = Opening \ {t}
  BY <1>3, <1>6, JobChanges
<1>8. /\ Holders' = Holders \cup {t} /\ Held' = Held \cup {c} /\ HeldOnce'
      /\ Cardinality(Held') = Cardinality(Held) + 1
      /\ Cardinality(Holders') = Cardinality(Holders) + 1
  BY <1>3, <1>4, <1>5, <1>6, GetsConnection
<1>9. /\ Cardinality(Held) \in Nat /\ Cardinality(Holders) \in Nat /\ Len(queue) \in Nat
      /\ Cardinality(streams) \in Nat /\ Cardinality(Opening) \in Nat /\ Opening \subseteq Task
      /\ Cardinality(allocated) \in Nat
  BY Sizes
<1>10. Cardinality(Opening') = Cardinality(Opening) - 1
  BY <1>4, <1>7, <1>9, Removed DEF PoolAssumption
<1>11. Cardinality(allocated') = Cardinality(allocated) + 1
  BY <1>1, Added DEF PoolAssumption, TypeOK
<1>12. /\ queue' = queue /\ mounted' = mounted /\ connections' = connections
       /\ busyConnections' = busyConnections /\ maxConnections' = maxConnections
       /\ lastThread' = lastThread /\ streams' = streams /\ woken' = woken /\ Queued' = Queued
  BY <1>2 DEF pool, Queued
<1>13. TypeOK'
  <2>1. woken' \subseteq Waiting' BY <1>2, <1>7, <1>12 DEF TypeOK, Waiting
  <2>2. usable' \subseteq allocated' /\ allocated' \subseteq Conn BY <1>1 DEF TypeOK
  <2>3. QED BY <1>7, <1>12, <2>1, <2>2 DEF TypeOK
<1>14. Owners'
  <2>1. Sits' BY <1>5, <1>6, <1>7 DEF Owners, Sits
  <2>2. Apart' /\ QueuedOnce' BY <1>5, <1>8, <1>12 DEF Owners, Apart, QueuedOnce
  <2>3. QED BY <1>8, <2>1, <2>2 DEF Owners
<1>15. Slots' /\ CountExact' /\ WithinLimit'
  <2>1. /\ Cardinality(Held') + Cardinality(streams') + Cardinality(Opening')
             = Cardinality(Held) + Cardinality(streams) + Cardinality(Opening)
        /\ Len(queue') + Cardinality(Held') + Cardinality(streams') + Cardinality(Opening')
             = Len(queue) + Cardinality(Held) + Cardinality(streams) + Cardinality(Opening)
    <3>1. /\ (Cardinality(Held) + 1) + Cardinality(streams) + (Cardinality(Opening) - 1)
                = Cardinality(Held) + Cardinality(streams) + Cardinality(Opening)
          /\ Len(queue) + (Cardinality(Held) + 1) + Cardinality(streams) + (Cardinality(Opening) - 1)
                = Len(queue) + Cardinality(Held) + Cardinality(streams) + Cardinality(Opening)
      BY <1>9, Sums
    <3>2. QED BY <1>8, <1>10, <1>12, <3>1
  <2>2. Slots' BY <1>12, <2>1 DEF Slots
  <2>3. CountExact' BY <1>12, <2>1 DEF CountExact
  <2>4. QED BY <1>12, <2>2, <2>3 DEF WithinLimit
<1>16. OwnedOnce'
  <2>1. allocated' = Queued' \cup Held' \cup streams' BY <1>1, <1>8, <1>12 DEF OwnedOnce
  <2>2. QED BY <1>8, <1>9, <1>11, <1>12, <2>1 DEF OwnedOnce
<1>17. LastOpened' BY <1>7, <1>9, <1>12 DEF LastOpened
<1>18. QED BY <1>13, <1>14, <1>15, <1>16, <1>17

\* The attempt fails.  The limit is lowered to what was there before it, and
\* only if nobody else has begun an attempt: then nothing was added meanwhile.
LEMMA OpenFailedInv ==
  ASSUME PoolAssumption, PoolInv, NEW t \in Task, OpenFailed(t)
  PROVE  PoolInv'
<1> USE DEF PoolInv
<1> DEFINE reliable == lastThread = t /\ ~task[t].cancelled
           limit == IF reliable THEN Least(maxConnections, task[t].maybe) ELSE maxConnections
           r == IF reliable /\ limit = 0
                THEN [task[t] EXCEPT !.pc = "done", !.error = "closed"]
                ELSE [task[t] EXCEPT !.pc = "acquire"]
<1>1. /\ task[t].pc = "opening" /\ connections' = connections - 1 /\ maxConnections' = limit
      /\ task' = [task EXCEPT ![t] = r] /\ woken' \in {woken, Waiting}
      /\ UNCHANGED <<queue, mounted, busyConnections, lastThread, usable, allocated, streams>>
  BY DEF OpenFailed, Fail, Goto, conn
<1>2. task[t] \in Jobs /\ task[t].conn = NoOne /\ t \in Opening /\ task[t].maybe \in 0 .. MaxConn
  BY <1>1 DEF TypeOK, Owners, Sits, Opening, Jobs
<1>3. r \in Jobs /\ r.conn = NoOne /\ r.pc \in {"done", "acquire"}
  BY <1>2 DEF Jobs
<1>4. /\ Cardinality(Held) \in Nat /\ Cardinality(Holders) \in Nat /\ Len(queue) \in Nat
      /\ Cardinality(streams) \in Nat /\ Cardinality(Opening) \in Nat /\ Opening \subseteq Task
  BY Sizes
<1>5. /\ connections \in Nat /\ maxConnections \in 0 .. MaxConn /\ connections <= maxConnections
      /\ MaxConn \in Nat
  BY DEF TypeOK, WithinLimit, PoolAssumption
<1>6. limit \in 0 .. MaxConn /\ connections - 1 <= limit
  <2>1. reliable => connections <= task[t].maybe + 1 BY <1>2 DEF LastOpened
  <2>2. QED BY <1>2, <1>5, <2>1 DEF Least
<1> HIDE DEF limit, reliable, r
<1>7. /\ task' \in [Task -> Jobs] /\ task'[t] = r
      /\ \A u \in Task : u # t => task'[u] = task[u]
      /\ Waiting \ {t} \subseteq Waiting' /\ Opening' = Opening \ {t}
  BY <1>1, <1>3, JobChanges
<1>8. Holders' = Holders /\ Held' = Held /\ HeldOnce' BY <1>1, <1>2, <1>3, KeepsConnection
<1>9. Cardinality(Opening') = Cardinality(Opening) - 1 /\ Cardinality(Opening) >= 1
  BY <1>2, <1>4, <1>7, Removed DEF PoolAssumption
<1>10. connections >= Cardinality(Held) + Cardinality(streams) + Cardinality(Opening)
  BY <1>4, <1>5 DEF CountExact, Slots, TypeOK
<1>11. Queued' = Queued BY <1>1 DEF Queued
<1>12. TypeOK'
  <2>1. connections' \in Nat BY <1>1, <1>4, <1>5, <1>9, <1>10
  <2>2. woken' \subseteq Waiting' BY <1>1, <1>7 DEF TypeOK, Waiting
  <2>3. QED BY <1>1, <1>6, <1>7, <2>1, <2>2 DEF TypeOK
<1>13. Owners'
  <2>1. Sits' BY <1>3, <1>7 DEF Owners, Sits
  <2>2. Apart' /\ QueuedOnce' BY <1>1, <1>8, <1>11 DEF Owners, Apart, QueuedOnce
  <2>3. QED BY <1>8, <2>1, <2>2 DEF Owners
<1>14. Slots' /\ CountExact'
  <2>1. connections' >= Cardinality(Held') + Cardinality(streams') + Cardinality(Opening')
    BY <1>1, <1>4, <1>5, <1>8, <1>9, <1>10
  <2>2. Slots' BY <1>1, <2>1 DEF Slots
  <2>3. mounted => connections = Len(queue) + Cardinality(Held) + Cardinality(streams)
                                 + Cardinality(Opening)
    BY DEF CountExact
  <2>4. mounted => connections' = Len(queue') + Cardinality(Held') + Cardinality(streams')
                                  + Cardinality(Opening')
    BY <1>1, <1>4, <1>5, <1>8, <1>9, <2>3
  <2>5. QED BY <1>1, <2>2, <2>4 DEF CountExact
<1>15. OwnedOnce' BY <1>1, <1>8, <1>11 DEF OwnedOnce
<1>16. WithinLimit' BY <1>1, <1>6 DEF WithinLimit
<1>17. LastOpened'
  <2> SUFFICES ASSUME NEW u \in Opening', lastThread' = u
               PROVE  connections' <= task'[u].maybe + 1
    BY DEF LastOpened
  <2>1. u \in Opening /\ u # t /\ u \in Task BY <1>4, <1>7
  <2>2. task'[u] = task[u] /\ task[u].maybe \in Nat /\ connections <= task[u].maybe + 1
    <3>1. task[u].maybe \in 0 .. MaxConn BY <2>1 DEF TypeOK, Jobs
    <3>2. connections <= task[u].maybe + 1 BY <1>1, <2>1 DEF LastOpened
    <3>3. QED BY <1>5, <1>7, <2>1, <3>1, <3>2
  <2>3. QED BY <1>1, <1>5, <2>2
<1>18. QED BY <1>12, <1>13, <1>14, <1>15, <1>16, <1>17

\* A task gives up its connection, which is closed: its slot is free again.
LEMMA FreesInv ==
  ASSUME PoolAssumption, PoolInv, NEW t \in Task, NEW r \in Jobs,
         task' = [task EXCEPT ![t] = r], task[t].pc \in {"have", "release"},
         r.conn = NoOne, r.pc \in {"acquire", "done"},
         Free(task[t].conn), connections' = connections - 1,
         UNCHANGED <<queue, woken, mounted, busyConnections, maxConnections, lastThread, streams>>
  PROVE  PoolInv'
<1> USE DEF PoolInv
<1> DEFINE c == task[t].conn
<1>1. task[t] \in Jobs /\ c # NoOne /\ t \notin Opening /\ t \notin Waiting
  BY DEF TypeOK, Owners, Sits, Opening, Waiting
<1>2. /\ task' \in [Task -> Jobs] /\ task'[t] = r
      /\ \A u \in Task : u # t => task'[u] = task[u]
      /\ Waiting \ {t} \subseteq Waiting' /\ Opening' = Opening
  <2>1. (r.pc = "opening" <=> task[t].pc = "opening") OBVIOUS
  <2>2. QED BY <2>1, JobChanges
<1>3. /\ c \in Held /\ Holders' = Holders \ {t} /\ Held' = Held \ {c} /\ HeldOnce'
      /\ Cardinality(Held') = Cardinality(Held) - 1 /\ Cardinality(Held) >= 1
      /\ Cardinality(Holders') = Cardinality(Holders) - 1
  BY <1>1, LosesConnection
<1>4. allocated' = allocated \ {c} /\ usable' = usable \ {c} BY DEF Free
<1> HIDE DEF c
<1>5. /\ Cardinality(Held) \in Nat /\ Cardinality(Holders) \in Nat /\ Len(queue) \in Nat
      /\ Cardinality(streams) \in Nat /\ Cardinality(Opening) \in Nat
      /\ Cardinality(allocated) \in Nat
  BY Sizes
<1>6. Queued' = Queued BY DEF Queued
<1>7. connections \in Nat
      /\ connections >= Cardinality(Held) + Cardinality(streams) + Cardinality(Opening)
  BY <1>5 DEF CountExact, Slots, TypeOK
<1>8. TypeOK'
  <2>1. connections' \in Nat BY <1>3, <1>5, <1>7
  <2>2. woken' \subseteq Waiting' BY <1>1, <1>2 DEF TypeOK
  <2>3. usable' \subseteq allocated' /\ allocated' \subseteq Conn BY <1>4 DEF TypeOK
  <2>4. QED BY <1>2, <2>1, <2>2, <2>3 DEF TypeOK
<1>9. Owners'
  <2>1. Sits' BY <1>2 DEF Owners, Sits
  <2>2. Apart' /\ QueuedOnce' BY <1>3, <1>6 DEF Owners, Apart, QueuedOnce
  <2>3. QED BY <1>3, <2>1, <2>2 DEF Owners
<1>10. Slots' /\ CountExact'
  <2>1. connections' >= Cardinality(Held') + Cardinality(streams') + Cardinality(Opening')
    BY <1>2, <1>3, <1>5, <1>7
  <2>2. Slots' BY <2>1 DEF Slots
  <2>3. mounted => connections = Len(queue) + Cardinality(Held) + Cardinality(streams)
                                 + Cardinality(Opening)
    BY DEF CountExact
  <2>4. mounted => connections' = Len(queue) + Cardinality(Held') + Cardinality(streams)
                                  + Cardinality(Opening)
    BY <1>3, <1>5, <2>3, Sums
  <2>5. QED BY <1>2, <2>2, <2>4 DEF CountExact
<1>11. OwnedOnce'
  <2>1. allocated' = Queued' \cup Held' \cup streams'
    BY <1>3, <1>4, <1>6 DEF OwnedOnce, Owners, Apart
  <2>2. Cardinality(allocated') = Cardinality(allocated) - 1
    <3>1. c \in allocated /\ allocated \subseteq Conn BY <1>3 DEF OwnedOnce, TypeOK
    <3>2. QED BY <1>4, <3>1, Removed DEF PoolAssumption
  <2>3. Cardinality(allocated) = Len(queue) + Cardinality(Holders) + Cardinality(streams)
    BY DEF OwnedOnce
  <2>4. Cardinality(allocated') = Len(queue) + Cardinality(Holders') + Cardinality(streams)
    BY <1>3, <1>5, <2>2, <2>3, Sums
  <2>5. QED BY <2>1, <2>4 DEF OwnedOnce
<1>12. WithinLimit'
  <2>1. connections <= maxConnections /\ maxConnections \in Int BY DEF WithinLimit, TypeOK
  <2>2. QED BY <1>7, <2>1 DEF WithinLimit
<1>13. LastOpened'
  <2> SUFFICES ASSUME NEW u \in Opening', lastThread' = u
               PROVE  connections' <= task'[u].maybe + 1
    BY DEF LastOpened
  <2>1. u \in Opening /\ u # t /\ u \in Task /\ task'[u] = task[u] BY <1>1, <1>2 DEF Opening
  <2>2. connections <= task[u].maybe + 1 BY <2>1 DEF LastOpened
  <2>3. task[u].maybe \in 0 .. MaxConn /\ MaxConn \in Nat BY <2>1 DEF TypeOK, Jobs, PoolAssumption
  <2>4. QED BY <1>7, <2>1, <2>2, <2>3
<1>14. QED BY <1>8, <1>9, <1>10, <1>11, <1>12, <1>13

\* A task puts its connection back into the queue, and wakes a waiting thread.
LEMMA ReturnsInv ==
  ASSUME PoolAssumption, PoolInv, NEW t \in Task, NEW r \in Jobs,
         task' = [task EXCEPT ![t] = r], task[t].pc = "release",
         r.conn = NoOne, r.pc = "done", mounted,
         queue' = Append(queue, task[t].conn), woken' \subseteq Waiting,
         UNCHANGED <<connections, usable, allocated, mounted, busyConnections,
                     maxConnections, lastThread, streams>>
  PROVE  PoolInv'
<1> USE DEF PoolInv
<1> DEFINE c == task[t].conn
<1>1. task[t] \in Jobs /\ c # NoOne /\ t \notin Opening /\ t \notin Waiting
  BY DEF TypeOK, Owners, Sits, Opening, Waiting
<1>2. /\ task' \in [Task -> Jobs] /\ task'[t] = r
      /\ \A u \in Task : u # t => task'[u] = task[u]
      /\ Waiting \ {t} \subseteq Waiting' /\ Opening' = Opening
  BY JobChanges
<1>3. /\ c \in Held /\ Holders' = Holders \ {t} /\ Held' = Held \ {c} /\ HeldOnce'
      /\ Cardinality(Held') = Cardinality(Held) - 1 /\ Cardinality(Held) >= 1
      /\ Cardinality(Holders') = Cardinality(Holders) - 1
  BY <1>1, LosesConnection
<1>4. c \in Conn /\ c \notin Queued /\ queue' = Append(queue, c)
  <2>1. Held \subseteq Conn BY Sizes
  <2>2. QED BY <1>3, <2>1 DEF Owners, Apart
<1> HIDE DEF c
<1>5. /\ queue' \in Seq(Conn) /\ Len(queue) \in Nat /\ Len(queue') = Len(queue) + 1
      /\ Queued' = Queued \cup {c} /\ QueuedOnce'
  BY <1>4, PushQueue
<1>6. /\ Cardinality(Held) \in Nat /\ Cardinality(Holders) \in Nat
      /\ Cardinality(streams) \in Nat /\ Cardinality(Opening) \in Nat
  BY Sizes
<1>7. TypeOK'
  <2>1. woken' \subseteq Waiting' BY <1>1, <1>2
  <2>2. QED BY <1>2, <1>5, <2>1 DEF TypeOK
<1>8. Owners'
  <2>1. Sits' BY <1>2 DEF Owners, Sits
  <2>2. Apart' BY <1>3, <1>5 DEF Owners, Apart
  <2>3. QED BY <1>3, <1>5, <2>1, <2>2 DEF Owners
<1>9. Slots' /\ CountExact' /\ WithinLimit'
  <2>1. connections = Len(queue) + Cardinality(Held) + Cardinality(streams) + Cardinality(Opening)
    BY DEF CountExact
  <2>2. connections = Len(queue') + Cardinality(Held') + Cardinality(streams) + Cardinality(Opening)
    BY <1>3, <1>5, <1>6, <2>1, Sums
  <2>3. QED BY <1>2, <2>2 DEF Slots, CountExact, WithinLimit
<1>10. OwnedOnce'
  <2>1. allocated' = Queued' \cup Held' \cup streams' BY <1>3, <1>5 DEF OwnedOnce
  <2>2. Cardinality(allocated) = Len(queue) + Cardinality(Holders) + Cardinality(streams)
    BY DEF OwnedOnce
  <2>3. Len(queue') + Cardinality(Holders') = Len(queue) + Cardinality(Holders)
    BY <1>3, <1>5, <1>6
  <2>4. QED BY <2>1, <2>2, <2>3 DEF OwnedOnce
<1>11. LastOpened'
  <2>1. \A u \in Opening : u \in Task /\ u # t BY <1>1 DEF Opening
  <2>2. QED BY <1>2, <2>1 DEF LastOpened
<1>12. QED BY <1>7, <1>8, <1>9, <1>10, <1>11

\* g_vfs_ftp_task_sendv finds the connection dead: another one is acquired for
\* it, or the job ends with the error.
LEMMA SendFailedInv ==
  ASSUME PoolAssumption, PoolInv, NEW t \in Task, SendFailed(t)
  PROVE  PoolInv'
<1>1. /\ task[t].pc = "have" /\ task[t] \in Jobs /\ task[t].conn # NoOne
  BY DEF SendFailed, PoolInv, TypeOK, Owners, Sits
<1>2. CASE task[t].retry
  <2> DEFINE r == [task[t] EXCEPT !.pc = "acquire", !.conn = NoOne, !.retry = FALSE]
  <2>1. /\ task' = [task EXCEPT ![t] = r] /\ Free(task[t].conn) /\ connections' = connections - 1
        /\ UNCHANGED <<queue, woken, mounted, busyConnections, maxConnections, lastThread, streams>>
    BY <1>2 DEF SendFailed, ReleaseConnection
  <2>2. r \in Jobs /\ r.conn = NoOne /\ r.pc = "acquire" BY <1>1 DEF Jobs
  <2> HIDE DEF r
  <2>3. QED BY <1>1, <2>1, <2>2, FreesInv
<1>3. CASE ~task[t].retry
  <2> DEFINE r == [task[t] EXCEPT !.pc = "release", !.error = "lost"]
  <2>1. /\ task' = [task EXCEPT ![t] = r] /\ usable' \subseteq usable
        /\ UNCHANGED <<pool, allocated, streams, woken>>
    BY <1>3 DEF SendFailed, pool
  <2>2. /\ r \in Jobs /\ r.conn = task[t].conn /\ r.maybe = task[t].maybe /\ r.pc = "release"
    BY <1>1 DEF Jobs
  <2> HIDE DEF r
  <2>3. woken' \subseteq Waiting'
    <3>1. Waiting \ {t} \subseteq Waiting' BY <2>1, <2>2, JobChanges DEF PoolInv
    <3>2. QED BY <1>1, <2>1, <3>1 DEF PoolInv, TypeOK, Waiting
  <2>4. QED BY <1>1, <2>1, <2>2, <2>3, QuietInv
<1>4. QED BY <1>2, <1>3

\* g_vfs_ftp_task_done with a connection.
LEMMA ReleaseInv ==
  ASSUME PoolAssumption, PoolInv, NEW t \in Task, Release(t)
  PROVE  PoolInv'
<1> DEFINE r == [task[t] EXCEPT !.pc = "done", !.conn = NoOne]
<1>1. /\ task[t].pc = "release" /\ task[t] \in Jobs /\ task' = [task EXCEPT ![t] = r]
      /\ UNCHANGED <<mounted, busyConnections, maxConnections, lastThread, streams>>
  BY DEF Release, PoolInv, TypeOK
<1>2. PICK ok : ReleaseConnection(t, ok) BY DEF Release
<1>3. r \in Jobs /\ r.conn = NoOne /\ r.pc = "done" BY <1>1 DEF Jobs
<1> HIDE DEF r
<1>4. CASE mounted /\ ok /\ Usable(task[t].conn)
  <2>1. queue' = Append(queue, task[t].conn) /\ UNCHANGED <<connections, usable, allocated>>
    BY <1>2, <1>4 DEF ReleaseConnection
  <2>2. woken' \subseteq Waiting
    <3>1. woken \subseteq Waiting BY DEF PoolInv, TypeOK
    <3>2. IF Waiting = {} THEN woken' = woken ELSE \E w \in Waiting : woken' = woken \cup {w}
      BY <1>2, <1>4 DEF ReleaseConnection
    <3>3. QED BY <3>1, <3>2
  <2>3. QED BY <1>1, <1>3, <1>4, <2>1, <2>2, ReturnsInv
<1>5. CASE ~(mounted /\ ok /\ Usable(task[t].conn))
  <2>1. Free(task[t].conn) /\ connections' = connections - 1 /\ UNCHANGED <<queue, woken>>
    BY <1>2, <1>5 DEF ReleaseConnection
  <2>2. QED BY <1>1, <1>3, <2>1, FreesInv
<1>6. QED BY <1>4, <1>5

\* The open file keeps the connection of the job.
LEMMA TakeConnectionInv ==
  ASSUME PoolAssumption, PoolInv, NEW t \in Task, TakeConnection(t)
  PROVE  PoolInv'
<1> USE DEF PoolInv
<1> DEFINE c == task[t].conn
           r == [task[t] EXCEPT !.pc = "done", !.conn = NoOne]
<1>1. /\ task[t].pc = "take" /\ streams' = streams \cup {c}
      /\ busyConnections' = busyConnections + 1 /\ woken' \in {woken, Waiting}
      /\ task' = [task EXCEPT ![t] = r]
      /\ UNCHANGED <<queue, mounted, connections, maxConnections, lastThread, usable, allocated>>
  BY DEF TakeConnection
<1>2. task[t] \in Jobs /\ c # NoOne /\ t \notin Opening /\ t \notin Waiting
  BY <1>1 DEF TypeOK, Owners, Sits, Opening, Waiting
<1>3. r \in Jobs /\ r.conn = NoOne /\ r.pc = "done" BY <1>2 DEF Jobs
<1> HIDE DEF r
<1>4. /\ task' \in [Task -> Jobs] /\ task'[t] = r
      /\ \A u \in Task : u # t => task'[u] = task[u]
      /\ Waiting \ {t} \subseteq Waiting' /\ Opening' = Opening
  BY <1>1, <1>3, JobChanges
<1>5. /\ c \in Held /\ Holders' = Holders \ {t} /\ Held' = Held \ {c} /\ HeldOnce'
      /\ Cardinality(Held') = Cardinality(Held) - 1
      /\ Cardinality(Holders') = Cardinality(Holders) - 1
  BY <1>1, <1>2, <1>3, LosesConnection
<1> HIDE DEF c
<1>6. /\ Cardinality(Held) \in Nat /\ Cardinality(Holders) \in Nat /\ Held \subseteq Conn
      /\ Cardinality(streams) \in Nat /\ Cardinality(Opening) \in Nat /\ Len(queue) \in Nat
  BY Sizes
<1>7. Cardinality(streams') = Cardinality(streams) + 1
  <2>1. c \notin streams /\ streams \subseteq Conn BY <1>5 DEF Owners, Apart, TypeOK
  <2>2. QED BY <1>1, <1>5, <1>6, <2>1, Added DEF PoolAssumption
<1>8. Queued' = Queued BY <1>1 DEF Queued
<1>9. TypeOK'
  <2>1. woken' \subseteq Waiting' BY <1>1, <1>2, <1>4 DEF TypeOK
  <2>2. busyConnections' = Cardinality(streams') BY <1>1, <1>7 DEF TypeOK
  <2>3. streams' \subseteq Conn BY <1>1, <1>5, <1>6 DEF TypeOK
  <2>4. QED BY <1>1, <1>4, <2>1, <2>2, <2>3 DEF TypeOK
<1>10. Owners'
  <2>1. Sits' BY <1>3, <1>4 DEF Owners, Sits
  <2>2. Apart' /\ QueuedOnce' BY <1>1, <1>5, <1>8 DEF Owners, Apart, QueuedOnce
  <2>3. QED BY <1>5, <2>1, <2>2 DEF Owners
<1>11. Slots' /\ CountExact' /\ WithinLimit'
  <2>1. /\ Cardinality(Held') + Cardinality(streams') + Cardinality(Opening')
             = Cardinality(Held) + Cardinality(streams) + Cardinality(Opening)
        /\ Len(queue') + Cardinality(Held') + Cardinality(streams') + Cardinality(Opening')
             = Len(queue) + Cardinality(Held) + Cardinality(streams) + Cardinality(Opening)
    <3>1. Cardinality(Held') + Cardinality(streams') = Cardinality(Held) + Cardinality(streams)
      BY <1>5, <1>6, <1>7
    <3>2. /\ Len(queue') = Len(queue) /\ Cardinality(Opening') = Cardinality(Opening)
          /\ Cardinality(Held') \in Int /\ Cardinality(streams') \in Int
      BY <1>1, <1>4, <1>5, <1>6, <1>7
    <3>3. Cardinality(Held') + Cardinality(streams') + Cardinality(Opening')
            = Cardinality(Held) + Cardinality(streams) + Cardinality(Opening)
      BY <3>1, <3>2
    <3>4. Len(queue) + Cardinality(Held') + Cardinality(streams')
            = Len(queue) + Cardinality(Held) + Cardinality(streams)
      BY <1>6, <3>1, <3>2, Regroup
    <3>5. QED BY <3>2, <3>3, <3>4
  <2>2. Slots' BY <1>1, <2>1 DEF Slots
  <2>3. CountExact' BY <1>1, <2>1 DEF CountExact
  <2>4. QED BY <1>1, <2>2, <2>3 DEF WithinLimit
<1>12. OwnedOnce'
  <2>1. allocated' = Queued' \cup Held' \cup streams' BY <1>1, <1>5, <1>8 DEF OwnedOnce
  <2>2. Cardinality(allocated) = Len(queue) + Cardinality(Holders) + Cardinality(streams)
    BY DEF OwnedOnce
  <2>3. Cardinality(allocated) = Len(queue) + Cardinality(Holders') + Cardinality(streams')
    BY <1>5, <1>6, <1>7, <2>2
  <2>4. QED BY <1>1, <2>1, <2>3 DEF OwnedOnce
<1>13. LastOpened'
  <2>1. \A u \in Opening : u \in Task /\ u # t BY <1>2 DEF Opening
  <2>2. QED BY <1>1, <1>4, <2>1 DEF LastOpened
<1>14. QED BY <1>9, <1>10, <1>11, <1>12, <1>13

\* Closing the file hands its connection to the closing job.
LEMMA GiveConnectionInv ==
  ASSUME PoolAssumption, PoolInv, NEW t \in Task, GiveConnection(t)
  PROVE  PoolInv'
<1> USE DEF PoolInv
<1>1. PICK c \in streams :
        /\ streams' = streams \ {c}
        /\ task' = [task EXCEPT ![t].pc = "release", ![t].kind = "close", ![t].conn = c]
  BY DEF GiveConnection
<1> DEFINE r == [task[t] EXCEPT !.pc = "release", !.kind = "close", !.conn = c]
<1>2. /\ task[t].pc = "idle" /\ busyConnections' = busyConnections - 1
      /\ task' = [task EXCEPT ![t] = r]
      /\ UNCHANGED <<queue, mounted, connections, maxConnections, lastThread, usable,
                     allocated, woken>>
  BY <1>1 DEF GiveConnection
<1>3. task[t] \in Jobs /\ task[t].conn = NoOne /\ t \notin Opening /\ t \notin Waiting
  BY <1>2 DEF TypeOK, Owners, Sits, Opening, Waiting
<1>4. c \in Conn /\ c # NoOne /\ c \notin Held /\ c \notin Queued
  BY DEF TypeOK, Owners, Apart, PoolAssumption
<1>5. r \in Jobs /\ r.conn = c /\ r.pc = "release" BY <1>3, <1>4 DEF Jobs
<1> HIDE DEF r
<1>6. /\ task' \in [Task -> Jobs] /\ task'[t] = r
      /\ \A u \in Task : u # t => task'[u] = task[u]
      /\ Waiting \ {t} \subseteq Waiting' /\ Opening' = Opening
  BY <1>2, <1>5, JobChanges
<1>7. /\ Holders' = Holders \cup {t} /\ Held' = Held \cup {c} /\ HeldOnce'
      /\ Cardinality(Held') = Cardinality(Held) + 1
      /\ Cardinality(Holders') = Cardinality(Holders) + 1
  BY <1>2, <1>3, <1>4, <1>5, GetsConnection
<1>8. /\ Cardinality(Held) \in Nat /\ Cardinality(Holders) \in Nat
      /\ Cardinality(streams) \in Nat /\ Cardinality(Opening) \in Nat /\ Len(queue) \in Nat
  BY Sizes
<1>9. Cardinality(streams') = Cardinality(streams) - 1
  BY <1>1, Removed DEF PoolAssumption, TypeOK
<1>10. Queued' = Queued BY <1>2 DEF Queued
<1>11. TypeOK'
  <2>1. woken' \subseteq Waiting' BY <1>2, <1>3, <1>6 DEF TypeOK
  <2>2. busyConnections' = Cardinality(streams') BY <1>2, <1>9 DEF TypeOK
  <2>3. streams' \subseteq Conn BY <1>1 DEF TypeOK
  <2>4. QED BY <1>2, <1>6, <2>1, <2>2, <2>3 DEF TypeOK
<1>12. Owners'
  <2>1. Sits' BY <1>4, <1>5, <1>6 DEF Owners, Sits
  <2>2. Apart' /\ QueuedOnce' BY <1>1, <1>2, <1>4, <1>7, <1>10 DEF Owners, Apart, QueuedOnce
  <2>3. QED BY <1>7, <2>1, <2>2 DEF Owners
<1>13. Slots' /\ CountExact' /\ WithinLimit'
  <2>1. /\ Cardinality(Held') + Cardinality(streams') + Cardinality(Opening')
             = Cardinality(Held) + Cardinality(streams) + Cardinality(Opening)
        /\ Len(queue') + Cardinality(Held') + Cardinality(streams') + Cardinality(Opening')
             = Len(queue) + Cardinality(Held) + Cardinality(streams) + Cardinality(Opening)
    <3>1. Cardinality(Held') + Cardinality(streams') = Cardinality(Held) + Cardinality(streams)
      BY <1>7, <1>8, <1>9
    <3>2. /\ Len(queue') = Len(queue) /\ Cardinality(Opening') = Cardinality(Opening)
          /\ Cardinality(Held') \in Int /\ Cardinality(streams') \in Int
      BY <1>2, <1>6, <1>7, <1>8, <1>9
    <3>3. Cardinality(Held') + Cardinality(streams') + Cardinality(Opening')
            = Cardinality(Held) + Cardinality(streams) + Cardinality(Opening)
      BY <3>1, <3>2
    <3>4. Len(queue) + Cardinality(Held') + Cardinality(streams')
            = Len(queue) + Cardinality(Held) + Cardinality(streams)
      BY <1>8, <3>1, <3>2, Regroup
    <3>5. QED BY <3>2, <3>3, <3>4
  <2>2. Slots' BY <1>2, <2>1 DEF Slots
  <2>3. CountExact' BY <1>2, <2>1 DEF CountExact
  <2>4. QED BY <1>2, <2>2, <2>3 DEF WithinLimit
<1>14. OwnedOnce'
  <2>1. allocated' = Queued' \cup Held' \cup streams' BY <1>1, <1>2, <1>7, <1>10 DEF OwnedOnce
  <2>2. Cardinality(allocated) = Len(queue) + Cardinality(Holders) + Cardinality(streams)
    BY DEF OwnedOnce
  <2>3. Cardinality(allocated) = Len(queue) + Cardinality(Holders') + Cardinality(streams')
    BY <1>7, <1>8, <1>9, <2>2
  <2>4. QED BY <1>2, <2>1, <2>3 DEF OwnedOnce
<1>15. LastOpened'
  <2>1. \A u \in Opening : u \in Task /\ u # t BY <1>3 DEF Opening
  <2>2. QED BY <1>2, <1>6, <2>1 DEF LastOpened
<1>16. QED BY <1>11, <1>12, <1>13, <1>14, <1>15

\* do_unmount frees the idle connections, and only those.
LEMMA UnmountInv ==
  ASSUME PoolAssumption, PoolInv, Unmount
  PROVE  PoolInv'
<1> USE DEF PoolInv
<1>1. /\ mounted /\ mounted' = FALSE /\ queue' = <<>>
      /\ allocated' = allocated \ Queued /\ usable' = usable \ Queued /\ woken' = Waiting
      /\ UNCHANGED <<connections, busyConnections, maxConnections, lastThread, streams, task>>
  BY DEF Unmount
<1>2. /\ Held \subseteq Conn
      /\ Cardinality(Held) \in Nat /\ Cardinality(Holders) \in Nat
      /\ Cardinality(streams) \in Nat /\ Cardinality(Opening) \in Nat /\ Len(queue) \in Nat
  BY Sizes
<1>3. Holders' = Holders /\ Held' = Held /\ Opening' = Opening /\ Waiting' = Waiting
  BY <1>1 DEF Holders, Held, Opening, Waiting
<1>4. Queued' = {} /\ Len(queue') = 0 BY <1>1 DEF Queued
<1>5. TypeOK'
  <2>1. queue' \in Seq(Conn) BY <1>1
  <2>2. usable' \subseteq allocated' /\ allocated' \subseteq Conn BY <1>1 DEF TypeOK
  <2>3. mounted' \in BOOLEAN BY <1>1, Zenon
  <2>4. QED BY <1>1, <1>3, <2>1, <2>2, <2>3 DEF TypeOK
<1>6. Owners'
  <2>1. Sits' /\ HeldOnce' BY <1>1, <1>3 DEF Owners, Sits, HeldOnce
  <2>2. Apart' BY <1>1, <1>3, <1>4 DEF Owners, Apart
  <2>3. QueuedOnce' BY <1>4 DEF QueuedOnce
  <2>4. QED BY <1>3, <2>1, <2>2, <2>3 DEF Owners
<1>7. Slots' /\ CountExact' /\ WithinLimit'
  <2>1. connections = Len(queue) + Cardinality(Held) + Cardinality(streams) + Cardinality(Opening)
    BY <1>1 DEF CountExact
  <2>2. connections >= Cardinality(Held) + Cardinality(streams) + Cardinality(Opening)
    BY <1>2, <2>1
  <2>3. QED BY <1>1, <1>3, <2>2 DEF Slots, CountExact, WithinLimit
<1>8. OwnedOnce'
  <2>1. allocated' = Held \cup streams BY <1>1 DEF OwnedOnce, Owners, Apart
  <2>2. Cardinality(Held \cup streams) = Cardinality(Held) + Cardinality(streams)
    <3>1. IsFiniteSet(Held) /\ IsFiniteSet(streams) /\ Held \cap streams = {}
      BY <1>2, FS_Subset DEF PoolAssumption, TypeOK, Owners, Apart
    <3>2. Cardinality(Held \cup streams)
            = Cardinality(Held) + Cardinality(streams) - Cardinality(Held \cap streams)
      BY <3>1, FS_Union
    <3>3. Cardinality(Held \cap streams) = 0 BY <3>1, FS_EmptySet
    <3>4. QED BY <1>2, <3>2, <3>3
  <2>3. Cardinality(allocated') = Len(queue') + Cardinality(Holders') + Cardinality(streams')
    <3>1. Cardinality(allocated') = Cardinality(Holders) + Cardinality(streams)
      BY <2>1, <2>2 DEF Owners
    <3>2. QED BY <1>1, <1>2, <1>3, <1>4, <3>1
  <2>4. QED BY <1>1, <1>3, <1>4, <2>1, <2>3 DEF OwnedOnce
<1>9. LastOpened' BY <1>1, <1>3 DEF LastOpened
<1>10. QED BY <1>5, <1>6, <1>7, <1>8, <1>9

\* Every step of the specification preserves the invariant.
LEMMA NextInv ==
  ASSUME PoolAssumption, PoolInv, [Next]_vars
  PROVE  PoolInv'
<1>1. CASE UNCHANGED vars
  <2>1. /\ UNCHANGED <<queue, mounted, connections, busyConnections, maxConnections, lastThread>>
        /\ UNCHANGED <<usable, allocated, streams, task, woken>>
    BY <1>1 DEF vars, pool, conn
  <2>2. /\ Queued' = Queued /\ Held' = Held /\ Holders' = Holders /\ Opening' = Opening
        /\ Waiting' = Waiting
    BY <2>1 DEF Queued, Held, Holders, Opening, Waiting
  <2>3. TypeOK' /\ Owners'
    BY <2>1, <2>2 DEF PoolInv, TypeOK, Owners, Sits, HeldOnce, QueuedOnce, Apart
  <2>4. Slots' /\ LastOpened' /\ CountExact' /\ OwnedOnce' /\ WithinLimit'
    BY <2>1, <2>2 DEF PoolInv, Slots, LastOpened, CountExact, OwnedOnce, WithinLimit
  <2>5. QED BY <2>3, <2>4 DEF PoolInv
<1>2. ASSUME NEW t \in Task,
             Start(t, "plain") \/ Start(t, "open") \/ GiveConnection(t) \/ Cancel(t)
      PROVE  PoolInv'
  BY <1>2, StartInv, GiveConnectionInv, CancelInv
<1>3. ASSUME NEW t \in Task, Step(t) PROVE PoolInv'
  <2>1. CASE AcquireConnection(t) BY <2>1, AcquireConnectionInv
  <2>2. CASE Reuse(t) BY <2>2, ReuseInv
  <2>3. CASE GiveUp(t) \/ TimedOut(t) BY <2>3, GiveUpInv
  <2>4. CASE Opened(t) BY <2>4, OpenedInv
  <2>5. CASE OpenFailed(t) BY <2>5, OpenFailedInv
  <2>6. CASE Woken(t) BY <2>6, WokenInv
  <2>7. CASE SendReplied(t, TRUE) \/ SendReplied(t, FALSE) BY <2>7, SendRepliedInv
  <2>8. CASE SendFailed(t) BY <2>8, SendFailedInv
  <2>9. CASE TakeConnection(t) BY <2>9, TakeConnectionInv
  <2>10. CASE Release(t) BY <2>10, ReleaseInv
  <2>11. CASE Answered(t) BY <2>11, AnsweredInv
  <2>12. QED
    BY <1>3, <2>1, <2>2, <2>3, <2>4, <2>5, <2>6, <2>7, <2>8, <2>9, <2>10, <2>11 DEF Step
<1>4. ASSUME NEW c \in Conn, ServerCloses(c) PROVE PoolInv'
  BY <1>4, ServerClosesInv
<1>5. CASE Unmount BY <1>5, UnmountInv
<1>6. QED BY <1>1, <1>2, <1>3, <1>4, <1>5 DEF Next

\* The invariant above is inductive, for every number of threads, connections,
\* jobs, faults and refused attempts that PoolAssumption allows, whether the
\* server comes back or not.
THEOREM PoolInvariant == PoolAssumption => (Spec => []PoolInv)
<1> SUFFICES ASSUME PoolAssumption PROVE Spec => []PoolInv OBVIOUS
<1>1. Init => PoolInv BY InitInv
<1>2. PoolInv /\ [Next]_vars => PoolInv' BY NextInv
<1>3. QED BY <1>1, <1>2, PTL DEF Spec

\* Every variable keeps its type; in particular ftp->busy_connections is the
\* number of open files, so the assertion of g_vfs_ftp_task_give_connection
\* (busy_connections > 0) never fails, and only waiting threads are signalled.
THEOREM PoolTypes == PoolAssumption => (Spec => []TypeOK)
<1> SUFFICES ASSUME PoolAssumption PROVE Spec => []TypeOK OBVIOUS
<1>1. PoolInv => TypeOK BY DEF PoolInv
<1>2. Spec => []PoolInv BY PoolInvariant
<1>3. QED BY <1>1, <1>2, PTL

\* No slot of ftp->connections leaks: while mounted the counter is what the
\* queue, the tasks, the open files and the attempts under way add up to.
THEOREM ConnectionsCounted == PoolAssumption => (Spec => []CountExact)
<1> SUFFICES ASSUME PoolAssumption PROVE Spec => []CountExact OBVIOUS
<1>1. PoolInv => CountExact BY DEF PoolInv
<1>2. Spec => []PoolInv BY PoolInvariant
<1>3. QED BY <1>1, <1>2, PTL

\* Two jobs never talk on one control connection, and none is left without an
\* owner, through retries, cancellation, lost connections and the unmount.
THEOREM ConnectionsOwned == PoolAssumption => (Spec => []OwnedOnce)
<1> SUFFICES ASSUME PoolAssumption PROVE Spec => []OwnedOnce OBVIOUS
<1>1. PoolInv => OwnedOnce BY DEF PoolInv
<1>2. Spec => []PoolInv BY PoolInvariant
<1>3. QED BY <1>1, <1>2, PTL

\* A failed attempt never lowers ftp->max_connections below the connections
\* there are, however the attempts of several threads overlap.
THEOREM LimitRespected == PoolAssumption => (Spec => []WithinLimit)
<1> SUFFICES ASSUME PoolAssumption PROVE Spec => []WithinLimit OBVIOUS
<1>1. PoolInv => WithinLimit BY DEF PoolInv
<1>2. Spec => []PoolInv BY PoolInvariant
<1>3. QED BY <1>1, <1>2, PTL

=============================================================================
