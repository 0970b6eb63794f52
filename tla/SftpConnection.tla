--------------------------- MODULE SftpConnection ---------------------------
(***************************************************************************)
(* The request side of the SFTP backend (daemon/gvfsbackendsftp.c): two    *)
(* ssh processes, one for commands and one for bulk data, each with a      *)
(* queue of commands to write, a table of the replies that are expected    *)
(* and one asynchronous read that takes replies off the stream.  Ids come  *)
(* from one counter.  The server answers in any order.  A job asks one     *)
(* command after the other, or two at once (MultiRequest), and may leave a *)
(* last command behind whose reply nobody looks at (a CLOSE or a REMOVE    *)
(* with a NULL callback).                                                  *)
(*                                                                         *)
(* When an ssh process ends, fail_jobs answers every job that waits on    *)
(* either connection and the backend is force-unmounted; the table and the *)
(* other connection stay as they are.  A partial read or write only starts *)
(* the next one and is not a step here.                                    *)
(***************************************************************************)
EXTENDS Naturals, Sequences, FiniteSets, TLC

CONSTANTS
  Jobs,        \* the jobs of the clients
  IdSpace,     \* number of request ids (2^32 in the code)
  MaxAsked,    \* bound: commands of one job
  Leftovers,   \* may a job leave a command behind that has no callback?
  SshExits     \* may an ssh process end or refuse a write?

IdSpaceAssumption == IdSpace \in Nat \ {0} /\ MaxAsked \in Nat \ {0}

Conns == {"command", "data"}
Ids == 0 .. IdSpace - 1

VARIABLES
  currentId,       \* GVfsBackendSftp.current_id
  conns,           \* the two Connections and what the server still owes each
  jobs,            \* what each job has asked and how it was answered
  forceUnmounted,  \* GVfsBackendSftp.force_unmounted
  blocked          \* block_requests of the backend: no new job is accepted

vars == <<currentId, conns, jobs, forceUnmounted, blocked>>

(* A command on its way: its id, and which request of which job it is. *)
Command == [id : Ids, req : Jobs \X (1 .. MaxAsked + 1)]

NoReply == [id |-> 0, req |-> <<>>]

TypeOK ==
  /\ currentId \in Ids
  /\ \A c \in Conns :
       /\ conns[c].usable \in BOOLEAN /\ conns[c].writing \in BOOLEAN
       /\ conns[c].queue \in Seq(Command)
       /\ conns[c].asked \subseteq Command
       /\ conns[c].reading \in {"len", "data", "stopped"}
       /\ conns[c].reply \in Command \cup {NoReply}
       /\ DOMAIN conns[c].expected \subseteq Ids
       /\ \A id \in DOMAIN conns[c].expected :
            /\ conns[c].expected[id].req \in Jobs \X (1 .. MaxAsked + 1)
            /\ conns[c].expected[id].callback \in {"single", "multi", "none"}
  /\ \A j \in Jobs :
       /\ jobs[j].started \in BOOLEAN /\ jobs[j].failed \in BOOLEAN
       /\ jobs[j].asked \in 0 .. MaxAsked + 1
       /\ jobs[j].outstanding \in 0 .. 2
       /\ jobs[j].answers \in Seq({"ok", "error", "nothing"})
  /\ forceUnmounted \in BOOLEAN /\ blocked \in BOOLEAN

(* A mounted backend; the data connection is destroyed again when it could *)
(* not be set up.                                                          *)
Init ==
  /\ currentId = 0
  /\ \E data \in BOOLEAN :
       conns = [c \in Conns |->
                 [usable |-> c = "command" \/ data,
                  reading |-> IF c = "command" \/ data THEN "len" ELSE "stopped",
                  writing |-> TRUE, queue |-> <<>>, asked |-> {}, reply |-> NoReply,
                  expected |-> <<>>]]
  /\ jobs = [j \in Jobs |-> [started |-> FALSE, asked |-> 0, outstanding |-> 0,
                             failed |-> FALSE, answers |-> <<>>]]
  /\ forceUnmounted = FALSE /\ blocked = FALSE

-----------------------------------------------------------------------------
(* g_vfs_job_succeeded replies whatever was replied before; a second       *)
(* failure is ignored.  A job that is failed without an error is marked    *)
(* answered, but no reply leaves the process.                              *)
Succeeded(js, j) == [js EXCEPT ![j].failed = FALSE, ![j].answers = Append(@, "ok")]

Failed(js, j, how) ==
  IF js[j].failed THEN js
  ELSE [js EXCEPT ![j].failed = TRUE, ![j].answers = Append(@, how)]

(* The id after n more commands, in the width of the counter. *)
NextId(n, id) == (id + n) % IdSpace

(* expect_reply and queue_command_stream_and_free for one command. *)
Queued(cs, c, id, j, k, callback) ==
  [cs EXCEPT ![c].expected =
               [i \in DOMAIN @ \cup {id} |->
                  IF i = id THEN [req |-> <<j, k>>, callback |-> callback] ELSE @[i]],
             ![c].queue = Append(@, [id |-> id, req |-> <<j, k>>])]

Waits(cs, j) ==
  \E c \in Conns : cs[c].usable /\ \E id \in DOMAIN cs[c].expected : cs[c].expected[id].req[1] = j

(* fail_jobs_and_unmount: once, every job that waits on a usable           *)
(* connection is failed and the backend refuses what comes next.           *)
FailJobs(how) ==
  IF forceUnmounted THEN UNCHANGED <<jobs, forceUnmounted, blocked>>
  ELSE /\ forceUnmounted' = TRUE /\ blocked' = TRUE
       /\ jobs' = [j \in Jobs |-> IF Waits(conns, j) THEN Failed(jobs, j, how)[j] ELSE jobs[j]]

-----------------------------------------------------------------------------

(* A job arrives and asks its first command, or a command on each          *)
(* connection (try_pull; try_move asks both on the command connection).    *)
Start(j, multi) ==
  /\ ~blocked /\ ~jobs[j].started
  /\ multi => conns["data"].usable
  /\ IF multi
     THEN /\ conns' = Queued(Queued(conns, "command", currentId, j, 1, "multi"),
                             "data", NextId(1, currentId), j, 2, "multi")
          /\ currentId' = NextId(2, currentId)
          /\ jobs' = [jobs EXCEPT ![j].started = TRUE, ![j].asked = 2, ![j].outstanding = 2]
     ELSE /\ conns' = Queued(conns, "command", currentId, j, 1, "single")
          /\ currentId' = NextId(1, currentId)
          /\ jobs' = [jobs EXCEPT ![j].started = TRUE, ![j].asked = 1]
  /\ UNCHANGED <<forceUnmounted, blocked>>

(* send_command_data: the first command of the queue is on the wire. *)
SendCommand(c) ==
  /\ conns[c].queue # <<>> /\ conns[c].writing
  /\ conns' = [conns EXCEPT ![c].queue = Tail(@), ![c].asked = @ \cup {Head(conns[c].queue)}]
  /\ UNCHANGED <<currentId, jobs, forceUnmounted, blocked>>

(* send_command_data after a failed write: there is no error to pass on,   *)
(* and the queue is not written any more.                                  *)
SendFails(c) ==
  /\ SshExits /\ conns[c].queue # <<>> /\ conns[c].writing
  /\ FailJobs("nothing")
  /\ conns' = [conns EXCEPT ![c].writing = FALSE]
  /\ UNCHANGED currentId

(* read_reply_async_got_len: the length of the next reply is read. *)
GotLen(c) ==
  /\ conns[c].reading = "len"
  /\ \E r \in conns[c].asked :
       conns' = [conns EXCEPT ![c].reading = "data", ![c].reply = r, ![c].asked = @ \ {r}]
  /\ UNCHANGED <<currentId, jobs, forceUnmounted, blocked>>

(* The stream ends, fails, or announces a reply that is too large: the     *)
(* connection is not read any more.                                        *)
ReadFails(c) ==
  /\ SshExits /\ conns[c].reading # "stopped"
  /\ FailJobs("error")
  /\ conns' = [conns EXCEPT ![c].reading = "stopped"]
  /\ UNCHANGED currentId

(* What the callback of a reply does with its job: answer it, or ask the   *)
(* next command, or answer it and leave a command without callback behind. *)
Callback(j, cs, js) ==
  \/ /\ jobs' = Succeeded(js, j) /\ conns' = cs /\ UNCHANGED currentId
  \/ /\ jobs' = Failed(js, j, "error") /\ conns' = cs /\ UNCHANGED currentId
  \/ /\ js[j].asked < MaxAsked
     /\ conns' = Queued(cs, "command", currentId, j, js[j].asked + 1, "single")
     /\ currentId' = NextId(1, currentId)
     /\ jobs' = [js EXCEPT ![j].asked = @ + 1]
  \/ /\ Leftovers /\ js[j].asked <= MaxAsked
     /\ conns' = Queued(cs, "command", currentId, j, js[j].asked + 1, "none")
     /\ currentId' = NextId(1, currentId)
     /\ jobs' = Succeeded([js EXCEPT ![j].asked = @ + 1], j)

(* multi_request_cb: the last of the replies calls the callback. *)
MultiCallback(j, cs) ==
  LET js == [jobs EXCEPT ![j].outstanding = @ - 1]
  IN IF js[j].outstanding = 0 THEN Callback(j, cs, js)
     ELSE jobs' = js /\ conns' = cs /\ UNCHANGED currentId

GotData_NoReread(c) ==
  /\ conns[c].reading = "data"
  /\ LET id == conns[c].reply.id
         entry == conns[c].expected[id]
         cs == [conns EXCEPT ![c].expected = [i \in DOMAIN @ \ {id} |-> @[i]],
                             ![c].reply = NoReply, ![c].reading = "stopped"]
     IN IF entry.callback = "multi" THEN MultiCallback(entry.req[1], cs)
        ELSE Callback(entry.req[1], cs, jobs)
  /\ UNCHANGED <<forceUnmounted, blocked>>

(* read_reply_async_got_data: the reply is matched by its id, handled and  *)
(* struck off; a reply nobody expects is dropped.  The next read is        *)
(* started, and ends at once when the backend is being unmounted.          *)
GotData(c) ==
  /\ conns[c].reading = "data"
  /\ LET id == conns[c].reply.id
         known == id \in DOMAIN conns[c].expected
         entry == conns[c].expected[id]
         cs == [conns EXCEPT ![c].expected = [i \in DOMAIN @ \ {id} |-> @[i]],
                             ![c].reply = NoReply,
                             ![c].reading = IF blocked /\ ~forceUnmounted THEN "stopped" ELSE "len"]
     IN IF ~known \/ entry.callback = "none"
        THEN conns' = cs /\ UNCHANGED <<currentId, jobs>>
        ELSE IF entry.callback = "multi" THEN MultiCallback(entry.req[1], cs)
        ELSE Callback(entry.req[1], cs, jobs)
  /\ UNCHANGED <<forceUnmounted, blocked>>

(* try_unmount: the reads that wait for a reply are cancelled.  The mount  *)
(* is unmounted only when no job is running.                               *)
Unmount ==
  /\ ~blocked /\ \A j \in Jobs : jobs[j].started => jobs[j].answers # <<>>
  /\ blocked' = TRUE
  /\ conns' = [c \in Conns |-> IF conns[c].reading = "len"
                               THEN [conns[c] EXCEPT !.reading = "stopped"] ELSE conns[c]]
  /\ UNCHANGED <<currentId, jobs, forceUnmounted>>

Next ==
  \/ \E j \in Jobs, multi \in BOOLEAN : Start(j, multi)
  \/ \E c \in Conns : SendCommand(c) \/ SendFails(c) \/ GotLen(c) \/ GotData(c) \/ ReadFails(c)
  \/ Unmount

Spec == Init /\ [][Next]_vars

-----------------------------------------------------------------------------
(* The requests on their way to the server, at it, or coming back on c. *)
OnTheWay(c) ==
  {conns[c].queue[i] : i \in 1 .. Len(conns[c].queue)} \cup conns[c].asked
    \cup (IF conns[c].reading = "data" THEN {conns[c].reply} ELSE {})

(* Every reply that can still arrive finds the entry of its own request:   *)
(* no callback sees the answer to another command, and no request is       *)
(* forgotten while its answer is on the way (get_new_id, expect_reply).    *)
RepliesExpected ==
  \A c \in Conns : conns[c].reading # "stopped" =>
    \A r \in OnTheWay(c) :
      /\ r.id \in DOMAIN conns[c].expected
      /\ conns[c].expected[r.id].req = r.req

(* A job that was started and not answered still has a request that will   *)
(* answer it; once the backend gave up (fail_jobs_and_unmount) no job is   *)
(* left unanswered, whichever connection it waited on.                     *)
NobodyForgotten ==
  \A j \in Jobs : jobs[j].started /\ jobs[j].answers = <<>> =>
    /\ ~forceUnmounted
    /\ \E c \in Conns : conns[c].reading # "stopped" /\ \E r \in OnTheWay(c) : r.req[1] = j

(* No job is answered twice.  fail_jobs breaks it: it leaves the tables of *)
(* expected replies as they are, so a job it failed is answered again when *)
(* its reply arrives, and one that left a command behind is answered when  *)
(* it had been (gvfsbackendsftp.c:1440).                                   *)
AnsweredOnce == \A j \in Jobs : Len(jobs[j].answers) <= 1

(* A MultiRequest counts exactly the replies that have not arrived:        *)
(* its callback sees all of them.                                          *)
MultiComplete ==
  \A j \in Jobs : ~forceUnmounted /\ jobs[j].outstanding > 0 =>
    jobs[j].outstanding =
      Cardinality({p \in Conns \X Ids : /\ p[2] \in DOMAIN conns[p[1]].expected
                                        /\ conns[p[1]].expected[p[2]].callback = "multi"
                                        /\ conns[p[1]].expected[p[2]].req[1] = j})

=============================================================================
