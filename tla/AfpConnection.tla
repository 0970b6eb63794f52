---------------------------- MODULE AfpConnection ----------------------------
(***************************************************************************)
(* The connection to an AFP server (daemon/gvfsafpconnection.c).  Any       *)
(* thread queues commands; a worker thread runs a main loop with one send   *)
(* loop (a request at a time: header, command, data) and one read loop      *)
(* (header, then data or skipped data, then dispatch to the request with    *)
(* the header's id).  Opening, closing and synchronous commands wait for    *)
(* the worker on a condition variable without a predicate.                  *)
(***************************************************************************)
EXTENDS Integers, Sequences, FiniteSets, SequencesExt, TLC

CONSTANTS Cmds,        \* records [n, data, room, sync]: a command, whether it carries data to write,
                       \* the size of its reply buffer (0: none), and whether its caller waits for it
          IdSpan,      \* number of request ids: they are 16 bits wide in the code
          Overtaken,   \* a command may wait while IdSpan others are sent, so that its id comes again
          StrayTickles,\* the write of a tickle may fail while a command waits under the tickle's id
          MaxTickles,  \* bound: tickles of the server
          MaxReply,    \* bound: size of a reply
          Closes,      \* the connection is closed by its owner
          Prompt,      \* a thread that is about to wait does so before the worker signals it
          CheckedSends,\* no thread is between its check and the queue when the connection closes
          QuietClose,  \* the cancelled read is noticed while the send loop is idle
          MayFail      \* writes may fail and the server may close the connection

Tickle == [n |-> 0, data |-> FALSE, room |-> 0, sync |-> FALSE]
Reqs == Cmds \cup {Tickle}
None == [n |-> -1, data |-> FALSE, room |-> 0, sync |-> FALSE]
Ids == 0 .. IdSpan - 1
Owner == [n |-> -2, data |-> FALSE, room |-> 0, sync |-> TRUE]     \* the thread that opens and closes
NoReply == [kind |-> "none", id |-> 0, len |-> 0, to |-> None]

VARIABLES
  state,      \* atomic_state
  worker,     \* the worker thread: "none", "opening", "signalled", "running", "gone"
  wait,       \* waiter (a synchronous command or the owner) -> its place in sync_data_wait
  phase,      \* command -> its caller's place in send_command
  result,     \* command -> what its callback got
  cancelled,  \* commands whose cancellable was cancelled
  queue,      \* request_queue, newest tickle first
  hash,       \* request_hash: ids in use -> request
  nextId, tickleId,
  sendLoop,   \* send_loop_running
  starts,     \* start_send_loop_func invocations that are pending
  writing,    \* <<request, part>> being written, or <<None, "none">>
  headerId,   \* write_dsi_header.requestID
  reading,    \* what the read loop waits for: "none", "header", "data", "skip"
  readHeader, \* read_dsi_header
  toServer,   \* requests the server has received and not answered, with their ids
  toClient,   \* replies and tickles under way
  tickles,    \* tickles the server sent
  tickled,    \* tickles sent back
  exited      \* the process ended ("Host closed connection")

vars == <<state, worker, wait, phase, result, cancelled, queue, hash, nextId, tickleId, sendLoop, starts, writing,
          headerId, reading, readHeader, toServer, toClient, tickles, tickled, exited>>

Waiters == {c \in Cmds: c.sync} \cup {Owner}

TypeOK ==
  /\ state \in {"initial", "connected", "pending_close", "closed"}
  /\ worker \in {"none", "opening", "signalled", "running", "gone"}
  /\ wait \in [Waiters -> {"idle", "entering", "waiting", "done"}]
  /\ phase \in [Cmds -> {"new", "checked", "sent", "dropped"}]
  /\ \A c \in Cmds: result[c] \in Seq({"reply", "error", "cancelled", "closed", "failed", "invalid"} \X (Cmds \cup {None}))
  /\ ToSet(queue) \subseteq Reqs /\ DOMAIN hash \subseteq Ids /\ \A i \in DOMAIN hash: hash[i] \in Cmds
  /\ nextId \in Ids /\ tickleId \in Ids /\ headerId \in Ids
  /\ writing[1] \in Reqs \cup {None} /\ writing[2] \in {"none", "header", "command", "data"}
  /\ reading \in {"none", "header", "data", "skip"}
  /\ (writing[2] # "none") => sendLoop

Init ==
  /\ state = "initial" /\ worker = "none" /\ wait = [w \in Waiters |-> "idle"]
  /\ phase = [c \in Cmds |-> "new"] /\ result = [c \in Cmds |-> <<>>] /\ cancelled = {}
  /\ queue = <<>> /\ hash = [i \in {} |-> None] /\ nextId = 0 /\ tickleId = 0
  /\ sendLoop = FALSE /\ starts = 0 /\ writing = <<None, "none">> /\ headerId = 0
  /\ reading = "none" /\ readHeader = NoReply /\ toServer = {} /\ toClient = <<>>
  /\ tickles = 0 /\ tickled = 0 /\ exited = FALSE

-----------------------------------------------------------------------------
(* The condition variable of a synchronous call *)

\* sync_data_signal: it wakes a thread that waits; nothing remembers it for a thread that does not wait yet.
Signalled(ws) == [w \in Waiters |-> IF w \in ws /\ wait[w] = "waiting" THEN "done" ELSE wait[w]]
MaySignal(ws) == Prompt => \A w \in ws: wait[w] # "entering"

\* sync_data_wait.
Waits(w) == wait[w] = "entering" /\ wait' = [wait EXCEPT ![w] = "waiting"]
            /\ UNCHANGED <<state, worker, phase, result, cancelled, queue, hash, nextId, tickleId, sendLoop, starts, writing,
                           headerId, reading, readHeader, toServer, toClient, tickles, tickled, exited>>

-----------------------------------------------------------------------------
(* Opening *)

OpenSync ==
  /\ state = "initial" /\ worker = "none" /\ wait[Owner] = "idle"
  /\ worker' = "opening" /\ wait' = [wait EXCEPT ![Owner] = "entering"]
  /\ UNCHANGED <<state, phase, result, cancelled, queue, hash, nextId, tickleId, sendLoop, starts, writing,
                 headerId, reading, readHeader, toServer, toClient, tickles, tickled, exited>>

\* open_thread_func up to the signal: the session is opened with a synchronous request, which takes an id.
OpenThread ==
  /\ worker = "opening" /\ MaySignal({Owner}) /\ wait' = Signalled({Owner})
  /\ \/ /\ worker' = "signalled" /\ state' = "connected" /\ nextId' = (nextId + 1) % IdSpan
     \/ /\ MayFail /\ worker' = "gone" /\ UNCHANGED <<state, nextId>>
  /\ UNCHANGED <<phase, result, cancelled, queue, hash, tickleId, sendLoop, starts, writing,
                 headerId, reading, readHeader, toServer, toClient, tickles, tickled, exited>>

\* ... and after it: the main loop starts with the first read.
WorkerRuns ==
  /\ worker = "signalled" /\ worker' = "running"
  /\ reading' = "header"
  /\ UNCHANGED <<state, wait, phase, result, cancelled, queue, hash, nextId, tickleId, sendLoop, starts, writing,
                 headerId, readHeader, toServer, toClient, tickles, tickled, exited>>

-----------------------------------------------------------------------------
(* Sending *)

\* check_open.
SendCommand(c) ==
  /\ phase[c] = "new" /\ worker \in {"running", "gone"} /\ ~exited
  /\ IF state \in {"initial", "closed"}
       THEN /\ result' = [result EXCEPT ![c] = Append(@, <<"closed", None>>)]
            /\ phase' = [phase EXCEPT ![c] = "dropped"] /\ UNCHANGED wait
       ELSE /\ phase' = [phase EXCEPT ![c] = "checked"] /\ UNCHANGED <<result, wait>>
  /\ UNCHANGED <<state, worker, cancelled, queue, hash, nextId, tickleId, sendLoop, starts, writing,
                 headerId, reading, readHeader, toServer, toClient, tickles, tickled, exited>>

\* The command is queued under the lock and the worker asked to start its send loop.  A connection that was closed
\* since the check has no queue any more: the command is gone.
QueueCommand(c) ==
  /\ phase[c] = "checked" /\ phase' = [phase EXCEPT ![c] = "sent"]
  /\ IF state = "closed" THEN UNCHANGED <<queue, starts>>
     ELSE /\ queue' = Append(queue, c) /\ starts' = IF sendLoop THEN starts ELSE starts + 1
  /\ wait' = IF c.sync THEN [wait EXCEPT ![c] = "entering"] ELSE wait
  /\ UNCHANGED <<state, worker, result, cancelled, hash, nextId, tickleId, sendLoop, writing,
                 headerId, reading, readHeader, toServer, toClient, tickles, tickled, exited>>

CancelCommand(c) ==
  /\ c \notin cancelled /\ phase[c] # "new" /\ result[c] = <<>> /\ cancelled' = cancelled \cup {c}
  /\ UNCHANGED <<state, worker, wait, phase, result, queue, hash, nextId, tickleId, sendLoop, starts, writing,
                 headerId, reading, readHeader, toServer, toClient, tickles, tickled, exited>>

\* send_request_unlocked on queue q with the requests already answered in res: cancelled ones at its head are answered;
\* the next one gets an id and its header is written; with none left the loop ends.
SendNext(q, res, tbl) ==
  LET skip == {i \in DOMAIN q: \A j \in 1 .. i: q[j] \in cancelled}
      rest == SubSeq(q, Cardinality(skip) + 1, Len(q))
      req == IF rest = <<>> THEN None ELSE Head(rest) IN
  /\ result' = [c \in Cmds |-> IF \E i \in skip: q[i] = c THEN Append(res[c], <<"cancelled", None>>) ELSE res[c]]
  /\ queue' = IF rest = <<>> THEN <<>> ELSE Tail(rest)
  /\ sendLoop' = (rest # <<>>)
  /\ IF rest = <<>> THEN writing' = <<None, "none">> /\ hash' = tbl /\ UNCHANGED <<nextId, tickleId, headerId>>
     ELSE /\ writing' = <<req, "header">>
          /\ (~Overtaken /\ req # Tickle) => nextId \notin DOMAIN tbl
          /\ IF req = Tickle THEN /\ headerId' = tickleId /\ tickleId' = (tickleId + 1) % IdSpan
                                  /\ hash' = tbl /\ UNCHANGED nextId
             ELSE /\ headerId' = nextId /\ nextId' = (nextId + 1) % IdSpan
                  /\ hash' = (nextId :> req) @@ tbl /\ UNCHANGED tickleId

\* The waiters whose callback a step called: their thread is signalled from the callback.
Answering == {c \in Cmds: c.sync /\ result'[c] # result[c]}
Wake == MaySignal(Answering) /\ wait' = Signalled(Answering)

\* start_send_loop_func.
StartSendLoop ==
  /\ worker = "running" /\ starts > 0 /\ starts' = starts - 1 /\ ~exited
  /\ IF sendLoop \/ state = "closed" THEN UNCHANGED <<queue, result, sendLoop, writing, hash, nextId, tickleId, headerId, wait>>
     ELSE SendNext(queue, result, hash) /\ Wake
  /\ UNCHANGED <<state, worker, phase, cancelled, reading, readHeader, toServer, toClient, tickles, tickled, exited>>

\* write_dsi_header_cb, write_command_cb and write_buf_cb after a part was written: the next part, or the next request.
Sent(req) ==
  /\ toServer' = IF req = Tickle THEN toServer ELSE toServer \cup {[req |-> req, id |-> headerId]}
  /\ tickled' = IF req = Tickle THEN tickled + 1 ELSE tickled

PartWritten ==
  /\ worker = "running" /\ writing[2] # "none" /\ ~exited
  /\ LET req == writing[1]
         more == CASE writing[2] = "header" -> IF req = Tickle THEN "none" ELSE "command"
                   [] writing[2] = "command" -> IF req.data THEN "data" ELSE "none"
                   [] OTHER -> "none" IN
     IF more # "none"
       THEN /\ writing' = <<req, more>>
            /\ UNCHANGED <<queue, result, sendLoop, hash, nextId, tickleId, headerId, wait, toServer, tickled>>
       ELSE Sent(req) /\ SendNext(queue, result, hash) /\ Wake
  /\ UNCHANGED <<state, worker, phase, cancelled, starts, reading, readHeader, toClient, tickles, exited>>

\* HANDLE_RES on a failed write: the request is answered, and the entry of the header's id is removed from the table.
\* For a tickle this may be a command's, which is freed without an answer.  For a command it is its own: the table
\* frees the request, which is then freed again and may end the process.
WriteFails ==
  /\ MayFail /\ worker = "running" /\ writing[2] # "none" /\ ~exited
  /\ LET req == writing[1]
         res == IF req = Tickle THEN result ELSE [result EXCEPT ![req] = Append(@, <<"failed", None>>)] IN
     /\ (~StrayTickles /\ req = Tickle) => headerId \notin DOMAIN hash
     /\ SendNext(queue, res, [i \in DOMAIN hash \ {headerId} |-> hash[i]]) /\ Wake
     /\ exited' \in (IF headerId \in DOMAIN hash /\ hash[headerId] = req THEN BOOLEAN ELSE {FALSE})
  /\ UNCHANGED <<state, worker, phase, cancelled, starts, reading, readHeader, toServer, toClient, tickles, tickled>>

-----------------------------------------------------------------------------
(* Reading *)

\* close_connection: everything that is queued or waits for its reply is answered, and the closers are woken.
CloseConnection ==
  /\ state' = "closed" /\ queue' = <<>> /\ hash' = [i \in {} |-> None] /\ reading' = "none"
  /\ nextId' = (nextId + 1) % IdSpan /\ worker' = "gone"
  /\ result' = [c \in Cmds |-> IF c \in ToSet(queue) \/ \E i \in DOMAIN hash: hash[i] = c
                               THEN Append(result[c], <<"closed", None>>) ELSE result[c]]
  /\ LET ws == {Owner} \cup {c \in Cmds: c.sync /\ result'[c] # result[c]} IN
     MaySignal(ws) /\ wait' = Signalled(ws)

\* The read callbacks and read_reply when the connection is being closed: it is closed unless the send loop runs.
ReadWhileClosing ==
  /\ worker = "running" /\ reading # "none" /\ state = "pending_close" /\ ~exited
  /\ (QuietClose => ~sendLoop) /\ (CheckedSends => \A c \in Cmds: phase[c] # "checked")
  /\ IF ~sendLoop THEN CloseConnection
     ELSE reading' = "none" /\ UNCHANGED <<state, queue, hash, nextId, worker, result, wait>>
  /\ UNCHANGED <<phase, cancelled, tickleId, sendLoop, starts, writing, headerId, readHeader, toServer, toClient,
                 tickles, tickled, exited>>

\* dispatch_reply: a tickle is answered in front of everything queued, a reply answers the request of its id.
Dispatch(h, bad) ==
  CASE h.kind = "tickle" ->
         /\ IF sendLoop THEN queue' = <<Tickle>> \o queue
                             /\ UNCHANGED <<result, sendLoop, writing, hash, nextId, tickleId, headerId>>
            ELSE SendNext(<<Tickle>> \o queue, result, hash)
         /\ Wake
    [] h.kind = "reply" ->
         /\ IF h.id \in DOMAIN hash
              THEN /\ result' = [result EXCEPT ![hash[h.id]] = Append(@, IF bad THEN <<"invalid", None>> ELSE <<"reply", h.to>>)]
                   /\ hash' = [i \in DOMAIN hash \ {h.id} |-> hash[i]]
              ELSE UNCHANGED <<result, hash>>
         /\ Wake /\ UNCHANGED <<queue, sendLoop, writing, nextId, tickleId, headerId>>

\* read_dsi_header_cb: a reply without data is dispatched; data goes to the request's buffer if it fits, to a buffer of
\* its own if the request has none, and is skipped otherwise.
ReadHeader ==
  /\ worker = "running" /\ reading = "header" /\ state = "connected" /\ ~exited /\ toClient # <<>>
  /\ LET h == Head(toClient)
         room == IF h.id \in DOMAIN hash /\ h.kind = "reply" THEN hash[h.id].room ELSE 0 IN
     /\ toClient' = Tail(toClient) /\ readHeader' = h
     /\ IF h.len = 0 THEN Dispatch(h, FALSE) /\ UNCHANGED reading
        ELSE /\ reading' = IF room # 0 /\ h.len > room THEN "skip" ELSE "data"
             /\ UNCHANGED <<queue, result, sendLoop, writing, hash, nextId, tickleId, headerId, wait>>
  /\ UNCHANGED <<state, worker, phase, cancelled, starts, toServer, tickles, tickled, exited>>

\* read_data_cb.
ReadData ==
  /\ worker = "running" /\ reading = "data" /\ state = "connected" /\ ~exited
  /\ Dispatch(readHeader, FALSE) /\ reading' = "header"
  /\ UNCHANGED <<state, worker, phase, cancelled, starts, readHeader, toServer, toClient, tickles, tickled, exited>>

\* skip_data_cb: the request is answered with the error the header's callback left.
SkipData ==
  /\ worker = "running" /\ reading = "skip" /\ state = "connected" /\ ~exited
  /\ Dispatch(readHeader, TRUE) /\ reading' = "header"
  /\ UNCHANGED <<state, worker, phase, cancelled, starts, readHeader, toServer, toClient, tickles, tickled, exited>>

\* A read fails: the server closed the connection, and the process exits.
HostCloses ==
  /\ MayFail /\ worker = "running" /\ reading # "none" /\ state = "connected" /\ ~exited
  /\ exited' = TRUE
  /\ UNCHANGED <<state, worker, wait, phase, result, cancelled, queue, hash, nextId, tickleId, sendLoop, starts, writing,
                 headerId, reading, readHeader, toServer, toClient, tickles, tickled>>

\* g_vfs_afp_connection_close_sync: the closer is registered, the state changed and the read cancelled.
CloseSync ==
  /\ Closes /\ state = "connected" /\ worker = "running" /\ wait[Owner] = "done" /\ ~exited
  /\ state' = "pending_close" /\ wait' = [wait EXCEPT ![Owner] = "entering"]
  /\ UNCHANGED <<worker, phase, result, cancelled, queue, hash, nextId, tickleId, sendLoop, starts, writing,
                 headerId, reading, readHeader, toServer, toClient, tickles, tickled, exited>>

-----------------------------------------------------------------------------
(* The server *)

ServerReplies(r, n) ==
  /\ toServer' = toServer \ {r}
  /\ toClient' = Append(toClient, [kind |-> "reply", id |-> r.id, len |-> n, to |-> r.req])
  /\ UNCHANGED <<state, worker, wait, phase, result, cancelled, queue, hash, nextId, tickleId, sendLoop, starts, writing,
                 headerId, reading, readHeader, tickles, tickled, exited>>

ServerTickles ==
  /\ tickles < MaxTickles /\ tickles' = tickles + 1 /\ state = "connected"
  /\ toClient' = Append(toClient, [kind |-> "tickle", id |-> 0, len |-> 0, to |-> None])
  /\ UNCHANGED <<state, worker, wait, phase, result, cancelled, queue, hash, nextId, tickleId, sendLoop, starts, writing,
                 headerId, reading, readHeader, toServer, tickled, exited>>

Next ==
  \/ OpenSync
  \/ OpenThread
  \/ WorkerRuns
  \/ \E w \in Waiters: Waits(w)
  \/ \E c \in Cmds: SendCommand(c)
  \/ \E c \in Cmds: QueueCommand(c)
  \/ \E c \in Cmds: CancelCommand(c)
  \/ StartSendLoop
  \/ PartWritten
  \/ WriteFails
  \/ ReadWhileClosing
  \/ ReadHeader
  \/ ReadData
  \/ SkipData
  \/ HostCloses
  \/ CloseSync
  \/ \E r \in toServer, n \in 0 .. MaxReply: ServerReplies(r, n)
  \/ ServerTickles

Spec == Init /\ [][Next]_vars

-----------------------------------------------------------------------------
(* Properties *)

\* No command is answered twice, whichever of its reply, its cancellation, a failed write and the end of the connection come together.
AnsweredOnce == \A c \in Cmds: Len(result[c]) <= 1

\* A command gets the server's reply to itself, although ids are reused (get_request_id, dispatch_reply).
RepliesOwn == \A c \in Cmds: \A i \in DOMAIN result[c]: result[c][i][1] = "reply" => result[c][i][2] = c

\* A command that waits for its reply is found under its id: another one took its entry over only if 2^16 others were
\* sent meanwhile (Overtaken), and a failed write removes it only for a tickle of the same id (StrayTickles).
NoneReplaced ==
  \A c \in Cmds: phase[c] = "sent" /\ result[c] = <<>> /\ state # "closed" =>
     c \in ToSet(queue) \/ \E i \in DOMAIN hash: hash[i] = c

\* Once the connection is closed every command was answered (close_connection answers the queue and the table).
ClosedAnswersAll == state = "closed" => \A c \in Cmds: phase[c] = "sent" => result[c] # <<>>

=============================================================================
