----------------------------- MODULE ReadStream -----------------------------
(***************************************************************************)
(* An open file being read: the client's GDaemonFileInputStream            *)
(* (client/gdaemonfileinputstream.c), the socket, and the daemon's read    *)
(* channel (daemon/gvfschannel.c, daemon/gvfsreadchannel.c) with the job   *)
(* the backend is working on. The client pipelines: it may be served by    *)
(* the answer to an earlier read or by a readahead nobody asked for, tells *)
(* answers apart by sequence number and stale data by seek generation, and *)
(* may give up on an operation at any time.                                *)
(*                                                                         *)
(* A unit of data is 4 KiB. A header, or a block of data, arrives as a     *)
(* whole; a client may still read a block in pieces.                       *)
(***************************************************************************)
EXTENDS Naturals, Sequences, FiniteSets

CONSTANTS
  FileSize,     \* length of the file in units
  ReadSizes,    \* sizes of the application's buffers
  MaxOps,       \* bound on the operations before close
  EarlyCancel,  \* operations that may be cancelled before they are sent
  Blocks        \* may the backend block requests for a while?

OpKinds == {"read", "seek", "query", "close"}

ASSUME StreamAssumption ==
  /\ FileSize \in Nat /\ MaxOps \in Nat
  /\ ReadSizes \subseteq Nat \ {0}
  /\ EarlyCancel \subseteq OpKinds
  /\ Blocks \in BOOLEAN

VARIABLES
  op,         \* the client's operation: its kind, state and request
  cancelled,  \* its GCancellable
  offset,     \* file->current_offset
  cgen,       \* file->seek_generation
  seqNr,      \* file->seq_nr
  pre,        \* file->pre_reads
  block,      \* input_state IN_BLOCK: what is left of the data block
  out,        \* file->output_buffer, in header-sized pieces
  closed,     \* the stream has been closed
  ops,        \* operations so far
  res, sure,  \* history: last outcome; no seek has failed since a success
  c2d, d2c,   \* the socket, both ways
  shut,       \* the daemon has shut it down
  queue,      \* priv->queued_requests
  job,        \* priv->current_job
  dgen,       \* read_channel->seek_generation
  readCount,  \* read_channel->read_count; from 6 on it makes no difference
  bpos,       \* the backend handle's position
  blocked     \* backend->priv->block_requests

streamVars == <<offset, cgen, seqNr, pre, block, out>>
histVars   == <<closed, ops, res, sure>>
daemonVars == <<shut, queue, job, dgen, readCount, bpos, blocked>>
vars == <<op, cancelled, streamVars, histVars, c2d, d2c, daemonVars>>

Least(S) == CHOOSE x \in S : \A y \in S : x <= y
Smaller(a, b) == IF a < b THEN a ELSE b
Larger(a, b) == IF a > b THEN a ELSE b

NoOp == [kind |-> "none", st |-> "idle", arg |-> 0, seq |-> 0, sentCancel |-> FALSE]
NoBlock == [start |-> 0, len |-> 0, gen |-> 0, in |-> FALSE]
NoJob == [kind |-> "none", st |-> "idle", seq |-> 0, arg |-> 0,
          cancelled |-> FALSE, more |-> FALSE]
Outcome(k, s, n) == [kind |-> k, start |-> s, len |-> n]

-----------------------------------------------------------------------------
(* The client.                                                             *)

(* append_request: attributes of a query follow its header.                *)
Request(cmd, seq, arg) ==
  LET header == [cmd |-> cmd, seq |-> seq, arg |-> arg] IN
  IF cmd = "query" THEN <<header, [cmd |-> "attrs", seq |-> 0, arg |-> 0]>>
                   ELSE <<header>>

(* unappend_request takes one header's length off the buffer. *)
Unappend(buf) == SubSeq(buf, 1, Len(buf) - 1)

Begin(kind, arg) ==
  /\ op' = [kind |-> kind, st |-> "send", arg |-> arg, seq |-> seqNr,
            sentCancel |-> FALSE]
  /\ out' = out \o Request(kind, seqNr, arg)
  /\ seqNr' = seqNr + 1

Idle == op.kind = "none" /\ ~closed

NewOp == Idle /\ ops < MaxOps /\ ops' = ops + 1

Finish(outcome) ==
  /\ op' = NoOp /\ cancelled' = FALSE /\ res' = outcome
  /\ closed' = (closed \/ op.kind = "close")

(* A failure; a seek that was sent has thrown the data read ahead away. *)
FinishFailed(sent) ==
  /\ Finish(Outcome("failed", 0, 0))
  /\ sure' = (sure /\ ~(sent /\ op.kind = "seek"))

(* READ_STATE_INIT drops pre-reads of another generation from the front.   *)
UsablePre ==
  LET good == {i \in DOMAIN pre : pre[i].gen = cgen} IN
  IF good = {} THEN << >> ELSE SubSeq(pre, Least(good), Len(pre))

ReadFromPre(n) ==
  /\ NewOp
  /\ UsablePre # << >>
  /\ LET p == Head(UsablePre)
         m == Smaller(n, p.len)
     IN
     /\ pre' = IF m < p.len
                 THEN <<[p EXCEPT !.start = @ + m, !.len = @ - m]>> \o Tail(UsablePre)
                 ELSE Tail(UsablePre)
     /\ res' = Outcome("data", p.start, m)
     /\ offset' = offset + m
  /\ UNCHANGED <<op, cancelled, cgen, seqNr, block, out, closed, sure, c2d,
                 d2c, daemonVars>>

(* Part of a block is left over: no request is sent. *)
ReadFromBlock(n) ==
  /\ NewOp
  /\ UsablePre = << >> /\ block.in /\ block.gen = cgen
  /\ pre' = << >>
  /\ op' = [NoOp EXCEPT !.kind = "read", !.st = "early", !.arg = n]
  /\ UNCHANGED <<cancelled, offset, cgen, seqNr, block, out, closed, res,
                 sure, c2d, d2c, daemonVars>>

SendRead(n) ==
  /\ NewOp
  /\ UsablePre = << >> /\ ~(block.in /\ block.gen = cgen)
  /\ pre' = << >>
  /\ Begin("read", n)
  /\ UNCHANGED <<cancelled, offset, cgen, block, closed, res, sure, c2d, d2c,
                 daemonVars>>

SendSeek(p) ==
  /\ NewOp
  /\ Begin("seek", p)
  /\ UNCHANGED <<cancelled, offset, cgen, pre, block, closed, res, sure, c2d,
                 d2c, daemonVars>>

SendQuery ==
  /\ NewOp
  /\ Begin("query", 0)
  /\ UNCHANGED <<cancelled, offset, cgen, pre, block, closed, res, sure, c2d,
                 d2c, daemonVars>>

SendClose ==
  /\ Idle
  /\ pre' = << >>
  /\ Begin("close", 0)
  /\ UNCHANGED <<cancelled, offset, cgen, block, histVars, c2d, d2c, daemonVars>>

(* The application gives up. *)
RequestCancel ==
  /\ op.kind # "none" /\ ~cancelled
  /\ op.st = "send" => op.kind \in EarlyCancel
  /\ cancelled' = TRUE
  /\ UNCHANGED <<op, streamVars, histVars, c2d, d2c, daemonVars>>

(* The write is cancelled before its first byte: the request is withdrawn. *)
CancelUnsent ==
  /\ op.st = "send" /\ cancelled /\ ~op.sentCancel
  /\ out' = Unappend(out)
  /\ seqNr' = seqNr - 1
  /\ FinishFailed(FALSE)
  /\ UNCHANGED <<offset, cgen, pre, block, ops, c2d, d2c, daemonVars>>

(* The output buffer is flushed. A seek that is on its way starts a new    *)
(* generation.                                                             *)
WriteRequest ==
  /\ op.st = "send" /\ ~shut
  /\ ~cancelled \/ op.sentCancel
  /\ c2d' = c2d \o out
  /\ out' = << >>
  /\ op' = [op EXCEPT !.st = "input"]
  /\ IF op.kind = "seek"
       THEN pre' = << >> /\ cgen' = IF op.sentCancel THEN cgen ELSE cgen + 1
       ELSE UNCHANGED <<pre, cgen>>
  /\ UNCHANGED <<cancelled, offset, seqNr, block, histVars, d2c, daemonVars>>

(* "Error in stream protocol": the daemon has shut the socket down. *)
StreamError ==
  /\ shut
  /\ \/ op.st = "send" /\ (~cancelled \/ op.sentCancel)
     \/ op.st = "header" /\ d2c = << >>
  /\ FinishFailed(TRUE)
  /\ UNCHANGED <<streamVars, ops, c2d, d2c, daemonVars>>

(* HANDLE_INPUT notices the cancellation. *)
SendCancel ==
  /\ op.st = "input" /\ cancelled /\ ~op.sentCancel
  /\ out' = out \o Request("cancel", seqNr, op.seq)
  /\ seqNr' = seqNr + 1
  /\ op' = [op EXCEPT !.st = "send", !.sentCancel = TRUE]
  /\ UNCHANGED <<cancelled, offset, cgen, pre, block, histVars, c2d, d2c,
                 daemonVars>>

HandleInput ==
  /\ op.st = "input" /\ ~(cancelled /\ ~op.sentCancel)
  /\ op' = [op EXCEPT !.st = IF block.in THEN "block" ELSE "header"]
  /\ UNCHANGED <<cancelled, streamVars, histVars, c2d, d2c, daemonVars>>

(* The reply that completes an operation of this kind *)
Success == [read |-> "none", seek |-> "seekpos", query |-> "info", close |-> "closed"]

(* HANDLE_HEADER: wait for the next reply. input_buffer is never empty     *)
(* when io_allow_cancel is computed, so the wait cannot be cancelled.      *)
ReadHeader ==
  /\ op.st = "header" /\ d2c # << >>
  /\ d2c' = Tail(d2c)
  /\ LET r == Head(d2c) IN
     \/ /\ r.type = "error" /\ r.seq = op.seq
        /\ FinishFailed(TRUE)
        /\ UNCHANGED <<offset, block>>
     \/ /\ r.type = "data"
        /\ block' = [start |-> r.start, len |-> r.len, gen |-> r.gen, in |-> TRUE]
        /\ op' = [op EXCEPT !.st = "block"]
        /\ UNCHANGED <<cancelled, offset, closed, res, sure>>
     \/ /\ r.type = Success[op.kind] /\ r.seq = op.seq
        /\ IF op.kind = "seek"
             THEN /\ Finish(Outcome("seek", r.start, 0))
                  /\ offset' = r.start /\ sure' = TRUE
             ELSE /\ Finish(Outcome("done", 0, 0))
                  /\ UNCHANGED <<offset, sure>>
        /\ UNCHANGED block
     \/ /\ ~(r.type = "data" \/ (r.seq = op.seq /\ r.type \in {"error", Success[op.kind]}))
        /\ UNCHANGED <<op, cancelled, offset, block, closed, res, sure>>
  /\ UNCHANGED <<cgen, seqNr, pre, out, ops, c2d, daemonVars>>

Pieces(n) == IF n = 0 THEN {0} ELSE 1 .. n
Rest_KeepsLength(m) == [block EXCEPT !.start = @ + m]
Rest(m) == IF m = block.len THEN NoBlock
           ELSE [block EXCEPT !.start = @ + m, !.len = @ - m]

(* READ_STATE_READ_BLOCK; an empty block, the end of file, stays. *)
ReadBlock(m) ==
  /\ op.kind = "read" /\ block.in /\ block.gen = cgen
  /\ op.st = "block" \/ (op.st = "early" /\ ~cancelled)
  /\ m \in Pieces(Smaller(op.arg, block.len))
  /\ Finish(Outcome("data", block.start, m))
  /\ block' = IF m = 0 THEN block ELSE Rest(m)
  /\ offset' = offset + m
  /\ UNCHANGED <<cgen, seqNr, pre, out, ops, sure, c2d, d2c, daemonVars>>

ReadBlockCancelled ==
  /\ op.st = "early" /\ cancelled
  /\ FinishFailed(FALSE)
  /\ UNCHANGED <<streamVars, ops, c2d, d2c, daemonVars>>

KeepBlock_Discards(m) ==
  /\ op.kind = "query" /\ op.st = "block" /\ block.len > 0 /\ block.gen = cgen
  /\ m \in Pieces(block.len)
  /\ block' = Rest(m)
  /\ op' = [op EXCEPT !.st = "input"]
  /\ UNCHANGED <<cancelled, offset, cgen, seqNr, pre, out, histVars, c2d, d2c,
                 daemonVars>>

(* A query keeps the data it comes across for later reads. *)
KeepBlock(m) ==
  /\ op.kind = "query" /\ op.st = "block" /\ block.len > 0 /\ block.gen = cgen
  /\ m \in Pieces(block.len)
  /\ pre' = Append(pre, [start |-> block.start, len |-> m, gen |-> block.gen])
  /\ block' = Rest(m)
  /\ op' = [op EXCEPT !.st = "input"]
  /\ UNCHANGED <<cancelled, offset, cgen, seqNr, out, histVars, c2d, d2c,
                 daemonVars>>

Skips == \/ op.kind \in {"seek", "close"}
         \/ op.kind = "read" /\ block.gen # cgen
         \/ op.kind = "query" /\ (block.gen # cgen \/ block.len = 0)

(* Data of no use is skipped; a cancellation interrupts that. *)
SkipBlock(m) ==
  /\ op.st = "block" /\ Skips
  /\ cancelled => op.sentCancel \/ (op.kind = "query" /\ block.len = 0)
  /\ m \in Pieces(block.len)
  /\ block' = Rest(m)
  /\ op' = [op EXCEPT !.st = "input"]
  /\ UNCHANGED <<cancelled, offset, cgen, seqNr, pre, out, histVars, c2d, d2c,
                 daemonVars>>

SkipCancelled ==
  /\ op.st = "block" /\ Skips
  /\ cancelled /\ ~op.sentCancel /\ ~(op.kind = "query" /\ block.len = 0)
  /\ op' = [op EXCEPT !.st = "input"]
  /\ UNCHANGED <<cancelled, streamVars, histVars, c2d, d2c, daemonVars>>

-----------------------------------------------------------------------------
(* The daemon's channel.                                                   *)

(* modify_read_size, in units of 4 KiB: twice as much for each read in a   *)
(* row.                                                                    *)
ModifyReadSize(count, n) ==
  Smaller(64, Larger(n, <<1, 2, 4, 8, 16, 32>>[Larger(count, 1)]))

NewJob(kind, seq, arg) ==
  [NoJob EXCEPT !.kind = kind, !.st = "work", !.seq = seq, !.arg = arg]

(* read_channel_handle_request: what the request does to the channel       *)
(* happens also for a request that was cancelled in the queue.             *)
HandleRequest(r) ==
  /\ dgen' = IF r.cmd = "seek" THEN dgen + 1 ELSE dgen
  /\ readCount' = CASE r.cmd = "seek" -> 0
                    [] r.cmd = "read" -> Smaller(readCount + 1, 6)
                    [] OTHER          -> readCount
  /\ job' = IF r.cancelled \/ r.cmd \notin OpKinds
              THEN NewJob("error", r.seq, 0)
              ELSE NewJob(r.cmd, r.seq,
                          IF r.cmd = "read" THEN ModifyReadSize(readCount', r.arg)
                                            ELSE r.arg)

RefuseRequest(r) ==
  job' = NewJob("error", r.seq, 0) /\ UNCHANGED <<dgen, readCount>>

(* start_queued_request: while the backend blocks requests they are        *)
(* refused.                                                                *)
StartQueued(q) ==
  /\ queue' = Tail(q)
  /\ IF blocked THEN RefuseRequest(Head(q)) ELSE HandleRequest(Head(q))

MarkCancelled_Removes(seq) == SelectSeq(queue, LAMBDA r : r.seq # seq)

(* A CANCEL for a request that still waits marks it. *)
MarkCancelled(seq) ==
  LET hit  == {i \in DOMAIN queue : queue[i].seq = seq}
      last == IF hit = {} THEN Len(queue) ELSE Least(hit)
  IN [i \in DOMAIN queue |->
        IF i <= last /\ queue[i].seq \in {0, seq}
          THEN [queue[i] EXCEPT !.cancelled = TRUE] ELSE queue[i]]

Enqueue_InFront(r) == <<r>> \o queue
Enqueue(r) == Append(queue, r)

Length(unit) == IF unit.cmd = "query" THEN 2 ELSE 1

(* command_read_cb, data_read_cb and got_request: a header and, for a      *)
(* query, as much data as it announces.                                    *)
GotRequest ==
  /\ c2d # << >> /\ ~shut /\ job.kind # "gone"
  /\ Len(c2d) >= Length(Head(c2d))
  /\ c2d' = SubSeq(c2d, Length(Head(c2d)) + 1, Len(c2d))
  /\ LET r == Head(c2d) IN
     \/ /\ r.cmd = "cancel" /\ job.kind # "none" /\ job.seq = r.arg
        /\ job' = [job EXCEPT !.cancelled = TRUE]
        /\ UNCHANGED <<queue, dgen, readCount>>
     \/ /\ r.cmd = "cancel" /\ ~(job.kind # "none" /\ job.seq = r.arg)
        /\ queue' = MarkCancelled(r.arg)
        /\ UNCHANGED <<job, dgen, readCount>>
     \/ /\ r.cmd # "cancel"
        /\ LET q == Enqueue([cmd |-> r.cmd, seq |-> r.seq, arg |-> r.arg,
                             cancelled |-> FALSE])
           IN IF job.kind = "none"
                THEN StartQueued(q)
                ELSE queue' = q /\ UNCHANGED <<job, dgen, readCount>>
  /\ UNCHANGED <<op, cancelled, streamVars, histVars, d2c, shut, bpos, blocked>>

(* The reply goes to the socket, unless that is shut down. *)
Reply(type, start, len) ==
  d2c' = IF shut THEN d2c
         ELSE Append(d2c, [type |-> type, seq |-> job.seq, start |-> start,
                           len |-> len, gen |-> dgen])

(* The backend reads n units: what it has, or nothing at the end. *)
ReadDone(n) ==
  /\ job.kind = "read" /\ job.st = "work"
  /\ n \in Pieces(Smaller(job.arg, FileSize - bpos))
  /\ Reply("data", bpos, n)
  /\ bpos' = bpos + n
  /\ job' = [job EXCEPT !.st = "reply", !.more = (n > 0)]
  /\ UNCHANGED <<op, cancelled, streamVars, histVars, c2d, shut, queue, dgen,
                 readCount, blocked>>

SeekDone ==
  /\ job.kind = "seek" /\ job.st = "work"
  /\ bpos' = job.arg
  /\ Reply("seekpos", job.arg, 0)
  /\ job' = [job EXCEPT !.st = "reply"]
  /\ UNCHANGED <<op, cancelled, streamVars, histVars, c2d, shut, queue, dgen,
                 readCount, blocked>>

QueryOrCloseDone ==
  /\ job.kind \in {"query", "close"} /\ job.st = "work"
  /\ Reply(Success[job.kind], 0, 0)
  /\ job' = [job EXCEPT !.st = "reply"]
  /\ UNCHANGED <<op, cancelled, streamVars, histVars, c2d, shut, queue, dgen,
                 readCount, bpos, blocked>>

(* The job fails, because it was cancelled or because the backend says so; *)
(* the handle stays where it is.                                           *)
JobFails ==
  /\ job.kind # "none" /\ job.st = "work"
  /\ Reply("error", 0, 0)
  /\ job' = [job EXCEPT !.st = "reply"]
  /\ UNCHANGED <<op, cancelled, streamVars, histVars, c2d, shut, queue, dgen,
                 readCount, bpos, blocked>>

(* read_channel_readahead, after the second read in a row *)
Readahead == job.kind = "read" /\ job.more /\ readCount = 2

StopAfterReply ==
  /\ job' = NoJob
  /\ UNCHANGED <<queue, dgen, readCount>>

(* send_reply_cb: the job is finished and the next one starts. On a socket *)
(* that was shut down the write fails; the close job then made finds no    *)
(* one to run it. A closed channel is gone.                                *)
SendReplyCb ==
  /\ job.st = "reply"
  /\ \/ /\ job.kind = "close" \/ shut
        /\ job' = [NoJob EXCEPT !.kind = "gone"]
        /\ UNCHANGED <<queue, dgen, readCount>>
     \/ /\ job.kind # "close" /\ ~shut /\ queue # << >>
        /\ StartQueued(queue)
     \/ /\ job.kind # "close" /\ ~shut /\ queue = << >> /\ Readahead
        /\ readCount' = 3
        /\ job' = NewJob("read", 0, ModifyReadSize(3, 2))
        /\ UNCHANGED <<queue, dgen>>
     \/ /\ job.kind # "close" /\ ~shut /\ queue = << >> /\ ~Readahead
        /\ StopAfterReply
  /\ UNCHANGED <<op, cancelled, streamVars, histVars, c2d, d2c, shut, bpos, blocked>>

(* g_vfs_channel_force_close: the mount is going away. *)
ForceClose ==
  /\ ~shut /\ job.kind # "gone"
  /\ shut' = TRUE
  /\ queue' = << >> /\ c2d' = << >>
  /\ job' = [job EXCEPT !.cancelled = (job.kind # "none")]
  /\ UNCHANGED <<op, cancelled, streamVars, histVars, d2c, dgen, readCount,
                 bpos, blocked>>

(* An unmount blocks requests; one that fails unblocks them. *)
SetBlockRequests ==
  /\ Blocks
  /\ blocked' = ~blocked
  /\ UNCHANGED <<op, cancelled, streamVars, histVars, c2d, d2c, shut, queue,
                 job, dgen, readCount, bpos>>

-----------------------------------------------------------------------------
Init ==
  /\ op = NoOp /\ cancelled = FALSE
  /\ offset = 0 /\ cgen = 0 /\ seqNr = 1 /\ pre = << >> /\ block = NoBlock
  /\ out = << >>
  /\ closed = FALSE /\ ops = 0 /\ sure = TRUE /\ res = Outcome("none", 0, 0)
  /\ c2d = << >> /\ d2c = << >>
  /\ shut = FALSE /\ queue = << >> /\ job = NoJob
  /\ dgen = 0 /\ readCount = 0 /\ bpos = 0 /\ blocked = FALSE

Units == 0 .. FileSize

Application ==
  \/ \E n \in ReadSizes : ReadFromPre(n) \/ ReadFromBlock(n) \/ SendRead(n)
  \/ \E p \in Units : SendSeek(p)
  \/ SendQuery \/ SendClose \/ RequestCancel

Client ==
  \/ CancelUnsent \/ WriteRequest \/ StreamError \/ SendCancel \/ HandleInput
  \/ ReadHeader \/ ReadBlockCancelled \/ SkipCancelled
  \/ \E m \in Units : ReadBlock(m) \/ KeepBlock(m) \/ SkipBlock(m)

Backend ==
  \/ \E n \in Units : ReadDone(n)
  \/ SeekDone \/ QueryOrCloseDone \/ JobFails

Channel == GotRequest \/ SendReplyCb

(* Both ends have finished with the stream. *)
Done == closed /\ UNCHANGED vars

Next == Application \/ Client \/ Backend \/ Channel \/ ForceClose
          \/ SetBlockRequests \/ Done

Spec == Init /\ [][Next]_vars

-----------------------------------------------------------------------------
(* Properties.                                                             *)

Operations == [kind : OpKinds \cup {"none"},
               st : {"idle", "send", "input", "header", "block", "early"},
               arg : Nat, seq : Nat, sentCancel : BOOLEAN]
Blocklike  == [start : Units, len : Units, gen : Nat]
InputBlock == [start : Units, len : Units, gen : Nat, in : BOOLEAN]
Outcomes   == [kind : {"none", "data", "seek", "done", "failed"},
               start : Units, len : Units]
Messages   == [cmd : OpKinds \cup {"cancel", "attrs"}, seq : Nat, arg : Nat]
Replies    == [type : {"data", "error", "seekpos", "info", "closed"},
               seq : Nat, start : Units, len : Units, gen : Nat]
Queued     == [cmd : OpKinds \cup {"attrs"}, seq : Nat, arg : Nat, cancelled : BOOLEAN]
ChannelJob == [kind : OpKinds \cup {"none", "gone", "error"},
               st : {"idle", "work", "reply"},
               seq : Nat, arg : Nat, cancelled : BOOLEAN, more : BOOLEAN]

(* Every variable has its type. *)
TypeOK ==
  /\ op \in Operations
  /\ cancelled \in BOOLEAN /\ closed \in BOOLEAN /\ sure \in BOOLEAN
  /\ shut \in BOOLEAN /\ blocked \in BOOLEAN
  /\ offset \in Units /\ bpos \in Units
  /\ cgen \in Nat /\ dgen \in Nat /\ seqNr \in Nat \ {0} /\ ops \in 0 .. MaxOps
  /\ readCount \in 0 .. 6
  /\ pre \in Seq(Blocklike) /\ block \in InputBlock /\ res \in Outcomes
  /\ out \in Seq(Messages) /\ c2d \in Seq(Messages) /\ d2c \in Seq(Replies)
  /\ queue \in Seq(Queued) /\ job \in ChannelJob

Abstract == INSTANCE FileStream WITH pos <- offset

(* The pipeline of reads, readaheads, cancellations and seeks behaves like *)
(* a plain file: whichever reply serves a read, its data begins at the     *)
(* position the application is at, end of file is reported at the end      *)
(* only, and a failed seek loses data but never repeats it                 *)
(* (iterate_read_state_machine, iterate_seek_state_machine).               *)
ImplementsFileStream == Abstract!Spec

Seqs(s) == [i \in DOMAIN s |-> s[i].seq]
AskedSeqs(s) == [i \in DOMAIN s |-> IF s[i].cmd \in {"cancel", "attrs"} THEN 0 ELSE s[i].seq]
CurrentSeq == IF job.st = "work" THEN <<job.seq>> ELSE << >>

(* Everything asked and not yet received, the oldest first; 0 stands for   *)
(* what is no answer to a request, or asks for none.                       *)
Pipeline == Seqs(d2c) \o CurrentSeq \o Seqs(queue) \o AskedSeqs(c2d)

Increasing(s) ==
  \A i, k \in DOMAIN s : i < k /\ s[i] # 0 /\ s[k] # 0 => s[i] < s[k]

(* Requests are answered one by one in the order they were made,           *)
(* readaheads (sequence number 0) in between: no answer overtakes another  *)
(* and none is given twice.                                                *)
PipelineOrdered == Increasing(Pipeline)

(* An operation that waits for its reply will find one: its request is on  *)
(* its way, queued, at work or answered, cancelled or not.                 *)
AnswerPending ==
  op.st \in {"input", "header"} /\ ~shut
    => \E i \in DOMAIN Pipeline : Pipeline[i] = op.seq

Seeks(s) == Cardinality({i \in DOMAIN s : s[i].cmd = "seek"})

(* The client is ahead of the channel by exactly the seeks the channel has *)
(* not started yet, so that data of the current generation is recognised   *)
(* (gvfschannel.c:342: "we need to create it to rely on handle_request     *)
(* side effects like seek generations, etc").                              *)
GenerationsExact == ~shut => cgen = dgen + Seeks(queue) + Seeks(c2d)

=============================================================================
