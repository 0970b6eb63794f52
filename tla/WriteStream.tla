---------------------------- MODULE WriteStream ----------------------------
(***************************************************************************)
(* An open file being written: the client's GDaemonFileOutputStream        *)
(* (client/gdaemonfileoutputstream.c), the socket, and the daemon's write  *)
(* channel (gvfswritechannel.c, gvfschannel.c) with its jobs.  Unlike a    *)
(* reader the client has one request outstanding and waits for the answer  *)
(* with that number, also after it has asked to cancel it.                 *)
(*                                                                         *)
(* A unit written is the number of the write it belongs to.  A reply       *)
(* arrives as a whole, but the wait for it may be cancelled.               *)
(***************************************************************************)
EXTENDS Integers, Sequences, TLAPS

CONSTANTS Modes,       \* how the file is opened: create, append, replace, edit
          MaxWrite,    \* the largest buffer, in units
          MaxOps,      \* bound: operations
          MaxFaults,   \* bound: jobs that fail
          EarlyCancel, \* operations cancelled before their request is sent
          LateCancel,  \* may an operation be cancelled while it waits?
          Async        \* may the application use write_async?

Kinds == {"write", "seek", "truncate", "query", "close"}
AllModes == {"create", "append", "replace", "edit"}

WriteAssumption == /\ MaxWrite \in Nat /\ Modes \subseteq AllModes /\ EarlyCancel \subseteq Kinds
                   /\ LateCancel \in BOOLEAN /\ Async \in BOOLEAN

VARIABLES
    op,        \* the client's operation and its state
    cancelled, \* its GCancellable
    offset,    \* file->current_offset
    canSeek,   \* file->can_seek and can_truncate
    seqNr,     \* file->seq_nr
    out,       \* file->output_buffer
    mem,       \* what the memory of file->input_buffer holds: header of a "plain" or "long" reply
    open,      \* the stream is open
    sure,      \* ghost: no operation has failed since the position was last told
    last,      \* ghost: the last outcome
    c2d, d2c,  \* the socket, both ways
    eof,       \* the daemon has shut it down
    queue,     \* priv->queued_requests
    job,       \* priv->current_job
    file, bpos,\* the backend's file and position
    ops, faults

client == <<op, cancelled, offset, canSeek, seqNr, out, mem, open, sure, last>>
daemon == <<eof, queue, job, file, bpos>>
vars == <<client, c2d, d2c, daemon, ops, faults>>

NoOp == [kind |-> "none", st |-> "idle", arg |-> 0, seq |-> 0, sentCancel |-> FALSE, async |-> FALSE,
         stale |-> FALSE]
NoJob == [kind |-> "none", st |-> "idle", arg |-> 0, seq |-> 0, cancelled |-> FALSE]
None == [kind |-> "none", at |-> 0, len |-> 0, id |-> 0]
Old == 0
Attrs == [cmd |-> "attrs", seq |-> 0, arg |-> 0]
Put(f, at, id, n) ==
    LET len == IF at + n > Len(f) THEN at + n ELSE Len(f)
    IN [i \in 1 .. len |-> IF i \in at + 1 .. at + n THEN id ELSE IF i <= Len(f) THEN f[i] ELSE Old]

\* The open job: what the backend made of the file, where it stands, and
\* whether it can seek (an appending handle cannot).
Init == /\ \E mode \in Modes :
            /\ file = IF mode \in {"append", "edit"} THEN <<Old>> ELSE <<>>
            /\ bpos = IF mode = "append" THEN 1 ELSE 0
            /\ canSeek = (mode /= "append")
        /\ offset = bpos
        /\ op = NoOp /\ cancelled = FALSE /\ seqNr = 1 /\ out = <<>> /\ mem \in {"plain", "long"}
        /\ open = TRUE /\ sure = TRUE /\ last = None /\ c2d = <<>> /\ d2c = <<>> /\ eof = FALSE
        /\ queue = <<>> /\ job = NoJob /\ ops = 0 /\ faults = 0
-----------------------------------------------------------------------------
(* The client.                                                             *)

\* append_request; the attributes of a query follow it in the buffer.
AppendRequest(cmd, seq, arg) ==
    LET header == [cmd |-> cmd, seq |-> seq, arg |-> arg] IN
    IF cmd = "query" THEN out \o <<header, Attrs>>
    ELSE Append(out, header)

\* The INIT state of the five state machines.
Begin(kind, arg, async) ==
    /\ op.kind = "none" /\ open /\ ops < MaxOps /\ ops' = ops + 1
    /\ op' = [kind |-> kind, st |-> "send", arg |-> arg, seq |-> seqNr, sentCancel |-> FALSE,
              async |-> async, stale |-> FALSE]
    /\ out' = AppendRequest(kind, seqNr, arg) /\ seqNr' = seqNr + 1 /\ cancelled' = FALSE
    /\ last' = None
    /\ UNCHANGED <<offset, canSeek, mem, open, sure, c2d, d2c, daemon, faults>>

BeginWrite == \E n \in 1 .. MaxWrite, a \in BOOLEAN : (a => Async) /\ Begin("write", n, a)
BeginSeek(p) == canSeek /\ Begin("seek", p, FALSE)
BeginTruncate(n) == canSeek /\ Begin("truncate", n, FALSE)
BeginQuery == Begin("query", 0, FALSE)
BeginClose == Begin("close", 0, FALSE)

\* G_SEEK_CUR is turned into a position by the client.
BeginSeekCur(d) == canSeek /\ offset + d >= 0 /\ Begin("seek", offset + d, FALSE)

\* The operation is over; closing closes the socket whatever the answer was.
Finish(outcome, knows) ==
    /\ op' = NoOp /\ cancelled' = FALSE /\ last' = outcome /\ sure' = knows
    /\ open' = (op.kind /= "close")

\* The application cancels.
RequestCancel ==
    /\ ~cancelled /\ op.st \in {"send", "input"}
    /\ op.st = "send" => op.kind \in EarlyCancel
    /\ op.st = "input" => LateCancel
    /\ cancelled' = TRUE
    /\ UNCHANGED <<op, offset, canSeek, seqNr, out, mem, open, sure, last, c2d, d2c, daemon, ops, faults>>

\* The request was cancelled before its first byte was sent: unappend_request.
CancelUnsent ==
    /\ op.st = "send" /\ ~op.sentCancel /\ cancelled
    /\ out' = SubSeq(out, 1, Len(out) - 1) /\ seqNr' = seqNr - 1
    /\ Finish([None EXCEPT !.kind = "cancelled"], sure)
    /\ UNCHANGED <<offset, canSeek, mem, c2d, d2c, daemon, ops, faults>>

\* The buffer is written; a write's data follows its header.
WriteRequest ==
    /\ op.st = "send" /\ (cancelled => op.sentCancel)
    /\ c2d' = c2d \o out /\ out' = <<>>
    /\ op' = [op EXCEPT !.st = "input"]
    /\ UNCHANGED <<cancelled, offset, canSeek, seqNr, mem, open, sure, last, d2c, daemon, ops, faults>>

\* Cancelled while it waits for a header: the cancel command is sent.  The wait
\* had enlarged input_buffer, and unless the header was read in that moment this
\* is not taken back: the bytes found there are parsed as a header.
SendCancel ==
    /\ op.st = "input" /\ cancelled /\ ~op.sentCancel
    /\ out' = AppendRequest("cancel", seqNr, op.seq) /\ seqNr' = seqNr + 1
    /\ \E stale \in BOOLEAN : /\ ~stale => d2c /= <<>>
                           /\ op' = [op EXCEPT !.sentCancel = TRUE, !.st = "send", !.stale = stale]
    /\ UNCHANGED <<cancelled, offset, canSeek, mem, open, sure, last, c2d, d2c, daemon, ops, faults>>

\* An old header of a reply with data asks for more bytes.
StaleHeader ==
    /\ op.st = "input" /\ op.stale /\ mem = "long"
    /\ op' = [op EXCEPT !.st = "payload"]
    /\ UNCHANGED <<cancelled, offset, canSeek, seqNr, out, mem, open, sure, last, c2d, d2c, daemon, ops, faults>>

\* The data of that reply is longer than the answer, which it swallows.
ReadPayload ==
    /\ op.st = "payload" /\ d2c /= <<>>
    /\ d2c' = Tail(d2c)
    /\ UNCHANGED <<client, c2d, daemon, ops, faults>>

\* HANDLE_INPUT: a reply with another number is thrown away.
Answers(r) == r.seq = op.seq

Memory(r) == IF r.type \in {"ok", "none"} THEN "plain" ELSE "long"
Told(off, knows, outcome) == [offset |-> off, sure |-> knows, last |-> outcome]
Failed(knows) == Told(offset, knows, [None EXCEPT !.kind = "error"])
Done(off, knows, len) == Told(off, knows, [kind |-> op.kind, at |-> offset, len |-> len, id |-> op.seq])

\* What the answer r means to each state machine and to its caller: only a
\* write and a seek move current_offset, and write_async forgets to.
WriteAnswer_Requested(r) ==
    IF r.type = "error" THEN Failed(FALSE) ELSE Done(offset + op.arg, sure, r.arg)
WriteAnswer(r) ==
    IF r.type = "error" THEN Failed(FALSE)
    ELSE Done(IF op.async THEN offset ELSE offset + r.arg, sure, r.arg)
SeekAnswer(r) == IF r.type = "error" THEN Failed(FALSE) ELSE Done(r.arg, TRUE, 0)
TruncateAnswer(r) == IF r.type = "error" THEN Failed(sure) ELSE Done(offset, sure, 0)
QueryAnswer(r) == IF r.type = "error" THEN Failed(sure) ELSE Done(offset, sure, 0)
CloseAnswer(r) == IF r.type = "error" THEN Failed(sure) ELSE Done(offset, sure, 0)
Answer(r) == CASE op.kind = "write" -> WriteAnswer(r) [] op.kind = "seek" -> SeekAnswer(r)
               [] op.kind = "truncate" -> TruncateAnswer(r) [] op.kind = "query" -> QueryAnswer(r)
               [] OTHER -> CloseAnswer(r)
HandleInput ==
    /\ op.st = "input" /\ d2c /= <<>> /\ ~(op.stale /\ mem = "long")
    /\ cancelled => op.sentCancel
    /\ LET r == Head(d2c) IN
        /\ d2c' = Tail(d2c)
        /\ mem' = Memory(r)
        /\ IF Answers(r)
           THEN /\ offset' = Answer(r).offset
                /\ Finish(Answer(r).last, Answer(r).sure)
           ELSE UNCHANGED <<op, cancelled, offset, last, sure, open>>
    /\ UNCHANGED <<canSeek, seqNr, out, c2d, daemon, ops, faults>>

\* The daemon has gone: an error in the stream protocol.
StreamError ==
    /\ op.kind /= "none" /\ eof /\ d2c = <<>>
    /\ Finish([None EXCEPT !.kind = "error"], FALSE)
    /\ out' = <<>>
    /\ UNCHANGED <<offset, canSeek, seqNr, mem, c2d, d2c, daemon, ops, faults>>
-----------------------------------------------------------------------------
(* The daemon.                                                             *)

\* start_queued_request: the next request becomes the job; one cancelled in
\* the queue is answered at once.
StartQueued(q) ==
    IF q = <<>> THEN queue' = q /\ job' = NoJob
    ELSE /\ queue' = Tail(q)
         /\ job' = [kind |-> Head(q).cmd, st |-> "run", arg |-> Head(q).arg, seq |-> Head(q).seq,
                    cancelled |-> Head(q).cancelled]

\* got_request: a cancellation finds its job at work, queued, or gone.
GotRequest ==
    /\ ~eof /\ c2d /= <<>> /\ Head(c2d).cmd /= "attrs"
    /\ LET r == Head(c2d)
           rest == IF r.cmd = "query" THEN Tail(Tail(c2d)) ELSE Tail(c2d)
           req == [cmd |-> r.cmd, seq |-> r.seq, arg |-> r.arg, cancelled |-> FALSE]
       IN /\ c2d' = rest
          /\ IF r.cmd = "cancel"
             THEN IF job.kind /= "none" /\ job.seq = r.arg
                  THEN job' = [job EXCEPT !.cancelled = TRUE] /\ UNCHANGED queue
                  ELSE /\ queue' = [i \in DOMAIN queue |->
                                    IF queue[i].seq = r.arg THEN [queue[i] EXCEPT !.cancelled = TRUE]
                                    ELSE queue[i]]
                       /\ UNCHANGED job
             ELSE IF job.kind = "none" THEN StartQueued(Append(queue, req))
             ELSE queue' = Append(queue, req) /\ UNCHANGED job
    /\ UNCHANGED <<client, d2c, eof, file, bpos, ops, faults>>

Reply(type, arg) == d2c' = Append(d2c, [type |-> type, seq |-> job.seq, arg |-> arg])
Running(kind) == job.kind = kind /\ job.st = "run" /\ job' = [job EXCEPT !.st = "reply"]

\* g_vfs_job_write: some of the data is written, and that much is told.
WriteDone(n) ==
    /\ Running("write") /\ n \in 1 .. job.arg
    /\ file' = Put(file, bpos, job.seq, n) /\ bpos' = bpos + n
    /\ Reply("ok", n)
    /\ UNCHANGED <<client, c2d, eof, queue, ops, faults>>
SeekDone ==
    /\ Running("seek") /\ bpos' = job.arg
    /\ Reply("ok", job.arg)
    /\ UNCHANGED <<client, c2d, eof, queue, file, ops, faults>>
TruncateDone ==
    /\ Running("truncate")
    /\ file' = [i \in 1 .. job.arg |-> IF i <= Len(file) THEN file[i] ELSE Old]
    /\ Reply("ok", 0)
    /\ UNCHANGED <<client, c2d, eof, queue, bpos, ops, faults>>
\* INFO and CLOSED carry data.
QueryOrCloseDone ==
    /\ \/ Running("query") /\ Reply("info", 0)
       \/ Running("close") /\ Reply("closed", 0)
    /\ UNCHANGED <<client, c2d, eof, queue, file, bpos, ops, faults>>

\* A job fails, or notices that it was cancelled; a write may have written.
JobFails ==
    /\ job.st = "run" /\ (job.cancelled \/ faults < MaxFaults)
    /\ faults' = IF job.cancelled THEN faults ELSE faults + 1
    /\ job' = [job EXCEPT !.st = "reply"] /\ Reply("error", 0)
    /\ IF job.kind = "write"
       THEN \E n \in 0 .. job.arg : file' = Put(file, bpos, job.seq, n) /\ bpos' = bpos + n
       ELSE UNCHANGED <<file, bpos>>
    /\ UNCHANGED <<client, c2d, eof, queue, ops>>

\* send_reply_cb: after the close job the channel is done.
SendReplyCb ==
    /\ job.st = "reply"
    /\ IF job.kind = "close" THEN eof' = TRUE /\ job' = NoJob /\ UNCHANGED queue
       ELSE StartQueued(queue) /\ UNCHANGED eof
    /\ UNCHANGED <<client, c2d, d2c, file, bpos, ops, faults>>

Client == CancelUnsent \/ WriteRequest \/ SendCancel \/ StaleHeader \/ ReadPayload \/ HandleInput \/ StreamError
Backend == \/ SeekDone \/ TruncateDone \/ QueryOrCloseDone \/ JobFails
           \/ \E n \in 1 .. MaxWrite : WriteDone(n)
Daemon == GotRequest \/ Backend \/ SendReplyCb
Application == \/ BeginWrite \/ BeginQuery \/ BeginClose \/ RequestCancel
               \/ \E p \in 0 .. 2 : BeginSeek(p) \/ BeginTruncate(p)
               \/ \E d \in {-1, 1} : BeginSeekCur(d)
Next == Application \/ Client \/ Daemon
Spec == Init /\ [][Next]_vars /\ WF_vars(Client) /\ WF_vars(Daemon)
-----------------------------------------------------------------------------
TypeOK == /\ op.kind \in Kinds \cup {"none"} /\ op.st \in {"idle", "send", "input", "payload"}
          /\ offset \in Nat /\ seqNr \in Nat \ {0} /\ mem \in {"plain", "long"}
          /\ job.kind \in Kinds \cup {"none"} /\ job.st \in {"idle", "run", "reply"}
          /\ bpos \in Nat /\ {cancelled, canSeek, open, sure, eof} \subseteq BOOLEAN

\* While no operation has failed, tell() is where the backend will write next:
\* short writes, seeks and truncations included.
OffsetTrue == (op.kind = "none" /\ open /\ sure) => offset = bpos

\* What a successful write reported is in the file, at the position the client
\* had then: no answer of another request is taken for it.
ReportedWritten ==
    (last.kind = "write" /\ op.kind = "none" /\ sure)
    => /\ last.at + last.len <= Len(file)
       /\ \A i \in last.at + 1 .. last.at + last.len : file[i] = last.id

\* One request at a time: when the client is not waiting the daemon has nothing
\* left to write, so a cancelled write cannot reach the file later.
NothingLater ==
    op.kind = "none" => /\ \A i \in DOMAIN c2d : c2d[i].cmd = "cancel"
                        /\ queue = <<>> /\ job.st /= "run"
                        /\ d2c = <<>> \/ ~open

\* A request cancelled before it was sent leaves nothing in the buffer.
BufferClean == op.kind = "none" => out = <<>>

-----------------------------------------------------------------------------
\* The inductive invariant: where the one request of the client is, from its
\* buffer through the socket, the daemon's queue and job back to it, and what has
\* become of the file by then.

Messages == [cmd : Kinds \cup {"cancel", "attrs"}, seq : Nat, arg : Nat]
Requests == [cmd : Kinds, seq : Nat, arg : Nat, cancelled : BOOLEAN]
Replies == [type : {"ok", "info", "closed", "error"}, seq : Nat, arg : Nat]

Flags == /\ cancelled \in BOOLEAN /\ canSeek \in BOOLEAN /\ open \in BOOLEAN /\ sure \in BOOLEAN
         /\ eof \in BOOLEAN

Operations == [kind : Kinds \cup {"none"}, st : {"idle", "send", "input", "payload"}, arg : Nat,
               seq : Nat, sentCancel : BOOLEAN, async : {FALSE}, stale : BOOLEAN]
Jobs == [kind : Kinds \cup {"none"}, st : {"idle", "run", "reply"}, arg : Nat, seq : Nat,
         cancelled : BOOLEAN]

Types ==
    /\ op \in Operations
    /\ job \in Jobs
    /\ job.kind = "none" <=> job.st = "idle"
    /\ op.kind = "none" <=> op.st = "idle"
    /\ op.kind = "none" => op = NoOp
    /\ out \in Seq(Messages) /\ c2d \in Seq(Messages) /\ queue \in Seq(Requests)
    /\ d2c \in Seq(Replies) /\ file \in Seq(Nat)
    /\ offset \in Nat /\ bpos \in Nat /\ seqNr \in Nat \ {0} /\ mem \in {"plain", "long"}
    /\ Flags

Request == [cmd |-> op.kind, seq |-> op.seq, arg |-> op.arg]
Cancels(s) == \A i \in 1 .. Len(s) : s[i].cmd = "cancel"
CarriedAt(s, i) ==
    /\ s[i] = Request
    /\ op.kind = "query" => i < Len(s) /\ s[i + 1] = Attrs
    /\ \A j \in 1 .. Len(s) : j = i \/ (op.kind = "query" /\ j = i + 1) \/ s[j].cmd = "cancel"
Carried(s) == \E i \in 1 .. Len(s) : CarriedAt(s, i)

Position == sure => offset = bpos
Untouched == ~eof /\ job.kind /= "close" /\ Position
DaemonIdle == queue = <<>> /\ job.st /= "run"

Buffered == /\ op.st = "send" /\ ~op.sentCancel /\ (cancelled => op.kind \in EarlyCancel)
            /\ seqNr = op.seq + 1 /\ op.seq > 0
            /\ out = IF op.kind = "query" THEN <<Request, Attrs>> ELSE <<Request>>
            /\ Cancels(c2d) /\ DaemonIdle /\ d2c = <<>> /\ Untouched
OnWire == Carried(c2d) /\ DaemonIdle /\ d2c = <<>> /\ Untouched
InQueue == /\ Cancels(c2d) /\ job.st = "reply" /\ d2c = <<>> /\ Untouched
           /\ Len(queue) = 1 /\ queue[1].cmd = op.kind /\ queue[1].seq = op.seq /\ queue[1].arg = op.arg
AtWork == /\ Cancels(c2d) /\ queue = <<>> /\ d2c = <<>> /\ ~eof /\ Position
          /\ job.st = "run" /\ job.kind = op.kind /\ job.seq = op.seq /\ job.arg = op.arg
Over == (eof \/ job.kind = "close") => op.kind = "close"

\* What the reply on its way means for the file.
Effect(r) ==
    /\ op.kind = "write" /\ r.type /= "error" /\ sure =>
         bpos = offset + r.arg /\ bpos <= Len(file) /\ \A i \in offset + 1 .. bpos : file[i] = op.seq
    /\ op.kind = "seek" /\ r.type /= "error" => bpos = r.arg
    /\ op.kind \notin {"write", "seek"} => Position
Replied == /\ Cancels(c2d) /\ DaemonIdle /\ Over
           /\ Len(d2c) = 1 /\ d2c[1].seq = op.seq /\ Effect(d2c[1])
Swallowed == Cancels(c2d) /\ DaemonIdle /\ Over /\ d2c = <<>> /\ op.st = "payload"

Underway == /\ op.st = "send" => op.sentCancel /\ Cancels(out)
            /\ op.st /= "send" => out = <<>>
            /\ OnWire \/ InQueue \/ AtWork \/ Replied \/ Swallowed
Resting == /\ out = <<>> /\ Cancels(c2d) /\ DaemonIdle /\ d2c = <<>>
           /\ (eof \/ job.kind = "close") => ~open
           /\ OffsetTrue /\ ReportedWritten

WriteInv == /\ Types
            /\ IF op.kind = "none" THEN Resting ELSE open /\ (Buffered \/ Underway)

-----------------------------------------------------------------------------
\* Proofs, for any number of operations and failures, buffers of any size and
\* every way to open the file.

\* What the theorems assume of the application: it uses the synchronous calls,
\* and does not cancel a query before it is sent (write_async forgets the offset,
\* and unappend_request leaves the header of a query behind).
Plain == WriteAssumption /\ ~Async /\ "query" \notin EarlyCancel

\* Writing n units somewhere gives a file that holds them there.
LEMMA PutFacts ==
  ASSUME NEW f \in Seq(Nat), NEW at \in Nat, NEW id \in Nat, NEW n \in Nat
  PROVE  /\ Put(f, at, id, n) \in Seq(Nat) /\ at + n <= Len(Put(f, at, id, n))
         /\ \A i \in at + 1 .. at + n : Put(f, at, id, n)[i] = id
<1> DEFINE len == IF at + n > Len(f) THEN at + n ELSE Len(f)
           g == [i \in 1 .. len |-> IF i \in at + 1 .. at + n THEN id
                                    ELSE IF i <= Len(f) THEN f[i] ELSE Old]
<1>1. Put(f, at, id, n) = g BY DEF Put
<1>2. len \in Nat /\ at + n <= len OBVIOUS
<1>3. \A i \in 1 .. len : g[i] \in Nat
  <2>1. \A i \in 1 .. Len(f) : f[i] \in Nat OBVIOUS
  <2>2. Old \in Nat BY DEF Old
  <2>3. QED BY <1>2, <2>1, <2>2
<1>4. g \in Seq(Nat) /\ Len(g) = len
  <2> HIDE DEF len
  <2>1. g \in [1 .. len -> Nat] BY <1>3
  <2>2. QED BY <1>2, <2>1
<1>5. \A i \in at + 1 .. at + n : g[i] = id
  <2> HIDE DEF len
  <2>1. \A i \in at + 1 .. at + n : i \in 1 .. len BY <1>2
  <2>2. QED BY <2>1
<1> HIDE DEF g, len
<1>6. QED BY <1>1, <1>2, <1>4, <1>5

\* A function over 1 .. n is a sequence.
LEMMA FunctionIsSeq ==
  ASSUME NEW S, NEW n \in Nat, NEW f \in [1 .. n -> S]
  PROVE  f \in Seq(S) /\ Len(f) = n
OBVIOUS

\* A sequence of one element.
LEMMA OneIsAll ==
  ASSUME NEW S, NEW s \in Seq(S), Len(s) = 1
  PROVE  s # <<>> /\ Head(s) = s[1] /\ s[1] \in S /\ Tail(s) = <<>>
<1>1. s # <<>> /\ Head(s) = s[1] /\ s[1] \in S OBVIOUS
<1>2. Tail(s) \in Seq(S) /\ Len(Tail(s)) = 0 BY <1>1
<1>3. \A u \in Seq(S) : Len(u) = 0 => u = <<>> OBVIOUS
<1>4. QED BY <1>1, <1>2, <1>3

\* The socket: a message appended, and one taken off.
LEMMA CancelsGrow ==
  ASSUME NEW s \in Seq(Messages), NEW u \in Seq(Messages), Cancels(s), Cancels(u)
  PROVE  Cancels(s \o u)
BY DEF Cancels

\* A cancellation is read.
LEMMA CancelsShrink ==
  ASSUME NEW s \in Seq(Messages), Cancels(s), s # <<>>
  PROVE  Tail(s) \in Seq(Messages) /\ Cancels(Tail(s)) /\ Head(s).cmd = "cancel"
<1>1. Len(s) \in Nat /\ Len(s) >= 1 /\ Head(s) = s[1] /\ Tail(s) \in Seq(Messages)
      /\ Len(Tail(s)) = Len(s) - 1 /\ \A i \in 1 .. Len(s) - 1 : Tail(s)[i] = s[i + 1]
  OBVIOUS
<1>2. QED BY <1>1 DEF Cancels

\* The request stays where it is when cancellations follow it.
LEMMA CarriedGrows ==
  ASSUME NEW s \in Seq(Messages), NEW u \in Seq(Messages), Carried(s), Cancels(u)
  PROVE  Carried(s \o u)
<1>1. PICK i \in 1 .. Len(s) : CarriedAt(s, i) BY DEF Carried
<1>2. /\ Len(s) \in Nat /\ Len(u) \in Nat /\ Len(s \o u) = Len(s) + Len(u)
      /\ \A j \in 1 .. Len(s) : (s \o u)[j] = s[j]
      /\ \A j \in Len(s) + 1 .. Len(s) + Len(u) : (s \o u)[j] = u[j - Len(s)]
  OBVIOUS
<1>3. \A j \in Len(s) + 1 .. Len(s) + Len(u) : (s \o u)[j].cmd = "cancel"
  BY <1>2 DEF Cancels
<1>4. i \in 1 .. Len(s \o u) BY <1>2
<1>5. (s \o u)[i] = Request BY <1>1, <1>2 DEF CarriedAt
<1>6. op.kind = "query" => i < Len(s \o u) /\ (s \o u)[i + 1] = Attrs
  <2>1. op.kind = "query" => i < Len(s) /\ s[i + 1] = Attrs BY <1>1 DEF CarriedAt
  <2>2. i < Len(s) => i + 1 \in 1 .. Len(s) /\ i < Len(s) + Len(u) BY <1>2
  <2>3. QED BY <1>2, <2>1, <2>2
<1>7. ASSUME NEW j \in 1 .. Len(s \o u)
      PROVE  j = i \/ (op.kind = "query" /\ j = i + 1) \/ (s \o u)[j].cmd = "cancel"
  <2>1. j \in 1 .. Len(s) \/ j \in Len(s) + 1 .. Len(s) + Len(u) BY <1>2
  <2>2. QED BY <1>1, <1>2, <1>3, <2>1 DEF CarriedAt
<1>8. CarriedAt(s \o u, i) BY <1>5, <1>6, <1>7 DEF CarriedAt
<1>9. QED BY <1>4, <1>8 DEF Carried

\* A buffered request on its way behind old cancellations.
LEMMA CarriedNow ==
  ASSUME NEW s \in Seq(Messages), Cancels(s), Request \in Messages
  PROVE  /\ op.kind # "query" => Carried(s \o <<Request>>)
         /\ op.kind = "query" => Carried(s \o <<Request, Attrs>>)
<1>1. CASE op.kind # "query"
  <2> DEFINE u == s \o <<Request>>
             i == Len(s) + 1
  <2>1. /\ Len(s) \in Nat /\ Len(u) = Len(s) + 1 /\ u[i] = Request /\ i \in 1 .. Len(u)
        /\ \A j \in 1 .. Len(s) : u[j] = s[j]
    OBVIOUS
  <2>2. \A j \in 1 .. Len(u) : j = i \/ u[j].cmd = "cancel" BY <2>1 DEF Cancels
  <2> HIDE DEF u
  <2>3. CarriedAt(u, i) BY <1>1, <2>1, <2>2 DEF CarriedAt
  <2>4. QED BY <1>1, <2>1, <2>3 DEF Carried, u
<1>2. CASE op.kind = "query"
  <2> DEFINE u == s \o <<Request, Attrs>>
             i == Len(s) + 1
  <2>1. Attrs \in Messages BY DEF Attrs, Messages
  <2>2. /\ Len(s) \in Nat /\ Len(u) = Len(s) + 2 /\ u[i] = Request /\ i \in 1 .. Len(u)
        /\ u[i + 1] = Attrs /\ i < Len(u) /\ \A j \in 1 .. Len(s) : u[j] = s[j]
    BY <2>1
  <2>3. \A j \in 1 .. Len(u) : j = i \/ j = i + 1 \/ u[j].cmd = "cancel" BY <2>2 DEF Cancels
  <2> HIDE DEF u
  <2>4. CarriedAt(u, i) BY <1>2, <2>2, <2>3 DEF CarriedAt
  <2>5. QED BY <1>2, <2>2, <2>4 DEF Carried, u
<1>3. QED BY <1>1, <1>2

\* Reading from it: an old cancellation, or the request with what belongs to it.
LEMMA CarriedShrinks ==
  ASSUME NEW s \in Seq(Messages), Carried(s), op.kind \in Kinds, Head(s).cmd # "attrs"
  PROVE  /\ s # <<>> /\ Head(s) \in Messages /\ Tail(s) \in Seq(Messages)
         /\ Head(s).cmd = "cancel" => Carried(Tail(s))
         /\ Head(s).cmd # "cancel" =>
              /\ Head(s) = Request
              /\ Head(s).cmd # "query" => Cancels(Tail(s))
              /\ Head(s).cmd = "query" => Tail(s) # <<>> /\ Tail(Tail(s)) \in Seq(Messages)
                                          /\ Cancels(Tail(Tail(s)))
<1>1. PICK i \in 1 .. Len(s) : CarriedAt(s, i) BY DEF Carried
<1>2. /\ s[i] = Request
      /\ op.kind = "query" => i < Len(s) /\ s[i + 1] = Attrs
      /\ \A j \in 1 .. Len(s) : j = i \/ (op.kind = "query" /\ j = i + 1) \/ s[j].cmd = "cancel"
  BY <1>1 DEF CarriedAt
<1>3. /\ Len(s) \in Nat /\ Len(s) >= 1 /\ s # <<>> /\ Head(s) = s[1] /\ Head(s) \in Messages
      /\ Tail(s) \in Seq(Messages) /\ Len(Tail(s)) = Len(s) - 1
      /\ \A j \in 1 .. Len(s) - 1 : Tail(s)[j] = s[j + 1]
  OBVIOUS
<1>4. Request.cmd = op.kind /\ op.kind # "cancel" BY DEF Request, Kinds
<1>5. ASSUME Head(s).cmd = "cancel" PROVE Carried(Tail(s))
  <2>1. i # 1 /\ i - 1 \in 1 .. Len(Tail(s)) BY <1>2, <1>3, <1>4, <1>5
  <2>2. Tail(s)[i - 1] = Request BY <1>2, <1>3, <2>1
  <2>3. op.kind = "query" => i - 1 < Len(Tail(s)) /\ Tail(s)[(i - 1) + 1] = Attrs
    BY <1>2, <1>3, <2>1
  <2>4. ASSUME NEW j \in 1 .. Len(Tail(s))
        PROVE  j = i - 1 \/ (op.kind = "query" /\ j = (i - 1) + 1) \/ Tail(s)[j].cmd = "cancel"
    <3>1. j + 1 \in 1 .. Len(s) /\ Tail(s)[j] = s[j + 1] BY <1>3
    <3>2. j + 1 = i \/ (op.kind = "query" /\ j + 1 = i + 1) \/ s[j + 1].cmd = "cancel"
      BY <1>2, <3>1
    <3>3. QED BY <3>1, <3>2
  <2>5. CarriedAt(Tail(s), i - 1) BY <2>2, <2>3, <2>4 DEF CarriedAt
  <2>6. QED BY <2>1, <2>5 DEF Carried
<1>6. ASSUME Head(s).cmd # "cancel" PROVE i = 1 /\ Head(s) = Request
  <2>1. Attrs.cmd = "attrs" BY DEF Attrs
  <2>2. 1 \in 1 .. Len(s) BY <1>3
  <2>3. QED BY <1>2, <1>3, <1>6, <2>1, <2>2
<1>7. ASSUME Head(s).cmd # "cancel", Head(s).cmd # "query" PROVE Cancels(Tail(s))
  BY <1>2, <1>3, <1>4, <1>6, <1>7 DEF Cancels
<1>8. ASSUME Head(s).cmd = "query"
      PROVE  Tail(s) # <<>> /\ Tail(Tail(s)) \in Seq(Messages) /\ Cancels(Tail(Tail(s)))
  <2>1. i = 1 /\ op.kind = "query" /\ 1 < Len(s) BY <1>2, <1>4, <1>6, <1>8
  <2>2. Tail(s) # <<>> /\ Len(Tail(s)) >= 1
    <3>1. Len(Tail(s)) >= 1 BY <1>3, <2>1
    <3>2. Len(<<>>) = 0 /\ Len(Tail(s)) # 0 BY <1>3, <3>1
    <3>3. QED BY <3>1, <3>2, Zenon
  <2>3. /\ Tail(Tail(s)) \in Seq(Messages) /\ Len(Tail(Tail(s))) = Len(s) - 2
        /\ \A j \in 1 .. Len(s) - 2 : Tail(Tail(s))[j] = s[j + 2]
    <3>1. /\ Tail(Tail(s)) \in Seq(Messages) /\ Len(Tail(Tail(s))) = Len(Tail(s)) - 1
          /\ \A j \in 1 .. Len(Tail(s)) - 1 : Tail(Tail(s))[j] = Tail(s)[j + 1]
      BY <1>3, <2>2
    <3>2. QED BY <1>3, <3>1
  <2>4. \A j \in 1 .. Len(s) - 2 : s[j + 2].cmd = "cancel" BY <1>2, <1>3, <2>1
  <2>5. QED BY <2>2, <2>3, <2>4 DEF Cancels
<1>9. QED BY <1>3, <1>5, <1>6, <1>7, <1>8

\* The file as the open job leaves it.
LEMMA InitInv == ASSUME Plain, Init PROVE WriteInv
<1>1. /\ op = NoOp /\ cancelled = FALSE /\ seqNr = 1 /\ out = <<>> /\ mem \in {"plain", "long"}
      /\ open = TRUE /\ sure = TRUE /\ last = None /\ c2d = <<>> /\ d2c = <<>> /\ eof = FALSE
      /\ queue = <<>> /\ job = NoJob /\ offset = bpos
  BY DEF Init
<1>2. PICK mode \in Modes : /\ file = IF mode \in {"append", "edit"} THEN <<Old>> ELSE <<>>
                            /\ bpos = IF mode = "append" THEN 1 ELSE 0
                            /\ canSeek = (mode /= "append")
  BY DEF Init
<1>3. file \in Seq(Nat) /\ bpos \in Nat /\ canSeek \in BOOLEAN BY <1>2 DEF Old
<1>4. op.kind = "none" /\ op.st = "idle" /\ job.kind = "none" /\ job.st = "idle"
  BY <1>1 DEF NoOp, NoJob
<1>5. Types
  <2>1. /\ op \in Operations
        /\ job \in Jobs
    BY <1>1 DEF NoOp, NoJob, Operations, Jobs
  <2>2. Flags BY <1>1, <1>3 DEF Flags
  <2>3. QED BY <1>1, <1>3, <1>4, <2>1, <2>2 DEF Types
<1>6. Resting
  <2>1. Cancels(c2d) BY <1>1 DEF Cancels
  <2>2. OffsetTrue /\ ReportedWritten BY <1>1 DEF OffsetTrue, ReportedWritten, None
  <2>3. QED BY <1>1, <1>4, <2>1, <2>2 DEF Resting, DaemonIdle
<1>7. QED BY <1>4, <1>5, <1>6 DEF WriteInv

\* A step that moves nothing but what the client has sent.
LEMMA PhaseFrame ==
  ASSUME Types, NEW u \in Seq(Messages), Cancels(u), c2d' = c2d \o u,
         op'.kind = op.kind, op'.seq = op.seq, op'.arg = op.arg,
         UNCHANGED <<offset, sure, d2c, eof, queue, job, file, bpos>>
  PROVE  /\ OnWire => OnWire'
         /\ InQueue => InQueue'
         /\ AtWork => AtWork'
         /\ Replied => Replied'
         /\ Swallowed /\ op'.st = op.st => Swallowed'
<1>1. Cancels(c2d) => Cancels(c2d')
  BY CancelsGrow DEF Types
<1>2. Carried(c2d) => Carried(c2d)'
  <2>1. Carried(c2d) => Carried(c2d \o u) BY CarriedGrows DEF Types
  <2>2. Request' = Request BY DEF Request
  <2>3. QED BY <2>1, <2>2 DEF Carried, CarriedAt
<1>3. OnWire => OnWire' BY <1>2 DEF OnWire, DaemonIdle, Untouched, Position
<1>4. InQueue => InQueue' BY <1>1 DEF InQueue, Untouched, Position, Cancels
<1>5. AtWork => AtWork' BY <1>1 DEF AtWork, Position, Cancels
<1>6. Replied => Replied' BY <1>1 DEF Replied, DaemonIdle, Over, Effect, Position, Cancels
<1>7. Swallowed /\ op'.st = op.st => Swallowed'
  BY <1>1 DEF Swallowed, DaemonIdle, Over, Cancels
<1>8. QED BY <1>3, <1>4, <1>5, <1>6, <1>7

\* The INIT state of an operation.
LEMMA BeginInv ==
  ASSUME Plain, WriteInv, NEW kind \in Kinds, NEW arg \in Nat, Begin(kind, arg, FALSE)
  PROVE  WriteInv'
<1> DEFINE header == [cmd |-> kind, seq |-> seqNr, arg |-> arg]
<1>1. op.kind = "none" /\ open /\ Types /\ Resting BY DEF Begin, WriteInv
<1>2. /\ op' = [kind |-> kind, st |-> "send", arg |-> arg, seq |-> seqNr, sentCancel |-> FALSE,
                async |-> FALSE, stale |-> FALSE]
      /\ out' = AppendRequest(kind, seqNr, arg) /\ seqNr' = seqNr + 1 /\ cancelled' = FALSE
      /\ UNCHANGED <<offset, canSeek, mem, open, sure, c2d, d2c, eof, queue, job, file, bpos>>
  BY DEF Begin, daemon
<1>3. op'.kind = kind /\ op'.st = "send" /\ op'.seq = seqNr /\ op'.arg = arg /\ ~op'.sentCancel
  BY <1>2
<1>4. header \in Messages /\ Attrs \in Messages /\ Request' = header
  BY <1>1, <1>3 DEF Messages, Attrs, Request, Types
<1>5. out' = IF op'.kind = "query" THEN <<Request', Attrs>> ELSE <<Request'>>
  <2>1. out = <<>> BY <1>1 DEF Resting
  <2>2. out' = IF kind = "query" THEN <<>> \o <<header, Attrs>> ELSE Append(<<>>, header)
    BY <1>2, <2>1 DEF AppendRequest
  <2> HIDE DEF header
  <2>3. <<>> \o <<header, Attrs>> = <<header, Attrs>> /\ Append(<<>>, header) = <<header>> OBVIOUS
  <2>4. QED BY <1>3, <1>4, <2>2, <2>3
<1>6. Types'
  <2>1. op' \in Operations
    BY <1>1, <1>2 DEF Types, Operations
  <2>2. out' \in Seq(Messages)
    <3>1. Request' \in Messages BY <1>4
    <3>2. <<Request', Attrs>> \in Seq(Messages) /\ <<Request'>> \in Seq(Messages)
      BY <1>4, <3>1
    <3>3. QED BY <1>5, <3>2
  <2>3. kind # "none" BY DEF Kinds
  <2>4. Flags' BY <1>1, <1>2 DEF Types, Flags
  <2>5. seqNr' \in Nat \ {0} BY <1>1, <1>2 DEF Types
  <2>6. QED BY <1>1, <1>2, <1>3, <2>1, <2>2, <2>3, <2>4, <2>5 DEF Types
<1>7. Buffered'
  <2>1. Untouched' BY <1>1, <1>2 DEF Resting, Untouched, Position, OffsetTrue
  <2>2. Cancels(c2d)' /\ DaemonIdle' /\ d2c' = <<>>
    BY <1>1, <1>2 DEF Resting, Cancels, DaemonIdle
  <2>3. seqNr > 0 BY <1>1 DEF Types
  <2>4. QED BY <1>2, <1>3, <1>5, <2>1, <2>2, <2>3 DEF Buffered
<1>8. op'.kind # "none" BY <1>3 DEF Kinds
<1>9. QED BY <1>1, <1>2, <1>6, <1>7, <1>8 DEF WriteInv

\* The application cancels, now or later: only the flag changes.
LEMMA RequestCancelInv == ASSUME Plain, WriteInv, RequestCancel PROVE WriteInv'
<1>1. /\ op.st \in {"send", "input"} /\ (op.st = "send" => op.kind \in EarlyCancel)
      /\ cancelled' = TRUE
      /\ UNCHANGED <<op, offset, canSeek, seqNr, out, mem, open, sure, c2d, d2c, eof, queue, job,
                     file, bpos>>
  BY DEF RequestCancel, daemon
<1>2. Types /\ op.kind # "none" /\ open /\ (Buffered \/ Underway)
  BY <1>1 DEF WriteInv, Types
<1>3. Types'
  <2>1. Flags' BY <1>1, <1>2 DEF Types, Flags
  <2>2. QED BY <1>1, <1>2, <2>1 DEF Types
<1>4. Buffered => Buffered'
  BY <1>1 DEF Buffered, Request, Cancels, DaemonIdle, Untouched, Position
<1>5. Underway => Underway'
  <2>1. <<>> \in Seq(Messages) /\ Cancels(<<>>) /\ c2d' = c2d \o <<>>
    BY <1>1, <1>2 DEF Cancels, Types
  <2>2. /\ OnWire => OnWire'
        /\ InQueue => InQueue'
        /\ AtWork => AtWork'
        /\ Replied => Replied'
        /\ Swallowed => Swallowed'
    BY <1>1, <1>2, <2>1, PhaseFrame
  <2>3. QED BY <1>1, <2>2 DEF Underway, Cancels
<1>6. QED BY <1>1, <1>2, <1>3, <1>4, <1>5 DEF WriteInv

\* A request that was not sent is taken back.
LEMMA CancelUnsentInv == ASSUME Plain, WriteInv, CancelUnsent PROVE WriteInv'
<1>1. /\ op.st = "send" /\ ~op.sentCancel /\ cancelled
      /\ out' = SubSeq(out, 1, Len(out) - 1) /\ seqNr' = seqNr - 1
      /\ op' = NoOp /\ cancelled' = FALSE /\ last' = [None EXCEPT !.kind = "cancelled"]
      /\ sure' = sure /\ open' = (op.kind /= "close")
      /\ UNCHANGED <<offset, canSeek, mem, c2d, d2c, eof, queue, job, file, bpos>>
  BY DEF CancelUnsent, Finish, daemon
<1>2. Types /\ op.kind # "none" /\ open /\ Buffered
  BY <1>1 DEF WriteInv, Types, Underway
<1>3. op.kind # "query" /\ out = <<Request>>
  BY <1>1, <1>2 DEF Buffered, Plain
<1>4. out' = <<>> BY <1>1, <1>3
<1>5. op'.kind = "none" /\ op'.st = "idle" BY <1>1 DEF NoOp
<1>6. Types'
  <2>1. op' \in Operations
    BY <1>1 DEF NoOp, Operations
  <2>2. seqNr' \in Nat \ {0}
    <3>1. seqNr = op.seq + 1 /\ op.seq > 0 /\ op.seq \in Nat
      BY <1>2 DEF Buffered, Types, Operations
    <3>2. QED BY <1>1, <3>1
  <2>3. Flags' BY <1>1, <1>2 DEF Types, Flags
  <2>4. QED BY <1>1, <1>2, <1>4, <1>5, <2>1, <2>2, <2>3 DEF Types
<1>7. Resting'
  <2>1. OffsetTrue' BY <1>1, <1>2 DEF OffsetTrue, Buffered, Untouched, Position
  <2>2. ReportedWritten' BY <1>1 DEF ReportedWritten, None
  <2>3. Cancels(c2d)' /\ DaemonIdle' /\ d2c' = <<>> /\ ~eof' /\ job'.kind # "close"
    BY <1>1, <1>2 DEF Buffered, Untouched, Cancels, DaemonIdle
  <2>4. QED BY <1>4, <2>1, <2>2, <2>3 DEF Resting
<1>8. QED BY <1>5, <1>6, <1>7 DEF WriteInv

\* The buffer goes into the socket: a request, or the cancellation of it.
LEMMA WriteRequestInv == ASSUME Plain, WriteInv, WriteRequest PROVE WriteInv'
<1>1. /\ op.st = "send" /\ (cancelled => op.sentCancel) /\ c2d' = c2d \o out /\ out' = <<>>
      /\ op' = [op EXCEPT !.st = "input"]
      /\ UNCHANGED <<cancelled, offset, canSeek, seqNr, mem, open, sure, d2c, eof, queue, job,
                     file, bpos>>
  BY DEF WriteRequest, daemon
<1>2. Types /\ op.kind # "none" /\ open /\ (Buffered \/ Underway)
  BY <1>1 DEF WriteInv, Types
<1>3. /\ op' \in Operations
      /\ op'.kind = op.kind /\ op'.seq = op.seq /\ op'.arg = op.arg /\ op'.st = "input"
  BY <1>1, <1>2 DEF Types, Operations
<1>4. Types'
  <2>1. c2d' \in Seq(Messages) /\ out' \in Seq(Messages) BY <1>1, <1>2 DEF Types
  <2>2. Flags' BY <1>1, <1>2 DEF Types, Flags
  <2>3. QED BY <1>1, <1>2, <1>3, <2>1, <2>2 DEF Types
<1>5. ASSUME Buffered PROVE Underway'
  <2>1. Request \in Messages /\ Request' = Request
    BY <1>2, <1>3 DEF Request, Messages, Types, Operations
  <2>2. Carried(c2d \o out)
    BY <1>2, <1>5, <2>1, CarriedNow DEF Buffered, Types
  <2>3. Carried(c2d)' BY <1>1, <1>3, <2>1, <2>2 DEF Carried, CarriedAt
  <2>4. OnWire' BY <1>1, <1>5, <2>3 DEF OnWire, Buffered, DaemonIdle, Untouched, Position
  <2>5. QED BY <1>1, <1>3, <2>4 DEF Underway
<1>6. ASSUME Underway PROVE Underway'
  <2>1. Cancels(out) /\ out \in Seq(Messages) /\ ~Swallowed
    BY <1>1, <1>2, <1>6 DEF Underway, Types, Swallowed
  <2>2. /\ OnWire => OnWire'
        /\ InQueue => InQueue'
        /\ AtWork => AtWork'
        /\ Replied => Replied'
    BY <1>1, <1>2, <1>3, <2>1, PhaseFrame
  <2>3. QED BY <1>1, <1>3, <1>6, <2>1, <2>2 DEF Underway
<1>7. QED BY <1>1, <1>2, <1>3, <1>4, <1>5, <1>6 DEF WriteInv

\* The cancel command is put into the empty buffer.
LEMMA SendCancelInv == ASSUME Plain, WriteInv, SendCancel PROVE WriteInv'
<1>1. PICK stale \in BOOLEAN : op' = [op EXCEPT !.sentCancel = TRUE, !.st = "send", !.stale = stale]
  BY DEF SendCancel
<1>2. /\ op.st = "input" /\ out' = AppendRequest("cancel", seqNr, op.seq) /\ seqNr' = seqNr + 1
      /\ UNCHANGED <<cancelled, offset, canSeek, mem, open, sure, c2d, d2c, eof, queue, job,
                     file, bpos>>
  BY DEF SendCancel, daemon
<1>3. Types /\ op.kind # "none" /\ open /\ Underway
  BY <1>2 DEF WriteInv, Types, Buffered
<1>4. /\ op' \in Operations
      /\ op'.kind = op.kind /\ op'.seq = op.seq /\ op'.arg = op.arg /\ op'.st = "send"
      /\ op'.sentCancel
  BY <1>1, <1>3 DEF Types, Operations
<1> DEFINE m == [cmd |-> "cancel", seq |-> seqNr, arg |-> op.seq]
<1>5. out' = <<m>> /\ m \in Messages /\ m.cmd = "cancel"
  BY <1>2, <1>3 DEF Underway, AppendRequest, Types, Messages, Operations
<1> HIDE DEF m
<1>6. out' \in Seq(Messages) /\ Cancels(out)' BY <1>5 DEF Cancels
<1>7. Types' 
  <2>1. seqNr' \in Nat \ {0} BY <1>2, <1>3 DEF Types
  <2>2. Flags' BY <1>2, <1>3 DEF Types, Flags
  <2>3. QED BY <1>2, <1>3, <1>4, <1>6, <2>1, <2>2 DEF Types
<1>8. Underway'
  <2>1. <<>> \in Seq(Messages) /\ Cancels(<<>>) /\ c2d' = c2d \o <<>> /\ ~Swallowed
    BY <1>2, <1>3 DEF Cancels, Types, Swallowed
  <2>2. /\ OnWire => OnWire'
        /\ InQueue => InQueue'
        /\ AtWork => AtWork'
        /\ Replied => Replied'
    BY <1>2, <1>3, <1>4, <2>1, PhaseFrame
  <2>3. QED BY <1>3, <1>4, <1>6, <2>1, <2>2 DEF Underway
<1>9. QED BY <1>2, <1>3, <1>4, <1>7, <1>8 DEF WriteInv

\* An old header makes the client wait for data that does not come.
LEMMA StaleHeaderInv == ASSUME Plain, WriteInv, StaleHeader PROVE WriteInv'
<1>1. /\ op.st = "input" /\ op' = [op EXCEPT !.st = "payload"]
      /\ UNCHANGED <<cancelled, offset, canSeek, seqNr, out, mem, open, sure, c2d, d2c, eof, queue,
                     job, file, bpos>>
  BY DEF StaleHeader, daemon
<1>2. Types /\ op.kind # "none" /\ open /\ Underway
  BY <1>1 DEF WriteInv, Types, Buffered
<1>3. /\ op' \in Operations
      /\ op'.kind = op.kind /\ op'.seq = op.seq /\ op'.arg = op.arg /\ op'.st = "payload"
  BY <1>1, <1>2 DEF Types, Operations
<1>4. Types'
  <2>1. Flags' BY <1>1, <1>2 DEF Types, Flags
  <2>2. QED BY <1>1, <1>2, <1>3, <2>1 DEF Types
<1>5. Underway'
  <2>1. <<>> \in Seq(Messages) /\ Cancels(<<>>) /\ c2d' = c2d \o <<>> /\ ~Swallowed
    BY <1>1, <1>2 DEF Cancels, Types, Swallowed
  <2>2. /\ OnWire => OnWire'
        /\ InQueue => InQueue'
        /\ AtWork => AtWork'
        /\ Replied => Replied'
    BY <1>1, <1>2, <1>3, <2>1, PhaseFrame
  <2>3. QED BY <1>1, <1>2, <1>3, <2>1, <2>2 DEF Underway
<1>6. QED BY <1>1, <1>2, <1>3, <1>4, <1>5 DEF WriteInv

\* The answer is taken for the data of the old reply.
LEMMA ReadPayloadInv == ASSUME Plain, WriteInv, ReadPayload PROVE WriteInv'
<1>1. /\ op.st = "payload" /\ d2c # <<>> /\ d2c' = Tail(d2c)
      /\ UNCHANGED <<op, cancelled, offset, canSeek, seqNr, out, mem, open, sure, last, c2d,
                     eof, queue, job, file, bpos>>
  BY DEF ReadPayload, client, daemon
<1>2. Types /\ op.kind # "none" /\ open /\ Underway
  BY <1>1 DEF WriteInv, Types, Buffered
<1>3. Replied
  BY <1>1, <1>2 DEF Underway, OnWire, InQueue, AtWork, Swallowed
<1>4. d2c' = <<>> /\ d2c' \in Seq(Replies)
  <2>1. d2c \in Seq(Replies) /\ Len(d2c) = 1 BY <1>2, <1>3 DEF Types, Replied
  <2>2. QED BY <1>1, <2>1
<1>5. Types'
  <2>1. Flags' BY <1>1, <1>2 DEF Types, Flags
  <2>2. QED BY <1>1, <1>2, <1>4, <2>1 DEF Types
<1>6. Swallowed' BY <1>1, <1>3, <1>4 DEF Swallowed, Replied, Cancels, DaemonIdle, Over
<1>7. Underway' BY <1>1, <1>2, <1>6 DEF Underway
<1>8. QED BY <1>1, <1>2, <1>5, <1>7 DEF WriteInv

\* What the client makes of the answer r.
LEMMA AnswerFacts ==
  ASSUME Types, op.kind # "none", NEW r \in Replies
  PROVE  /\ Answer(r).offset \in Nat /\ Answer(r).sure \in BOOLEAN
         /\ op.kind = "write" =>
              IF r.type = "error" THEN ~Answer(r).sure
              ELSE /\ Answer(r).offset = offset + r.arg /\ Answer(r).sure = sure
                   /\ Answer(r).last = [kind |-> "write", at |-> offset, len |-> r.arg, id |-> op.seq]
         /\ op.kind = "seek" =>
              IF r.type = "error" THEN ~Answer(r).sure ELSE Answer(r).offset = r.arg
         /\ op.kind \notin {"write", "seek"} => Answer(r).offset = offset /\ Answer(r).sure = sure
         /\ op.kind # "write" \/ r.type = "error" => Answer(r).last.kind # "write"
<1>1. /\ op.kind \in Kinds /\ op.async = FALSE /\ offset \in Nat /\ sure \in BOOLEAN
      /\ r.arg \in Nat
  BY DEF Types, Operations, Flags, Replies
<1>2. \A knows : /\ Failed(knows).offset = offset /\ Failed(knows).sure = knows
                 /\ Failed(knows).last.kind = "error"
  BY DEF Failed, Told, None
<1>3. \A off, knows, len : /\ Done(off, knows, len).offset = off /\ Done(off, knows, len).sure = knows
                           /\ Done(off, knows, len).last = [kind |-> op.kind, at |-> offset,
                                                            len |-> len, id |-> op.seq]
                           /\ Done(off, knows, len).last.kind = op.kind
  BY DEF Done, Told
<1>4. CASE op.kind = "write"
  <2>1. Answer(r) = IF r.type = "error" THEN Failed(FALSE) ELSE Done(offset + r.arg, sure, r.arg)
    BY <1>1, <1>4 DEF Answer, WriteAnswer
  <2>2. CASE r.type = "error" BY <1>1, <1>2, <1>4, <2>1, <2>2
  <2>3. CASE r.type # "error"
    <3>1. Answer(r) = Done(offset + r.arg, sure, r.arg) BY <2>1, <2>3
    <3>2. /\ Answer(r).offset = offset + r.arg /\ Answer(r).sure = sure
          /\ Answer(r).last = [kind |-> "write", at |-> offset, len |-> r.arg, id |-> op.seq]
      BY <1>3, <1>4, <3>1
    <3>3. offset + r.arg \in Nat BY <1>1
    <3>4. QED BY <1>1, <1>4, <2>3, <3>2, <3>3
  <2>4. QED BY <2>2, <2>3
<1>5. CASE op.kind = "seek"
  <2>1. Answer(r) = IF r.type = "error" THEN Failed(FALSE) ELSE Done(r.arg, TRUE, 0)
    BY <1>5 DEF Answer, SeekAnswer
  <2>2. CASE r.type = "error" BY <1>1, <1>2, <1>5, <2>1, <2>2
  <2>3. CASE r.type # "error"
    <3>1. Answer(r) = Done(r.arg, TRUE, 0) BY <2>1, <2>3
    <3>2. Answer(r).offset = r.arg /\ Answer(r).last.kind = "seek" BY <1>5, <3>1 DEF Done, Told
    <3>3. Answer(r).sure = TRUE BY <3>1 DEF Done, Told
    <3>4. QED BY <1>1, <1>5, <2>3, <3>2, <3>3
  <2>4. QED BY <2>2, <2>3
<1>6. CASE op.kind \notin {"write", "seek"}
  <2>1. Answer(r) = IF r.type = "error" THEN Failed(sure) ELSE Done(offset, sure, 0)
    BY <1>1, <1>6 DEF Answer, TruncateAnswer, QueryAnswer, CloseAnswer, Kinds
  <2>2. Answer(r).offset = offset /\ Answer(r).sure = sure /\ Answer(r).last.kind # "write"
    BY <1>2, <1>3, <1>6, <2>1
  <2>3. QED BY <1>1, <1>6, <2>2
<1>7. QED BY <1>4, <1>5, <1>6

\* HANDLE_INPUT: the reply that is there is the answer.
LEMMA HandleInputInv == ASSUME Plain, WriteInv, HandleInput PROVE WriteInv'
<1> DEFINE r == Head(d2c)
<1>1. /\ op.st = "input" /\ d2c # <<>> /\ d2c' = Tail(d2c) /\ mem' = Memory(r)
      /\ Answers(r) => offset' = Answer(r).offset /\ Finish(Answer(r).last, Answer(r).sure)
      /\ UNCHANGED <<canSeek, seqNr, out, c2d, eof, queue, job, file, bpos>>
  BY DEF HandleInput, daemon
<1>2. Types /\ op.kind # "none" /\ open /\ Underway
  BY <1>1 DEF WriteInv, Types, Buffered
<1>3. Replied
  BY <1>1, <1>2 DEF Underway, OnWire, InQueue, AtWork, Swallowed
<1>4. /\ d2c \in Seq(Replies) /\ Len(d2c) = 1 /\ r = d2c[1] /\ r \in Replies /\ d2c' = <<>>
  <2>1. d2c \in Seq(Replies) /\ Len(d2c) = 1 BY <1>2, <1>3 DEF Types, Replied
  <2>2. QED BY <1>1, <2>1
<1>5. r.seq = op.seq /\ Effect(r) BY <1>3, <1>4 DEF Replied
<1> HIDE DEF r
<1>6. /\ offset' = Answer(r).offset /\ op' = NoOp /\ cancelled' = FALSE
      /\ last' = Answer(r).last /\ sure' = Answer(r).sure /\ open' = (op.kind /= "close")
  BY <1>1, <1>5 DEF Answers, Finish
<1>7. op'.kind = "none" /\ op'.st = "idle" /\ op' \in Operations
  BY <1>6 DEF NoOp, Operations
<1>8. out = <<>> BY <1>1, <1>2 DEF Underway
<1>9. Types'
  <2>1. offset' \in Nat /\ sure' \in BOOLEAN BY <1>2, <1>4, <1>6, AnswerFacts
  <2>2. Flags' BY <1>1, <1>2, <1>6, <2>1 DEF Types, Flags
  <2>3. mem' \in {"plain", "long"} BY <1>1 DEF Memory
  <2>4. d2c' \in Seq(Replies) BY <1>4
  <2>5. QED BY <1>1, <1>2, <1>6, <1>7, <2>1, <2>2, <2>3, <2>4 DEF Types
<1>10. OffsetTrue'
  <2> SUFFICES ASSUME sure' PROVE offset' = bpos BY <1>1 DEF OffsetTrue
  <2>1. CASE op.kind = "write"
    <3>1. r.type # "error" BY <1>2, <1>4, <1>6, <2>1, AnswerFacts
    <3>2. offset' = offset + r.arg /\ sure BY <1>2, <1>4, <1>6, <2>1, <3>1, AnswerFacts
    <3>3. QED BY <1>5, <2>1, <3>1, <3>2 DEF Effect
  <2>2. CASE op.kind = "seek"
    <3>1. r.type # "error" BY <1>2, <1>4, <1>6, <2>2, AnswerFacts
    <3>2. offset' = r.arg BY <1>2, <1>4, <1>6, <2>2, <3>1, AnswerFacts
    <3>3. QED BY <1>5, <2>2, <3>1, <3>2 DEF Effect
  <2>3. CASE op.kind \notin {"write", "seek"}
    <3>1. offset' = offset /\ sure BY <1>2, <1>4, <1>6, <2>3, AnswerFacts
    <3>2. QED BY <1>5, <2>3, <3>1 DEF Effect, Position
  <2>4. QED BY <2>1, <2>2, <2>3
<1>11. ReportedWritten'
  <2> SUFFICES ASSUME last'.kind = "write", sure'
               PROVE  /\ last'.at + last'.len <= Len(file)
                      /\ \A i \in last'.at + 1 .. last'.at + last'.len : file[i] = last'.id
    BY <1>1 DEF ReportedWritten
  <2>1. op.kind = "write" /\ r.type # "error" BY <1>2, <1>4, <1>6, AnswerFacts
  <2>2. sure /\ last' = [kind |-> "write", at |-> offset, len |-> r.arg, id |-> op.seq]
    BY <1>2, <1>4, <1>6, <2>1, AnswerFacts
  <2>3. last'.at = offset /\ last'.len = r.arg /\ last'.id = op.seq BY <2>2
  <2>4. /\ bpos = offset + r.arg /\ bpos <= Len(file)
        /\ \A i \in offset + 1 .. bpos : file[i] = op.seq
    BY <1>5, <2>1, <2>2 DEF Effect
  <2>5. QED BY <2>3, <2>4
<1>12. Resting'
  <2>1. Cancels(c2d)' /\ DaemonIdle' BY <1>1, <1>3 DEF Replied, Cancels, DaemonIdle
  <2>2. (eof' \/ job'.kind = "close") => ~open' BY <1>1, <1>3, <1>6 DEF Replied, Over
  <2>3. QED BY <1>1, <1>4, <1>8, <1>10, <1>11, <2>1, <2>2 DEF Resting
<1>13. QED BY <1>7, <1>9, <1>12 DEF WriteInv

\* The daemon shut the socket down after the close job, and the answer is lost.
LEMMA StreamErrorInv == ASSUME Plain, WriteInv, StreamError PROVE WriteInv'
<1>1. /\ op.kind # "none" /\ eof /\ d2c = <<>> /\ op' = NoOp /\ cancelled' = FALSE
      /\ last' = [None EXCEPT !.kind = "error"] /\ sure' = FALSE /\ open' = (op.kind /= "close")
      /\ out' = <<>>
      /\ UNCHANGED <<offset, canSeek, seqNr, mem, c2d, d2c, eof, queue, job, file, bpos>>
  BY DEF StreamError, Finish, daemon
<1>2. Types /\ open /\ (Buffered \/ Underway) BY <1>1 DEF WriteInv
<1>3. Swallowed
  <2>1. ~Replied
    <3>1. Len(<<>>) = 0 OBVIOUS
    <3>2. QED BY <1>1, <3>1 DEF Replied
  <2>2. QED BY <1>1, <1>2, <2>1 DEF Buffered, Underway, OnWire, InQueue, AtWork, Untouched
<1>4. op'.kind = "none" /\ op'.st = "idle" /\ op' \in Operations
  BY <1>1 DEF NoOp, Operations
<1>5. Types'
  <2>1. Flags' BY <1>1, <1>2 DEF Types, Flags
  <2>2. QED BY <1>1, <1>2, <1>4, <2>1 DEF Types
<1>6. Resting'
  <2>1. Cancels(c2d)' /\ DaemonIdle' /\ ~open'
    BY <1>1, <1>3 DEF Swallowed, Cancels, DaemonIdle, Over
  <2>2. OffsetTrue' /\ ReportedWritten' BY <1>1 DEF OffsetTrue, ReportedWritten
  <2>3. QED BY <1>1, <2>1, <2>2 DEF Resting
<1>7. QED BY <1>4, <1>5, <1>6 DEF WriteInv

\* The daemon reads a cancellation, which changes a flag of its job at most.
LEMMA CancelRead ==
  ASSUME Plain, WriteInv, c2d # <<>>, c2d' = Tail(c2d), Head(c2d).cmd = "cancel",
         IF job.kind /= "none" /\ job.seq = Head(c2d).arg
         THEN job' = [job EXCEPT !.cancelled = TRUE] /\ UNCHANGED queue
         ELSE /\ queue' = [i \in DOMAIN queue |->
                             IF queue[i].seq = Head(c2d).arg THEN [queue[i] EXCEPT !.cancelled = TRUE]
                             ELSE queue[i]]
              /\ UNCHANGED job,
         UNCHANGED <<op, cancelled, offset, canSeek, seqNr, out, mem, open, sure, last, d2c, eof,
                     file, bpos>>
  PROVE  WriteInv'
<1>1. Types BY DEF WriteInv
<1>2. /\ job' \in Jobs /\ job'.kind = job.kind /\ job'.st = job.st /\ job'.seq = job.seq
      /\ job'.arg = job.arg
  BY <1>1 DEF Types, Jobs
<1>3. /\ queue' \in Seq(Requests) /\ Len(queue') = Len(queue)
      /\ \A i \in 1 .. Len(queue) : /\ queue'[i].cmd = queue[i].cmd /\ queue'[i].seq = queue[i].seq
                                    /\ queue'[i].arg = queue[i].arg
  <2>1. queue \in Seq(Requests) /\ Len(queue) \in Nat /\ DOMAIN queue = 1 .. Len(queue)
        /\ \A i \in 1 .. Len(queue) : queue[i] \in Requests
    BY <1>1 DEF Types
  <2>2. CASE queue' = queue BY <2>1, <2>2
  <2>3. CASE queue' = [i \in 1 .. Len(queue) |->
                         IF queue[i].seq = Head(c2d).arg THEN [queue[i] EXCEPT !.cancelled = TRUE]
                         ELSE queue[i]]
    <3>1. \A i \in 1 .. Len(queue) :
            /\ queue'[i] \in Requests /\ queue'[i].cmd = queue[i].cmd
            /\ queue'[i].seq = queue[i].seq /\ queue'[i].arg = queue[i].arg
      BY <2>1, <2>3 DEF Requests
    <3>2. queue' \in [1 .. Len(queue) -> Requests] BY <2>3, <3>1
    <3>3. queue' \in Seq(Requests) /\ Len(queue') = Len(queue) BY <2>1, <3>2
    <3>4. QED BY <3>1, <3>3
  <2>4. QED BY <2>1, <2>2, <2>3
<1>4. queue = <<>> => queue' = <<>>
  <2>1. Len(<<>>) = 0 OBVIOUS
  <2>2. Len(queue') = 0 => queue' = <<>> BY <1>3
  <2>3. QED BY <1>3, <2>1, <2>2
<1>5. c2d' \in Seq(Messages) /\ (Cancels(c2d) => Cancels(c2d'))
  BY <1>1, CancelsShrink DEF Types
<1>6. op.kind \in Kinds => (Carried(c2d) => Carried(c2d'))
  BY <1>1, CarriedShrinks DEF Types
<1>7. Types'
  <2>1. Flags' BY <1>1 DEF Types, Flags
  <2>2. QED BY <1>1, <1>2, <1>3, <1>5, <2>1 DEF Types
<1>8. DaemonIdle => DaemonIdle' BY <1>2, <1>4 DEF DaemonIdle
<1>9. Untouched => Untouched' BY <1>2 DEF Untouched, Position
<1>10. Request' = Request BY DEF Request
<1>11. Cancels(c2d) => Cancels(c2d)' BY <1>5 DEF Cancels
<1>12. Resting => Resting'
  BY <1>2, <1>8, <1>11 DEF Resting, OffsetTrue, ReportedWritten
<1>13. Buffered => Buffered' BY <1>8, <1>9, <1>10, <1>11 DEF Buffered
<1>14. ASSUME Underway, op.kind # "none" PROVE Underway'
  <2>1. OnWire => OnWire'
    <3>1. op.kind \in Kinds BY <1>1, <1>14 DEF Types, Operations
    <3>2. Carried(c2d) => Carried(c2d)' BY <1>6, <1>10, <3>1 DEF Carried, CarriedAt
    <3>3. QED BY <1>8, <1>9, <3>2 DEF OnWire
  <2>2. InQueue => InQueue'
    <3>1. Len(queue) = 1 => 1 \in 1 .. Len(queue) OBVIOUS
    <3>2. QED BY <1>2, <1>3, <1>9, <1>11, <3>1 DEF InQueue
  <2>3. AtWork => AtWork' BY <1>2, <1>4, <1>11 DEF AtWork, Position
  <2>4. Over => Over' BY <1>2 DEF Over
  <2>5. Replied => Replied' BY <1>8, <1>11, <2>4 DEF Replied, Effect, Position
  <2>6. Swallowed => Swallowed' BY <1>8, <1>11, <2>4 DEF Swallowed
  <2>7. Cancels(out) => Cancels(out)' BY DEF Cancels
  <2>8. QED BY <1>14, <2>1, <2>2, <2>3, <2>5, <2>6, <2>7 DEF Underway
<1>15. QED BY <1>7, <1>12, <1>13, <1>14 DEF WriteInv

\* got_request, for the request of the client or for a cancellation.
LEMMA GotRequestInv == ASSUME Plain, WriteInv, GotRequest PROVE WriteInv'
<1> DEFINE r == Head(c2d)
           req == [cmd |-> r.cmd, seq |-> r.seq, arg |-> r.arg, cancelled |-> FALSE]
<1>1. /\ ~eof /\ c2d # <<>> /\ r.cmd # "attrs"
      /\ c2d' = IF r.cmd = "query" THEN Tail(Tail(c2d)) ELSE Tail(c2d)
      /\ UNCHANGED <<op, cancelled, offset, canSeek, seqNr, out, mem, open, sure, last, d2c, eof,
                     file, bpos>>
  BY DEF GotRequest, client
<1>2. CASE r.cmd = "cancel"
  <2>1. IF job.kind /= "none" /\ job.seq = Head(c2d).arg
        THEN job' = [job EXCEPT !.cancelled = TRUE] /\ UNCHANGED queue
        ELSE /\ queue' = [i \in DOMAIN queue |->
                            IF queue[i].seq = Head(c2d).arg THEN [queue[i] EXCEPT !.cancelled = TRUE]
                            ELSE queue[i]]
             /\ UNCHANGED job
    BY <1>2 DEF GotRequest
  <2>2. QED BY <1>1, <1>2, <2>1, CancelRead
<1>3. CASE r.cmd # "cancel"
  <2>1. Types BY DEF WriteInv
  <2>2. ~Cancels(c2d) BY <1>1, <1>3, <2>1, CancelsShrink DEF Types
  <2>3. op.kind # "none" /\ open /\ Underway /\ OnWire
    BY <2>2 DEF WriteInv, Resting, Buffered, Underway, InQueue, AtWork, Replied, Swallowed
  <2>4. op.kind \in Kinds BY <2>1, <2>3 DEF Types, Operations
  <2>5. r = Request /\ c2d' \in Seq(Messages) /\ Cancels(c2d')
    BY <1>1, <1>3, <2>1, <2>3, <2>4, CarriedShrinks DEF OnWire, Types
  <2>6. r.cmd = op.kind /\ r.seq = op.seq /\ r.arg = op.arg BY <2>5 DEF Request
  <2>7. req \in Requests /\ req.cmd = op.kind /\ req.seq = op.seq /\ req.arg = op.arg
    BY <2>1, <2>4, <2>6 DEF Requests, Types, Operations
  <2>8. queue = <<>> /\ job.st # "run" /\ d2c = <<>> /\ Untouched
    BY <2>3 DEF OnWire, DaemonIdle
  <2>9. IF job.kind = "none" THEN StartQueued(Append(queue, req))
        ELSE queue' = Append(queue, req) /\ UNCHANGED job
    BY <1>3 DEF GotRequest
  <2> HIDE DEF r, req
  <2>10. Append(queue, req) = <<req>> /\ <<req>> \in Seq(Requests) /\ Len(<<req>>) = 1
         /\ <<req>> # <<>> /\ Head(<<req>>) = req /\ Tail(<<req>>) = <<>> /\ <<req>>[1] = req
    BY <2>7, <2>8
  <2>11. Cancels(c2d)' BY <2>5 DEF Cancels
  <2>12. Cancels(out) => Cancels(out)' BY <1>1 DEF Cancels
  <2>13. Flags' BY <1>1, <2>1 DEF Types, Flags
  <2>14. CASE job.kind = "none"
    <3>1. /\ queue' = <<>>
          /\ job' = [kind |-> req.cmd, st |-> "run", arg |-> req.arg, seq |-> req.seq,
                     cancelled |-> req.cancelled]
      BY <2>9, <2>10, <2>14 DEF StartQueued
    <3>2. /\ job' \in Jobs /\ job'.kind = op.kind /\ job'.st = "run" /\ job'.seq = op.seq
          /\ job'.arg = op.arg
      BY <2>7, <3>1 DEF Jobs, Requests
    <3>3. Types' 
      <4>1. queue' \in Seq(Requests) BY <3>1
      <4>2. QED BY <1>1, <2>1, <2>3, <2>5, <2>13, <3>2, <4>1 DEF Types
    <3>4. AtWork' BY <1>1, <2>8, <2>11, <3>1, <3>2 DEF AtWork, Untouched, Position
    <3>5. Underway' BY <1>1, <2>3, <2>12, <3>4 DEF Underway
    <3>6. QED BY <1>1, <2>3, <3>3, <3>5 DEF WriteInv
  <2>15. CASE job.kind # "none"
    <3>1. queue' = <<req>> /\ job' = job BY <2>9, <2>10, <2>15
    <3>2. job.st = "reply" BY <2>1, <2>8, <2>15 DEF Types, Jobs
    <3>3. Types' BY <1>1, <2>1, <2>5, <2>10, <2>13, <3>1 DEF Types
    <3>4. InQueue'
      BY <1>1, <2>7, <2>8, <2>10, <2>11, <3>1, <3>2 DEF InQueue, Untouched, Position
    <3>5. Underway' BY <1>1, <2>3, <2>12, <3>4 DEF Underway
    <3>6. QED BY <1>1, <2>3, <3>3, <3>5 DEF WriteInv
  <2>16. QED BY <2>14, <2>15
<1>4. QED BY <1>2, <1>3

\* A job that ends with the reply r and what it says of the file.
LEMMA JobEnds ==
  ASSUME WriteInv, job.st = "run", NEW r \in Replies, r.seq = job.seq,
         job' = [job EXCEPT !.st = "reply"], d2c' = Append(d2c, r),
         file' \in Seq(Nat), bpos' \in Nat,
         job.kind = "write" /\ r.type # "error" =>
           /\ bpos' = bpos + r.arg /\ bpos' <= Len(file')
           /\ \A i \in bpos + 1 .. bpos' : file'[i] = job.seq,
         job.kind = "seek" /\ r.type # "error" => bpos' = r.arg,
         job.kind \notin {"write", "seek"} => bpos' = bpos,
         UNCHANGED <<op, cancelled, offset, canSeek, seqNr, out, mem, open, sure, last, c2d, eof,
                     queue>>
  PROVE  WriteInv'
<1>1. Types BY DEF WriteInv
<1>2. op.kind # "none" /\ open /\ Underway /\ AtWork
  BY DEF WriteInv, Resting, Buffered, Underway, OnWire, InQueue, Replied, Swallowed, DaemonIdle
<1>3. /\ queue = <<>> /\ d2c = <<>> /\ Cancels(c2d) /\ ~eof /\ Position
      /\ job.kind = op.kind /\ job.seq = op.seq
  BY <1>2 DEF AtWork
<1>4. d2c' = <<r>> /\ d2c' \in Seq(Replies) /\ Len(d2c') = 1 /\ d2c'[1] = r BY <1>3
<1>5. job' \in Jobs /\ job'.st = "reply" /\ job'.kind = job.kind BY <1>1 DEF Types, Jobs
<1>6. Types'
  <2>1. Flags' BY <1>1 DEF Types, Flags
  <2>2. QED BY <1>1, <1>2, <1>3, <1>4, <1>5, <2>1 DEF Types
<1>7. Replied'
  <2>1. Cancels(c2d)' /\ DaemonIdle' /\ Over'
    BY <1>3, <1>5 DEF Cancels, DaemonIdle, Over
  <2>2. Effect(r)' BY <1>3 DEF Effect, Position
  <2>3. Effect(d2c[1])' BY <1>4, <2>2 DEF Effect
  <2>4. QED BY <1>3, <1>4, <2>1, <2>3 DEF Replied
<1>8. Underway'
  <2>1. Cancels(out) => Cancels(out)' BY DEF Cancels
  <2>2. QED BY <1>2, <1>7, <2>1 DEF Underway
<1>9. QED BY <1>2, <1>6, <1>8 DEF WriteInv

\* The backend: each job with its reply.
LEMMA BackendInv == ASSUME Plain, WriteInv, Backend PROVE WriteInv'
<1>1. Types /\ job.seq \in Nat /\ job.arg \in Nat /\ bpos \in Nat /\ file \in Seq(Nat)
  BY DEF WriteInv, Types, Jobs
<1>2. ASSUME NEW n \in 1 .. MaxWrite, WriteDone(n) PROVE WriteInv'
  <2> DEFINE r == [type |-> "ok", seq |-> job.seq, arg |-> n]
  <2>1. /\ job.kind = "write" /\ job.st = "run" /\ job' = [job EXCEPT !.st = "reply"]
        /\ file' = Put(file, bpos, job.seq, n) /\ bpos' = bpos + n /\ d2c' = Append(d2c, r)
        /\ UNCHANGED <<op, cancelled, offset, canSeek, seqNr, out, mem, open, sure, last, c2d, eof,
                       queue>>
    BY <1>2 DEF WriteDone, Running, Reply, client
  <2>2. n \in Nat BY DEF Plain, WriteAssumption
  <2>3. r \in Replies /\ r.seq = job.seq /\ r.arg = n BY <1>1, <2>2 DEF Replies
  <2>4. /\ file' \in Seq(Nat) /\ bpos' \in Nat /\ bpos' <= Len(file')
        /\ \A i \in bpos + 1 .. bpos' : file'[i] = job.seq
    <3>1. /\ Put(file, bpos, job.seq, n) \in Seq(Nat)
          /\ bpos + n <= Len(Put(file, bpos, job.seq, n))
          /\ \A i \in bpos + 1 .. bpos + n : Put(file, bpos, job.seq, n)[i] = job.seq
      BY <1>1, <2>2, PutFacts
    <3>2. bpos + n \in Nat BY <1>1, <2>2
    <3>3. QED BY <2>1, <3>1, <3>2
  <2> HIDE DEF r
  <2>5. QED BY <2>1, <2>3, <2>4, JobEnds
<1>3. ASSUME SeekDone PROVE WriteInv'
  <2> DEFINE r == [type |-> "ok", seq |-> job.seq, arg |-> job.arg]
  <2>1. /\ job.kind = "seek" /\ job.st = "run" /\ job' = [job EXCEPT !.st = "reply"]
        /\ file' = file /\ bpos' = job.arg /\ d2c' = Append(d2c, r)
        /\ UNCHANGED <<op, cancelled, offset, canSeek, seqNr, out, mem, open, sure, last, c2d, eof,
                       queue>>
    BY <1>3 DEF SeekDone, Running, Reply, client
  <2>2. r \in Replies /\ r.seq = job.seq /\ r.arg = job.arg BY <1>1 DEF Replies
  <2> HIDE DEF r
  <2>3. QED BY <1>1, <2>1, <2>2, JobEnds
<1>4. ASSUME TruncateDone PROVE WriteInv'
  <2> DEFINE r == [type |-> "ok", seq |-> job.seq, arg |-> 0]
  <2>1. /\ job.kind = "truncate" /\ job.st = "run" /\ job' = [job EXCEPT !.st = "reply"]
        /\ file' = [i \in 1 .. job.arg |-> IF i <= Len(file) THEN file[i] ELSE Old]
        /\ bpos' = bpos /\ d2c' = Append(d2c, r)
        /\ UNCHANGED <<op, cancelled, offset, canSeek, seqNr, out, mem, open, sure, last, c2d, eof,
                       queue>>
    BY <1>4 DEF TruncateDone, Running, Reply, client
  <2>2. file' \in Seq(Nat)
    <3>1. \A i \in 1 .. job.arg : (IF i <= Len(file) THEN file[i] ELSE Old) \in Nat
      BY <1>1 DEF Old
    <3>2. file' \in [1 .. job.arg -> Nat] BY <2>1, <3>1
    <3>3. QED BY <1>1, <3>2, FunctionIsSeq
  <2>3. r \in Replies /\ r.seq = job.seq BY <1>1 DEF Replies
  <2> HIDE DEF r
  <2>4. QED BY <1>1, <2>1, <2>2, <2>3, JobEnds
<1>5. ASSUME QueryOrCloseDone PROVE WriteInv'
  <2>1. PICK type \in {"info", "closed"} :
          /\ job.kind \in {"query", "close"} /\ job.st = "run" /\ job' = [job EXCEPT !.st = "reply"]
          /\ d2c' = Append(d2c, [type |-> type, seq |-> job.seq, arg |-> 0])
    BY <1>5 DEF QueryOrCloseDone, Running, Reply
  <2>2. /\ file' = file /\ bpos' = bpos
        /\ UNCHANGED <<op, cancelled, offset, canSeek, seqNr, out, mem, open, sure, last, c2d, eof,
                       queue>>
    BY <1>5 DEF QueryOrCloseDone, client
  <2> DEFINE r == [type |-> type, seq |-> job.seq, arg |-> 0]
  <2>3. r \in Replies /\ r.seq = job.seq BY <1>1 DEF Replies
  <2>4. d2c' = Append(d2c, r) BY <2>1
  <2> HIDE DEF r
  <2>5. QED BY <1>1, <2>1, <2>2, <2>3, <2>4, JobEnds
<1>6. ASSUME JobFails PROVE WriteInv'
  <2> DEFINE r == [type |-> "error", seq |-> job.seq, arg |-> 0]
  <2>1. /\ job.st = "run" /\ job' = [job EXCEPT !.st = "reply"] /\ d2c' = Append(d2c, r)
        /\ UNCHANGED <<op, cancelled, offset, canSeek, seqNr, out, mem, open, sure, last, c2d, eof,
                       queue>>
    BY <1>6 DEF JobFails, Reply, client
  <2>2. r \in Replies /\ r.seq = job.seq /\ r.type = "error" BY <1>1 DEF Replies
  <2> HIDE DEF r
  <2>3. CASE job.kind = "write"
    <3>1. PICK n \in 0 .. job.arg : file' = Put(file, bpos, job.seq, n) /\ bpos' = bpos + n
      BY <1>6, <2>3 DEF JobFails
    <3>2. n \in Nat BY <1>1
    <3>3. file' \in Seq(Nat) /\ bpos' \in Nat BY <1>1, <3>1, <3>2, PutFacts
    <3>4. QED BY <2>1, <2>2, <2>3, <3>3, JobEnds
  <2>4. CASE job.kind # "write"
    <3>1. file' = file /\ bpos' = bpos BY <1>6, <2>4 DEF JobFails
    <3>2. QED BY <1>1, <2>1, <2>2, <2>4, <3>1, JobEnds
  <2>5. QED BY <2>3, <2>4
<1>7. QED BY <1>2, <1>3, <1>4, <1>5, <1>6 DEF Backend

\* send_reply_cb: the channel goes on to the request in the queue, or ends.
LEMMA SendReplyCbInv == ASSUME Plain, WriteInv, SendReplyCb PROVE WriteInv'
<1>1. /\ job.st = "reply"
      /\ UNCHANGED <<op, cancelled, offset, canSeek, seqNr, out, mem, open, sure, last, c2d, d2c,
                     file, bpos>>
  BY DEF SendReplyCb, client
<1>2. Types BY DEF WriteInv
<1>3. Cancels(c2d) => Cancels(c2d)' BY <1>1 DEF Cancels
<1>4. Cancels(out) => Cancels(out)' BY <1>1 DEF Cancels
<1>5. Request' = Request BY <1>1 DEF Request
<1>6. NoJob \in Jobs /\ NoJob.kind = "none" /\ NoJob.st = "idle" BY DEF NoJob, Jobs
<1>7. CASE job.kind = "close"
  <2>1. eof' = TRUE /\ job' = NoJob /\ queue' = queue BY <1>7 DEF SendReplyCb
  <2>2. Types'
    <3>1. Flags' BY <1>1, <1>2, <2>1 DEF Types, Flags
    <3>2. QED BY <1>1, <1>2, <1>6, <2>1, <3>1 DEF Types
  <2>3. DaemonIdle => DaemonIdle' BY <1>6, <2>1 DEF DaemonIdle
  <2>4. op.kind = "none" => Resting'
    <3>1. Resting /\ ~open => Resting'
      BY <1>1, <1>3, <2>3 DEF Resting, OffsetTrue, ReportedWritten
    <3>2. QED BY <1>7, <3>1 DEF WriteInv, Resting
  <2>5. op.kind # "none" => open /\ Underway'
    <3> SUFFICES ASSUME op.kind # "none" PROVE open /\ Underway' OBVIOUS
    <3>1. open /\ Underway /\ (Replied \/ Swallowed)
      BY <1>1, <1>7 DEF WriteInv, Buffered, Underway, OnWire, InQueue, AtWork, Untouched
    <3>2. Over => Over' BY <1>1, <1>7 DEF Over
    <3>3. Replied => Replied' BY <1>1, <1>3, <2>3, <3>2 DEF Replied, Effect, Position
    <3>4. Swallowed => Swallowed' BY <1>1, <1>3, <2>3, <3>2 DEF Swallowed
    <3>5. QED BY <1>1, <1>4, <3>1, <3>3, <3>4 DEF Underway
  <2>6. QED BY <1>1, <2>2, <2>4, <2>5 DEF WriteInv
<1>8. CASE job.kind # "close" /\ queue = <<>>
  <2>1. eof' = eof /\ job' = NoJob /\ queue' = queue BY <1>8 DEF SendReplyCb, StartQueued
  <2>2. Types'
    <3>1. Flags' BY <1>1, <1>2, <2>1 DEF Types, Flags
    <3>2. QED BY <1>1, <1>2, <1>6, <2>1, <3>1 DEF Types
  <2>3. DaemonIdle' BY <1>6, <1>8, <2>1 DEF DaemonIdle
  <2>4. Untouched => Untouched' BY <1>1, <1>6, <2>1 DEF Untouched, Position
  <2>5. Resting => Resting'
    BY <1>1, <1>3, <1>6, <2>1, <2>3 DEF Resting, OffsetTrue, ReportedWritten
  <2>6. Buffered => Buffered' BY <1>1, <1>3, <1>5, <2>3, <2>4 DEF Buffered
  <2>7. Underway => Underway'
    <3>1. Carried(c2d) => Carried(c2d)' BY <1>1, <1>5 DEF Carried, CarriedAt
    <3>2. OnWire => OnWire' BY <1>1, <2>3, <2>4, <3>1 DEF OnWire
    <3>3. ~InQueue /\ ~AtWork
      <4>1. Len(<<>>) = 0 OBVIOUS
      <4>2. QED BY <1>1, <1>8, <4>1 DEF InQueue, AtWork
    <3>4. Over => Over' BY <1>1, <1>6, <2>1 DEF Over
    <3>5. Replied => Replied' BY <1>1, <1>3, <2>3, <3>4 DEF Replied, Effect, Position
    <3>6. Swallowed => Swallowed' BY <1>1, <1>3, <2>3, <3>4 DEF Swallowed
    <3>7. QED BY <1>1, <1>4, <3>2, <3>3, <3>5, <3>6 DEF Underway
  <2>8. QED BY <1>1, <2>2, <2>5, <2>6, <2>7 DEF WriteInv
<1>9. CASE job.kind # "close" /\ queue # <<>>
  <2>1. op.kind # "none" /\ open /\ Underway /\ InQueue
    BY <1>1, <1>9
    DEF WriteInv, Resting, Buffered, Underway, OnWire, AtWork, Replied, Swallowed, DaemonIdle
  <2>2. /\ queue \in Seq(Requests) /\ Len(queue) = 1 /\ Head(queue) = queue[1]
        /\ queue[1] \in Requests /\ Tail(queue) = <<>>
    <3>1. queue \in Seq(Requests) /\ Len(queue) = 1 BY <1>2, <2>1 DEF Types, InQueue
    <3>2. QED BY <3>1, OneIsAll
  <2>3. /\ eof' = eof /\ queue' = <<>>
        /\ job' = [kind |-> queue[1].cmd, st |-> "run", arg |-> queue[1].arg, seq |-> queue[1].seq,
                   cancelled |-> queue[1].cancelled]
    BY <1>9, <2>2 DEF SendReplyCb, StartQueued
  <2>4. /\ job' \in Jobs /\ job'.kind = op.kind /\ job'.st = "run" /\ job'.seq = op.seq
        /\ job'.arg = op.arg
    BY <2>1, <2>2, <2>3 DEF InQueue, Jobs, Requests
  <2>5. Types'
    <3>1. Flags' BY <1>1, <1>2, <2>3 DEF Types, Flags
    <3>2. queue' \in Seq(Requests) BY <2>3
    <3>3. QED BY <1>1, <1>2, <2>1, <2>4, <3>1, <3>2 DEF Types
  <2>6. AtWork' BY <1>1, <1>3, <2>1, <2>3, <2>4 DEF AtWork, InQueue, Untouched, Position
  <2>7. Underway' BY <1>1, <1>4, <2>1, <2>6 DEF Underway
  <2>8. QED BY <1>1, <2>1, <2>5, <2>7 DEF WriteInv
<1>10. QED BY <1>7, <1>8, <1>9

\* The application begins an operation, with an argument that is a number.
LEMMA ApplicationInv == ASSUME Plain, WriteInv, Application PROVE WriteInv'
<1>1. Types /\ offset \in Nat BY DEF WriteInv, Types
<1>2. CASE BeginWrite
  <2>1. PICK n \in 1 .. MaxWrite, a \in BOOLEAN : (a => Async) /\ Begin("write", n, a)
    BY <1>2 DEF BeginWrite
  <2>2. a = FALSE BY <2>1, Zenon DEF Plain
  <2>3. n \in Nat BY DEF Plain, WriteAssumption
  <2>4. Begin("write", n, FALSE) BY <2>1, <2>2
  <2>5. QED BY <2>3, <2>4, BeginInv DEF Kinds
<1>3. CASE BeginQuery \/ BeginClose BY <1>3, BeginInv DEF BeginQuery, BeginClose, Kinds
<1>4. ASSUME NEW p \in 0 .. 2, BeginSeek(p) \/ BeginTruncate(p) PROVE WriteInv'
  <2>1. p \in Nat OBVIOUS
  <2>2. Begin("seek", p, FALSE) \/ Begin("truncate", p, FALSE)
    BY <1>4 DEF BeginSeek, BeginTruncate
  <2>3. QED BY <2>1, <2>2, BeginInv DEF Kinds
<1>5. ASSUME NEW d \in {-1, 1}, BeginSeekCur(d) PROVE WriteInv'
  <2>1. offset + d >= 0 /\ Begin("seek", offset + d, FALSE) BY <1>5 DEF BeginSeekCur
  <2>2. offset + d \in Nat BY <1>1, <2>1
  <2>3. QED BY <2>1, <2>2, BeginInv DEF Kinds
<1>6. CASE RequestCancel BY <1>6, RequestCancelInv
<1>7. QED BY <1>2, <1>3, <1>4, <1>5, <1>6 DEF Application

\* Every step of the specification preserves the invariant.
LEMMA NextInv == ASSUME Plain, WriteInv, [Next]_vars PROVE WriteInv'
<1>1. CASE UNCHANGED vars
  <2>1. UNCHANGED <<op, cancelled, offset, canSeek, seqNr, out, mem, open, sure, last, c2d, d2c,
                    eof, queue, job, file, bpos>>
    BY <1>1 DEF vars, client, daemon
  <2>2. Types' 
    <3>1. Flags' BY <2>1 DEF WriteInv, Types, Flags
    <3>2. QED BY <2>1, <3>1 DEF WriteInv, Types
  <2>3. Request' = Request BY <2>1 DEF Request
  <2>4. Resting => Resting'
    BY <2>1 DEF Resting, Cancels, DaemonIdle, OffsetTrue, ReportedWritten
  <2>5. Buffered => Buffered'
    BY <2>1, <2>3 DEF Buffered, Cancels, DaemonIdle, Untouched, Position
  <2>6. Underway => Underway'
    <3>1. Types BY DEF WriteInv
    <3>2. <<>> \in Seq(Messages) /\ Cancels(<<>>) /\ c2d' = c2d \o <<>>
      BY <2>1, <3>1 DEF Cancels, Types
    <3>3. /\ OnWire => OnWire'
          /\ InQueue => InQueue'
          /\ AtWork => AtWork'
          /\ Replied => Replied'
          /\ Swallowed => Swallowed'
      BY <2>1, <3>1, <3>2, PhaseFrame
    <3>4. QED BY <2>1, <3>3 DEF Underway, Cancels
  <2>7. QED BY <2>1, <2>2, <2>4, <2>5, <2>6 DEF WriteInv
<1>2. CASE Application BY <1>2, ApplicationInv
<1>3. CASE Client
  BY <1>3, CancelUnsentInv, WriteRequestInv, SendCancelInv, StaleHeaderInv, ReadPayloadInv,
     HandleInputInv, StreamErrorInv DEF Client
<1>4. CASE Daemon BY <1>4, GotRequestInv, BackendInv, SendReplyCbInv DEF Daemon
<1>5. QED BY <1>1, <1>2, <1>3, <1>4 DEF Next

\* The invariant above is inductive: for every file, any number of operations,
\* writes of any size, failures and cancellations, the one request is where it says.
THEOREM WriteInvariant == Plain => (Spec => []WriteInv)
<1> SUFFICES ASSUME Plain PROVE Spec => []WriteInv OBVIOUS
<1>1. Init => WriteInv BY InitInv
<1>2. WriteInv /\ [Next]_vars => WriteInv' BY NextInv
<1>3. QED BY <1>1, <1>2, PTL DEF Spec

\* Every variable keeps its type.
THEOREM WriteTypes == Plain => (Spec => []TypeOK)
<1> SUFFICES ASSUME Plain PROVE Spec => []TypeOK OBVIOUS
<1>1. WriteInv => TypeOK
  <2> SUFFICES ASSUME WriteInv PROVE TypeOK OBVIOUS
  <2>1. Types BY DEF WriteInv
  <2>2. op.kind \in Kinds \cup {"none"} /\ op.st \in {"idle", "send", "input", "payload"}
    BY <2>1 DEF Types, Operations
  <2>3. job.kind \in Kinds \cup {"none"} /\ job.st \in {"idle", "run", "reply"}
    BY <2>1 DEF Types, Jobs
  <2>4. {cancelled, canSeek, open, sure, eof} \subseteq BOOLEAN BY <2>1 DEF Types, Flags
  <2>5. QED BY <2>1, <2>2, <2>3, <2>4 DEF Types, TypeOK
<1>2. Spec => []WriteInv BY WriteInvariant
<1>3. QED BY <1>1, <1>2, PTL

\* tell() is where the backend writes next, while no operation has failed.
THEOREM PositionTrue == Plain => (Spec => []OffsetTrue)
<1> SUFFICES ASSUME Plain PROVE Spec => []OffsetTrue OBVIOUS
<1>1. WriteInv => OffsetTrue BY DEF WriteInv, Resting, OffsetTrue
<1>2. Spec => []WriteInv BY WriteInvariant
<1>3. QED BY <1>1, <1>2, PTL

\* What a write reported as written is in the file, where the client was.
THEOREM WritesReported == Plain => (Spec => []ReportedWritten)
<1> SUFFICES ASSUME Plain PROVE Spec => []ReportedWritten OBVIOUS
<1>1. WriteInv => ReportedWritten BY DEF WriteInv, Resting, ReportedWritten
<1>2. Spec => []WriteInv BY WriteInvariant
<1>3. QED BY <1>1, <1>2, PTL

\* Once an operation is over, cancelled or not, the daemon does nothing more for it.
THEOREM NothingWrittenLater == Plain => (Spec => []NothingLater)
<1> SUFFICES ASSUME Plain PROVE Spec => []NothingLater OBVIOUS
<1>1. WriteInv => NothingLater
  <2> SUFFICES ASSUME WriteInv, op.kind = "none" PROVE NothingLater BY DEF NothingLater
  <2>1. Types /\ Resting BY DEF WriteInv
  <2>2. \A i \in DOMAIN c2d : c2d[i].cmd = "cancel" BY <2>1 DEF Types, Resting, Cancels
  <2>3. QED BY <2>1, <2>2 DEF NothingLater, Resting, DaemonIdle
<1>2. Spec => []WriteInv BY WriteInvariant
<1>3. QED BY <1>1, <1>2, PTL

=============================================================================
