-------------------------- MODULE ReadStreamProofs --------------------------
(***************************************************************************)
(* Proofs about ReadStream, for files and buffers of any size and any      *)
(* number of operations: the types, the order of the pipeline, and that    *)
(* the stream implements FileStream; and, as long as no request is         *)
(* refused, that generations agree and no operation waits in vain.         *)
(***************************************************************************)
EXTENDS ReadStream, SequenceTheorems, FiniteSetTheorems, TLAPS

-----------------------------------------------------------------------------
(* The inductive invariant.                                                *)

(* The operation's request is still in the output buffer. *)
Unsent == op.st = "send" /\ ~op.sentCancel

(* The client has started a new generation and waits for the seek's reply. *)
SeekOut == /\ op.kind = "seek"
           /\ op.st \in {"input", "header", "block"} \/ op.sentCancel

(* The socket is shut down and no operation reads what is left in it. *)
Dead == shut /\ op.st \in {"idle", "send", "early"}

Closing == closed \/ op.kind = "close"

(* What is in the output buffer. *)
OutInv ==
  ~shut => out = IF op.st # "send" THEN << >>
                 ELSE IF op.sentCancel THEN Request("cancel", seqNr - 1, op.seq)
                 ELSE Request(op.kind, op.seq, op.arg)

(* The client's operation is what its state machine says, and the output   *)
(* buffer holds no more than its request or its cancellation.              *)
OpInv ==
  /\ op.kind = "none" <=> op.st = "idle"
  /\ op.kind = "none" => ~cancelled
  /\ closed => op.kind = "none"
  /\ op.sentCancel => op.st \in {"send", "input", "header", "block"}
  /\ op.kind = "read" => pre = << >> /\ op.arg > 0
  /\ op.st = "early" => op.kind = "read"
  /\ op.st = "header" => ~block.in
  /\ op.st = "block" => block.in
  /\ op.kind = "seek" => op.arg \in Units
  /\ Unsent => op.seq > 0 /\ seqNr = op.seq + 1
  /\ op.st \in {"input", "header", "block"} \/ op.sentCancel
       => op.seq > 0 /\ op.seq < seqNr
  /\ Unsent /\ cancelled => op.kind # "query"
  /\ OutInv

(* What the channel works on. *)
ChannelInv ==
  /\ shut => queue = << >> /\ c2d = << >>
  /\ job.st # "idle" => job.kind \notin {"none", "gone"}
  /\ job.kind = "read" => job.arg > 0
  /\ job.kind = "seek" => job.arg \in Units
  /\ \A i \in DOMAIN c2d : /\ c2d[i].cmd = "seek" => c2d[i].arg \in Units
                           /\ c2d[i].cmd = "attrs" => c2d[i].seq = 0
  /\ \A i \in DOMAIN queue : queue[i].cmd = "seek" => queue[i].arg \in Units

(* The requests on their way, queued, at work and answered have rising     *)
(* numbers, each stage being ahead of the next, and all have been asked    *)
(* before what is asked next: PipelineOrdered, stage by stage.             *)
Asked(m) == IF m.cmd \in {"cancel", "attrs"} THEN 0 ELSE m.seq
Before(a, b) == a # 0 /\ b # 0 => a < b
Bound == IF Unsent THEN op.seq ELSE seqNr
OrderInv ==
  /\ \A i, k \in DOMAIN d2c : i < k => Before(d2c[i].seq, d2c[k].seq)
  /\ \A i, k \in DOMAIN queue : i < k => Before(queue[i].seq, queue[k].seq)
  /\ \A i, k \in DOMAIN c2d : i < k => Before(Asked(c2d[i]), Asked(c2d[k]))
  /\ \A i \in DOMAIN d2c :
       /\ job.st = "work" => Before(d2c[i].seq, job.seq)
       /\ \A k \in DOMAIN queue : Before(d2c[i].seq, queue[k].seq)
       /\ \A k \in DOMAIN c2d : Before(d2c[i].seq, Asked(c2d[k]))
  /\ job.st = "work" => /\ \A k \in DOMAIN queue : Before(job.seq, queue[k].seq)
                        /\ \A k \in DOMAIN c2d : Before(job.seq, Asked(c2d[k]))
  /\ \A i \in DOMAIN queue, k \in DOMAIN c2d : Before(queue[i].seq, Asked(c2d[k]))
  /\ \A i \in DOMAIN d2c : d2c[i].seq < Bound
  /\ job.st = "work" => job.seq < Bound
  /\ \A i \in DOMAIN queue : queue[i].seq < Bound
  /\ \A i \in DOMAIN c2d : Asked(c2d[i]) < Bound

(* At most one seek is under way, the one the client waits for. *)
SeekInv ==
  /\ \A i \in DOMAIN c2d : c2d[i].cmd = "seek"
       => SeekOut /\ c2d[i].seq = op.seq /\ dgen < cgen
  /\ \A i \in DOMAIN queue : queue[i].cmd = "seek"
       => SeekOut /\ queue[i].seq = op.seq /\ dgen < cgen
  /\ ~Dead => /\ job.kind = "seek" /\ job.st = "work"
                   => SeekOut /\ job.seq = op.seq
              /\ \A i \in DOMAIN d2c : d2c[i].type = "seekpos"
                   => SeekOut /\ d2c[i].seq = op.seq

(* Generations in what the client has received and will receive never      *)
(* fall, and with no seek under way they are the current one or, once a    *)
(* seek was refused, none is.                                              *)
GenInv ==
  /\ dgen <= cgen
  /\ \A i \in DOMAIN d2c : d2c[i].gen <= dgen
  /\ \A i, k \in DOMAIN d2c : i < k => d2c[i].gen <= d2c[k].gen
  /\ block.in => block.gen <= dgen
  /\ ~Dead /\ SeekOut => \A i \in DOMAIN d2c : d2c[i].seq = op.seq => d2c[i].gen = dgen
  /\ ~Dead /\ ~SeekOut /\ dgen = cgen
       => /\ \A i \in DOMAIN d2c : d2c[i].gen = cgen
          /\ block.in => block.gen = cgen

End(b) == b.start + b.len
InFile(b) == End(b) <= FileSize /\ (b.len = 0 => b.start = FileSize)

(* The blocks kept by queries follow each other from the position on. *)
PreEnd == IF pre = << >> THEN offset ELSE End(pre[Len(pre)])
PreInv ==
  /\ \A i \in DOMAIN pre : pre[i].gen = cgen /\ pre[i].len > 0 /\ InFile(pre[i])
  /\ \A i, k \in DOMAIN pre : i < k => End(pre[i]) <= pre[k].start
  /\ \A i \in DOMAIN pre : i > 1 => End(pre[i - 1]) = pre[i].start
  /\ pre # << >> => pre[1].start >= offset /\ (sure => pre[1].start = offset)
  /\ SeekOut => pre = << >>

(* The position s is where the data the client already has ends, or, after *)
(* a failed seek, behind it.                                               *)
Follows(s, exact) == s >= PreEnd /\ ((sure \/ pre # << >>) /\ exact => s = PreEnd)

(* f[i] is where the backend's handle was before it made the i-th reply.   *)
Trace(f) ==
  /\ f \in [1 .. Len(d2c) + 1 -> Units]
  /\ \A i \in DOMAIN d2c :
       /\ d2c[i].type = "data" => d2c[i].start = f[i] /\ f[i + 1] = f[i] + d2c[i].len
       /\ d2c[i].type = "seekpos" => f[i + 1] = d2c[i].start
       /\ d2c[i].type \notin {"data", "seekpos"} => f[i + 1] = f[i]
  /\ ~shut => f[Len(d2c) + 1] = bpos
  /\ block.in => f[1] = End(block)
  /\ ~block.in /\ ~Closing => Follows(f[1], ~SeekOut /\ dgen = cgen)

DataInv ==
  /\ block.in => InFile(block)
  /\ \A i \in DOMAIN d2c : d2c[i].type = "data" => InFile(d2c[i])
  /\ ~Closing => PreInv
  /\ ~Closing /\ block.in => Follows(block.start, ~SeekOut /\ block.gen = cgen)
  /\ ~Dead => \E f : Trace(f)

RInv == TypeOK /\ OpInv /\ ChannelInv /\ OrderInv /\ SeekInv /\ GenInv /\ DataInv

-----------------------------------------------------------------------------
(* Operators on sequences.                                                 *)

(* What taking the head off a queue leaves. *)
LEMMA TailFacts ==
  ASSUME NEW S, NEW s \in Seq(S), s # << >>
  PROVE  /\ Head(s) \in S /\ Head(s) = s[1] /\ 1 \in DOMAIN s
         /\ Tail(s) \in Seq(S) /\ Len(Tail(s)) = Len(s) - 1 /\ Len(s) >= 1
         /\ \A i \in DOMAIN Tail(s) : i + 1 \in DOMAIN s /\ Tail(s)[i] = s[i + 1]
OBVIOUS

(* What appending to a queue adds. *)
LEMMA AppendFacts ==
  ASSUME NEW S, NEW s \in Seq(S), NEW e \in S
  PROVE  /\ Append(s, e) \in Seq(S) /\ Len(Append(s, e)) = Len(s) + 1
         /\ DOMAIN Append(s, e) = 1 .. Len(s) + 1
         /\ \A i \in DOMAIN s : Append(s, e)[i] = s[i]
         /\ Append(s, e)[Len(s) + 1] = e
OBVIOUS

(* The smallest index is the first. *)
LEMMA LeastOfAll ==
  ASSUME NEW n \in Nat \ {0} PROVE Least(1 .. n) = 1
<1>1. 1 \in 1 .. n /\ \A y \in 1 .. n : 1 <= y
  OBVIOUS
<1>2. \A x \in 1 .. n : (\A y \in 1 .. n : x <= y) => x = 1
  BY <1>1
<1> QED BY <1>1, <1>2 DEF Least

(* READ_STATE_INIT finds no pre-read of another generation. *)
LEMMA UsableIsPre ==
  ASSUME TypeOK, PreInv PROVE UsablePre = pre
<1>1. pre \in Seq(Blocklike)
  BY DEF TypeOK
<1>2. CASE pre = << >>
  <2>1. {i \in DOMAIN pre : pre[i].gen = cgen} = {}
    BY <1>2
  <2> QED BY <1>2, <2>1 DEF UsablePre
<1>3. CASE pre # << >>
  <2>1. Len(pre) \in Nat \ {0} /\ DOMAIN pre = 1 .. Len(pre)
    BY <1>1, <1>3
  <2>2. {i \in DOMAIN pre : pre[i].gen = cgen} = 1 .. Len(pre)
    BY <2>1 DEF PreInv
  <2>3. UsablePre = SubSeq(pre, Least(1 .. Len(pre)), Len(pre))
    <3> DEFINE good == {i \in DOMAIN pre : pre[i].gen = cgen}
    <3>1. good = 1 .. Len(pre) /\ good # {}
      BY <2>1, <2>2
    <3>2. UsablePre = IF good = {} THEN << >> ELSE SubSeq(pre, Least(good), Len(pre))
      BY DEF UsablePre
    <3> HIDE DEF good
    <3> QED BY <3>1, <3>2
  <2>4. UsablePre = SubSeq(pre, 1, Len(pre))
    BY <2>1, <2>3, LeastOfAll
  <2>5. SubSeq(pre, 1, Len(pre)) = pre
    BY <1>1, SubSeqFull
  <2> QED BY <2>4, <2>5
<1> QED BY <1>2, <1>3

(* modify_read_size never asks for nothing. *)
LEMMA ReadSizePositive ==
  ASSUME NEW count \in 0 .. 6, NEW n \in Nat
  PROVE  ModifyReadSize(count, n) \in Nat \ {0}
<1>1. Larger(count, 1) \in 1 .. 6
  BY DEF Larger
<1>2. \A i \in 1 .. 6 : <<1, 2, 4, 8, 16, 32>>[i] \in Nat \ {0}
  OBVIOUS
<1> DEFINE m == <<1, 2, 4, 8, 16, 32>>[Larger(count, 1)]
<1>3. m \in Nat \ {0}
  BY <1>1, <1>2
<1> HIDE DEF m
<1>4. Smaller(64, Larger(n, m)) \in Nat \ {0}
  BY <1>3 DEF Smaller, Larger
<1> QED BY <1>4 DEF ModifyReadSize, m


(* append_request *)
LEMMA RequestType ==
  ASSUME NEW k \in OpKinds \cup {"cancel"}, NEW n \in Nat, NEW a \in Nat
  PROVE  Request(k, n, a) \in Seq(Messages)
<1>1. /\ [cmd |-> k, seq |-> n, arg |-> a] \in Messages
      /\ [cmd |-> "attrs", seq |-> 0, arg |-> 0] \in Messages
  BY DEF Messages
<1>2. ASSUME NEW h \in Messages, NEW d \in Messages
      PROVE  <<h>> \in Seq(Messages) /\ <<h, d>> \in Seq(Messages)
  OBVIOUS
<1> QED BY <1>1, <1>2 DEF Request

-----------------------------------------------------------------------------
(* Types. The position stays inside the file because the data does, and    *)
(* because data is only taken at or behind the position.                   *)

(* Starting an operation keeps the types. *)
LEMMA ApplicationTypes ==
  ASSUME RInv, Application PROVE TypeOK'
<1> USE StreamAssumption DEF streamVars, histVars, daemonVars
<1>0. TypeOK /\ (~Closing => PreInv)
  BY DEF RInv, DataInv
<1>1. ASSUME NEW n \in ReadSizes, ReadFromPre(n)
      PROVE  TypeOK'
  <2>1. ~Closing /\ PreInv
    BY <1>0, <1>1 DEF ReadFromPre, NewOp, Idle, Closing
  <2>2. UsablePre = pre
    BY <1>0, <2>1, UsableIsPre
  <2> DEFINE p == Head(pre)
             m == Smaller(n, p.len)
  <2>3. pre # << >> /\ pre \in Seq(Blocklike)
    BY <1>0, <1>1, <2>2 DEF ReadFromPre, TypeOK
  <2>4. /\ p \in Blocklike /\ p = pre[1] /\ 1 \in DOMAIN pre
        /\ Tail(pre) \in Seq(Blocklike)
    BY <2>3
  <2>5. /\ p.start \in Units /\ p.len \in Units /\ p.gen \in Nat
        /\ p.len > 0 /\ p.start + p.len <= FileSize /\ p.start >= offset
    BY <2>1, <2>3, <2>4 DEF Blocklike, PreInv, InFile, End
  <2>6. m \in Units /\ m <= p.len /\ n \in Nat
    BY <2>5 DEF Smaller, Units
  <2>7. /\ pre' = IF m < p.len
                   THEN <<[p EXCEPT !.start = @ + m, !.len = @ - m]>> \o Tail(pre)
                   ELSE Tail(pre)
        /\ res' = Outcome("data", p.start, m) /\ offset' = offset + m
    BY <1>1, <2>2 DEF ReadFromPre
  <2> HIDE DEF m, p
  <2>8. offset' \in Units
    <3>1. offset \in Units
      BY <1>0 DEF TypeOK
    <3> QED BY <2>5, <2>6, <2>7, <3>1 DEF Units
  <2>9. pre' \in Seq(Blocklike)
    <3>1. ASSUME m < p.len
          PROVE  [p EXCEPT !.start = @ + m, !.len = @ - m] \in Blocklike
      <4>1. p.start + m \in Units /\ p.len - m \in Units
        BY <2>5, <2>6, <3>1 DEF Units
      <4> QED BY <2>4, <4>1 DEF Blocklike
    <3>2. ASSUME NEW b \in Blocklike PROVE <<b>> \o Tail(pre) \in Seq(Blocklike)
      BY <2>4
    <3> QED BY <2>4, <2>7, <3>1, <3>2
  <2>10. res' \in Outcomes
    BY <2>5, <2>6, <2>7 DEF Outcome, Outcomes
  <2>11. ops' \in 0 .. MaxOps
    BY <1>0, <1>1 DEF ReadFromPre, NewOp, TypeOK
  <2> QED BY <1>0, <1>1, <2>8, <2>9, <2>10, <2>11 DEF TypeOK, ReadFromPre
<1>2. ASSUME NEW n \in ReadSizes, ReadFromBlock(n)
      PROVE  TypeOK'
  <2>1. op' \in Operations
    BY <1>2 DEF ReadFromBlock, NoOp, Operations, OpKinds
  <2>2. ops' \in 0 .. MaxOps
    BY <1>0, <1>2 DEF ReadFromBlock, NewOp, TypeOK
  <2> QED BY <1>0, <1>2, <2>1, <2>2 DEF TypeOK, ReadFromBlock
<1>3. ASSUME NEW k \in OpKinds, NEW a \in Nat, Begin(k, a)
      PROVE  op' \in Operations /\ out' \in Seq(Messages) /\ seqNr' \in Nat \ {0}
  <2>1. seqNr \in Nat \ {0} /\ out \in Seq(Messages)
    BY <1>0 DEF TypeOK
  <2>2. Request(k, seqNr, a) \in Seq(Messages)
    BY <2>1, RequestType DEF OpKinds
  <2>3. op' \in Operations
    BY <1>3, <2>1 DEF Begin, Operations
  <2>4. out' \in Seq(Messages)
    BY <1>3, <2>1, <2>2 DEF Begin
  <2> QED BY <1>3, <2>1, <2>3, <2>4 DEF Begin
<1>4. ASSUME NEW n \in ReadSizes, SendRead(n)
      PROVE  TypeOK'
  BY <1>0, <1>3, <1>4 DEF TypeOK, SendRead, NewOp, OpKinds
<1>5. ASSUME NEW p \in Units, SendSeek(p)
      PROVE  TypeOK'
  BY <1>0, <1>3, <1>5 DEF TypeOK, SendSeek, NewOp, OpKinds, Units
<1>6. CASE SendQuery
  BY <1>0, <1>3, <1>6 DEF TypeOK, SendQuery, NewOp, OpKinds
<1>7. CASE SendClose
  BY <1>0, <1>3, <1>7 DEF TypeOK, SendClose, OpKinds
<1>8. CASE RequestCancel
  BY <1>0, <1>8 DEF TypeOK, RequestCancel
<1> QED BY <1>1, <1>2, <1>4, <1>5, <1>6, <1>7, <1>8 DEF Application


(* An operation that ends leaves no operation. *)
LEMMA FinishTypes ==
  ASSUME TypeOK, NEW o \in Outcomes, Finish(o)
  PROVE  op' \in Operations /\ cancelled' \in BOOLEAN /\ res' \in Outcomes
           /\ closed' \in BOOLEAN
<1>1. NoOp \in Operations
  BY DEF NoOp, Operations
<1>2. closed \in BOOLEAN
  BY DEF TypeOK
<1> QED BY <1>1, <1>2 DEF Finish

(* An operation that fails ends, and the outcome says so. *)
LEMMA FailedTypes ==
  ASSUME TypeOK, NEW sent \in BOOLEAN, FinishFailed(sent)
  PROVE  /\ op' \in Operations /\ cancelled' \in BOOLEAN /\ res' \in Outcomes
         /\ closed' \in BOOLEAN /\ sure' \in BOOLEAN
<1>1. Outcome("failed", 0, 0) \in Outcomes
  BY StreamAssumption DEF Outcome, Outcomes, Units
<1>2. sure' \in BOOLEAN
  BY DEF FinishFailed, TypeOK
<1> QED BY <1>1, <1>2, FinishTypes DEF FinishFailed

(* A new state of the state machine is one of its states. *)
LEMMA OpStateTypes ==
  ASSUME TypeOK, NEW s \in {"idle", "send", "input", "header", "block", "early"},
         op' = [op EXCEPT !.st = s]
  PROVE  op' \in Operations
<1>1. op \in Operations
  BY DEF TypeOK
<1> QED BY <1>1 DEF Operations

(* What is left of a block after m units *)
LEMMA RestType ==
  ASSUME TypeOK, block.in, InFile(block), NEW m \in Pieces(block.len)
  PROVE  /\ Rest(m) \in InputBlock
         /\ Rest(m).in => InFile(Rest(m)) /\ Rest(m).len > 0 /\ End(Rest(m)) = End(block)
                            /\ Rest(m).start = block.start + m /\ Rest(m).gen = block.gen
         /\ ~Rest(m).in => m = block.len
         /\ m \in Units /\ m <= block.len /\ (m = 0 => block.len = 0)
<1> USE StreamAssumption
<1>1. /\ block \in InputBlock /\ block.start \in Units /\ block.len \in Units
      /\ block.gen \in Nat /\ block.start + block.len <= FileSize
  BY DEF TypeOK, InputBlock, InFile, End
<1>2. m \in Units /\ m <= block.len /\ (m = 0 => block.len = 0)
  BY <1>1 DEF Pieces, Units
<1>3. CASE m = block.len
  <2>1. Rest(m) = NoBlock
    BY <1>3 DEF Rest
  <2>2. NoBlock \in InputBlock /\ ~NoBlock.in
    BY DEF NoBlock, InputBlock, Units
  <2> QED BY <1>2, <1>3, <2>1, <2>2
<1>4. CASE m # block.len
  <2>1. Rest(m) = [block EXCEPT !.start = @ + m, !.len = @ - m]
    BY <1>4 DEF Rest
  <2>2. block.start + m \in Units /\ block.len - m \in Units /\ block.len - m > 0
    BY <1>1, <1>2, <1>4 DEF Units
  <2>3. /\ Rest(m) \in InputBlock /\ Rest(m).start = block.start + m
        /\ Rest(m).len = block.len - m /\ Rest(m).in = block.in
        /\ Rest(m).gen = block.gen
    BY <1>1, <2>1, <2>2 DEF InputBlock
  <2>4. block.start + m + (block.len - m) = block.start + block.len
    BY <1>1, <1>2 DEF Units
  <2> QED BY <1>1, <1>2, <2>2, <2>3, <2>4 DEF InFile, End
<1> QED BY <1>3, <1>4

(* The client's state machine keeps the types: the bytes it takes end      *)
(* inside the file.                                                        *)
LEMMA ClientTypes ==
  ASSUME RInv, Client PROVE TypeOK'
<1> USE StreamAssumption DEF streamVars, histVars, daemonVars
<1>0. TypeOK /\ OpInv
  BY DEF RInv
<1>1. CASE CancelUnsent
  <2>1. FinishFailed(FALSE)
    BY <1>1 DEF CancelUnsent
  <2>2. seqNr' \in Nat \ {0}
    BY <1>0, <1>1 DEF CancelUnsent, OpInv, Unsent, TypeOK, Operations
  <2>3. out' \in Seq(Messages)
    <3>1. out \in Seq(Messages) /\ out' = SubSeq(out, 1, Len(out) - 1)
      BY <1>0, <1>1 DEF CancelUnsent, Unappend, TypeOK
    <3> QED BY <3>1
  <2> QED BY <1>0, <1>1, <2>1, <2>2, <2>3, FailedTypes DEF TypeOK, CancelUnsent
<1>2. CASE WriteRequest
  <2>1. op' \in Operations
    BY <1>0, <1>2, OpStateTypes DEF WriteRequest
  <2>2. c2d' \in Seq(Messages) /\ out' \in Seq(Messages)
    BY <1>0, <1>2 DEF WriteRequest, TypeOK
  <2>3. pre' \in Seq(Blocklike) /\ cgen' \in Nat
    <3>1. pre \in Seq(Blocklike) /\ cgen \in Nat
      BY <1>0 DEF TypeOK
    <3>2. << >> \in Seq(Blocklike)
      OBVIOUS
    <3>3. pre' = pre \/ pre' = << >>
      BY <1>2 DEF WriteRequest
    <3>4. cgen' = cgen \/ cgen' = cgen + 1
      BY <1>2 DEF WriteRequest
    <3>5. cgen' \in Nat
      BY <3>1, <3>4
    <3> QED BY <3>1, <3>2, <3>3, <3>5
  <2> QED BY <1>0, <1>2, <2>1, <2>2, <2>3 DEF TypeOK, WriteRequest
<1>3. CASE StreamError
  BY <1>0, <1>3, FailedTypes DEF TypeOK, StreamError
<1>4. CASE SendCancel
  <2>1. /\ seqNr \in Nat \ {0} /\ out \in Seq(Messages) /\ op \in Operations
        /\ op.seq \in Nat
    BY <1>0 DEF TypeOK, Operations
  <2>2. Request("cancel", seqNr, op.seq) \in Seq(Messages)
    BY <2>1, RequestType
  <2>3. out' \in Seq(Messages) /\ seqNr' \in Nat \ {0}
    BY <1>4, <2>1, <2>2 DEF SendCancel
  <2>4. op' \in Operations
    BY <1>4, <2>1 DEF SendCancel, Operations
  <2> QED BY <1>0, <1>4, <2>3, <2>4 DEF TypeOK, SendCancel
<1>5. CASE HandleInput
  BY <1>0, <1>5, OpStateTypes DEF HandleInput, TypeOK
<1>6. CASE ReadHeader
  <2> DEFINE r == Head(d2c)
  <2>1. d2c # << >> /\ d2c \in Seq(Replies) /\ d2c' = Tail(d2c)
    BY <1>0, <1>6 DEF ReadHeader, TypeOK
  <2>2. r \in Replies /\ d2c' \in Seq(Replies)
    BY <2>1
  <2>3. r.start \in Units /\ r.len \in Units /\ r.gen \in Nat
    BY <2>2 DEF Replies
  <2>4. CASE FinishFailed(TRUE) /\ UNCHANGED <<offset, block>>
    BY <1>0, <1>6, <2>2, <2>4, FailedTypes DEF TypeOK, ReadHeader
  <2>5. CASE /\ block' = [start |-> r.start, len |-> r.len, gen |-> r.gen, in |-> TRUE]
             /\ op' = [op EXCEPT !.st = "block"]
             /\ UNCHANGED <<cancelled, offset, closed, res, sure>>
    <3>1. block' \in InputBlock
      BY <2>3, <2>5 DEF InputBlock
    <3>2. op' \in Operations
      BY <1>0, <2>5, OpStateTypes
    <3> QED BY <1>0, <1>6, <2>2, <2>5, <3>1, <3>2 DEF TypeOK, ReadHeader
  <2>6. CASE /\ Finish(Outcome("seek", r.start, 0)) /\ offset' = r.start
             /\ sure' = TRUE /\ UNCHANGED block
    <3>1. Outcome("seek", r.start, 0) \in Outcomes
      BY <2>3 DEF Outcome, Outcomes, Units
    <3> QED BY <1>0, <1>6, <2>2, <2>3, <2>6, <3>1, FinishTypes DEF TypeOK, ReadHeader
  <2>7. CASE Finish(Outcome("done", 0, 0)) /\ UNCHANGED <<offset, sure, block>>
    <3>1. Outcome("done", 0, 0) \in Outcomes
      BY DEF Outcome, Outcomes, Units
    <3> QED BY <1>0, <1>6, <2>2, <2>7, <3>1, FinishTypes DEF TypeOK, ReadHeader
  <2>8. CASE UNCHANGED <<op, cancelled, offset, block, closed, res, sure>>
    BY <1>0, <1>6, <2>2, <2>8 DEF TypeOK, ReadHeader
  <2> QED BY <1>6, <2>4, <2>5, <2>6, <2>7, <2>8 DEF ReadHeader
<1>7. CASE ReadBlockCancelled
  BY <1>0, <1>7, FailedTypes DEF TypeOK, ReadBlockCancelled
<1>8. CASE SkipCancelled
  BY <1>0, <1>8, OpStateTypes DEF TypeOK, SkipCancelled
<1>9. ASSUME NEW m \in Units, ReadBlock(m)
      PROVE  TypeOK'
  <2>1. /\ op.kind = "read" /\ block.in /\ block.gen = cgen
        /\ m \in Pieces(Smaller(op.arg, block.len))
        /\ Finish(Outcome("data", block.start, m))
        /\ block' = IF m = 0 THEN block ELSE Rest(m)
        /\ offset' = offset + m
    BY <1>9 DEF ReadBlock
  <2>2. ~Closing /\ pre = << >> /\ InFile(block) /\ block.start >= offset
    <3>1. pre = << >> /\ ~closed
      BY <1>0, <2>1 DEF OpInv, Unsent
    <3>2. ~Closing
      BY <2>1, <3>1 DEF Closing
    <3> QED BY <2>1, <3>1, <3>2 DEF RInv, DataInv, Follows, PreEnd
  <2>3. /\ block.start \in Units /\ block.len \in Units /\ offset \in Units
        /\ block \in InputBlock /\ op.arg \in Nat
        /\ block.start + block.len <= FileSize
    BY <1>0, <2>2 DEF TypeOK, InputBlock, InFile, End, Operations
  <2>4. m <= block.len
    BY <2>1, <2>3 DEF Pieces, Smaller, Units
  <2>5. offset' \in Units
    BY <2>1, <2>2, <2>3, <2>4 DEF Units
  <2>6. ASSUME m # 0 PROVE m \in Pieces(block.len)
    BY <2>3, <2>4, <2>6 DEF Pieces, Units
  <2>7. block' \in InputBlock
    BY <1>0, <2>1, <2>2, <2>3, <2>6, RestType
  <2>8. Outcome("data", block.start, m) \in Outcomes
    BY <2>3 DEF Outcome, Outcomes
  <2> QED BY <1>0, <1>9, <2>1, <2>5, <2>7, <2>8, FinishTypes DEF TypeOK, ReadBlock
<1>10. ASSUME NEW m \in Units, KeepBlock(m)
       PROVE  TypeOK'
  <2>1. block.in /\ InFile(block) /\ m \in Pieces(block.len)
    BY <1>0, <1>10 DEF KeepBlock, OpInv, RInv, DataInv
  <2>2. block' \in InputBlock
    BY <1>0, <1>10, <2>1, RestType DEF KeepBlock
  <2>3. /\ block.start \in Units /\ block.gen \in Nat /\ pre \in Seq(Blocklike)
    BY <1>0 DEF TypeOK, InputBlock
  <2>4. [start |-> block.start, len |-> m, gen |-> block.gen] \in Blocklike
    BY <2>3 DEF Blocklike
  <2>5. pre' \in Seq(Blocklike)
    BY <1>10, <2>3, <2>4 DEF KeepBlock
  <2>6. op' \in Operations
    BY <1>0, <1>10, OpStateTypes DEF KeepBlock
  <2> QED BY <1>0, <1>10, <2>2, <2>5, <2>6 DEF TypeOK, KeepBlock
<1>11. ASSUME NEW m \in Units, SkipBlock(m)
       PROVE  TypeOK'
  <2>1. block.in /\ InFile(block) /\ m \in Pieces(block.len)
    BY <1>0, <1>11 DEF SkipBlock, OpInv, RInv, DataInv
  <2>2. block' \in InputBlock
    BY <1>0, <1>11, <2>1, RestType DEF SkipBlock
  <2>3. op' \in Operations
    BY <1>0, <1>11, OpStateTypes DEF SkipBlock
  <2> QED BY <1>0, <1>11, <2>2, <2>3 DEF TypeOK, SkipBlock
<1> QED BY <1>1, <1>2, <1>3, <1>4, <1>5, <1>6, <1>7, <1>8, <1>9, <1>10, <1>11
        DEF Client

(* A record of a job is a job. *)
LEMMA JobTypes ==
  ASSUME NEW k \in OpKinds \cup {"error"}, NEW n \in Nat, NEW a \in Nat
  PROVE  NewJob(k, n, a) \in ChannelJob
BY DEF NewJob, NoJob, ChannelJob

(* start_queued_request: what it starts and what it leaves queued. *)
LEMMA StartQueuedTypes ==
  ASSUME TypeOK, NEW q \in Seq(Queued), q # << >>, StartQueued(q)
  PROVE  /\ queue' \in Seq(Queued) /\ job' \in ChannelJob /\ dgen' \in Nat
         /\ readCount' \in 0 .. 6
<1> DEFINE r == Head(q)
<1>1. /\ r \in Queued /\ Tail(q) \in Seq(Queued)
      /\ dgen \in Nat /\ readCount \in 0 .. 6
  BY DEF TypeOK
<1>2. /\ r.cmd \in OpKinds \cup {"attrs"} /\ r.seq \in Nat /\ r.arg \in Nat
      /\ r.cancelled \in BOOLEAN
  BY <1>1 DEF Queued
<1>3. queue' = Tail(q) /\ (blocked => RefuseRequest(r)) /\ (~blocked => HandleRequest(r))
  BY DEF StartQueued
<1> HIDE DEF r
<1>4. CASE blocked
  <2>1. NewJob("error", r.seq, 0) \in ChannelJob
    BY <1>2, JobTypes
  <2> QED BY <1>1, <1>3, <1>4, <2>1 DEF RefuseRequest
<1>5. CASE ~blocked
  <2>1. HandleRequest(r)
    BY <1>3, <1>5
  <2>2. dgen' \in Nat
    BY <1>1, <2>1 DEF HandleRequest
  <2>3. readCount' \in 0 .. 6
    <3>1. CASE r.cmd = "seek"
      BY <2>1, <3>1 DEF HandleRequest
    <3>2. CASE r.cmd = "read"
      BY <1>1, <2>1, <3>2 DEF HandleRequest, Smaller
    <3>3. CASE r.cmd # "seek" /\ r.cmd # "read"
      BY <1>1, <2>1, <3>3 DEF HandleRequest
    <3> QED BY <3>1, <3>2, <3>3
  <2>4. job' \in ChannelJob
    <3>1. ModifyReadSize(readCount', r.arg) \in Nat
      BY <1>2, <2>3, ReadSizePositive
    <3>2. CASE r.cancelled \/ r.cmd \notin OpKinds
      <4>1. job' = NewJob("error", r.seq, 0)
        BY <2>1, <3>2 DEF HandleRequest
      <4> QED BY <1>2, <4>1, JobTypes
    <3>3. CASE ~(r.cancelled \/ r.cmd \notin OpKinds)
      <4> DEFINE a == IF r.cmd = "read" THEN ModifyReadSize(readCount', r.arg) ELSE r.arg
      <4>1. job' = NewJob(r.cmd, r.seq, a)
        BY <2>1, <3>3 DEF HandleRequest
      <4>2. a \in Nat
        BY <1>2, <3>1
      <4> HIDE DEF a
      <4> QED BY <1>2, <3>3, <4>1, <4>2, JobTypes
    <3> QED BY <3>2, <3>3
  <2> QED BY <1>1, <1>3, <2>2, <2>3, <2>4
<1> QED BY <1>4, <1>5

(* A reply for the current job is a reply. *)
LEMMA ReplyTypes ==
  ASSUME TypeOK, NEW t \in {"data", "error", "seekpos", "info", "closed"},
         NEW s \in Units, NEW n \in Units, Reply(t, s, n)
  PROVE  d2c' \in Seq(Replies)
<1>1. /\ d2c \in Seq(Replies) /\ job \in ChannelJob /\ dgen \in Nat
  BY DEF TypeOK
<1>2. job.seq \in Nat
  BY <1>1 DEF ChannelJob
<1>3. [type |-> t, seq |-> job.seq, start |-> s, len |-> n, gen |-> dgen] \in Replies
  BY <1>1, <1>2 DEF Replies
<1> QED BY <1>1, <1>3 DEF Reply

(* The channel and the backend keep the types: the handle stays inside the *)
(* file.                                                                   *)
LEMMA DaemonTypes ==
  ASSUME RInv, Backend \/ Channel \/ ForceClose \/ SetBlockRequests PROVE TypeOK'
<1> USE StreamAssumption DEF streamVars, histVars
<1>0. TypeOK /\ job \in ChannelJob /\ bpos \in Units
  BY DEF RInv, TypeOK
<1>00. /\ job.arg \in Nat /\ job.seq \in Nat
       /\ job.kind \in OpKinds \cup {"none", "gone", "error"}
  BY <1>0 DEF ChannelJob
<1>1. ASSUME NEW n \in Units, ReadDone(n)
      PROVE  TypeOK'
  <2>1. n <= FileSize - bpos /\ bpos' = bpos + n
    BY <1>0, <1>00, <1>1 DEF ReadDone, Pieces, Smaller, Units
  <2>2. bpos' \in Units
    BY <1>0, <2>1 DEF Units
  <2>3. d2c' \in Seq(Replies)
    BY <1>0, <1>1, ReplyTypes DEF ReadDone
  <2>4. job' \in ChannelJob
    <3>1. (n > 0) \in BOOLEAN
      OBVIOUS
    <3>2. \A b \in BOOLEAN : [job EXCEPT !.st = "reply", !.more = b] \in ChannelJob
      BY <1>0 DEF ChannelJob
    <3> QED BY <1>1, <3>1, <3>2 DEF ReadDone
  <2> QED BY <1>0, <1>1, <2>2, <2>3, <2>4 DEF TypeOK, ReadDone
<1>2. CASE SeekDone
  <2>1. job.arg \in Units
    BY <1>2 DEF SeekDone, RInv, ChannelInv
  <2>2. d2c' \in Seq(Replies)
    BY <1>0, <1>2, <2>1, ReplyTypes DEF SeekDone, Units
  <2>3. job' \in ChannelJob
    BY <1>0, <1>2 DEF SeekDone, ChannelJob
  <2> QED BY <1>0, <1>2, <2>1, <2>2, <2>3 DEF TypeOK, SeekDone
<1>3. CASE QueryOrCloseDone
  <2>1. Success[job.kind] \in {"info", "closed"}
    <3>1. Success["query"] = "info" /\ Success["close"] = "closed"
      BY DEF Success
    <3> QED BY <1>3, <3>1 DEF QueryOrCloseDone
  <2>2. 0 \in Units /\ Reply(Success[job.kind], 0, 0)
    BY <1>3 DEF QueryOrCloseDone, Units
  <2>3. d2c' \in Seq(Replies)
    BY <1>0, <2>1, <2>2, ReplyTypes
  <2>4. job' \in ChannelJob
    BY <1>0, <1>3 DEF QueryOrCloseDone, ChannelJob
  <2> QED BY <1>0, <1>3, <2>3, <2>4 DEF TypeOK, QueryOrCloseDone
<1>4. CASE JobFails
  <2>1. 0 \in Units /\ Reply("error", 0, 0)
    BY <1>4 DEF JobFails, Units
  <2>2. d2c' \in Seq(Replies)
    BY <1>0, <2>1, ReplyTypes
  <2>3. job' \in ChannelJob
    BY <1>0, <1>4 DEF JobFails, ChannelJob
  <2> QED BY <1>0, <1>4, <2>2, <2>3 DEF TypeOK, JobFails
<1>5. CASE GotRequest
  <2> DEFINE r == Head(c2d)
             e == [cmd |-> r.cmd, seq |-> r.seq, arg |-> r.arg, cancelled |-> FALSE]
  <2>1. c2d \in Seq(Messages) /\ queue \in Seq(Queued) /\ c2d # << >>
    BY <1>0, <1>5 DEF TypeOK, GotRequest
  <2>2. r \in Messages
    BY <2>1
  <2>3. c2d' \in Seq(Messages)
    <3>1. c2d' = SubSeq(c2d, Length(r) + 1, Len(c2d))
      BY <1>5 DEF GotRequest
    <3>2. Length(r) \in 1 .. 2
      BY DEF Length
    <3> HIDE DEF r
    <3> QED BY <2>1, <3>1, <3>2
  <2>4. CASE /\ r.cmd = "cancel" /\ job' = [job EXCEPT !.cancelled = TRUE]
             /\ UNCHANGED <<queue, dgen, readCount>>
    <3>1. job' \in ChannelJob
      BY <1>0, <2>4 DEF ChannelJob
    <3> QED BY <1>0, <1>5, <2>3, <2>4, <3>1 DEF TypeOK, GotRequest
  <2>5. CASE /\ r.cmd = "cancel" /\ queue' = MarkCancelled(r.arg)
             /\ UNCHANGED <<job, dgen, readCount>>
    <3>1. queue' \in Seq(Queued)
      <4> DEFINE last == IF {i \in DOMAIN queue : queue[i].seq = r.arg} = {} THEN Len(queue)
                         ELSE Least({i \in DOMAIN queue : queue[i].seq = r.arg})
      <4>1. queue' = [i \in 1 .. Len(queue) |->
                        IF i <= last /\ queue[i].seq \in {0, r.arg}
                          THEN [queue[i] EXCEPT !.cancelled = TRUE] ELSE queue[i]]
        BY <2>1, <2>5 DEF MarkCancelled
      <4> HIDE DEF last
      <4>2. \A i \in 1 .. Len(queue) : queue[i] \in Queued
        BY <2>1
      <4>3. \A q \in Queued : [q EXCEPT !.cancelled = TRUE] \in Queued
        BY DEF Queued
      <4>4. queue' \in [1 .. Len(queue) -> Queued]
        BY <4>1, <4>2, <4>3
      <4> QED BY <2>1, <4>4
    <3> QED BY <1>0, <1>5, <2>3, <2>5, <3>1 DEF TypeOK, GotRequest
  <2>6. CASE r.cmd # "cancel"
    <3>1. e \in Queued
      BY <2>2, <2>6 DEF Messages, Queued
    <3>2. Enqueue(e) \in Seq(Queued) /\ Enqueue(e) # << >>
      BY <2>1, <3>1 DEF Enqueue
    <3>3. CASE job.kind = "none"
      <4>1. StartQueued(Enqueue(e))
        BY <1>5, <2>6, <3>3 DEF GotRequest
      <4> HIDE DEF e, r
      <4>2. /\ queue' \in Seq(Queued) /\ job' \in ChannelJob /\ dgen' \in Nat
            /\ readCount' \in 0 .. 6
        BY <1>0, <3>2, <4>1, StartQueuedTypes
      <4> QED BY <1>0, <1>5, <2>3, <4>2 DEF TypeOK, GotRequest
    <3>4. CASE job.kind # "none"
      <4>1. queue' = Enqueue(e) /\ UNCHANGED <<job, dgen, readCount>>
        BY <1>5, <2>6, <3>4 DEF GotRequest
      <4> HIDE DEF e, r
      <4> QED BY <1>0, <1>5, <2>3, <3>2, <4>1 DEF TypeOK, GotRequest
    <3> QED BY <3>3, <3>4
  <2> QED BY <1>5, <2>4, <2>5, <2>6 DEF GotRequest
<1>6. CASE SendReplyCb
  <2>1. CASE job' = [NoJob EXCEPT !.kind = "gone"] /\ UNCHANGED <<queue, dgen, readCount>>
    <3>1. job' \in ChannelJob
      BY <2>1 DEF NoJob, ChannelJob
    <3> QED BY <1>0, <1>6, <2>1, <3>1 DEF TypeOK, SendReplyCb
  <2>2. CASE queue # << >> /\ StartQueued(queue)
    <3>1. queue \in Seq(Queued)
      BY <1>0 DEF TypeOK
    <3>2. /\ queue' \in Seq(Queued) /\ job' \in ChannelJob /\ dgen' \in Nat
          /\ readCount' \in 0 .. 6
      BY <1>0, <2>2, <3>1, StartQueuedTypes
    <3> QED BY <1>0, <1>6, <3>2 DEF TypeOK, SendReplyCb
  <2>3. CASE /\ readCount' = 3 /\ job' = NewJob("read", 0, ModifyReadSize(3, 2))
             /\ UNCHANGED <<queue, dgen>>
    <3>1. ModifyReadSize(3, 2) \in Nat
      BY ReadSizePositive
    <3>2. job' \in ChannelJob
      BY <2>3, <3>1, JobTypes DEF OpKinds
    <3>3. readCount' \in 0 .. 6
      BY <2>3
    <3> QED BY <1>0, <1>6, <2>3, <3>2, <3>3 DEF TypeOK, SendReplyCb
  <2>4. CASE StopAfterReply
    <3>1. job' \in ChannelJob
      BY <2>4 DEF NoJob, ChannelJob, StopAfterReply
    <3> QED BY <1>0, <1>6, <2>4, <3>1 DEF TypeOK, SendReplyCb, StopAfterReply
  <2> QED BY <1>6, <2>1, <2>2, <2>3, <2>4 DEF SendReplyCb
<1>7. CASE ForceClose
  <2>1. job' \in ChannelJob
    BY <1>0, <1>7 DEF ForceClose, ChannelJob
  <2>2. << >> \in Seq(Queued) /\ << >> \in Seq(Messages)
    OBVIOUS
  <2> QED BY <1>0, <1>7, <2>1, <2>2 DEF TypeOK, ForceClose
<1>8. CASE SetBlockRequests
  BY <1>0, <1>8 DEF TypeOK, SetBlockRequests
<1> QED BY <1>1, <1>2, <1>3, <1>4, <1>5, <1>6, <1>7, <1>8 DEF Backend, Channel

-----------------------------------------------------------------------------
(* What the steps do to the stages of the pipeline.                        *)

(* g_daemon_file_input_stream: what is written is one request, or one      *)
(* cancellation.                                                           *)
LEMMA WrittenFacts ==
  ASSUME TypeOK, OpInv, WriteRequest
  PROVE  /\ DOMAIN c2d \subseteq DOMAIN c2d' /\ \A i \in DOMAIN c2d : c2d'[i] = c2d[i]
         /\ \A i \in DOMAIN c2d' \ DOMAIN c2d :
              /\ \A k \in DOMAIN c2d : k < i
              /\ \/ /\ ~op.sentCancel /\ i = Len(c2d) + 1
                    /\ c2d'[i] = [cmd |-> op.kind, seq |-> op.seq, arg |-> op.arg]
                 \/ c2d'[i].cmd = "cancel" \/ (c2d'[i].cmd = "attrs" /\ c2d'[i].seq = 0)
<1>1. c2d \in Seq(Messages) /\ out \in Seq(Messages) /\ c2d' = c2d \o out
  BY DEF TypeOK, WriteRequest
<1>2. /\ op.sentCancel => out = <<[cmd |-> "cancel", seq |-> seqNr - 1, arg |-> op.seq]>>
      /\ ~op.sentCancel => out = Request(op.kind, op.seq, op.arg)
  BY DEF OpInv, OutInv, WriteRequest, Request
<1>3. /\ Len(c2d') = Len(c2d) + Len(out) /\ DOMAIN c2d' = 1 .. Len(c2d) + Len(out)
      /\ DOMAIN c2d = 1 .. Len(c2d) /\ Len(c2d) \in Nat /\ Len(out) \in Nat
      /\ \A i \in DOMAIN c2d' : c2d'[i] = IF i <= Len(c2d) THEN c2d[i] ELSE out[i - Len(c2d)]
  BY <1>1
<1>4. ASSUME NEW j \in 1 .. Len(out)
      PROVE  \/ /\ ~op.sentCancel /\ j = 1
                /\ out[j] = [cmd |-> op.kind, seq |-> op.seq, arg |-> op.arg]
             \/ out[j].cmd = "cancel" \/ (out[j].cmd = "attrs" /\ out[j].seq = 0)
  <2>1. CASE op.sentCancel
    <3> DEFINE m == [cmd |-> "cancel", seq |-> seqNr - 1, arg |-> op.seq]
    <3>1. out = <<m>> /\ m.cmd = "cancel"
      BY <1>2, <2>1
    <3> HIDE DEF m
    <3>2. j = 1 /\ out[j] = m
      BY <3>1
    <3> QED BY <3>1, <3>2
  <2>2. CASE ~op.sentCancel /\ op.kind # "query"
    BY <1>2, <2>2 DEF Request
  <2>3. CASE ~op.sentCancel /\ op.kind = "query"
    <3>1. out = <<[cmd |-> op.kind, seq |-> op.seq, arg |-> op.arg],
                  [cmd |-> "attrs", seq |-> 0, arg |-> 0]>>
      BY <1>2, <2>3 DEF Request
    <3>2. j = 1 \/ j = 2
      BY <3>1
    <3> QED BY <2>3, <3>1, <3>2
  <2> QED BY <2>1, <2>2, <2>3
<1>5. ASSUME NEW i \in DOMAIN c2d' \ DOMAIN c2d
      PROVE  /\ \A k \in DOMAIN c2d : k < i
             /\ \/ /\ ~op.sentCancel /\ i = Len(c2d) + 1
                   /\ c2d'[i] = [cmd |-> op.kind, seq |-> op.seq, arg |-> op.arg]
                \/ c2d'[i].cmd = "cancel" \/ (c2d'[i].cmd = "attrs" /\ c2d'[i].seq = 0)
  <2>1. i > Len(c2d) /\ i - Len(c2d) \in 1 .. Len(out) /\ c2d'[i] = out[i - Len(c2d)]
    BY <1>3
  <2>2. i - Len(c2d) = 1 => i = Len(c2d) + 1
    BY <1>3, <2>1
  <2> QED BY <1>3, <1>4, <2>1, <2>2
<1> QED BY <1>3, <1>5

(* got_request takes a message off the front. *)
LEMMA TakenFacts ==
  ASSUME TypeOK, GotRequest
  PROVE  /\ 1 \in DOMAIN c2d /\ Head(c2d) = c2d[1]
         /\ \A i \in DOMAIN c2d' : \E k \in DOMAIN c2d : k > i /\ c2d'[i] = c2d[k]
         /\ \A i, j \in DOMAIN c2d' : i < j => \E k, l \in DOMAIN c2d :
              1 < k /\ k < l /\ c2d'[i] = c2d[k] /\ c2d'[j] = c2d[l]
<1> DEFINE n == Length(Head(c2d))
<1>1. n \in 1 .. 2 /\ c2d' = SubSeq(c2d, n + 1, Len(c2d)) /\ c2d \in Seq(Messages)
      /\ c2d # << >> /\ Len(c2d) >= n
  BY DEF Length, GotRequest, TypeOK
<1> HIDE DEF n
<1>2. /\ Len(c2d') = Len(c2d) - n /\ DOMAIN c2d' = 1 .. Len(c2d) - n /\ Len(c2d) \in Nat
      /\ DOMAIN c2d = 1 .. Len(c2d) /\ \A i \in 1 .. Len(c2d) - n : c2d'[i] = c2d[i + n]
  BY <1>1
<1>3. ASSUME NEW i \in DOMAIN c2d'
      PROVE  i + n \in DOMAIN c2d /\ i + n > i /\ i + n > 1 /\ c2d'[i] = c2d[i + n]
  <2>1. i \in 1 .. Len(c2d) - n /\ n \in 1 .. 2 /\ Len(c2d) \in Nat
    BY <1>1, <1>2
  <2>2. i + n \in 1 .. Len(c2d) /\ i + n > i /\ i + n > 1
    BY <2>1
  <2> QED BY <1>2, <2>1, <2>2
<1>4. ASSUME NEW i \in DOMAIN c2d', NEW j \in DOMAIN c2d', i < j
      PROVE  i + n < j + n
  <2>1. i \in 1 .. Len(c2d) - n /\ j \in 1 .. Len(c2d) - n
    BY <1>2
  <2>2. i \in Int /\ j \in Int /\ n \in Int
    BY <1>1, <2>1
  <2> QED BY <1>4, <2>2
<1>5. ASSUME NEW i \in DOMAIN c2d', NEW j \in DOMAIN c2d', i < j
      PROVE  \E k, l \in DOMAIN c2d :
               1 < k /\ k < l /\ c2d'[i] = c2d[k] /\ c2d'[j] = c2d[l]
  <2>1. i + n < j + n
    BY <1>4, <1>5
  <2> QED BY <1>3, <2>1
<1>6. 1 \in DOMAIN c2d /\ Head(c2d) = c2d[1]
  BY <1>1
<1> QED BY <1>3, <1>5, <1>6

(* OP_CANCEL marks requests and neither adds, drops nor moves one. *)
LEMMA MarkedFacts ==
  ASSUME TypeOK, NEW n, queue' = MarkCancelled(n)
  PROVE  /\ DOMAIN queue' = DOMAIN queue
         /\ \A i \in DOMAIN queue : /\ queue'[i].seq = queue[i].seq
                                    /\ queue'[i].cmd = queue[i].cmd
                                    /\ queue'[i].arg = queue[i].arg
<1> DEFINE last == IF {i \in DOMAIN queue : queue[i].seq = n} = {} THEN Len(queue)
                   ELSE Least({i \in DOMAIN queue : queue[i].seq = n})
<1>1. queue' = [i \in DOMAIN queue |->
                  IF i <= last /\ queue[i].seq \in {0, n}
                    THEN [queue[i] EXCEPT !.cancelled = TRUE] ELSE queue[i]]
  BY DEF MarkCancelled
<1> HIDE DEF last
<1>2. \A i \in DOMAIN queue : queue[i] \in Queued
  BY DEF TypeOK
<1>3. \A q \in Queued : LET x == [q EXCEPT !.cancelled = TRUE]
                        IN x.seq = q.seq /\ x.cmd = q.cmd /\ x.arg = q.arg
  BY DEF Queued
<1> QED BY <1>1, <1>2, <1>3

(* start_queued_request makes a job of the first request. *)
LEMMA StartedFacts ==
  ASSUME TypeOK, NEW q \in Seq(Queued), q # << >>, StartQueued(q)
  PROVE  /\ 1 \in DOMAIN q /\ Head(q) = q[1]
         /\ queue' = Tail(q)
         /\ \A i \in DOMAIN queue' : i + 1 \in DOMAIN q /\ queue'[i] = q[i + 1]
         /\ job'.st = "work" /\ job'.seq = q[1].seq
         /\ job'.kind \in OpKinds \cup {"error"}
         /\ job'.kind = "seek" => q[1].cmd = "seek" /\ job'.arg = q[1].arg
         /\ job'.kind = "read" => job'.arg > 0
         /\ dgen' = dgen \/ (q[1].cmd = "seek" /\ dgen' = dgen + 1)
         /\ job'.kind = "seek" => dgen' = dgen + 1
<1> DEFINE r == Head(q)
<1>1. /\ 1 \in DOMAIN q /\ r = q[1] /\ r \in Queued
      /\ \A i \in DOMAIN Tail(q) : i + 1 \in DOMAIN q /\ Tail(q)[i] = q[i + 1]
  BY TailFacts
<1>2. queue' = Tail(q) /\ (blocked => RefuseRequest(r)) /\ (~blocked => HandleRequest(r))
  BY DEF StartQueued
<1>3. r.seq \in Nat /\ r.arg \in Nat /\ r.cmd \in OpKinds \cup {"attrs"}
  BY <1>1 DEF Queued
<1> HIDE DEF r
<1>4. ASSUME NEW k, NEW n, NEW a
      PROVE  LET j == NewJob(k, n, a) IN j.st = "work" /\ j.seq = n /\ j.kind = k /\ j.arg = a
  BY DEF NewJob, NoJob
<1>5. CASE blocked
  <2>1. job' = NewJob("error", r.seq, 0) /\ dgen' = dgen
    BY <1>2, <1>5 DEF RefuseRequest
  <2>2. job'.st = "work" /\ job'.seq = r.seq /\ job'.kind = "error"
    BY <1>4, <2>1
  <2> QED BY <1>1, <1>2, <2>1, <2>2 DEF OpKinds
<1>6. CASE ~blocked
  <2>1. HandleRequest(r)
    BY <1>2, <1>6
  <2>2. dgen' = IF r.cmd = "seek" THEN dgen + 1 ELSE dgen
    BY <2>1 DEF HandleRequest
  <2>3. CASE r.cancelled \/ r.cmd \notin OpKinds
    <3>1. job' = NewJob("error", r.seq, 0)
      BY <2>1, <2>3 DEF HandleRequest
    <3>2. job'.st = "work" /\ job'.seq = r.seq /\ job'.kind = "error"
      BY <1>4, <3>1
    <3> QED BY <1>1, <1>2, <2>2, <3>2 DEF OpKinds
  <2>4. CASE ~(r.cancelled \/ r.cmd \notin OpKinds)
    <3> DEFINE a == IF r.cmd = "read" THEN ModifyReadSize(readCount', r.arg) ELSE r.arg
    <3>1. job' = NewJob(r.cmd, r.seq, a)
      BY <2>1, <2>4 DEF HandleRequest
    <3>2. readCount' \in 0 .. 6
      BY StartQueuedTypes
    <3>3. r.cmd = "read" => a > 0
      <4>1. ModifyReadSize(readCount', r.arg) \in Nat \ {0}
        BY <1>3, <3>2, ReadSizePositive
      <4>2. ModifyReadSize(readCount', r.arg) > 0
        BY <4>1
      <4> QED BY <4>2
    <3>4. r.cmd = "seek" => a = r.arg
      OBVIOUS
    <3> HIDE DEF a
    <3>5. job'.st = "work" /\ job'.seq = r.seq /\ job'.kind = r.cmd /\ job'.arg = a
      BY <1>4, <3>1
    <3> QED BY <1>1, <1>2, <2>2, <2>4, <3>3, <3>4, <3>5
  <2> QED BY <2>3, <2>4
<1> QED BY <1>5, <1>6

(* A reply goes behind the others. *)
LEMMA RepliedFacts ==
  ASSUME TypeOK, NEW t \in {"data", "error", "seekpos", "info", "closed"},
         NEW s \in Units, NEW n \in Units, Reply(t, s, n), ~shut
  PROVE  /\ DOMAIN d2c = 1 .. Len(d2c) /\ Len(d2c) \in Nat
         /\ DOMAIN d2c' = 1 .. Len(d2c) + 1 /\ Len(d2c') = Len(d2c) + 1
         /\ \A i \in DOMAIN d2c : d2c'[i] = d2c[i]
         /\ d2c'[Len(d2c) + 1] =
              [type |-> t, seq |-> job.seq, start |-> s, len |-> n, gen |-> dgen]
<1> DEFINE r == [type |-> t, seq |-> job.seq, start |-> s, len |-> n, gen |-> dgen]
<1>1. /\ d2c \in Seq(Replies) /\ job \in ChannelJob /\ dgen \in Nat
  BY DEF TypeOK
<1>2. job.seq \in Nat
  BY <1>1 DEF ChannelJob
<1>3. r \in Replies
  BY <1>1, <1>2 DEF Replies
<1>4. d2c' = Append(d2c, r)
  BY DEF Reply
<1> HIDE DEF r
<1>5. DOMAIN d2c = 1 .. Len(d2c) /\ Len(d2c) \in Nat
  BY <1>1
<1>6. /\ DOMAIN d2c' = 1 .. Len(d2c) + 1 /\ Len(d2c') = Len(d2c) + 1
      /\ \A i \in DOMAIN d2c : d2c'[i] = d2c[i]
      /\ d2c'[Len(d2c) + 1] = r
  BY <1>1, <1>3, <1>4, AppendFacts
<1> QED BY <1>5, <1>6 DEF r

-----------------------------------------------------------------------------
(* The operation and the output buffer. A query that is withdrawn before   *)
(* it is sent would leave its attributes in the buffer: the hypothesis     *)
(* that none is.                                                           *)

(* append_request into the empty buffer of an idle stream. *)
LEMMA BeginOut ==
  ASSUME RInv, Idle, NEW k \in OpKinds, NEW a \in Nat, Begin(k, a), shut' = shut
  PROVE  OutInv'
<1>1. out \in Seq(Messages) /\ seqNr \in Nat /\ op.st = "idle"
  BY DEF RInv, TypeOK, OpInv, Idle
<1>2. Request(k, seqNr, a) \in Seq(Messages)
  BY <1>1, RequestType
<1>3. \A s \in Seq(Messages) : << >> \o s = s
  OBVIOUS
<1>4. ~shut => out = << >>
  BY <1>1 DEF RInv, OpInv, OutInv
<1>5. ~shut => out' = Request(k, seqNr, a)
  BY <1>2, <1>3, <1>4 DEF Begin
<1>6. op'.st = "send" /\ op'.sentCancel = FALSE /\ op'.kind = k /\ op'.seq = seqNr /\ op'.arg = a
  BY DEF Begin
<1> QED BY <1>5, <1>6 DEF OutInv

(* An operation begun on an idle stream fits its state machine. *)
LEMMA BeginOp ==
  ASSUME RInv, Idle, NEW k \in OpKinds, NEW a \in Nat, Begin(k, a),
         UNCHANGED <<shut, closed, cancelled>>,
         k = "read" => pre' = << >> /\ a > 0, k = "seek" => a \in Units
  PROVE  OpInv'
<1>1. OutInv'
  BY BeginOut
<1>2. seqNr \in Nat \ {0} /\ op.kind = "none" /\ ~closed /\ ~cancelled
  BY DEF RInv, TypeOK, OpInv, Idle
<1>3. /\ op'.st = "send" /\ op'.sentCancel = FALSE /\ op'.kind = k /\ op'.seq = seqNr
      /\ op'.arg = a /\ seqNr' = seqNr + 1 /\ cancelled' = cancelled /\ closed' = closed
  BY DEF Begin
<1>4. k # "none"
  BY DEF OpKinds
<1> QED BY <1>1, <1>2, <1>3, <1>4 DEF OpInv, Unsent

(* A stream without an operation waits for nothing. *)
LEMMA FinishedOp ==
  ASSUME op' = NoOp, cancelled' = FALSE, OutInv' PROVE OpInv'
<1>1. op'.kind = "none" /\ op'.st = "idle" /\ op'.sentCancel = FALSE
  BY DEF NoOp
<1> QED BY <1>1 DEF OpInv, Unsent

(* Every step of the client keeps operation and output buffer in           *)
(* agreement, unless a query may be withdrawn unsent.                      *)
LEMMA ClientOp ==
  ASSUME "query" \notin EarlyCancel, RInv, Application \/ Client PROVE OpInv'
<1> USE DEF streamVars, histVars, daemonVars
<1>0. /\ op \in Operations /\ op.seq \in Nat /\ op.arg \in Nat /\ seqNr \in Nat \ {0}
      /\ out \in Seq(Messages) /\ OpInv /\ cancelled \in BOOLEAN
  BY DEF RInv, TypeOK, Operations
<1>1. ASSUME NEW n \in ReadSizes, ReadFromPre(n)
      PROVE  OpInv'
  <2>1. op.kind = "none" /\ UNCHANGED <<op, cancelled, seqNr, out, shut, closed>>
    BY <1>1 DEF ReadFromPre, NewOp, Idle
  <2> QED BY <1>0, <2>1 DEF OpInv, OutInv, Unsent
<1>2. ASSUME NEW n \in ReadSizes, ReadFromBlock(n)
      PROVE  OpInv'
  <2>1. /\ op'.kind = "read" /\ op'.st = "early" /\ op'.arg = n /\ op'.sentCancel = FALSE
        /\ pre' = << >> /\ UNCHANGED <<cancelled, seqNr, out, shut, closed>>
        /\ op.kind = "none" /\ ~closed
    BY <1>2 DEF ReadFromBlock, NewOp, Idle, NoOp
  <2>2. n > 0
    BY StreamAssumption
  <2>3. ~shut => out' = << >>
    BY <1>0, <2>1 DEF OpInv, OutInv
  <2> QED BY <1>0, <2>1, <2>2, <2>3 DEF OpInv, OutInv, Unsent
<1>3. ASSUME NEW n \in ReadSizes, SendRead(n)
      PROVE  OpInv'
  <2>1. n \in Nat /\ n > 0 /\ "read" \in OpKinds
    BY StreamAssumption DEF OpKinds
  <2> QED BY <1>3, <2>1, BeginOp DEF SendRead, NewOp
<1>4. ASSUME NEW p \in Units, SendSeek(p)
      PROVE  OpInv'
  <2>1. p \in Nat /\ "seek" \in OpKinds
    BY DEF OpKinds, Units
  <2> QED BY <1>4, <2>1, BeginOp DEF SendSeek, NewOp
<1>5. CASE SendQuery
  <2>1. "query" \in OpKinds
    BY DEF OpKinds
  <2> QED BY <1>5, <2>1, BeginOp DEF SendQuery, NewOp
<1>6. CASE SendClose
  <2>1. "close" \in OpKinds
    BY DEF OpKinds
  <2> QED BY <1>6, <2>1, BeginOp DEF SendClose
<1>7. CASE RequestCancel
  <2>1. Unsent => op.kind # "query"
    BY <1>7 DEF RequestCancel, Unsent
  <2>2. /\ op.kind # "none" /\ UNCHANGED <<op, seqNr, out, shut, closed, pre, block>>
    BY <1>7 DEF RequestCancel
  <2> QED BY <1>0, <2>1, <2>2 DEF OpInv, OutInv, Unsent
<1>8. CASE CancelUnsent
  <2>1. /\ op.st = "send" /\ ~op.sentCancel /\ cancelled /\ Unsent
        /\ op' = NoOp /\ cancelled' = FALSE /\ shut' = shut
        /\ out' = SubSeq(out, 1, Len(out) - 1)
    BY <1>8 DEF CancelUnsent, FinishFailed, Finish, Unsent, Unappend
  <2>2. op.kind # "query"
    BY <1>0, <2>1 DEF OpInv
  <2>3. ~shut => out = <<[cmd |-> op.kind, seq |-> op.seq, arg |-> op.arg]>>
    BY <1>0, <2>1, <2>2 DEF OpInv, OutInv, Request
  <2>4. \A x : SubSeq(<<x>>, 1, 0) = << >> /\ Len(<<x>>) = 1
    OBVIOUS
  <2>5. ~shut => out' = << >>
    BY <2>1, <2>3, <2>4
  <2>6. OutInv'
    BY <2>1, <2>5 DEF OutInv, NoOp
  <2> QED BY <2>1, <2>6, FinishedOp
<1>9. CASE WriteRequest
  <2>1. /\ op.st = "send" /\ out' = << >> /\ op' = [op EXCEPT !.st = "input"]
        /\ UNCHANGED <<cancelled, seqNr, closed, block, shut>>
        /\ pre = << >> => pre' = << >>
    BY <1>9 DEF WriteRequest
  <2>2. /\ op'.st = "input" /\ op'.kind = op.kind /\ op'.seq = op.seq /\ op'.arg = op.arg
        /\ op'.sentCancel = op.sentCancel
    BY <1>0, <2>1 DEF Operations
  <2> QED BY <1>0, <2>1, <2>2 DEF OpInv, OutInv, Unsent
<1>10. CASE StreamError
  <2>1. shut' /\ op' = NoOp /\ cancelled' = FALSE
    BY <1>10 DEF StreamError, FinishFailed, Finish
  <2> QED BY <2>1, FinishedOp DEF OutInv
<1>11. CASE SendCancel
  <2>1. /\ op.st = "input" /\ ~op.sentCancel /\ op' = [op EXCEPT !.st = "send", !.sentCancel = TRUE]
        /\ out' = out \o Request("cancel", seqNr, op.seq) /\ seqNr' = seqNr + 1
        /\ UNCHANGED <<cancelled, closed, block, shut, pre>>
    BY <1>11 DEF SendCancel
  <2>2. /\ op'.st = "send" /\ op'.kind = op.kind /\ op'.seq = op.seq /\ op'.arg = op.arg
        /\ op'.sentCancel = TRUE
    BY <1>0, <2>1 DEF Operations
  <2>3. Request("cancel", seqNr, op.seq) \in Seq(Messages)
    BY <1>0, RequestType
  <2>4. \A s \in Seq(Messages) : << >> \o s = s
    OBVIOUS
  <2>5. ~shut => out' = Request("cancel", seqNr, op.seq)
    BY <1>0, <2>1, <2>3, <2>4 DEF OpInv, OutInv
  <2>6. seqNr' - 1 = seqNr
    BY <1>0, <2>1
  <2>7. OutInv'
    BY <2>1, <2>2, <2>5, <2>6 DEF OutInv
  <2> QED BY <1>0, <2>1, <2>2, <2>7 DEF OpInv, Unsent
<1>12. CASE HandleInput
  <2>1. /\ op.st = "input" /\ op' = [op EXCEPT !.st = IF block.in THEN "block" ELSE "header"]
        /\ UNCHANGED <<cancelled, closed, block, shut, pre, out, seqNr>>
    BY <1>12 DEF HandleInput
  <2>2. /\ op'.st = (IF block.in THEN "block" ELSE "header") /\ op'.kind = op.kind
        /\ op'.seq = op.seq /\ op'.arg = op.arg /\ op'.sentCancel = op.sentCancel
    BY <1>0, <2>1 DEF Operations
  <2> QED BY <1>0, <2>1, <2>2 DEF OpInv, OutInv, Unsent
<1>13. ASSUME op.st # "send", op' = NoOp, cancelled' = FALSE, UNCHANGED <<out, shut>>
       PROVE  OpInv'
  <2>1. OutInv'
    BY <1>0, <1>13 DEF OpInv, OutInv, NoOp
  <2> QED BY <1>13, <2>1, FinishedOp
<1>14. CASE ReadHeader
  <2>1. /\ op.st = "header" /\ UNCHANGED <<out, shut, pre, seqNr>>
    BY <1>14 DEF ReadHeader
  <2>2. CASE op' = NoOp /\ cancelled' = FALSE
    BY <1>13, <2>1, <2>2
  <2>3. CASE /\ op' = [op EXCEPT !.st = "block"] /\ UNCHANGED <<cancelled, closed>>
             /\ block' = [start |-> Head(d2c).start, len |-> Head(d2c).len,
                          gen |-> Head(d2c).gen, in |-> TRUE]
    <3>0. block'.in
      BY <2>3
    <3>1. /\ op'.st = "block" /\ op'.kind = op.kind
          /\ op'.seq = op.seq /\ op'.arg = op.arg /\ op'.sentCancel = op.sentCancel
      BY <1>0, <2>3 DEF Operations
    <3> QED BY <1>0, <2>1, <2>3, <3>0, <3>1 DEF OpInv, OutInv, Unsent
  <2>4. CASE UNCHANGED <<op, cancelled, block, closed>>
    BY <1>0, <2>1, <2>4 DEF OpInv, OutInv, Unsent
  <2> QED BY <1>14, <2>2, <2>3, <2>4 DEF ReadHeader, FinishFailed, Finish
<1>15. CASE ReadBlockCancelled
  BY <1>13, <1>15 DEF ReadBlockCancelled, FinishFailed, Finish
<1>16. ASSUME NEW m \in Units, ReadBlock(m)
       PROVE  OpInv'
  BY <1>13, <1>16 DEF ReadBlock, Finish
<1>17. ASSUME op.st = "block", op' = [op EXCEPT !.st = "input"],
              op.kind = "read" => pre' = pre, UNCHANGED <<cancelled, closed, out, shut, seqNr>>
       PROVE  OpInv'
  <2>1. /\ op'.st = "input" /\ op'.kind = op.kind
        /\ op'.seq = op.seq /\ op'.arg = op.arg /\ op'.sentCancel = op.sentCancel
    BY <1>0, <1>17 DEF Operations
  <2> QED BY <1>0, <1>17, <2>1 DEF OpInv, OutInv, Unsent
<1>18. ASSUME NEW m \in Units, KeepBlock(m)
       PROVE  OpInv'
  BY <1>17, <1>18 DEF KeepBlock
<1>19. ASSUME NEW m \in Units, SkipBlock(m)
       PROVE  OpInv'
  BY <1>17, <1>19 DEF SkipBlock
<1>20. CASE SkipCancelled
  BY <1>17, <1>20 DEF SkipCancelled
<1> QED BY <1>1, <1>2, <1>3, <1>4, <1>5, <1>6, <1>7, <1>8, <1>9, <1>10, <1>11, <1>12,
           <1>14, <1>15, <1>16, <1>18, <1>19, <1>20 DEF Application, Client

(* The daemon leaves the client's operation alone. *)
LEMMA DaemonLeaves ==
  ASSUME Backend \/ Channel \/ ForceClose \/ SetBlockRequests
  PROVE  UNCHANGED <<op, cancelled, streamVars, histVars>> /\ (shut' = shut \/ shut')
BY DEF Backend, Channel, ReadDone, SeekDone, QueryOrCloseDone, JobFails, GotRequest, SendReplyCb,
       ForceClose, SetBlockRequests

(* The daemon cannot disturb the client's operation; a forced close only   *)
(* releases the buffer.                                                    *)
LEMMA DaemonOp ==
  ASSUME RInv, Backend \/ Channel \/ ForceClose \/ SetBlockRequests PROVE OpInv'
<1>1. /\ UNCHANGED <<op, cancelled, seqNr, pre, block, out, closed>>
      /\ shut' = shut \/ shut'
  BY DaemonLeaves DEF streamVars, histVars
<1> QED BY <1>1 DEF RInv, OpInv, OutInv, Unsent

-----------------------------------------------------------------------------
(* The channel.                                                            *)

(* The client leaves the daemon alone, and the socket but for the ends it  *)
(* writes to and reads from.                                               *)
LEMMA ClientLeaves ==
  ASSUME Application \/ Client
  PROVE  /\ UNCHANGED daemonVars
         /\ WriteRequest \/ c2d' = c2d
         /\ ReadHeader \/ d2c' = d2c
<1> USE DEF streamVars, histVars
<1>1. CASE Application
  BY <1>1 DEF Application, ReadFromPre, ReadFromBlock, SendRead, SendSeek, SendQuery, SendClose,
              RequestCancel
<1>2. CASE Client
  BY <1>2 DEF Client, CancelUnsent, WriteRequest, StreamError, SendCancel, HandleInput, ReadHeader,
              ReadBlockCancelled, SkipCancelled, ReadBlock, KeepBlock, SkipBlock
<1> QED BY <1>1, <1>2

(* What a job turns into when it has its answer *)
LEMMA AnsweredFacts ==
  ASSUME TypeOK, Backend
  PROVE  /\ job.st = "work" /\ job'.st = "reply" /\ job'.kind = job.kind
         /\ job'.arg = job.arg /\ job'.seq = job.seq
         /\ UNCHANGED <<shut, queue, c2d, dgen>>
<1>1. job \in ChannelJob
  BY DEF TypeOK
<1>2. ASSUME NEW n \in Units, ReadDone(n)
      PROVE  /\ job'.st = "reply" /\ job'.kind = job.kind /\ job'.arg = job.arg /\ job'.seq = job.seq
  BY <1>1, <1>2 DEF ReadDone, ChannelJob
<1>3. ASSUME job' = [job EXCEPT !.st = "reply"]
      PROVE  /\ job'.st = "reply" /\ job'.kind = job.kind /\ job'.arg = job.arg /\ job'.seq = job.seq
  BY <1>1, <1>3 DEF ChannelJob
<1> QED BY <1>2, <1>3 DEF Backend, ReadDone, SeekDone, QueryOrCloseDone, JobFails

(* The client sends only what the channel can work on. *)
LEMMA ClientChannel ==
  ASSUME RInv, Application \/ Client PROVE ChannelInv'
<1>1. CASE WriteRequest
  <2>1. /\ UNCHANGED <<shut, queue, job>> /\ ~shut
    BY <1>1 DEF WriteRequest, daemonVars
  <2>2. TypeOK /\ OpInv /\ ChannelInv
    BY DEF RInv
  <2>3. ASSUME NEW i \in DOMAIN c2d'
        PROVE  /\ c2d'[i].cmd = "seek" => c2d'[i].arg \in Units
               /\ c2d'[i].cmd = "attrs" => c2d'[i].seq = 0
    <3>1. CASE i \in DOMAIN c2d
      <4>1. c2d'[i] = c2d[i]
        BY <1>1, <2>2, <3>1, WrittenFacts
      <4> QED BY <2>2, <3>1, <4>1 DEF ChannelInv
    <3>2. CASE i \notin DOMAIN c2d
      <4>1. op.kind = "seek" => op.arg \in Units
        BY <2>2 DEF OpInv
      <4>2. op.kind # "attrs"
        BY <2>2 DEF TypeOK, Operations, OpKinds
      <4> QED BY <1>1, <2>2, <2>3, <3>2, <4>1, <4>2, WrittenFacts
    <3> QED BY <3>1, <3>2
  <2> QED BY <2>1, <2>2, <2>3 DEF ChannelInv
<1>2. CASE ~WriteRequest
  <2>1. UNCHANGED <<shut, queue, job, c2d>>
    BY <1>2, ClientLeaves DEF daemonVars
  <2> QED BY <2>1 DEF RInv, ChannelInv
<1> QED BY <1>1, <1>2

(* start_queued_request keeps ChannelInv. *)
LEMMA StartedChannel ==
  ASSUME TypeOK, ChannelInv, NEW q \in Seq(Queued), q # << >>, StartQueued(q), ~shut, shut' = shut,
         \A i \in DOMAIN q : q[i].cmd = "seek" => q[i].arg \in Units,
         \A i \in DOMAIN c2d' : \E k \in DOMAIN c2d : c2d'[i] = c2d[k]
  PROVE  ChannelInv'
<1>1. job'.kind \notin {"none", "gone"}
  BY StartedFacts DEF OpKinds
<1> QED BY <1>1, StartedFacts DEF ChannelInv

(* The daemon keeps ChannelInv. *)
LEMMA DaemonChannel ==
  ASSUME RInv, Backend \/ Channel \/ ForceClose \/ SetBlockRequests PROVE ChannelInv'
<1>0. TypeOK /\ ChannelInv /\ job \in ChannelJob
  BY DEF RInv, TypeOK
<1>1. CASE Backend
  BY <1>0, <1>1, AnsweredFacts DEF ChannelInv
<1>2. CASE GotRequest
  <2> DEFINE r == Head(c2d)
             e == [cmd |-> r.cmd, seq |-> r.seq, arg |-> r.arg, cancelled |-> FALSE]
  <2>1. /\ ~shut /\ shut' = shut /\ r = c2d[1] /\ 1 \in DOMAIN c2d
        /\ \A i \in DOMAIN c2d' : \E k \in DOMAIN c2d : c2d'[i] = c2d[k]
    BY <1>0, <1>2, TakenFacts DEF GotRequest
  <2>2. CASE /\ r.cmd = "cancel" /\ job' = [job EXCEPT !.cancelled = TRUE]
             /\ UNCHANGED <<queue, dgen, readCount>>
    <3>1. job'.st = job.st /\ job'.kind = job.kind /\ job'.arg = job.arg
      BY <1>0, <2>2 DEF ChannelJob
    <3> QED BY <1>0, <2>1, <2>2, <3>1 DEF ChannelInv
  <2>3. CASE /\ r.cmd = "cancel" /\ queue' = MarkCancelled(r.arg)
             /\ UNCHANGED <<job, dgen, readCount>>
    BY <1>0, <2>1, <2>3, MarkedFacts DEF ChannelInv
  <2>4. CASE r.cmd # "cancel"
    <3>1. e \in Queued /\ queue \in Seq(Queued)
      <4>1. c2d[1] \in Messages /\ queue \in Seq(Queued)
        BY <1>0, <2>1 DEF TypeOK
      <4> QED BY <2>1, <2>4, <4>1 DEF Messages, Queued
    <3>2. e.cmd = "seek" => e.arg \in Units
      <4>1. c2d[1].cmd = "seek" => c2d[1].arg \in Units
        BY <1>0, <2>1 DEF ChannelInv
      <4>2. e.cmd = r.cmd /\ e.arg = r.arg
        OBVIOUS
      <4> QED BY <2>1, <4>1, <4>2
    <3>3. Enqueue(e) = Append(queue, e)
      BY DEF Enqueue
    <3>4. job.kind = "none" => StartQueued(Enqueue(e))
      BY <1>2, <2>4 DEF GotRequest
    <3>5. job.kind # "none" => queue' = Enqueue(e) /\ UNCHANGED <<job, dgen, readCount>>
      BY <1>2, <2>4 DEF GotRequest
    <3> HIDE DEF r, e
    <3>6. /\ Enqueue(e) \in Seq(Queued) /\ Enqueue(e) # << >>
          /\ \A i \in DOMAIN Enqueue(e) : Enqueue(e)[i].cmd = "seek" => Enqueue(e)[i].arg \in Units
      <4>1. /\ Append(queue, e) \in Seq(Queued) /\ DOMAIN Append(queue, e) = 1 .. Len(queue) + 1
            /\ \A i \in DOMAIN queue : Append(queue, e)[i] = queue[i]
            /\ Append(queue, e)[Len(queue) + 1] = e
        BY <3>1, AppendFacts
      <4>2. Append(queue, e) # << >> /\ DOMAIN queue = 1 .. Len(queue) /\ Len(queue) \in Nat
        BY <3>1
      <4>3. \A i \in 1 .. Len(queue) + 1 : i \in 1 .. Len(queue) \/ i = Len(queue) + 1
        BY <4>2
      <4> QED BY <1>0, <3>2, <3>3, <4>1, <4>2, <4>3 DEF ChannelInv
    <3>7. CASE job.kind = "none"
      BY <1>0, <2>1, <3>4, <3>6, <3>7, StartedChannel
    <3>8. CASE job.kind # "none"
      BY <1>0, <2>1, <3>5, <3>6, <3>8 DEF ChannelInv
    <3> QED BY <3>7, <3>8
  <2> QED BY <1>2, <2>2, <2>3, <2>4 DEF GotRequest
<1>3. CASE SendReplyCb
  <2>1. shut' = shut /\ c2d' = c2d
    BY <1>3 DEF SendReplyCb
  <2>2. CASE job' = [NoJob EXCEPT !.kind = "gone"] /\ UNCHANGED <<queue, dgen, readCount>>
    <3>1. job'.st = "idle" /\ job'.kind = "gone"
      BY <2>2 DEF NoJob
    <3> QED BY <1>0, <2>1, <2>2, <3>1 DEF ChannelInv
  <2>3. CASE ~shut /\ queue # << >> /\ StartQueued(queue)
    <3>1. queue \in Seq(Queued)
      BY <1>0 DEF TypeOK
    <3>2. \A i \in DOMAIN queue : queue[i].cmd = "seek" => queue[i].arg \in Units
      BY <1>0 DEF ChannelInv
    <3> QED BY <1>0, <2>1, <2>3, <3>1, <3>2, StartedChannel
  <2>4. CASE /\ readCount' = 3 /\ job' = NewJob("read", 0, ModifyReadSize(3, 2))
             /\ UNCHANGED <<queue, dgen>>
    <3>1. ModifyReadSize(3, 2) \in Nat \ {0}
      BY ReadSizePositive
    <3>2. job'.kind = "read" /\ job'.arg = ModifyReadSize(3, 2)
      BY <2>4 DEF NewJob, NoJob
    <3>3. job'.arg > 0
      BY <3>1, <3>2
    <3> QED BY <1>0, <2>1, <2>4, <3>2, <3>3 DEF ChannelInv
  <2>5. CASE StopAfterReply
    <3>1. job'.st = "idle" /\ job'.kind = "none" /\ queue' = queue
      BY <2>5 DEF NoJob, StopAfterReply
    <3> QED BY <1>0, <2>1, <3>1 DEF ChannelInv
  <2> QED BY <1>3, <2>2, <2>3, <2>4, <2>5 DEF SendReplyCb
<1>4. CASE ForceClose
  <2>1. /\ queue' = << >> /\ c2d' = << >> /\ job'.st = job.st /\ job'.kind = job.kind
        /\ job'.arg = job.arg
    BY <1>0, <1>4 DEF ForceClose, ChannelJob
  <2>2. DOMAIN << >> = {}
    OBVIOUS
  <2> QED BY <1>0, <2>1, <2>2 DEF ChannelInv
<1>5. CASE SetBlockRequests
  BY <1>0, <1>5 DEF SetBlockRequests, ChannelInv
<1> QED BY <1>1, <1>2, <1>3, <1>4, <1>5 DEF Channel

-----------------------------------------------------------------------------
(* The order of the pipeline.                                              *)

(* Sequence numbers are never given out twice. *)
LEMMA BoundGrows ==
  ASSUME RInv, OpInv', TypeOK', Application \/ Client
  PROVE  Bound \in Nat /\ Bound' \in Nat /\ Bound <= Bound'
<1> USE DEF streamVars, histVars, daemonVars
<1>0. /\ op \in Operations /\ op.seq \in Nat /\ seqNr \in Nat \ {0} /\ OpInv
  BY DEF RInv, TypeOK, Operations
<1>1. op' \in Operations /\ op'.seq \in Nat /\ seqNr' \in Nat \ {0}
  BY DEF TypeOK, Operations
<1>2. Bound \in Nat /\ Bound' \in Nat
  BY <1>0, <1>1 DEF Bound
<1>3. Unsent => seqNr = op.seq + 1
  BY <1>0 DEF OpInv
<1>4. CASE UNCHANGED <<op, seqNr>>
  BY <1>2, <1>4 DEF Bound, Unsent
<1>5. ASSUME NEW k, NEW a, Begin(k, a), Idle
      PROVE  Bound <= Bound'
  <2>1. op.st = "idle" /\ op'.seq = seqNr /\ op'.st = "send" /\ op'.sentCancel = FALSE
    BY <1>0, <1>5 DEF Begin, Idle, OpInv
  <2> QED BY <1>0, <2>1 DEF Bound, Unsent
<1>6. ASSUME ~Unsent', Unsent => seqNr' >= op.seq, ~Unsent => seqNr' >= seqNr
      PROVE  Bound <= Bound'
  BY <1>0, <1>1, <1>6 DEF Bound
<1>7. op' = NoOp => ~Unsent'
  BY DEF NoOp, Unsent
<1>8. \A x \in {"input", "header", "block"} : op' = [op EXCEPT !.st = x] => ~Unsent'
  BY <1>0 DEF Operations, Unsent
<1>9. CASE Application
  <2>1. ASSUME NEW n \in ReadSizes, ReadFromBlock(n)
        PROVE  Bound <= Bound'
    <3>1. op'.st = "early" /\ op.st = "idle" /\ seqNr' = seqNr
      BY <1>0, <2>1 DEF ReadFromBlock, NoOp, NewOp, Idle, OpInv
    <3> QED BY <1>0, <1>6, <3>1 DEF Unsent
  <2> QED BY <1>2, <1>4, <1>5, <1>9, <2>1
          DEF Application, ReadFromPre, SendRead, SendSeek, SendQuery, SendClose, RequestCancel, NewOp
<1>10. CASE CancelUnsent
  <2>1. op' = NoOp /\ seqNr' = seqNr - 1 /\ Unsent
    BY <1>10 DEF CancelUnsent, FinishFailed, Finish, Unsent
  <2>2. seqNr' = op.seq /\ ~Unsent'
    BY <1>0, <1>3, <1>7, <2>1
  <2> QED BY <1>0, <2>1, <2>2 DEF Bound
<1>11. CASE SendCancel
  <2>1. op'.sentCancel = TRUE /\ seqNr' = seqNr + 1 /\ op.st = "input"
    BY <1>0, <1>11 DEF SendCancel, Operations
  <2>2. ~Unsent' /\ ~Unsent
    BY <2>1 DEF Unsent
  <2> QED BY <1>0, <2>1, <2>2 DEF Bound
<1>12. ASSUME seqNr' = seqNr, ~Unsent'
       PROVE  Bound <= Bound'
  BY <1>0, <1>3, <1>12 DEF Bound
<1>13. CASE Client /\ seqNr' = seqNr /\ ~UNCHANGED <<op, seqNr>>
  <2>1. op' = NoOp \/ \E x \in {"input", "header", "block"} : op' = [op EXCEPT !.st = x]
    <3>1. CASE CancelUnsent \/ SendCancel
      BY <1>0, <1>13, <3>1 DEF CancelUnsent, SendCancel, FinishFailed, Finish
    <3>2. CASE HandleInput
      BY <3>2 DEF HandleInput
    <3> QED BY <1>13, <3>1, <3>2 DEF Client, WriteRequest, StreamError, ReadHeader, ReadBlockCancelled,
            SkipCancelled, ReadBlock, KeepBlock, SkipBlock, FinishFailed, Finish
  <2>2. ~Unsent'
    BY <1>7, <1>8, <2>1
  <2> QED BY <1>2, <1>12, <1>13, <2>2
<1>14. Client => CancelUnsent \/ SendCancel \/ seqNr' = seqNr
  BY DEF Client, WriteRequest, StreamError, HandleInput,
       ReadHeader, ReadBlockCancelled, SkipCancelled, ReadBlock, KeepBlock, SkipBlock
<1> QED BY <1>2, <1>4, <1>9, <1>10, <1>11, <1>13, <1>14

(* The numbers in the stages are natural numbers. *)
LEMMA StageTypes ==
  ASSUME TypeOK
  PROVE  /\ \A i \in DOMAIN d2c : i \in Nat /\ d2c[i] \in Replies /\ d2c[i].seq \in Nat
                                  /\ d2c[i].gen \in Nat
         /\ \A i \in DOMAIN queue : i \in Nat /\ queue[i].seq \in Nat
         /\ \A i \in DOMAIN c2d : i \in Nat /\ c2d[i].seq \in Nat /\ Asked(c2d[i]) \in Nat
         /\ job.seq \in Nat /\ op.seq \in Nat
<1>1. /\ d2c \in Seq(Replies) /\ queue \in Seq(Queued) /\ c2d \in Seq(Messages)
      /\ job \in ChannelJob /\ op \in Operations
  BY DEF TypeOK
<1>2. \A i \in DOMAIN d2c : i \in Nat /\ d2c[i] \in Replies
  BY <1>1
<1>3. \A i \in DOMAIN queue : i \in Nat /\ queue[i] \in Queued
  BY <1>1
<1>4. \A i \in DOMAIN c2d : i \in Nat /\ c2d[i] \in Messages
  BY <1>1
<1>5. \A i \in DOMAIN d2c : d2c[i].seq \in Nat /\ d2c[i].gen \in Nat
  BY <1>2 DEF Replies
<1>6. \A i \in DOMAIN queue : queue[i].seq \in Nat
  BY <1>3 DEF Queued
<1>7. \A i \in DOMAIN c2d : c2d[i].seq \in Nat /\ Asked(c2d[i]) \in Nat
  BY <1>4 DEF Messages, Asked
<1>8. job.seq \in Nat /\ op.seq \in Nat
  BY <1>1 DEF ChannelJob, Operations
<1> QED BY <1>2, <1>3, <1>4, <1>5, <1>6, <1>7, <1>8

(* The client sends in the order it asked and consumes replies from the    *)
(* front.                                                                  *)
LEMMA ClientOrder ==
  ASSUME RInv, OpInv', TypeOK', Application \/ Client PROVE OrderInv'
<1>0. TypeOK /\ OpInv /\ OrderInv
  BY DEF RInv
<1>1. Bound \in Nat /\ Bound' \in Nat /\ Bound <= Bound'
  BY BoundGrows
<1>2. UNCHANGED <<queue, job>>
  BY ClientLeaves DEF daemonVars
<1> HIDE DEF Bound
<1>3. CASE WriteRequest
  <2>1. d2c' = d2c
    BY <1>3 DEF WriteRequest
  <2>2. /\ DOMAIN c2d \subseteq DOMAIN c2d' /\ \A i \in DOMAIN c2d : c2d'[i] = c2d[i]
        /\ \A i \in DOMAIN c2d' \ DOMAIN c2d : \A k \in DOMAIN c2d : k < i
    BY <1>0, <1>3, WrittenFacts
  <2>3. \A i \in DOMAIN c2d' \ DOMAIN c2d :
          Asked(c2d'[i]) # 0 => Unsent /\ i = Len(c2d) + 1 /\ Asked(c2d'[i]) = op.seq
    <3>1. \A c, n, a : Asked([cmd |-> c, seq |-> n, arg |-> a]) \in {0, n}
      BY DEF Asked
    <3>2. ~op.sentCancel => Unsent
      BY <1>3 DEF WriteRequest, Unsent
    <3> QED BY <1>0, <1>3, <3>1, <3>2, WrittenFacts DEF Asked
  <2>4. Unsent => Bound = op.seq /\ Bound' = op.seq + 1
    <3>1. ~Unsent'
      BY <1>0, <1>3 DEF WriteRequest, Unsent, TypeOK, Operations
    <3> QED BY <1>0, <1>3, <3>1 DEF Bound, OpInv, WriteRequest
  <2>5. \A i \in DOMAIN c2d' : i \in Nat /\ Asked(c2d'[i]) \in Nat
    <3>1. c2d' \in Seq(Messages)
      BY DEF TypeOK
    <3>2. \A i \in DOMAIN c2d' : i \in Nat /\ c2d'[i] \in Messages
      BY <3>1
    <3> QED BY <3>2 DEF Messages, Asked
  <2>6. op.seq > 0 \/ ~Unsent
    BY <1>0 DEF OpInv
  <2>9. Bound' > 0
    BY <1>3 DEF Bound, TypeOK, OpInv
  <2> HIDE DEF Bound, Unsent, Asked
  <2>7. /\ \A i, k \in DOMAIN c2d' : i < k => Before(Asked(c2d'[i]), Asked(c2d'[k]))
        /\ \A i \in DOMAIN c2d' : Asked(c2d'[i]) < Bound'
    <3>1. ASSUME NEW i \in DOMAIN c2d', NEW k \in DOMAIN c2d', i < k
          PROVE  Before(Asked(c2d'[i]), Asked(c2d'[k]))
      <4>1. CASE i \in DOMAIN c2d /\ k \in DOMAIN c2d
        BY <1>0, <2>2, <3>1, <4>1 DEF OrderInv
      <4>2. CASE i \in DOMAIN c2d /\ k \notin DOMAIN c2d
        <5>1. Asked(c2d[i]) < Bound /\ c2d'[i] = c2d[i]
          BY <1>0, <2>2, <4>2 DEF OrderInv
        <5> QED BY <2>3, <2>4, <4>2, <5>1 DEF Before
      <4>3. CASE i \notin DOMAIN c2d /\ k \in DOMAIN c2d
        BY <2>2, <2>5, <3>1, <4>3
      <4>4. CASE i \notin DOMAIN c2d /\ k \notin DOMAIN c2d
        BY <2>3, <2>5, <3>1, <4>4 DEF Before
      <4> QED BY <4>1, <4>2, <4>3, <4>4
    <3>2. ASSUME NEW i \in DOMAIN c2d'
          PROVE  Asked(c2d'[i]) < Bound'
      <4>1. CASE i \in DOMAIN c2d
        <5>1. Asked(c2d[i]) < Bound /\ c2d'[i] = c2d[i] /\ Asked(c2d[i]) \in Nat
          BY <1>0, <2>2, <4>1, StageTypes DEF OrderInv
        <5> QED BY <1>1, <5>1
      <4>2. CASE i \notin DOMAIN c2d
        <5>1. op.seq \in Nat /\ Bound' > 0
          BY <1>0, <2>9, StageTypes
        <5> QED BY <1>1, <2>3, <2>4, <2>5, <4>2, <5>1
      <4> QED BY <4>1, <4>2
    <3> QED BY <3>1, <3>2
  <2>8. /\ \A i \in DOMAIN d2c : \A k \in DOMAIN c2d' : Before(d2c[i].seq, Asked(c2d'[k]))
        /\ job.st = "work" => \A k \in DOMAIN c2d' : Before(job.seq, Asked(c2d'[k]))
        /\ \A i \in DOMAIN queue, k \in DOMAIN c2d' : Before(queue[i].seq, Asked(c2d'[k]))
    BY <1>0, <1>1, <2>2, <2>3, <2>4, <2>5, <2>6, StageTypes DEF OrderInv, Before
  <2> QED BY <1>0, <1>1, <1>2, <2>1, <2>7, <2>8, StageTypes DEF OrderInv
<1>4. CASE ReadHeader
  <2>1. c2d' = c2d /\ d2c' = Tail(d2c) /\ d2c # << >> /\ d2c \in Seq(Replies)
    BY <1>0, <1>4 DEF ReadHeader, TypeOK
  <2>2. \A i \in DOMAIN d2c' : i + 1 \in DOMAIN d2c /\ d2c'[i] = d2c[i + 1]
    BY <2>1, TailFacts
  <2>3. \A i \in DOMAIN d2c' : i \in Nat
    BY <2>1
  <2> QED BY <1>0, <1>1, <1>2, <2>1, <2>2, <2>3, StageTypes DEF OrderInv, Before
<1>5. CASE ~WriteRequest /\ ~ReadHeader
  <2>1. c2d' = c2d /\ d2c' = d2c
    BY <1>5, ClientLeaves
  <2> QED BY <1>0, <1>1, <1>2, <2>1, StageTypes DEF OrderInv, Before
<1> QED BY <1>3, <1>4, <1>5

(* Whatever the backend does to finish a job is one reply. *)
LEMMA BackendReplies ==
  ASSUME RInv, Backend
  PROVE  \E t \in {"data", "error", "seekpos", "info", "closed"}, s \in Units, n \in Units :
           Reply(t, s, n)
<1>0. 0 \in Units /\ bpos \in Units
  BY StreamAssumption DEF Units, RInv, TypeOK
<1>1. ASSUME NEW n \in Units, ReadDone(n)
      PROVE  Reply("data", bpos, n)
  BY <1>1 DEF ReadDone
<1>2. SeekDone => Reply("seekpos", job.arg, 0) /\ job.arg \in Units
  BY DEF SeekDone, RInv, ChannelInv
<1>3. QueryOrCloseDone => Reply("info", 0, 0) \/ Reply("closed", 0, 0)
  <2>1. Success["query"] = "info" /\ Success["close"] = "closed"
    BY DEF Success
  <2> QED BY <2>1 DEF QueryOrCloseDone
<1>4. JobFails => Reply("error", 0, 0)
  BY DEF JobFails
<1> QED BY <1>0, <1>1, <1>2, <1>3, <1>4 DEF Backend

(* The first request of the queue becomes the job, the others stay. *)
LEMMA StartedOrder ==
  ASSUME TypeOK, OrderInv, NEW q \in Seq(Queued), q # << >>, StartQueued(q), job.st # "work",
         d2c' = d2c, Bound' = Bound, Bound \in Nat,
         \A i, k \in DOMAIN q : i < k => Before(q[i].seq, q[k].seq),
         \A i \in DOMAIN d2c, k \in DOMAIN q : Before(d2c[i].seq, q[k].seq),
         \A i \in DOMAIN q, k \in DOMAIN c2d' : Before(q[i].seq, Asked(c2d'[k])),
         \A i \in DOMAIN q : q[i].seq < Bound,
         \A i \in DOMAIN c2d' : \E k \in DOMAIN c2d : c2d'[i] = c2d[k],
         \A i, j \in DOMAIN c2d' : i < j => \E k, l \in DOMAIN c2d :
              k < l /\ c2d'[i] = c2d[k] /\ c2d'[j] = c2d[l]
  PROVE  OrderInv'
<1>1. /\ 1 \in DOMAIN q /\ job'.seq = q[1].seq /\ job'.st = "work"
      /\ \A i \in DOMAIN queue' : i + 1 \in DOMAIN q /\ queue'[i] = q[i + 1]
  BY StartedFacts
<1>2. \A i \in DOMAIN queue' : i \in Nat /\ i + 1 > 1
  <2>1. queue' \in Seq(Queued)
    BY StartQueuedTypes
  <2>2. DOMAIN queue' = 1 .. Len(queue') /\ Len(queue') \in Nat
    BY <2>1
  <2>3. \A i \in 1 .. Len(queue') : i \in Nat /\ i + 1 > 1
    BY <2>2
  <2> QED BY <2>2, <2>3
<1> HIDE DEF Bound, Asked
<1>3. /\ \A i, k \in DOMAIN c2d' : i < k => Before(Asked(c2d'[i]), Asked(c2d'[k]))
      /\ \A i \in DOMAIN d2c', k \in DOMAIN c2d' : Before(d2c'[i].seq, Asked(c2d'[k]))
      /\ \A i \in DOMAIN c2d' : Asked(c2d'[i]) < Bound'
  BY DEF OrderInv
<1>4. /\ \A i, k \in DOMAIN queue' : i < k => Before(queue'[i].seq, queue'[k].seq)
      /\ \A i \in DOMAIN d2c', k \in DOMAIN queue' : Before(d2c'[i].seq, queue'[k].seq)
      /\ \A i \in DOMAIN queue', k \in DOMAIN c2d' : Before(queue'[i].seq, Asked(c2d'[k]))
      /\ \A i \in DOMAIN queue' : queue'[i].seq < Bound'
  <2>1. \A i, k \in DOMAIN queue' : i < k => i + 1 < k + 1
    BY <1>2
  <2> QED BY <1>1, <2>1
<1>5. /\ \A i \in DOMAIN d2c' : Before(d2c'[i].seq, job'.seq)
      /\ \A k \in DOMAIN queue' : Before(job'.seq, queue'[k].seq)
      /\ \A k \in DOMAIN c2d' : Before(job'.seq, Asked(c2d'[k]))
      /\ job'.seq < Bound'
  BY <1>1, <1>2
<1>6. /\ \A i, k \in DOMAIN d2c' : i < k => Before(d2c'[i].seq, d2c'[k].seq)
      /\ \A i \in DOMAIN d2c' : d2c'[i].seq < Bound'
  BY DEF OrderInv
<1> QED BY <1>3, <1>4, <1>5, <1>6 DEF OrderInv

(* The daemon moves requests from stage to stage without overtaking. *)
LEMMA DaemonOrder ==
  ASSUME RInv, Backend \/ Channel \/ ForceClose \/ SetBlockRequests PROVE OrderInv'
<1>0. TypeOK /\ ChannelInv /\ OrderInv /\ job \in ChannelJob
  BY DEF RInv, TypeOK
<1>1. Bound' = Bound /\ Bound \in Nat
  <2>1. UNCHANGED <<op, seqNr>>
    BY DaemonLeaves DEF streamVars
  <2>2. op.seq \in Nat /\ seqNr \in Nat
    BY <1>0 DEF TypeOK, Operations
  <2> QED BY <2>1, <2>2 DEF Bound, Unsent
<1> HIDE DEF Bound, Asked
<1>2. CASE Backend
  <2>1. job.st = "work" /\ job'.st = "reply" /\ UNCHANGED <<shut, queue, c2d>>
    BY <1>0, <1>2, AnsweredFacts
  <2>2. PICK t \in {"data", "error", "seekpos", "info", "closed"}, s \in Units, n \in Units :
           Reply(t, s, n)
    BY <1>2, BackendReplies
  <2>3. CASE shut
    <3>1. d2c' = d2c
      BY <2>2, <2>3 DEF Reply
    <3> QED BY <1>0, <1>1, <2>1, <3>1 DEF OrderInv
  <2>4. CASE ~shut
    <3>1. /\ DOMAIN d2c = 1 .. Len(d2c) /\ Len(d2c) \in Nat
          /\ DOMAIN d2c' = 1 .. Len(d2c) + 1
          /\ \A i \in DOMAIN d2c : d2c'[i] = d2c[i]
          /\ d2c'[Len(d2c) + 1].seq = job.seq
      <4> DEFINE x == [type |-> t, seq |-> job.seq, start |-> s, len |-> n, gen |-> dgen]
      <4>1. x.seq = job.seq
        OBVIOUS
      <4>2. d2c'[Len(d2c) + 1] = x
        BY <1>0, <2>2, <2>4, RepliedFacts
      <4> HIDE DEF x
      <4>3. d2c'[Len(d2c) + 1].seq = job.seq
        BY <4>1, <4>2
      <4>4. /\ DOMAIN d2c = 1 .. Len(d2c) /\ Len(d2c) \in Nat
            /\ DOMAIN d2c' = 1 .. Len(d2c) + 1
            /\ \A i \in DOMAIN d2c : d2c'[i] = d2c[i]
        BY <1>0, <2>2, <2>4, RepliedFacts
      <4> QED BY <4>3, <4>4
    <3>2. \A i \in DOMAIN d2c' : i \in Nat /\ (i \in DOMAIN d2c \/ i = Len(d2c) + 1)
      BY <3>1
    <3>3. \A i \in DOMAIN d2c : i \in Nat /\ i < Len(d2c) + 1
      BY <3>1
    <3>4. \A i, k \in DOMAIN d2c' : i < k => Before(d2c'[i].seq, d2c'[k].seq)
      BY <1>0, <2>1, <3>1, <3>2, <3>3 DEF OrderInv
    <3> QED BY <1>0, <1>1, <2>1, <3>1, <3>2, <3>4 DEF OrderInv
  <2> QED BY <2>3, <2>4
<1>3. CASE GotRequest
  <2> DEFINE r == Head(c2d)
             e == [cmd |-> r.cmd, seq |-> r.seq, arg |-> r.arg, cancelled |-> FALSE]
  <2>1. /\ d2c' = d2c /\ r = c2d[1] /\ 1 \in DOMAIN c2d
        /\ \A i \in DOMAIN c2d' : \E k \in DOMAIN c2d : c2d'[i] = c2d[k]
        /\ \A i, j \in DOMAIN c2d' : i < j => \E k, l \in DOMAIN c2d :
              k < l /\ c2d'[i] = c2d[k] /\ c2d'[j] = c2d[l]
    <3>1. d2c' = d2c
      BY <1>3 DEF GotRequest
    <3>2. r = c2d[1] /\ 1 \in DOMAIN c2d
      BY <1>0, <1>3, TakenFacts
    <3>3. \A i \in DOMAIN c2d' : \E k \in DOMAIN c2d : k > i /\ c2d'[i] = c2d[k]
      BY <1>0, <1>3, TakenFacts
    <3>4. \A i, j \in DOMAIN c2d' : i < j => \E k, l \in DOMAIN c2d :
              1 < k /\ k < l /\ c2d'[i] = c2d[k] /\ c2d'[j] = c2d[l]
      BY <1>0, <1>3, TakenFacts
    <3> HIDE DEF r
    <3>5. \A i \in DOMAIN c2d' : \E k \in DOMAIN c2d : c2d'[i] = c2d[k]
      BY <3>3
    <3>6. \A i, j \in DOMAIN c2d' : i < j => \E k, l \in DOMAIN c2d :
              k < l /\ c2d'[i] = c2d[k] /\ c2d'[j] = c2d[l]
      BY <3>4
    <3> QED BY <3>1, <3>2, <3>5, <3>6
  <2>2. CASE /\ r.cmd = "cancel" /\ job' = [job EXCEPT !.cancelled = TRUE]
             /\ UNCHANGED <<queue, dgen, readCount>>
    <3>1. job'.st = job.st /\ job'.seq = job.seq
      BY <1>0, <2>2 DEF ChannelJob
    <3> QED BY <1>0, <1>1, <2>1, <2>2, <3>1 DEF OrderInv
  <2>3. CASE /\ r.cmd = "cancel" /\ queue' = MarkCancelled(r.arg)
             /\ UNCHANGED <<job, dgen, readCount>>
    <3>1. DOMAIN queue' = DOMAIN queue /\ \A i \in DOMAIN queue : queue'[i].seq = queue[i].seq
      BY <1>0, <2>3, MarkedFacts
    <3> QED BY <1>0, <1>1, <2>1, <2>3, <3>1 DEF OrderInv
  <2>4. CASE r.cmd # "cancel"
    <3>1. e \in Queued /\ queue \in Seq(Queued)
      <4>1. c2d[1] \in Messages /\ queue \in Seq(Queued)
        BY <1>0, <2>1 DEF TypeOK
      <4> QED BY <2>1, <2>4, <4>1 DEF Messages, Queued
    <3>2. e.seq = Asked(c2d[1])
      <4>1. c2d[1].cmd = "attrs" => c2d[1].seq = 0
        BY <1>0, <2>1 DEF ChannelInv
      <4> QED BY <2>1, <2>4, <4>1 DEF Asked
    <3>3. Enqueue(e) = Append(queue, e)
      BY DEF Enqueue
    <3>4. job.kind = "none" => StartQueued(Enqueue(e))
      BY <1>3, <2>4 DEF GotRequest
    <3>5. job.kind # "none" => queue' = Enqueue(e) /\ UNCHANGED <<job, dgen, readCount>>
      BY <1>3, <2>4 DEF GotRequest
    <3> DEFINE q == Append(queue, e)
    <3> HIDE DEF r, e
    <3>6. /\ q \in Seq(Queued) /\ q # << >>
          /\ DOMAIN q = 1 .. Len(queue) + 1 /\ DOMAIN queue = 1 .. Len(queue) /\ Len(queue) \in Nat
          /\ \A i \in DOMAIN queue : q[i] = queue[i]
          /\ q[Len(queue) + 1] = e
      <4>1. DOMAIN queue = 1 .. Len(queue) /\ Len(queue) \in Nat /\ q # << >>
        BY <3>1
      <4> QED BY <3>1, <4>1, AppendFacts
    <3> HIDE DEF q
    <3>7. \A i \in DOMAIN q : i \in DOMAIN queue \/ i = Len(queue) + 1
      BY <3>6
    <3>8. \A i, k \in DOMAIN q : i < k => i \in DOMAIN queue
      BY <3>6
    <3>9. \A k \in DOMAIN c2d' : Before(Asked(c2d[1]), Asked(c2d'[k]))
      <4>1. \A k \in DOMAIN c2d' : \E l \in DOMAIN c2d : l > 1 /\ c2d'[k] = c2d[l]
        <5>1. \A k \in DOMAIN c2d' : \E l \in DOMAIN c2d : l > k /\ c2d'[k] = c2d[l]
          BY <1>0, <1>3, TakenFacts
        <5>2. \A k \in DOMAIN c2d' : k \in Nat /\ k >= 1
          <6>1. c2d' \in Seq(Messages)
            BY DaemonTypes DEF TypeOK
          <6> QED BY <6>1
        <5>3. \A l \in DOMAIN c2d : l \in Nat
          BY <1>0, StageTypes
        <5> QED BY <5>1, <5>2, <5>3
      <4> QED BY <1>0, <2>1, <4>1 DEF OrderInv
    <3>10. /\ \A i, k \in DOMAIN q : i < k => Before(q[i].seq, q[k].seq)
           /\ \A i \in DOMAIN d2c, k \in DOMAIN q : Before(d2c[i].seq, q[k].seq)
           /\ \A i \in DOMAIN q, k \in DOMAIN c2d' : Before(q[i].seq, Asked(c2d'[k]))
           /\ \A i \in DOMAIN q : q[i].seq < Bound
           /\ job.st = "work" => \A k \in DOMAIN q : Before(job.seq, q[k].seq)
      <4>1. \A i, k \in DOMAIN q : i < k => Before(q[i].seq, q[k].seq)
        BY <1>0, <2>1, <3>2, <3>6, <3>7, <3>8 DEF OrderInv
      <4>2. \A i \in DOMAIN q, k \in DOMAIN c2d' : Before(q[i].seq, Asked(c2d'[k]))
        BY <1>0, <2>1, <3>2, <3>6, <3>7, <3>9 DEF OrderInv
      <4>3. /\ \A i \in DOMAIN d2c, k \in DOMAIN q : Before(d2c[i].seq, q[k].seq)
            /\ \A i \in DOMAIN q : q[i].seq < Bound
            /\ job.st = "work" => \A k \in DOMAIN q : Before(job.seq, q[k].seq)
        BY <1>0, <2>1, <3>2, <3>6, <3>7 DEF OrderInv
      <4> QED BY <4>1, <4>2, <4>3
    <3>11. CASE job.kind = "none"
      <4>1. StartQueued(q) /\ job.st # "work"
        BY <1>0, <3>3, <3>4, <3>11 DEF ChannelInv, q
      <4> QED BY <1>0, <1>1, <2>1, <3>6, <3>10, <4>1, StartedOrder
    <3>12. CASE job.kind # "none"
      <4>1. queue' = q /\ job' = job
        BY <3>3, <3>5, <3>12 DEF q
      <4> QED BY <1>0, <1>1, <2>1, <3>10, <4>1 DEF OrderInv
    <3> QED BY <3>11, <3>12
  <2> QED BY <1>3, <2>2, <2>3, <2>4 DEF GotRequest
<1>4. CASE SendReplyCb
  <2>1. job.st = "reply" /\ UNCHANGED <<d2c, c2d>>
    BY <1>4 DEF SendReplyCb
  <2>2. CASE job'.st = "idle" /\ queue' = queue
    BY <1>0, <1>1, <2>1, <2>2 DEF OrderInv
  <2>3. CASE queue # << >> /\ StartQueued(queue)
    <3>1. queue \in Seq(Queued)
      BY <1>0 DEF TypeOK
    <3> QED BY <1>0, <1>1, <2>1, <2>3, <3>1, StartedOrder DEF OrderInv
  <2>4. CASE /\ readCount' = 3 /\ job' = NewJob("read", 0, ModifyReadSize(3, 2))
             /\ UNCHANGED <<queue, dgen>>
    <3>1. job'.seq = 0
      BY <2>4 DEF NewJob, NoJob
    <3>2. 0 < Bound
      BY DEF RInv, TypeOK, Operations, OpInv, Bound
    <3> QED BY <1>0, <1>1, <2>1, <2>4, <3>1, <3>2 DEF OrderInv, Before
  <2>5. (job' = [NoJob EXCEPT !.kind = "gone"] \/ job' = NoJob) => job'.st = "idle"
    BY DEF NoJob
  <2> QED BY <1>4, <2>2, <2>3, <2>4, <2>5 DEF SendReplyCb, StopAfterReply
<1>5. CASE ForceClose
  <2>1. /\ queue' = << >> /\ c2d' = << >> /\ job'.st = job.st /\ job'.seq = job.seq /\ d2c' = d2c
    BY <1>0, <1>5 DEF ForceClose, ChannelJob
  <2>2. DOMAIN << >> = {}
    OBVIOUS
  <2> QED BY <1>0, <1>1, <2>1, <2>2 DEF OrderInv
<1>6. CASE SetBlockRequests
  BY <1>0, <1>1, <1>6 DEF SetBlockRequests, OrderInv
<1> QED BY <1>2, <1>3, <1>4, <1>5, <1>6 DEF Channel

-----------------------------------------------------------------------------
(* Seeks and generations.                                                  *)

(* Steps of the client that neither write to the socket nor read from it   *)
(* leave a seek that is out as it is, and a dead socket dead.              *)
LEMMA QuietSteps ==
  ASSUME RInv, Application \/ Client, ~WriteRequest, ~StreamError, ~ReadHeader
  PROVE  /\ UNCHANGED <<c2d, d2c, cgen, daemonVars>>
         /\ Dead => Dead'
         /\ SeekOut' <=> SeekOut
         /\ SeekOut => op'.seq = op.seq
         /\ block'.in => block.in /\ block'.gen = block.gen
<1>0. /\ op \in Operations /\ block \in InputBlock /\ OpInv
  BY DEF RInv, TypeOK
<1>1. UNCHANGED <<c2d, d2c, daemonVars>> /\ shut' = shut
  BY ClientLeaves DEF daemonVars
<1>2. ASSUME op.kind = "none", op'.st \in {"idle", "send", "early"}, op'.sentCancel = FALSE
      PROVE  (Dead => Dead') /\ ~SeekOut /\ ~SeekOut'
  BY <1>0, <1>1, <1>2 DEF Dead, SeekOut
<1>3. ASSUME ~SeekOut, op' = NoOp
      PROVE  (Dead => Dead') /\ ~SeekOut'
  BY <1>0, <1>1, <1>3 DEF Dead, SeekOut, NoOp
<1>4. \A m \in Nat : Rest(m).in => block.in /\ Rest(m).gen = block.gen
  BY <1>0 DEF Rest, NoBlock, InputBlock
<1> HIDE DEF Rest
<1>5. CASE Application
  <2>1. ASSUME NEW k, NEW a, Begin(k, a)
        PROVE  op'.st = "send" /\ op'.sentCancel = FALSE
    BY <2>1 DEF Begin
  <2>2. RequestCancel \/ (op.kind = "none" /\ ~SeekOut)
    BY <1>5 DEF Application, ReadFromPre, ReadFromBlock, SendRead, SendSeek, SendQuery, SendClose,
                NewOp, Idle, SeekOut
  <2>3. cgen' = cgen /\ block' = block
    BY <1>5 DEF Application, ReadFromPre, ReadFromBlock, SendRead, SendSeek, SendQuery, SendClose,
                RequestCancel, streamVars
  <2>4. \/ op' = op
        \/ op.kind = "none" /\ op'.st \in {"idle", "send", "early"} /\ op'.sentCancel = FALSE
    <3>1. ASSUME NEW n \in ReadSizes, ReadFromBlock(n)
          PROVE  op'.st = "early" /\ op'.sentCancel = FALSE
      BY <3>1 DEF ReadFromBlock, NoOp
    <3> QED BY <1>5, <2>1, <2>2, <3>1 DEF Application, ReadFromPre, SendRead, SendSeek,
                SendQuery, SendClose, RequestCancel
  <2> QED BY <1>1, <1>2, <2>3, <2>4 DEF Dead, SeekOut
<1>6. CASE CancelUnsent
  <2>1. ~SeekOut /\ op' = NoOp /\ UNCHANGED <<cgen, block>>
    BY <1>6 DEF CancelUnsent, FinishFailed, Finish, SeekOut
  <2> QED BY <1>1, <1>3, <2>1
<1>7. CASE SendCancel
  <2>1. /\ op.st = "input" /\ op' = [op EXCEPT !.st = "send", !.sentCancel = TRUE]
        /\ UNCHANGED <<cgen, block>>
    BY <1>7 DEF SendCancel
  <2>2. op'.kind = op.kind /\ op'.seq = op.seq /\ op'.sentCancel = TRUE
    BY <1>0, <2>1 DEF Operations
  <2> QED BY <1>1, <2>1, <2>2 DEF Dead, SeekOut
<1>8. ASSUME op.st \in {"input", "header", "block"}, NEW s \in {"input", "header", "block"},
             op' = [op EXCEPT !.st = s]
      PROVE  (Dead => Dead') /\ (SeekOut' <=> SeekOut) /\ op'.seq = op.seq
  <2>1. op'.st = s /\ op'.kind = op.kind /\ op'.seq = op.seq /\ op'.sentCancel = op.sentCancel
    BY <1>0, <1>8 DEF Operations
  <2> QED BY <1>1, <1>8, <2>1 DEF Dead, SeekOut
<1>9. CASE HandleInput
  <2>1. /\ op.st = "input" /\ op' = [op EXCEPT !.st = IF block.in THEN "block" ELSE "header"]
        /\ UNCHANGED <<cgen, block>>
    BY <1>9 DEF HandleInput, streamVars
  <2> QED BY <1>1, <1>8, <2>1
<1>10. CASE ReadBlockCancelled
  <2>1. op.kind = "read" /\ op' = NoOp /\ UNCHANGED <<cgen, block>>
    BY <1>0, <1>10 DEF ReadBlockCancelled, FinishFailed, Finish, streamVars, OpInv
  <2> QED BY <1>1, <1>3, <2>1 DEF SeekOut
<1>11. CASE SkipCancelled
  <2>1. op.st = "block" /\ op' = [op EXCEPT !.st = "input"] /\ UNCHANGED <<cgen, block>>
    BY <1>11 DEF SkipCancelled, streamVars
  <2> QED BY <1>1, <1>8, <2>1
<1>12. ASSUME NEW m \in Units, ReadBlock(m)
       PROVE  /\ Dead => Dead'
              /\ SeekOut' <=> SeekOut
              /\ SeekOut => op'.seq = op.seq
              /\ block'.in => block.in /\ block'.gen = block.gen
              /\ cgen' = cgen
  <2>1. op.kind = "read" /\ op' = NoOp /\ cgen' = cgen /\ (block' = block \/ block' = Rest(m))
    BY <1>12 DEF ReadBlock, Finish
  <2> QED BY <1>3, <1>4, <2>1 DEF SeekOut, Units
<1>13. ASSUME NEW m \in Units, KeepBlock(m) \/ SkipBlock(m)
       PROVE  /\ Dead => Dead'
              /\ SeekOut' <=> SeekOut
              /\ SeekOut => op'.seq = op.seq
              /\ block'.in => block.in /\ block'.gen = block.gen
              /\ cgen' = cgen
  <2>1. op.st = "block" /\ op' = [op EXCEPT !.st = "input"] /\ cgen' = cgen /\ block' = Rest(m)
    BY <1>13 DEF KeepBlock, SkipBlock
  <2> QED BY <1>4, <1>8, <2>1 DEF Units
<1> QED BY <1>1, <1>5, <1>6, <1>7, <1>9, <1>10, <1>11, <1>12, <1>13 DEF Client

(* HANDLE_HEADER takes the first reply: an answer ends the operation, data *)
(* becomes the block, and what answers an earlier operation is dropped.    *)
LEMMA HeaderFacts ==
  ASSUME RInv, ReadHeader
  PROVE  /\ 1 \in DOMAIN d2c /\ d2c' = Tail(d2c) /\ Len(d2c) \in Nat
         /\ DOMAIN d2c = 1 .. Len(d2c) /\ Len(d2c') = Len(d2c) - 1
         /\ DOMAIN d2c' = 1 .. Len(d2c) - 1
         /\ \A i \in DOMAIN d2c' : i \in Nat /\ i + 1 > 1 /\ i + 1 \in DOMAIN d2c
                                   /\ d2c'[i] = d2c[i + 1]
         /\ ~block.in /\ ~Dead /\ op.seq > 0 /\ op.st = "header"
         /\ UNCHANGED <<cgen, pre, c2d, daemonVars>>
         /\ \/ /\ d2c[1].type = "error" /\ d2c[1].seq = op.seq
               /\ FinishFailed(TRUE) /\ UNCHANGED <<offset, block>>
            \/ /\ d2c[1].type = "data"
               /\ block' = [start |-> d2c[1].start, len |-> d2c[1].len, gen |-> d2c[1].gen,
                            in |-> TRUE]
               /\ op' = [op EXCEPT !.st = "block"]
               /\ UNCHANGED <<offset, closed, sure, res>>
            \/ /\ d2c[1].type = Success[op.kind] /\ d2c[1].seq = op.seq
               /\ op.kind = "seek" => /\ Finish(Outcome("seek", d2c[1].start, 0))
                                      /\ offset' = d2c[1].start /\ sure' = TRUE
               /\ op.kind # "seek" => /\ Finish(Outcome("done", 0, 0))
                                      /\ UNCHANGED <<offset, sure>>
               /\ block' = block
            \/ /\ d2c[1].type # "data" /\ d2c[1].type # "seekpos"
               /\ UNCHANGED <<op, offset, block, closed, sure, res>>
<1>0. op \in Operations /\ d2c \in Seq(Replies) /\ OpInv /\ SeekInv
  BY DEF RInv, TypeOK
<1>1. d2c # << >> /\ d2c' = Tail(d2c) /\ op.st = "header"
  BY DEF ReadHeader
<1>2. /\ 1 \in DOMAIN d2c /\ Head(d2c) = d2c[1]
      /\ Len(d2c) \in Nat /\ DOMAIN d2c = 1 .. Len(d2c) /\ Len(d2c') = Len(d2c) - 1
      /\ DOMAIN d2c' = 1 .. Len(d2c) - 1
  BY <1>0, <1>1
<1>3. \A i \in DOMAIN d2c' : i \in Nat /\ i + 1 > 1 /\ i + 1 \in DOMAIN d2c
                                   /\ d2c'[i] = d2c[i + 1]
  <2>1. \A i \in DOMAIN d2c' : i + 1 \in DOMAIN d2c /\ d2c'[i] = d2c[i + 1]
    BY <1>0, <1>1, TailFacts
  <2>2. \A i \in 1 .. Len(d2c) - 1 : i \in Nat /\ i + 1 > 1
    BY <1>2
  <2> QED BY <1>2, <2>1, <2>2
<1>4. ~block.in /\ ~Dead /\ op.seq > 0
  BY <1>0, <1>1 DEF OpInv, Dead
<1>5. UNCHANGED <<cgen, pre, c2d, daemonVars>>
  BY DEF ReadHeader
<1>6. d2c[1].type = "seekpos" => d2c[1].seq = op.seq /\ Success[op.kind] = "seekpos"
  <2>1. Success["seek"] = "seekpos"
    BY DEF Success
  <2> QED BY <1>0, <1>2, <1>4, <2>1 DEF SeekInv, SeekOut
<1> DEFINE r == Head(d2c)
<1>7. \/ r.type = "error" /\ r.seq = op.seq /\ FinishFailed(TRUE) /\ UNCHANGED <<offset, block>>
      \/ /\ r.type = "data"
         /\ block' = [start |-> r.start, len |-> r.len, gen |-> r.gen, in |-> TRUE]
         /\ op' = [op EXCEPT !.st = "block"] /\ UNCHANGED <<offset, closed, sure, res>>
      \/ /\ r.type = Success[op.kind] /\ r.seq = op.seq
         /\ op.kind = "seek" => /\ Finish(Outcome("seek", r.start, 0))
                                /\ offset' = r.start /\ sure' = TRUE
         /\ op.kind # "seek" => Finish(Outcome("done", 0, 0)) /\ UNCHANGED <<offset, sure>>
         /\ block' = block
      \/ /\ ~(r.type = "data" \/ (r.seq = op.seq /\ r.type \in {"error", Success[op.kind]}))
         /\ UNCHANGED <<op, offset, block, closed, sure, res>>
  BY DEF ReadHeader
<1>8. r = d2c[1]
  BY <1>2
<1> HIDE DEF r
<1> QED BY <1>1, <1>2, <1>3, <1>4, <1>5, <1>6, <1>7, <1>8

(* A step that only consumes replies keeps SeekInv. *)
LEMMA SameSeek ==
  ASSUME SeekInv, SeekOut => SeekOut' /\ op'.seq = op.seq, Dead => Dead', cgen' = cgen,
         UNCHANGED <<c2d, queue, job, dgen>>,
         \A i \in DOMAIN d2c' : \E k \in DOMAIN d2c : d2c'[i] = d2c[k]
  PROVE  SeekInv'
BY DEF SeekInv

(* The client does not forget a seek before its reply is consumed. *)
LEMMA ClientSeek ==
  ASSUME RInv, Application \/ Client PROVE SeekInv'
<1>0. /\ TypeOK /\ OpInv /\ ChannelInv /\ OrderInv /\ SeekInv /\ GenInv
      /\ op \in Operations /\ cgen \in Nat /\ dgen \in Nat
  BY DEF RInv, TypeOK
<1>1. UNCHANGED <<shut, queue, job, dgen>>
  BY ClientLeaves DEF daemonVars
<1>2. CASE WriteRequest
  <2>1. /\ ~shut /\ op.st = "send" /\ op' = [op EXCEPT !.st = "input"] /\ d2c' = d2c
        /\ cgen' = IF op.kind = "seek" /\ ~op.sentCancel THEN cgen + 1 ELSE cgen
    BY <1>2 DEF WriteRequest
  <2>2. /\ op'.st = "input" /\ op'.kind = op.kind /\ op'.seq = op.seq
        /\ op'.sentCancel = op.sentCancel
    BY <1>0, <2>1 DEF Operations
  <2>3. ~Dead /\ (SeekOut => SeekOut') /\ (op.kind = "seek" => SeekOut')
    BY <2>1, <2>2 DEF Dead, SeekOut
  <2>4. dgen <= cgen /\ cgen <= cgen' /\ (~SeekOut /\ op.kind = "seek" => dgen < cgen')
    BY <1>0, <2>1 DEF GenInv, SeekOut
  <2>5. ASSUME NEW i \in DOMAIN c2d', c2d'[i].cmd = "seek"
        PROVE  SeekOut' /\ c2d'[i].seq = op'.seq /\ dgen' < cgen'
    <3>1. CASE i \in DOMAIN c2d
      <4>1. c2d'[i] = c2d[i]
        BY <1>0, <1>2, <3>1, WrittenFacts
      <4>2. SeekOut /\ c2d[i].seq = op.seq /\ dgen < cgen
        BY <1>0, <2>5, <3>1, <4>1 DEF SeekInv
      <4> HIDE DEF SeekOut
      <4>3. dgen' < cgen'
        BY <1>0, <1>1, <2>1, <4>2
      <4> QED BY <2>2, <2>3, <4>1, <4>2, <4>3
    <3>2. CASE i \notin DOMAIN c2d
      <4> DEFINE x == [cmd |-> op.kind, seq |-> op.seq, arg |-> op.arg]
      <4>1. ~op.sentCancel /\ c2d'[i] = x
        BY <1>0, <1>2, <2>5, <3>2, WrittenFacts
      <4>2. x.cmd = op.kind /\ x.seq = op.seq
        OBVIOUS
      <4> HIDE DEF x
      <4>3. op.kind = "seek" /\ c2d'[i].seq = op.seq
        BY <2>5, <4>1, <4>2
      <4>4. ~SeekOut
        BY <2>1, <4>1 DEF SeekOut
      <4> QED BY <1>1, <2>2, <2>3, <2>4, <4>3, <4>4
    <3> QED BY <3>1, <3>2
  <2>6. ASSUME NEW i \in DOMAIN queue', queue'[i].cmd = "seek"
        PROVE  SeekOut' /\ queue'[i].seq = op'.seq /\ dgen' < cgen'
    <3>1. SeekOut /\ queue[i].seq = op.seq /\ dgen < cgen
      BY <1>0, <1>1, <2>6 DEF SeekInv
    <3>2. dgen' < cgen'
      BY <1>0, <1>1, <2>1, <3>1
    <3> QED BY <1>1, <2>2, <2>3, <3>1, <3>2
  <2>7. /\ job'.kind = "seek" /\ job'.st = "work" => SeekOut' /\ job'.seq = op'.seq
        /\ \A i \in DOMAIN d2c' : d2c'[i].type = "seekpos" => SeekOut' /\ d2c'[i].seq = op'.seq
    BY <1>0, <1>1, <2>1, <2>2, <2>3 DEF SeekInv
  <2> QED BY <2>5, <2>6, <2>7 DEF SeekInv
<1>3. ASSUME shut, op' = NoOp, c2d' = c2d
      PROVE  SeekInv'
  <2>1. Dead'
    BY <1>1, <1>3 DEF Dead, NoOp
  <2>2. DOMAIN c2d' = {} /\ DOMAIN queue' = {}
    BY <1>0, <1>1, <1>3 DEF ChannelInv
  <2> QED BY <2>1, <2>2 DEF SeekInv
<1>4. CASE StreamError
  BY <1>3, <1>4 DEF StreamError, FinishFailed, Finish
<1>5. CASE ReadHeader
  <2>1. /\ 1 \in DOMAIN d2c
        /\ \A i \in DOMAIN d2c' : i \in Nat /\ i + 1 > 1 /\ i + 1 \in DOMAIN d2c
                                   /\ d2c'[i] = d2c[i + 1]
        /\ ~Dead /\ op.seq > 0 /\ op.st = "header"
        /\ cgen' = cgen /\ c2d' = c2d
    BY <1>5, HeaderFacts
  <2>2. \/ d2c[1].seq = op.seq /\ op' = NoOp
        \/ op' = [op EXCEPT !.st = "block"] \/ op' = op
    BY <1>5, HeaderFacts DEF FinishFailed, Finish
  <2>3. CASE op' = [op EXCEPT !.st = "block"] \/ op' = op
    <3>1. /\ op'.st \in {"header", "block"} /\ op'.kind = op.kind /\ op'.seq = op.seq
          /\ op'.sentCancel = op.sentCancel
      BY <1>0, <2>1, <2>3 DEF Operations
    <3>2. SeekOut => SeekOut' /\ op'.seq = op.seq
      BY <2>1, <3>1 DEF SeekOut
    <3> QED BY <1>0, <1>1, <2>1, <3>2, SameSeek
  <2>4. CASE d2c[1].seq = op.seq /\ op' = NoOp /\ ~shut
    <3> HIDE DEF SeekOut, Dead
    <3>1. /\ \A i \in DOMAIN c2d : c2d[i].cmd = "seek" => Asked(c2d[i]) = c2d[i].seq
      BY DEF Asked
    <3>2. /\ \A i \in DOMAIN c2d : Asked(c2d[i]) # op.seq
          /\ \A i \in DOMAIN queue : queue[i].seq # op.seq
          /\ job.st = "work" => job.seq # op.seq
          /\ \A i \in DOMAIN d2c' : d2c'[i].seq # op.seq
      <4>1. \A n \in Nat : n # 0 => ~Before(n, n)
        BY DEF Before
      <4>2. op.seq \in Nat /\ op.seq # 0
        BY <1>0, <2>1, StageTypes
      <4>3. \A i \in DOMAIN d2c' : Before(d2c[1].seq, d2c'[i].seq)
        BY <1>0, <2>1 DEF OrderInv
      <4> HIDE DEF Before
      <4> QED BY <1>0, <2>1, <2>4, <4>1, <4>2, <4>3 DEF OrderInv
    <3>3. /\ \A i \in DOMAIN c2d : c2d[i].cmd # "seek"
          /\ \A i \in DOMAIN queue : queue[i].cmd # "seek"
          /\ ~(job.kind = "seek" /\ job.st = "work")
          /\ \A i \in DOMAIN d2c' : d2c'[i].type # "seekpos"
      BY <1>0, <2>1, <3>1, <3>2 DEF SeekInv
    <3> QED BY <1>1, <2>1, <3>3 DEF SeekInv
  <2> QED BY <1>3, <2>1, <2>2, <2>3, <2>4
<1>6. CASE ~WriteRequest /\ ~StreamError /\ ~ReadHeader
  <2>1. /\ UNCHANGED <<c2d, d2c, cgen>> /\ (Dead => Dead') /\ (SeekOut' <=> SeekOut)
        /\ SeekOut => op'.seq = op.seq
    BY <1>6, QuietSteps
  <2> HIDE DEF SeekOut, Dead
  <2> QED BY <1>0, <1>1, <2>1, SameSeek
<1> QED BY <1>2, <1>4, <1>5, <1>6

(* The only seek there is gets started: no other one is waiting. *)
LEMMA StartedSeek ==
  ASSUME TypeOK, OrderInv', SeekInv, OpInv, NEW q \in Seq(Queued), q # << >>, StartQueued(q),
         UNCHANGED <<op, cgen, shut, d2c>>,
         \A i \in DOMAIN q : q[i].cmd = "seek" => SeekOut /\ q[i].seq = op.seq /\ dgen < cgen,
         \A i \in DOMAIN c2d' : \E k \in DOMAIN c2d : c2d'[i] = c2d[k]
  PROVE  SeekInv'
<1>0. op.seq \in Nat /\ (SeekOut => op.seq # 0)
  BY StageTypes DEF OpInv, SeekOut
<1>1. /\ 1 \in DOMAIN q /\ job'.seq = q[1].seq /\ job'.st = "work"
      /\ \A i \in DOMAIN queue' : i + 1 \in DOMAIN q /\ queue'[i] = q[i + 1]
      /\ job'.kind = "seek" => q[1].cmd = "seek"
      /\ dgen' = dgen \/ q[1].cmd = "seek"
  BY StartedFacts
<1>2. /\ \A i \in DOMAIN c2d' : c2d'[i].cmd = "seek" => Asked(c2d'[i]) = c2d'[i].seq
  BY DEF Asked
<1>3. (SeekOut' <=> SeekOut) /\ (Dead' <=> Dead)
  BY DEF SeekOut, Dead
<1> HIDE DEF SeekOut, Dead, Asked
<1>4. /\ \A i \in DOMAIN c2d' : c2d'[i].cmd = "seek"
           => SeekOut /\ c2d'[i].seq = op.seq /\ dgen < cgen
      /\ \A i \in DOMAIN queue' : queue'[i].cmd = "seek"
           => SeekOut /\ queue'[i].seq = op.seq /\ dgen < cgen
  BY <1>1 DEF SeekInv
<1>5. q[1].cmd = "seek" => /\ \A i \in DOMAIN c2d' : c2d'[i].cmd # "seek"
                           /\ \A i \in DOMAIN queue' : queue'[i].cmd # "seek"
  <2>1. \A n \in Nat : n # 0 => ~Before(n, n)
    BY DEF Before
  <2> HIDE DEF Before
  <2>2. /\ \A i \in DOMAIN c2d' : Before(job'.seq, Asked(c2d'[i]))
        /\ \A i \in DOMAIN queue' : Before(job'.seq, queue'[i].seq)
    BY <1>1 DEF OrderInv
  <2>3. q[1].cmd = "seek" => SeekOut /\ q[1].seq = op.seq /\ op.seq # 0
    BY <1>0, <1>1
  <2> QED BY <1>0, <1>1, <1>2, <1>4, <2>1, <2>2, <2>3
<1> QED BY <1>1, <1>3, <1>4, <1>5 DEF SeekInv

(* What the request at the front of the socket becomes *)
LEMMA GotFacts ==
  ASSUME RInv, GotRequest
  PROVE  /\ \A i \in DOMAIN c2d' : \E k \in DOMAIN c2d : c2d'[i] = c2d[k]
         /\ \/ /\ UNCHANGED <<queue, dgen>>
               /\ job'.st = job.st /\ job'.kind = job.kind /\ job'.seq = job.seq
            \/ /\ UNCHANGED <<job, dgen>> /\ DOMAIN queue' = DOMAIN queue
               /\ \A i \in DOMAIN queue : /\ queue'[i].seq = queue[i].seq
                                          /\ queue'[i].cmd = queue[i].cmd
            \/ \E q \in Seq(Queued) :
                 /\ q # << >>
                 /\ \A i \in DOMAIN q : \/ \E k \in DOMAIN queue : q[i] = queue[k]
                                        \/ \E k \in DOMAIN c2d : /\ q[i].cmd = c2d[k].cmd
                                                                 /\ q[i].seq = c2d[k].seq
                 /\ \/ job.kind = "none" /\ StartQueued(q)
                    \/ UNCHANGED <<job, dgen>> /\ queue' = q
<1>0. TypeOK /\ ChannelInv /\ job \in ChannelJob /\ queue \in Seq(Queued)
  BY DEF RInv, TypeOK
<1> DEFINE r == Head(c2d)
           e == [cmd |-> r.cmd, seq |-> r.seq, arg |-> r.arg, cancelled |-> FALSE]
<1>1. /\ r = c2d[1] /\ 1 \in DOMAIN c2d
      /\ \A i \in DOMAIN c2d' : \E k \in DOMAIN c2d : k > i /\ c2d'[i] = c2d[k]
  BY <1>0, TakenFacts
<1>2. \A i \in DOMAIN c2d' : \E k \in DOMAIN c2d : c2d'[i] = c2d[k]
  BY <1>1
<1>3. CASE /\ r.cmd = "cancel" /\ job' = [job EXCEPT !.cancelled = TRUE]
           /\ UNCHANGED <<queue, dgen, readCount>>
  <2>1. job'.st = job.st /\ job'.kind = job.kind /\ job'.seq = job.seq
    BY <1>0, <1>3 DEF ChannelJob
  <2> QED BY <1>2, <1>3, <2>1
<1>4. CASE /\ r.cmd = "cancel" /\ queue' = MarkCancelled(r.arg)
           /\ UNCHANGED <<job, dgen, readCount>>
  <2>1. /\ DOMAIN queue' = DOMAIN queue
        /\ \A i \in DOMAIN queue : queue'[i].seq = queue[i].seq /\ queue'[i].cmd = queue[i].cmd
    BY <1>0, <1>4, MarkedFacts
  <2> QED BY <1>2, <1>4, <2>1
<1>5. CASE r.cmd # "cancel"
  <2>1. e \in Queued
    <3>1. c2d[1] \in Messages
      BY <1>0, <1>1 DEF TypeOK
    <3> QED BY <1>1, <1>5, <3>1 DEF Messages, Queued
  <2>2. e.cmd = c2d[1].cmd /\ e.seq = c2d[1].seq
    BY <1>1
  <2>3. \/ job.kind = "none" /\ StartQueued(Enqueue(e))
        \/ UNCHANGED <<job, dgen>> /\ queue' = Enqueue(e)
    BY <1>5 DEF GotRequest
  <2> DEFINE q == Append(queue, e)
  <2>4. Enqueue(e) = q
    BY DEF Enqueue
  <2> HIDE DEF e, r
  <2>5. /\ q \in Seq(Queued) /\ DOMAIN q = 1 .. Len(queue) + 1
        /\ \A i \in DOMAIN queue : q[i] = queue[i]
        /\ q[Len(queue) + 1] = e
    BY <1>0, <2>1, AppendFacts
  <2>6. Len(queue) \in Nat /\ DOMAIN queue = 1 .. Len(queue) /\ q # << >>
    BY <1>0, <2>1
  <2> HIDE DEF q
  <2>7. \A i \in DOMAIN q : i \in DOMAIN queue \/ i = Len(queue) + 1
    BY <2>5, <2>6
  <2>8. \A i \in DOMAIN q : \/ \E k \in DOMAIN queue : q[i] = queue[k]
                            \/ \E k \in DOMAIN c2d : /\ q[i].cmd = c2d[k].cmd
                                                     /\ q[i].seq = c2d[k].seq
    BY <1>1, <2>2, <2>5, <2>7
  <2> QED BY <1>2, <2>3, <2>4, <2>5, <2>6, <2>8
<1> QED BY <1>3, <1>4, <1>5 DEF GotRequest

(* What follows a reply *)
LEMMA RepliedSteps ==
  ASSUME RInv, SendReplyCb
  PROVE  /\ UNCHANGED <<d2c, c2d, shut, bpos>> /\ job.st = "reply"
         /\ \/ UNCHANGED <<queue, dgen>> /\ job'.kind # "seek"
            \/ queue \in Seq(Queued) /\ queue # << >> /\ StartQueued(queue)
<1>1. UNCHANGED <<d2c, c2d, shut, bpos>> /\ job.st = "reply" /\ queue \in Seq(Queued)
  BY DEF SendReplyCb, RInv, TypeOK
<1>2. /\ [NoJob EXCEPT !.kind = "gone"].kind # "seek" /\ NoJob.kind # "seek"
      /\ NewJob("read", 0, ModifyReadSize(3, 2)).kind # "seek"
  BY DEF NoJob, NewJob
<1> HIDE DEF NoJob, NewJob
<1> QED BY <1>1, <1>2 DEF SendReplyCb, StopAfterReply

(* What the backend's answer is *)
LEMMA BackendFacts ==
  ASSUME RInv, Backend, ~shut
  PROVE  /\ DOMAIN d2c = 1 .. Len(d2c) /\ Len(d2c) \in Nat /\ Len(d2c') = Len(d2c) + 1
         /\ DOMAIN d2c' = 1 .. Len(d2c) + 1
         /\ \A i \in DOMAIN d2c : d2c'[i] = d2c[i]
         /\ d2c'[Len(d2c) + 1].seq = job.seq /\ d2c'[Len(d2c) + 1].gen = dgen
         /\ LET x == d2c'[Len(d2c) + 1] IN
            \/ /\ x.type = "data" /\ x.start = bpos /\ bpos' = bpos + x.len
               /\ End(x) <= FileSize /\ (x.len = 0 => x.start = FileSize)
            \/ x.type = "seekpos" /\ job.kind = "seek" /\ bpos' = x.start
            \/ x.type \notin {"data", "seekpos"} /\ bpos' = bpos
<1>0. TypeOK /\ job.arg \in Nat /\ bpos \in Units /\ 0 \in Units /\ FileSize \in Nat
  BY StreamAssumption DEF RInv, TypeOK, ChannelJob, Units
<1>1. ASSUME NEW t \in {"data", "error", "seekpos", "info", "closed"},
         NEW s \in Units, NEW n \in Units, Reply(t, s, n)
      PROVE  /\ DOMAIN d2c = 1 .. Len(d2c) /\ Len(d2c) \in Nat /\ Len(d2c') = Len(d2c) + 1
             /\ DOMAIN d2c' = 1 .. Len(d2c) + 1
             /\ \A i \in DOMAIN d2c : d2c'[i] = d2c[i]
             /\ LET x == d2c'[Len(d2c) + 1] IN
                  x.type = t /\ x.seq = job.seq /\ x.start = s /\ x.len = n /\ x.gen = dgen
  <2> DEFINE x == [type |-> t, seq |-> job.seq, start |-> s, len |-> n, gen |-> dgen]
  <2>1. x.type = t /\ x.seq = job.seq /\ x.start = s /\ x.len = n /\ x.gen = dgen
    OBVIOUS
  <2>2. /\ DOMAIN d2c = 1 .. Len(d2c) /\ Len(d2c) \in Nat /\ Len(d2c') = Len(d2c) + 1
        /\ DOMAIN d2c' = 1 .. Len(d2c) + 1
        /\ \A i \in DOMAIN d2c : d2c'[i] = d2c[i]
        /\ d2c'[Len(d2c) + 1] = x
    BY <1>0, <1>1, RepliedFacts
  <2> HIDE DEF x
  <2> QED BY <2>1, <2>2
<1>2. ASSUME NEW n \in Units, ReadDone(n)
      PROVE  /\ Reply("data", bpos, n) /\ bpos' = bpos + n
             /\ bpos + n <= FileSize /\ (n = 0 => bpos = FileSize)
  <2>1. /\ Reply("data", bpos, n) /\ bpos' = bpos + n
        /\ n \in Pieces(Smaller(job.arg, FileSize - bpos)) /\ job.kind = "read"
    BY <1>2 DEF ReadDone
  <2>2. job.arg > 0
    BY <2>1 DEF RInv, ChannelInv
  <2>3. n <= FileSize - bpos /\ (n = 0 => FileSize - bpos = 0)
    BY <1>0, <2>1, <2>2 DEF Pieces, Smaller, Units
  <2> QED BY <1>0, <2>1, <2>3 DEF Units
<1>3. SeekDone => /\ Reply("seekpos", job.arg, 0) /\ job.arg \in Units /\ job.kind = "seek"
                  /\ bpos' = job.arg
  BY DEF SeekDone, RInv, ChannelInv
<1>4. QueryOrCloseDone => (Reply("info", 0, 0) \/ Reply("closed", 0, 0)) /\ bpos' = bpos
  <2>1. Success["query"] = "info" /\ Success["close"] = "closed"
    BY DEF Success
  <2> QED BY <2>1 DEF QueryOrCloseDone
<1>5. JobFails => Reply("error", 0, 0) /\ bpos' = bpos
  BY DEF JobFails
<1> HIDE DEF Reply
<1>6. ASSUME NEW n \in Units, ReadDone(n)
      PROVE  /\ DOMAIN d2c = 1 .. Len(d2c) /\ Len(d2c) \in Nat /\ Len(d2c') = Len(d2c) + 1
             /\ DOMAIN d2c' = 1 .. Len(d2c) + 1
             /\ \A i \in DOMAIN d2c : d2c'[i] = d2c[i]
             /\ d2c'[Len(d2c) + 1].seq = job.seq /\ d2c'[Len(d2c) + 1].gen = dgen
             /\ LET x == d2c'[Len(d2c) + 1] IN
                  /\ x.type = "data" /\ x.start = bpos /\ bpos' = bpos + x.len
                  /\ End(x) <= FileSize /\ (x.len = 0 => x.start = FileSize)
  BY <1>0, <1>1, <1>2, <1>6 DEF End
<1>7. CASE SeekDone
  BY <1>0, <1>1, <1>3, <1>7
<1>8. CASE QueryOrCloseDone
  BY <1>0, <1>1, <1>4, <1>8
<1>9. CASE JobFails
  BY <1>0, <1>1, <1>5, <1>9
<1> QED BY <1>6, <1>7, <1>8, <1>9 DEF Backend

(* The daemon makes a seek's reply only of a seek. *)
LEMMA DaemonSeek ==
  ASSUME RInv, OrderInv', Backend \/ Channel \/ ForceClose \/ SetBlockRequests PROVE SeekInv'
<1>0. TypeOK /\ OpInv /\ ChannelInv /\ OrderInv /\ SeekInv
  BY DEF RInv
<1>1. UNCHANGED <<op, cgen>> /\ (shut' = shut \/ shut')
  BY DaemonLeaves DEF streamVars
<1>2. (SeekOut' <=> SeekOut) /\ (Dead => Dead')
  BY <1>1 DEF SeekOut, Dead
<1>3. CASE Backend
  <2>1. /\ job.st = "work" /\ job'.st = "reply" /\ UNCHANGED <<shut, queue, c2d, dgen>>
    BY <1>0, <1>3, AnsweredFacts
  <2>2. CASE shut
    <3>1. d2c' = d2c
      BY <1>3, <2>2, BackendReplies DEF Reply
    <3> HIDE DEF SeekOut, Dead
    <3> QED BY <1>0, <1>1, <1>2, <2>1, <3>1 DEF SeekInv
  <2>3. CASE ~shut
    <3>1. /\ DOMAIN d2c = 1 .. Len(d2c) /\ Len(d2c) \in Nat
          /\ DOMAIN d2c' = 1 .. Len(d2c) + 1
          /\ \A i \in DOMAIN d2c : d2c'[i] = d2c[i]
          /\ d2c'[Len(d2c) + 1].seq = job.seq
          /\ d2c'[Len(d2c) + 1].type = "seekpos" => job.kind = "seek"
      BY <1>3, <2>3, BackendFacts
    <3>2. \A i \in DOMAIN d2c' : i \in DOMAIN d2c \/ i = Len(d2c) + 1
      BY <3>1
    <3> HIDE DEF SeekOut, Dead
    <3>3. ~Dead => \A i \in DOMAIN d2c' : d2c'[i].type = "seekpos" => SeekOut /\ d2c'[i].seq = op.seq
      BY <1>0, <2>1, <3>1, <3>2 DEF SeekInv
    <3> QED BY <1>0, <1>1, <1>2, <2>1, <3>3 DEF SeekInv
  <2> QED BY <2>2, <2>3
<1>4. CASE GotRequest
  <2>1. UNCHANGED <<d2c, shut>>
    BY <1>4 DEF GotRequest
  <2>2. \A i \in DOMAIN c2d' : \E k \in DOMAIN c2d : c2d'[i] = c2d[k]
    BY <1>4, GotFacts
  <2>3. CASE /\ UNCHANGED <<queue, dgen>>
             /\ job'.st = job.st /\ job'.kind = job.kind /\ job'.seq = job.seq
    <3> HIDE DEF SeekOut, Dead
    <3> QED BY <1>0, <1>1, <1>2, <2>1, <2>2, <2>3 DEF SeekInv
  <2>4. CASE /\ UNCHANGED <<job, dgen>> /\ DOMAIN queue' = DOMAIN queue
             /\ \A i \in DOMAIN queue : /\ queue'[i].seq = queue[i].seq
                                        /\ queue'[i].cmd = queue[i].cmd
    <3> HIDE DEF SeekOut, Dead
    <3> QED BY <1>0, <1>1, <1>2, <2>1, <2>2, <2>4 DEF SeekInv
  <2>5. ASSUME NEW q \in Seq(Queued), q # << >>,
               \A i \in DOMAIN q : \/ \E k \in DOMAIN queue : q[i] = queue[k]
                                   \/ \E k \in DOMAIN c2d : /\ q[i].cmd = c2d[k].cmd
                                                            /\ q[i].seq = c2d[k].seq,
               StartQueued(q) \/ (UNCHANGED <<job, dgen>> /\ queue' = q)
        PROVE  SeekInv'
    <3> HIDE DEF SeekOut, Dead
    <3>1. \A i \in DOMAIN q : q[i].cmd = "seek" => SeekOut /\ q[i].seq = op.seq /\ dgen < cgen
      BY <1>0, <2>5 DEF SeekInv
    <3>2. CASE StartQueued(q)
      BY <1>0, <1>1, <2>1, <2>2, <2>5, <3>1, <3>2, StartedSeek
    <3>3. CASE UNCHANGED <<job, dgen>> /\ queue' = q
      BY <1>0, <1>1, <1>2, <2>1, <2>2, <3>1, <3>3 DEF SeekInv
    <3> QED BY <2>5, <3>2, <3>3
  <2> QED BY <1>4, <2>3, <2>4, <2>5, GotFacts
<1>5. CASE SendReplyCb
  <2>1. UNCHANGED <<d2c, c2d, shut>>
    BY <1>5, RepliedSteps
  <2>2. CASE UNCHANGED <<queue, dgen>> /\ job'.kind # "seek"
    <3> HIDE DEF SeekOut, Dead
    <3> QED BY <1>0, <1>1, <1>2, <2>1, <2>2 DEF SeekInv
  <2>3. CASE queue \in Seq(Queued) /\ queue # << >> /\ StartQueued(queue)
    <3> HIDE DEF SeekOut, Dead
    <3>1. \A i \in DOMAIN queue : queue[i].cmd = "seek"
            => SeekOut /\ queue[i].seq = op.seq /\ dgen < cgen
      BY <1>0 DEF SeekInv
    <3> QED BY <1>0, <1>1, <2>1, <2>3, <3>1, StartedSeek
  <2> QED BY <1>5, <2>2, <2>3, RepliedSteps
<1>6. CASE ForceClose
  <2>1. /\ queue' = << >> /\ c2d' = << >> /\ job'.st = job.st /\ job'.seq = job.seq
        /\ job'.kind = job.kind /\ UNCHANGED <<d2c, dgen>>
    BY <1>0, <1>6 DEF ForceClose, TypeOK, ChannelJob
  <2>2. DOMAIN << >> = {}
    OBVIOUS
  <2> HIDE DEF SeekOut, Dead
  <2> QED BY <1>0, <1>1, <1>2, <2>1, <2>2 DEF SeekInv
<1>7. CASE SetBlockRequests
  <2>1. UNCHANGED <<c2d, d2c, queue, job, dgen>>
    BY <1>7 DEF SetBlockRequests
  <2> HIDE DEF SeekOut, Dead
  <2> QED BY <1>0, <1>1, <1>2, <2>1 DEF SeekInv
<1> QED BY <1>3, <1>4, <1>5, <1>6, <1>7 DEF Channel

(* A step that only consumes replies keeps GenInv. *)
LEMMA SameGen ==
  ASSUME GenInv, UNCHANGED <<d2c, cgen, dgen>>, Dead => Dead', SeekOut' <=> SeekOut,
         SeekOut => op'.seq = op.seq, block'.in => block.in /\ block'.gen = block.gen
  PROVE  GenInv'
BY DEF GenInv

(* The client counts a generation when it sends a seek, and only then. *)
LEMMA ClientGen ==
  ASSUME RInv, Application \/ Client PROVE GenInv'
<1>0. /\ TypeOK /\ OpInv /\ OrderInv /\ GenInv
      /\ op \in Operations /\ cgen \in Nat /\ dgen \in Nat
  BY DEF RInv, TypeOK
<1>1. UNCHANGED <<shut, dgen>>
  BY ClientLeaves DEF daemonVars
<1>2. CASE WriteRequest
  <2>1. /\ op.st = "send" /\ op' = [op EXCEPT !.st = "input"] /\ UNCHANGED <<d2c, block>>
        /\ cgen' = IF op.kind = "seek" /\ ~op.sentCancel THEN cgen + 1 ELSE cgen
        /\ ~shut
    BY <1>2 DEF WriteRequest
  <2>2. /\ op'.st = "input" /\ op'.kind = op.kind /\ op'.seq = op.seq
        /\ op'.sentCancel = op.sentCancel
    BY <1>0, <2>1 DEF Operations
  <2>3. ~Dead /\ ~Dead'
    BY <1>1, <2>1 DEF Dead
  <2>4. CASE op.kind = "seek" /\ ~op.sentCancel
    <3>1. SeekOut' /\ cgen' = cgen + 1 /\ Bound = op.seq
      BY <2>1, <2>2, <2>4 DEF SeekOut, Bound, Unsent
    <3>2. \A i \in DOMAIN d2c : d2c[i].seq # op.seq
      <4>1. \A i \in DOMAIN d2c : d2c[i].seq < op.seq /\ d2c[i].seq \in Nat /\ op.seq \in Nat
        BY <1>0, <3>1, StageTypes DEF OrderInv
      <4> QED BY <4>1
    <3>3. dgen <= cgen'
      BY <1>0, <3>1 DEF GenInv
    <3> HIDE DEF SeekOut, Dead
    <3> QED BY <1>0, <1>1, <2>1, <2>2, <3>1, <3>2, <3>3 DEF GenInv
  <2>5. CASE ~(op.kind = "seek" /\ ~op.sentCancel)
    <3>1. (SeekOut' <=> SeekOut) /\ cgen' = cgen
      BY <2>1, <2>2, <2>5 DEF SeekOut
    <3> HIDE DEF SeekOut, Dead
    <3> QED BY <1>0, <1>1, <2>1, <2>2, <2>3, <3>1, SameGen
  <2> QED BY <2>4, <2>5
<1>3. CASE StreamError
  <2>1. Dead' /\ UNCHANGED <<d2c, cgen, block>>
    BY <1>1, <1>3 DEF StreamError, FinishFailed, Finish, Dead, NoOp, streamVars
  <2> HIDE DEF Dead, SeekOut
  <2> QED BY <1>0, <1>1, <2>1 DEF GenInv
<1>4. CASE ReadHeader
  <2>1. /\ 1 \in DOMAIN d2c
        /\ \A i \in DOMAIN d2c' : i \in Nat /\ i + 1 > 1 /\ i + 1 \in DOMAIN d2c
                                   /\ d2c'[i] = d2c[i + 1]
        /\ ~Dead /\ op.seq > 0 /\ op.st = "header" /\ ~block.in
        /\ cgen' = cgen
    BY <1>4, HeaderFacts
  <2>2. /\ \A i \in DOMAIN d2c' : d2c'[i].gen <= dgen /\ d2c[1].gen <= d2c'[i].gen
                                  /\ d2c'[i].gen \in Nat
        /\ d2c[1].gen <= dgen /\ d2c[1].gen \in Nat
    BY <1>0, <2>1, StageTypes DEF GenInv
  <2>3. \A i, k \in DOMAIN d2c' : i < k => d2c'[i].gen <= d2c'[k].gen
    BY <1>0, <2>1 DEF GenInv
  <2>4. ASSUME d2c[1].seq = op.seq, op' = NoOp, block' = block
        PROVE  GenInv'
    <3>1. ~SeekOut'
      BY <2>4 DEF SeekOut, NoOp
    <3>2. dgen = cgen => \A i \in DOMAIN d2c' : d2c'[i].gen = cgen
      <4>1. CASE SeekOut
        <5>1. d2c[1].gen = dgen
          BY <1>0, <2>1, <2>4, <4>1 DEF GenInv
        <5> QED BY <1>0, <2>2, <5>1
      <4>2. CASE ~SeekOut
        BY <1>0, <2>1, <4>2 DEF GenInv
      <4> QED BY <4>1, <4>2
    <3> HIDE DEF SeekOut, Dead
    <3> QED BY <1>0, <1>1, <2>1, <2>2, <2>3, <2>4, <3>1, <3>2 DEF GenInv
  <2>5. ASSUME op' = op \/ op' = [op EXCEPT !.st = "block"],
               block' = block \/ (block'.in /\ block'.gen = d2c[1].gen)
        PROVE  GenInv'
    <3>1. /\ op'.st \in {"header", "block"} /\ op'.kind = op.kind /\ op'.seq = op.seq
          /\ op'.sentCancel = op.sentCancel
      BY <1>0, <2>1, <2>5 DEF Operations
    <3>2. SeekOut' <=> SeekOut
      BY <2>1, <3>1 DEF SeekOut
    <3> HIDE DEF SeekOut, Dead
    <3>3. ~SeekOut /\ dgen = cgen
            => /\ \A i \in DOMAIN d2c' : d2c'[i].gen = cgen
               /\ block'.in => block'.gen = cgen
      BY <1>0, <2>1, <2>5 DEF GenInv
    <3>4. SeekOut => \A i \in DOMAIN d2c' : d2c'[i].seq = op.seq => d2c'[i].gen = dgen
      BY <1>0, <2>1 DEF GenInv
    <3>5. block'.in => block'.gen <= dgen
      BY <2>1, <2>2, <2>5
    <3> QED BY <1>0, <1>1, <2>1, <2>2, <2>3, <3>1, <3>2, <3>3, <3>4, <3>5 DEF GenInv
  <2>6. ASSUME NEW x, block' = [start |-> x.start, len |-> x.len, gen |-> x.gen, in |-> TRUE]
        PROVE  block'.in /\ block'.gen = x.gen
    BY <2>6
  <2> QED BY <1>4, <2>4, <2>5, <2>6, HeaderFacts DEF FinishFailed, Finish
<1>5. CASE ~WriteRequest /\ ~StreamError /\ ~ReadHeader
  <2> HIDE DEF SeekOut, Dead
  <2>1. /\ UNCHANGED <<d2c, cgen>> /\ (Dead => Dead') /\ (SeekOut' <=> SeekOut)
        /\ SeekOut => op'.seq = op.seq
        /\ block'.in => block.in /\ block'.gen = block.gen
    BY <1>5, QuietSteps
  <2> QED BY <1>0, <1>1, <2>1, SameGen
<1> QED BY <1>2, <1>3, <1>4, <1>5

(* The channel counts a generation when it starts a seek, and only then. *)
LEMMA StartedGen ==
  ASSUME TypeOK, OrderInv', SeekInv, GenInv, OpInv, NEW q \in Seq(Queued), q # << >>,
         StartQueued(q), UNCHANGED <<op, cgen, shut, d2c, block>>,
         q[1].cmd = "seek" => SeekOut /\ q[1].seq = op.seq /\ dgen < cgen
  PROVE  GenInv'
<1>0. /\ op.seq \in Nat /\ (SeekOut => op.seq # 0) /\ dgen \in Nat /\ cgen \in Nat
      /\ \A i \in DOMAIN d2c : d2c[i].gen \in Nat /\ d2c[i].seq \in Nat
      /\ block.gen \in Nat
  BY StageTypes DEF OpInv, SeekOut, TypeOK, InputBlock
<1>1. /\ job'.seq = q[1].seq /\ job'.st = "work"
      /\ dgen' = dgen \/ (q[1].cmd = "seek" /\ dgen' = dgen + 1)
  BY StartedFacts
<1>2. (SeekOut' <=> SeekOut) /\ (Dead' <=> Dead)
  BY DEF SeekOut, Dead
<1> HIDE DEF SeekOut, Dead
<1>3. CASE dgen' = dgen
  BY <1>2, <1>3, SameGen
<1>4. CASE q[1].cmd = "seek" /\ dgen' = dgen + 1
  <2>1. SeekOut /\ q[1].seq = op.seq /\ dgen < cgen
    BY <1>4
  <2>2. \A i \in DOMAIN d2c : Before(d2c[i].seq, op.seq)
    BY <1>1, <2>1 DEF OrderInv
  <2>3. \A i \in DOMAIN d2c : d2c[i].seq # op.seq
    BY <1>0, <2>1, <2>2 DEF Before
  <2>4. /\ dgen' <= cgen /\ \A i \in DOMAIN d2c : d2c[i].gen <= dgen'
        /\ block.in => block.gen <= dgen'
    BY <1>0, <1>4, <2>1 DEF GenInv
  <2> QED BY <1>2, <2>1, <2>3, <2>4 DEF GenInv
<1> QED BY <1>1, <1>3, <1>4

(* Replies carry the generation of their time. *)
LEMMA DaemonGen ==
  ASSUME RInv, OrderInv', Backend \/ Channel \/ ForceClose \/ SetBlockRequests PROVE GenInv'
<1>0. /\ TypeOK /\ OpInv /\ SeekInv /\ GenInv /\ dgen \in Nat
      /\ \A i \in DOMAIN d2c : d2c[i].gen \in Nat
  BY StageTypes DEF RInv, TypeOK
<1>1. UNCHANGED <<op, cgen, block>> /\ (shut' = shut \/ shut')
  BY DaemonLeaves DEF streamVars
<1>2. (SeekOut' <=> SeekOut) /\ (Dead => Dead')
  BY <1>1 DEF SeekOut, Dead
<1> HIDE DEF SeekOut, Dead
<1>3. ASSUME UNCHANGED <<d2c, dgen>>
      PROVE  GenInv'
  BY <1>0, <1>1, <1>2, <1>3, SameGen
<1>4. CASE Backend
  <2>1. UNCHANGED <<shut, dgen>>
    BY <1>0, <1>4, AnsweredFacts
  <2>2. CASE shut
    <3>1. d2c' = d2c
      BY <1>4, <2>2, BackendReplies DEF Reply
    <3> QED BY <1>3, <2>1, <3>1
  <2>3. CASE ~shut
    <3>1. /\ DOMAIN d2c = 1 .. Len(d2c) /\ Len(d2c) \in Nat
          /\ DOMAIN d2c' = 1 .. Len(d2c) + 1
          /\ \A i \in DOMAIN d2c : d2c'[i] = d2c[i]
          /\ d2c'[Len(d2c) + 1].gen = dgen
      BY <1>4, <2>3, BackendFacts
    <3>2. \A i \in DOMAIN d2c' : i \in Nat /\ (i \in DOMAIN d2c \/ i = Len(d2c) + 1)
      BY <3>1
    <3>3. \A i, k \in DOMAIN d2c' : i < k => i \in DOMAIN d2c
      BY <3>1
    <3>4. /\ \A i \in DOMAIN d2c' : d2c'[i].gen <= dgen
          /\ \A i, k \in DOMAIN d2c' : i < k => d2c'[i].gen <= d2c'[k].gen
      BY <1>0, <3>1, <3>2, <3>3 DEF GenInv
    <3>5. /\ ~Dead /\ SeekOut => \A i \in DOMAIN d2c' : d2c'[i].seq = op.seq => d2c'[i].gen = dgen
          /\ ~Dead /\ ~SeekOut /\ dgen = cgen => \A i \in DOMAIN d2c' : d2c'[i].gen = cgen
      BY <1>0, <3>1, <3>2 DEF GenInv
    <3> QED BY <1>0, <1>1, <1>2, <2>1, <3>4, <3>5 DEF GenInv
  <2> QED BY <2>2, <2>3
<1>5. CASE GotRequest
  <2>1. UNCHANGED <<d2c, shut>>
    BY <1>5 DEF GotRequest
  <2>2. ASSUME NEW q \in Seq(Queued), q # << >>,
               \A i \in DOMAIN q : \/ \E k \in DOMAIN queue : q[i] = queue[k]
                                   \/ \E k \in DOMAIN c2d : /\ q[i].cmd = c2d[k].cmd
                                                            /\ q[i].seq = c2d[k].seq,
               StartQueued(q)
        PROVE  GenInv'
    <3>1. 1 \in DOMAIN q
      BY <2>2, TailFacts
    <3>2. q[1].cmd = "seek" => SeekOut /\ q[1].seq = op.seq /\ dgen < cgen
      BY <1>0, <2>2, <3>1 DEF SeekInv
    <3> QED BY <1>0, <1>1, <2>1, <2>2, <3>2, StartedGen
  <2> QED BY <1>3, <1>5, <2>1, <2>2, GotFacts
<1>6. CASE SendReplyCb
  <2>1. UNCHANGED <<d2c, shut>>
    BY <1>6, RepliedSteps
  <2>2. CASE queue \in Seq(Queued) /\ queue # << >> /\ StartQueued(queue)
    <3>1. 1 \in DOMAIN queue
      BY <2>2, TailFacts
    <3>2. queue[1].cmd = "seek" => SeekOut /\ queue[1].seq = op.seq /\ dgen < cgen
      BY <1>0, <3>1 DEF SeekInv
    <3> QED BY <1>0, <1>1, <2>1, <2>2, <3>2, StartedGen
  <2> QED BY <1>3, <1>6, <2>1, <2>2, RepliedSteps
<1>7. CASE ForceClose \/ SetBlockRequests
  BY <1>3, <1>7 DEF ForceClose, SetBlockRequests
<1> QED BY <1>4, <1>5, <1>6, <1>7 DEF Channel

-----------------------------------------------------------------------------
(* Data and positions.                                                     *)

(* The blocks kept by queries begin at the position or behind it. *)
LEMMA PreFacts ==
  ASSUME TypeOK, PreInv
  PROVE  /\ offset \in Nat /\ PreEnd \in Nat /\ PreEnd >= offset
         /\ DOMAIN pre = 1 .. Len(pre) /\ Len(pre) \in Nat
         /\ pre # << >> => 1 \in DOMAIN pre /\ Len(pre) \in DOMAIN pre
         /\ \A i \in DOMAIN pre : i \in Nat /\ pre[i].start \in Nat /\ pre[i].len \in Nat
                                  /\ pre[i].start >= offset
<1>1. pre \in Seq(Blocklike) /\ offset \in Nat
  BY StreamAssumption DEF TypeOK, Units
<1>2. /\ DOMAIN pre = 1 .. Len(pre) /\ Len(pre) \in Nat
      /\ pre # << >> => 1 \in DOMAIN pre /\ Len(pre) \in DOMAIN pre
      /\ \A i \in DOMAIN pre : i \in Nat /\ pre[i] \in Blocklike /\ (i = 1 \/ 1 < i)
  BY <1>1
<1>3. \A i \in DOMAIN pre : pre[i].start \in Nat /\ pre[i].len \in Nat
  BY <1>2, StreamAssumption DEF Blocklike, Units
<1>4. \A i \in DOMAIN pre : pre[i].start >= offset
  <2>1. pre # << >> => pre[1].start >= offset
    BY DEF PreInv
  <2>2. ASSUME NEW i \in DOMAIN pre, 1 < i
        PROVE  pre[i].start >= offset
    <3>1. pre # << >> /\ 1 \in DOMAIN pre
      BY <1>2
    <3>2. pre[1].start + pre[1].len <= pre[i].start
      BY <2>2, <3>1 DEF PreInv, End
    <3> QED BY <1>1, <1>3, <2>1, <3>1, <3>2
  <2>3. \A i \in DOMAIN pre : pre # << >>
    BY <1>2
  <2> QED BY <1>2, <2>1, <2>2, <2>3
<1>5. PreEnd \in Nat /\ PreEnd >= offset
  <2>1. CASE pre = << >>
    BY <1>1, <2>1 DEF PreEnd
  <2>2. CASE pre # << >>
    <3>1. Len(pre) \in DOMAIN pre /\ PreEnd = pre[Len(pre)].start + pre[Len(pre)].len
      BY <1>2, <2>2 DEF PreEnd, End
    <3> QED BY <1>1, <1>3, <1>4, <3>1
  <2> QED BY <2>1, <2>2
<1> QED BY <1>1, <1>2, <1>3, <1>4, <1>5

(* A step that leaves the data alone *)
LEMMA SameData ==
  ASSUME DataInv, UNCHANGED <<offset, cgen, dgen, block, d2c, bpos, shut, sure>>,
         Dead => Dead', Closing => Closing', ~Closing' => pre' = pre, SeekOut' <=> SeekOut
  PROVE  DataInv'
<1>1. ~Closing' => ~Closing /\ PreInv' /\ PreEnd' = PreEnd
  BY DEF DataInv, PreInv, PreEnd
<1>2. ~Closing' => \A s, e : Follows(s, e) <=> s >= PreEnd' /\ ((sure' \/ pre' # << >>) /\ e => s = PreEnd')
  BY <1>1 DEF Follows
<1>3. ASSUME ~Dead' PROVE \E f : Trace(f)'
  <2>1. PICK f : Trace(f)
    BY <1>3 DEF DataInv
  <2> HIDE DEF SeekOut, Dead, Closing, PreEnd
  <2>2. ~block'.in /\ ~Closing' => Follows(f[1], ~SeekOut' /\ dgen' = cgen')
    BY <1>1, <2>1 DEF Trace
  <2>3. Trace(f)'
    BY <1>1, <1>2, <2>1, <2>2 DEF Trace, Follows
  <2> QED BY <2>3
<1> HIDE DEF SeekOut, Dead, Closing, PreEnd, Trace, PreInv
<1> QED BY <1>1, <1>2, <1>3 DEF DataInv, Follows

(* A step that takes a piece of the block *)
LEMMA BlockTrace ==
  ASSUME DataInv, UNCHANGED <<d2c, bpos, shut>>, Dead => Dead', block.in,
         block'.in => End(block') = End(block),
         ~Dead' /\ ~block'.in /\ ~Closing' =>
            /\ End(block) >= PreEnd'
            /\ (sure' \/ pre' # << >>) /\ ~SeekOut' /\ dgen' = cgen' => End(block) = PreEnd',
         ~Dead'
  PROVE  \E f : Trace(f)'
<1>1. PICK f : Trace(f)
  BY DEF DataInv
<1> HIDE DEF SeekOut, Dead, Closing, PreEnd, End
<1>2. Trace(f)'
  BY <1>1 DEF Trace, Follows
<1> QED BY <1>2

(* What is left of a block *)
LEMMA RestFacts ==
  ASSUME TypeOK, NEW n, n \in Nat, n <= block.len, NEW m \in Pieces(n), block.in,
         n > 0 \/ block.len = 0
  PROVE  /\ m \in Nat /\ m <= block.len /\ (m = 0 <=> block.len = 0)
         /\ block.start \in Nat /\ block.len \in Nat /\ block.gen \in Nat
         /\ \/ m = block.len /\ ~Rest(m).in
            \/ /\ m < block.len /\ Rest(m).in /\ Rest(m).start = block.start + m
               /\ Rest(m).len = block.len - m /\ Rest(m).gen = block.gen
               /\ End(Rest(m)) = End(block)
<1>1. block \in InputBlock
  BY DEF TypeOK
<1>2. block.start \in Nat /\ block.len \in Nat /\ block.gen \in Nat
  BY <1>1, StreamAssumption DEF InputBlock, Units
<1>3. m \in Nat /\ m <= block.len /\ (m = 0 <=> block.len = 0)
  BY <1>2 DEF Pieces
<1>4. CASE m = block.len
  BY <1>2, <1>3, <1>4 DEF Rest, NoBlock
<1>5. CASE m # block.len
  <2>1. Rest(m) = [block EXCEPT !.start = @ + m, !.len = @ - m]
    BY <1>5 DEF Rest
  <2>2. /\ Rest(m).in = block.in /\ Rest(m).start = block.start + m
        /\ Rest(m).len = block.len - m /\ Rest(m).gen = block.gen
    BY <1>1, <2>1 DEF InputBlock
  <2>3. m < block.len /\ (block.start + m) + (block.len - m) = block.start + block.len
    BY <1>2, <1>3, <1>5
  <2> QED BY <1>2, <1>3, <2>2, <2>3 DEF End
<1> QED BY <1>2, <1>3, <1>4, <1>5

(* A read served from the blocks kept *)
LEMMA PreRead ==
  ASSUME RInv, NEW n \in ReadSizes, ReadFromPre(n) PROVE DataInv'
<1>0. TypeOK /\ DataInv /\ OpInv /\ n \in Nat /\ n > 0
  BY StreamAssumption DEF RInv
<1>1. /\ ~Closing /\ ~Closing' /\ ~SeekOut /\ ~SeekOut' /\ (Dead => Dead')
      /\ UNCHANGED <<cgen, dgen, block, d2c, bpos, shut, sure>>
  BY DEF ReadFromPre, NewOp, Idle, Closing, SeekOut, Dead, daemonVars
<1>2. PreInv /\ UsablePre = pre
  BY <1>0, <1>1, UsableIsPre DEF DataInv
<1> DEFINE p == Head(pre)
           m == Smaller(n, p.len)
           x == [p EXCEPT !.start = @ + m, !.len = @ - m]
<1>3. /\ pre # << >> /\ pre \in Seq(Blocklike) /\ offset' = offset + m
      /\ pre' = IF m < p.len THEN <<x>> \o Tail(pre) ELSE Tail(pre)
  BY <1>0, <1>2 DEF ReadFromPre, TypeOK
<1>4. p = pre[1] /\ p \in Blocklike /\ 1 \in DOMAIN pre
  BY <1>3, TailFacts
<1>5. /\ p.start \in Nat /\ p.len \in Nat /\ p.gen = cgen /\ p.len > 0 /\ p.start >= offset
      /\ (sure => p.start = offset) /\ InFile(p) /\ offset \in Nat
  BY <1>0, <1>2, <1>3, <1>4, PreFacts DEF PreInv
<1>6. m \in Nat /\ m <= p.len /\ m > 0
  BY <1>0, <1>5 DEF Smaller
<1>7. x.start = p.start + m /\ x.len = p.len - m /\ x.gen = p.gen /\ (m < p.len => x \in Blocklike)
  <2>1. x.start = p.start + m /\ x.len = p.len - m /\ x.gen = p.gen
    BY <1>4 DEF Blocklike
  <2>2. ASSUME m < p.len PROVE p.start + m \in Units /\ p.len - m \in Units
    BY <1>5, <1>6, <2>2, StreamAssumption DEF InFile, End, Units
  <2>3. \A a \in Units, b \in Units : [p EXCEPT !.start = a, !.len = b] \in Blocklike
    BY <1>4 DEF Blocklike
  <2> QED BY <2>1, <2>2, <2>3
<1> HIDE DEF x, m, p
<1>8. CASE m < p.len
  <2>1. pre' = <<x>> \o Tail(pre) /\ x \in Blocklike
    BY <1>3, <1>7, <1>8
  <2>2. /\ Len(pre') = Len(pre) /\ DOMAIN pre' = DOMAIN pre /\ pre' # << >> /\ pre'[1] = x
        /\ \A i \in DOMAIN pre : i # 1 => pre'[i] = pre[i]
    <3>1. Len(Tail(pre)) = Len(pre) - 1 /\ Tail(pre) \in Seq(Blocklike) /\ Len(pre) \in Nat \ {0}
          /\ \A i \in 1 .. Len(pre) - 1 : Tail(pre)[i] = pre[i + 1]
      BY <1>3
    <3>2. <<x>> \in Seq(Blocklike) /\ Len(<<x>>) = 1 /\ <<x>>[1] = x
      BY <2>1
    <3>3. /\ Len(pre') = 1 + (Len(pre) - 1) /\ DOMAIN pre' = 1 .. Len(pre')
          /\ \A i \in 1 .. Len(pre') : pre'[i] = IF i <= 1 THEN <<x>>[i] ELSE Tail(pre)[i - 1]
      BY <2>1, <3>1, <3>2
    <3>4. Len(pre') = Len(pre) /\ DOMAIN pre' = 1 .. Len(pre) /\ DOMAIN pre = 1 .. Len(pre)
      <4>1. \A l \in Nat \ {0} : 1 + (l - 1) = l
        OBVIOUS
      <4>2. Len(pre') = Len(pre)
        BY <3>1, <3>3, <4>1
      <4>3. DOMAIN pre = 1 .. Len(pre)
        BY <1>3
      <4> QED BY <3>3, <4>2, <4>3
    <3>5. pre'[1] = x
      BY <3>1, <3>2, <3>3
    <3>6. \A i \in 1 .. Len(pre) : i # 1 => i - 1 \in 1 .. Len(pre) - 1 /\ ~(i <= 1) /\ (i - 1) + 1 = i
      BY <3>1
    <3>7. \A i \in 1 .. Len(pre) : i # 1 => pre'[i] = pre[i]
      BY <3>1, <3>3, <3>4, <3>6
    <3>8. pre' # << >>
      BY <1>4, <3>4
    <3> QED BY <3>4, <3>5, <3>7, <3>8
  <2>3. End(x) = End(p) /\ x.len > 0
    BY <1>5, <1>6, <1>7, <1>8 DEF End
  <2>4. \A i \in DOMAIN pre : End(pre'[i]) = End(pre[i])
    BY <1>4, <2>2, <2>3
  <2>5. PreInv'
    <3>1. \A i \in DOMAIN pre' : pre'[i].gen = cgen /\ pre'[i].len > 0 /\ InFile(pre'[i])
      <4>1. x.gen = cgen /\ x.len > 0 /\ InFile(x)
        BY <1>5, <1>7, <2>3 DEF InFile
      <4> QED BY <1>2, <2>2, <4>1 DEF PreInv
    <3>2. \A i, k \in DOMAIN pre' : i < k => End(pre'[i]) <= pre'[k].start
      <4>1. \A i, k \in DOMAIN pre : i < k => k # 1
        BY <1>0, <1>2, PreFacts
      <4> QED BY <1>2, <2>2, <2>4, <4>1 DEF PreInv
    <3>3. \A i \in DOMAIN pre' : i > 1 => End(pre'[i - 1]) = pre'[i].start
      <4>1. \A i \in DOMAIN pre : i > 1 => i # 1 /\ i - 1 \in DOMAIN pre
        BY <1>0, <1>2, PreFacts
      <4> QED BY <1>2, <2>2, <2>4, <4>1 DEF PreInv
    <3>4. pre'[1].start >= offset' /\ (sure' => pre'[1].start = offset')
      BY <1>1, <1>3, <1>5, <1>6, <1>7, <2>2
    <3> HIDE DEF SeekOut
    <3> QED BY <1>1, <3>1, <3>2, <3>3, <3>4 DEF PreInv, InFile
  <2>6. PreEnd' = PreEnd
    BY <1>0, <1>2, <1>3, <2>2, <2>4, PreFacts DEF PreEnd
  <2> QED
    <3> HIDE DEF SeekOut, Dead, Closing, PreInv, PreEnd
    <3>1. ASSUME ~Dead' PROVE \E f : Trace(f)'
      <4>1. PICK f : Trace(f)
        BY <1>0, <1>1, <3>1 DEF DataInv
      <4>2. Trace(f)'
        BY <1>1, <1>3, <2>2, <2>6, <4>1 DEF Trace, Follows
      <4> QED BY <4>2
    <3> HIDE DEF Trace
    <3> QED BY <1>0, <1>1, <1>3, <2>2, <2>5, <2>6, <3>1 DEF DataInv, Follows
<1>9. CASE ~(m < p.len)
  <2>1. m = p.len /\ pre' = Tail(pre)
    BY <1>3, <1>5, <1>6, <1>9
  <2>2. /\ Len(pre) \in Nat /\ Len(pre) >= 1 /\ DOMAIN pre = 1 .. Len(pre)
        /\ Len(pre') = Len(pre) - 1 /\ DOMAIN pre' = 1 .. Len(pre) - 1
        /\ \A i \in DOMAIN pre' : i + 1 \in DOMAIN pre /\ pre'[i] = pre[i + 1]
        /\ pre' = << >> <=> Len(pre) = 1
    <3>1. /\ Tail(pre) \in Seq(Blocklike) /\ Len(Tail(pre)) = Len(pre) - 1 /\ Len(pre) >= 1
          /\ \A i \in DOMAIN Tail(pre) : i + 1 \in DOMAIN pre /\ Tail(pre)[i] = pre[i + 1]
      BY <1>3, TailFacts
    <3>2. Len(pre) \in Nat /\ DOMAIN pre = 1 .. Len(pre)
      BY <1>3
    <3>3. DOMAIN Tail(pre) = 1 .. Len(pre) - 1 /\ (Tail(pre) = << >> <=> Len(pre) = 1)
      BY <3>1, <3>2
    <3> QED BY <2>1, <3>1, <3>2, <3>3
  <2>3. pre' # << >> => pre'[1] = pre[2] /\ 2 \in DOMAIN pre /\ pre[2].start = End(p)
    <3>1. pre' # << >> => Len(pre) >= 2
      BY <2>2
    <3>2. pre' # << >> => 1 \in DOMAIN pre' /\ 2 \in DOMAIN pre /\ 1 + 1 = 2 /\ 2 - 1 = 1 /\ 2 > 1
      BY <2>2, <3>1
    <3> QED BY <1>2, <1>4, <2>2, <3>2 DEF PreInv
  <2>4. PreInv'
    <3>1. \A i \in DOMAIN pre' : pre'[i].gen = cgen /\ pre'[i].len > 0 /\ InFile(pre'[i])
      BY <1>2, <2>2 DEF PreInv
    <3>2. \A i, k \in DOMAIN pre' : i < k => End(pre'[i]) <= pre'[k].start
      <4>1. \A i, k \in DOMAIN pre' : i < k => i + 1 < k + 1
        BY <2>2
      <4> QED BY <1>2, <2>2, <4>1 DEF PreInv
    <3>3. \A i \in DOMAIN pre' : i > 1 => End(pre'[i - 1]) = pre'[i].start
      <4>1. \A i \in DOMAIN pre' : i > 1 => i - 1 \in DOMAIN pre' /\ (i - 1) + 1 = i
                                            /\ (i + 1) - 1 = i /\ i + 1 > 1
        BY <2>2
      <4>2. \A i \in DOMAIN pre' : i > 1 => pre'[i - 1] = pre[i] /\ pre'[i] = pre[i + 1]
        BY <2>2, <4>1
      <4>3. \A i \in DOMAIN pre' : i > 1 => End(pre[(i + 1) - 1]) = pre[i + 1].start
        BY <1>2, <2>2, <4>1 DEF PreInv
      <4> QED BY <4>1, <4>2, <4>3
    <3>4. pre' # << >> => pre'[1].start >= offset' /\ (sure' => pre'[1].start = offset')
      BY <1>1, <1>3, <1>5, <1>6, <2>1, <2>3 DEF End
    <3> HIDE DEF SeekOut
    <3> QED BY <1>1, <3>1, <3>2, <3>3, <3>4 DEF PreInv, InFile
  <2>5. /\ PreEnd' <= PreEnd /\ PreEnd' \in Nat /\ PreEnd \in Nat
        /\ sure' \/ pre' # << >> => PreEnd' = PreEnd
    <3>1. CASE pre' = << >>
      <4>1. PreEnd' = offset + m /\ PreEnd = p.start + p.len
        BY <1>3, <1>4, <2>2, <3>1 DEF PreEnd, End
      <4> QED BY <1>1, <1>5, <1>6, <2>1, <3>1, <4>1
    <3>2. CASE pre' # << >>
      <4>1. Len(pre') \in DOMAIN pre' /\ Len(pre') + 1 = Len(pre)
        BY <2>2, <3>2
      <4>2. PreEnd' = PreEnd
        BY <1>3, <2>2, <3>2, <4>1 DEF PreEnd
      <4> QED BY <1>0, <1>2, <4>2, PreFacts
    <3> QED BY <3>1, <3>2
  <2>6. ASSUME NEW s \in Nat, NEW e, Follows(s, e)
        PROVE  s >= PreEnd' /\ ((sure' \/ pre' # << >>) /\ e => s = PreEnd')
    <3>1. s >= PreEnd /\ (e => s = PreEnd)
      BY <1>3, <2>6 DEF Follows
    <3> QED BY <2>5, <3>1
  <2> QED
    <3> HIDE DEF SeekOut, Dead, Closing, PreInv, PreEnd
    <3>0. block.start \in Nat
      BY <1>0, StreamAssumption DEF TypeOK, InputBlock, Units
    <3>1. ASSUME ~Dead' PROVE \E f : Trace(f)'
      <4>1. PICK f : Trace(f)
        BY <1>0, <1>1, <3>1 DEF DataInv
      <4>2. f[1] \in Nat
        <5>1. 1 \in 1 .. Len(d2c) + 1 /\ \A u \in Units : u \in Nat
          <6>1. Len(d2c) \in Nat
            BY <1>0 DEF TypeOK
          <6> QED BY <6>1, StreamAssumption DEF Units
        <5> QED BY <4>1, <5>1 DEF Trace
      <4>3. ~block.in => /\ f[1] >= PreEnd'
                         /\ (sure' \/ pre' # << >>) /\ ~SeekOut /\ dgen = cgen => f[1] = PreEnd'
        BY <1>1, <2>6, <4>1, <4>2 DEF Trace
      <4>4. Trace(f)'
        BY <1>1, <4>1, <4>3 DEF Trace, Follows
      <4> QED BY <4>4
    <3>2. block.in => /\ block.start >= PreEnd'
                      /\ (sure' \/ pre' # << >>) /\ ~SeekOut /\ block.gen = cgen
                           => block.start = PreEnd'
      BY <1>0, <1>1, <2>6, <3>0 DEF DataInv
    <3> HIDE DEF Trace
    <3> QED BY <1>0, <1>1, <2>4, <3>1, <3>2 DEF DataInv, Follows
<1> QED BY <1>8, <1>9

(* READ_STATE_READ_BLOCK: the data is at the position, or behind it once a *)
(* seek has failed.                                                        *)
LEMMA BlockReadFacts ==
  ASSUME RInv, NEW m \in Units, ReadBlock(m)
  PROVE  /\ block.in /\ InFile(block) /\ block.start >= offset /\ (sure => block.start = offset)
         /\ pre = << >> /\ ~Closing /\ ~SeekOut /\ op.kind = "read" /\ block.gen = cgen
         /\ m \in Nat /\ m <= block.len /\ (m = 0 <=> block.len = 0)
         /\ block.start \in Nat /\ block.len \in Nat /\ offset \in Nat
         /\ \/ m = block.len /\ ~Rest(m).in
            \/ /\ m < block.len /\ Rest(m).in /\ Rest(m).start = block.start + m
               /\ Rest(m).len = block.len - m /\ Rest(m).gen = block.gen
               /\ End(Rest(m)) = End(block)
<1>0. TypeOK /\ DataInv /\ OpInv /\ op.arg \in Nat
  BY DEF RInv, TypeOK, Operations
<1>1. /\ op.kind = "read" /\ block.in /\ block.gen = cgen
      /\ m \in Pieces(Smaller(op.arg, block.len))
  BY DEF ReadBlock
<1>2. pre = << >> /\ op.arg > 0 /\ ~Closing /\ ~SeekOut
  BY <1>0, <1>1 DEF OpInv, Closing, SeekOut
<1>3. block.start \in Nat /\ block.len \in Nat /\ offset \in Nat
  BY <1>0, StreamAssumption DEF TypeOK, InputBlock, Units
<1>4. InFile(block) /\ block.start >= offset /\ (sure => block.start = offset)
  <2> HIDE DEF InFile, SeekOut, Closing
  <2> QED BY <1>0, <1>1, <1>2 DEF DataInv, Follows, PreEnd
<1>5. LET n == Smaller(op.arg, block.len) IN n \in Nat /\ n <= block.len /\ (n > 0 \/ block.len = 0)
  BY <1>0, <1>2, <1>3 DEF Smaller
<1> HIDE DEF Rest, Pieces, Smaller
<1> QED BY <1>0, <1>1, <1>2, <1>3, <1>4, <1>5, RestFacts

(* Reading from a block moves position and block alike. *)
LEMMA BlockRead ==
  ASSUME RInv, NEW m \in Units, ReadBlock(m) PROVE DataInv'
<1>0. DataInv
  BY DEF RInv
<1>1. /\ op' = NoOp /\ closed' = (closed \/ op.kind = "close") /\ offset' = offset + m
      /\ block' = IF m = 0 THEN block ELSE Rest(m)
      /\ UNCHANGED <<cgen, dgen, pre, d2c, bpos, shut, sure>>
  BY DEF ReadBlock, Finish, daemonVars
<1>2. /\ block.in /\ InFile(block) /\ block.start >= offset /\ (sure => block.start = offset)
      /\ pre = << >> /\ ~Closing /\ ~SeekOut /\ op.kind = "read" /\ block.gen = cgen
      /\ m \in Nat /\ m <= block.len /\ (m = 0 <=> block.len = 0)
      /\ block.start \in Nat /\ block.len \in Nat /\ offset \in Nat
      /\ \/ m = block.len /\ ~Rest(m).in
         \/ /\ m < block.len /\ Rest(m).in /\ Rest(m).start = block.start + m
            /\ Rest(m).len = block.len - m /\ Rest(m).gen = block.gen
            /\ End(Rest(m)) = End(block)
  BY BlockReadFacts
<1>3. ~SeekOut' /\ ~Closing' /\ (Dead => Dead') /\ pre' = << >> /\ PreEnd' = offset + m
  BY <1>1, <1>2 DEF SeekOut, Closing, Dead, NoOp, PreEnd
<1> HIDE DEF Rest
<1>4. PreInv'
  <2>1. DOMAIN pre' = {}
    BY <1>3
  <2> HIDE DEF SeekOut
  <2> QED BY <1>3, <2>1 DEF PreInv
<1>5. \/ m = block.len /\ m > 0 /\ ~block'.in
      \/ m = 0 /\ block' = block
      \/ m < block.len /\ block'.in /\ block'.start = block.start + m
         /\ block'.len = block.len - m /\ block'.gen = block.gen /\ End(block') = End(block)
  BY <1>1, <1>2
<1>6. block'.in => InFile(block') /\ block'.gen = cgen /\ End(block') = End(block)
                   /\ block'.start = block.start + m
  BY <1>2, <1>5 DEF InFile
<1>7. ~block'.in => End(block) = block.start + m
  BY <1>2, <1>5 DEF End
<1>8. block.start + m >= PreEnd' /\ (sure' => block.start + m = PreEnd')
  BY <1>1, <1>2, <1>3
<1> HIDE DEF SeekOut, Closing, Dead, PreEnd, PreInv, End
<1>9. ~Dead' => \E f : Trace(f)'
  BY <1>0, <1>1, <1>2, <1>3, <1>6, <1>7, <1>8, BlockTrace
<1>10. \A i \in DOMAIN d2c' : d2c'[i].type = "data" => InFile(d2c'[i])
  BY <1>0, <1>1 DEF DataInv
<1>11. block'.in => Follows(block.start, ~SeekOut /\ block.gen = cgen)'
  BY <1>1, <1>3, <1>6, <1>8 DEF Follows
<1> HIDE DEF Trace, InFile, Follows
<1>12. block'.in => InFile(block')
  BY <1>6
<1> QED BY <1>4, <1>9, <1>10, <1>11, <1>12 DEF DataInv

(* A query keeps what it comes across. *)
LEMMA Kept ==
  ASSUME RInv, NEW m \in Units, KeepBlock(m) PROVE DataInv'
<1>0. DataInv /\ TypeOK /\ OpInv
  BY DEF RInv
<1> DEFINE x == [start |-> block.start, len |-> m, gen |-> block.gen]
<1>1. /\ op.kind = "query" /\ op.st = "block" /\ block.len > 0 /\ block.gen = cgen
      /\ m \in Pieces(block.len) /\ pre' = Append(pre, x) /\ block' = Rest(m)
      /\ op' = [op EXCEPT !.st = "input"]
      /\ UNCHANGED <<offset, cgen, dgen, d2c, bpos, shut, sure, closed>>
  BY DEF KeepBlock, daemonVars, histVars
<1>2. op'.kind = op.kind
  BY <1>0, <1>1 DEF TypeOK, Operations
<1>3. /\ ~SeekOut /\ ~SeekOut' /\ ~Closing /\ ~Closing' /\ ~Dead /\ block.in
  BY <1>0, <1>1, <1>2 DEF SeekOut, Closing, Dead, OpInv
<1>4. /\ m \in Nat /\ m <= block.len /\ m > 0
      /\ block.start \in Nat /\ block.len \in Nat /\ block.gen \in Nat
      /\ \/ m = block.len /\ ~block'.in
         \/ /\ m < block.len /\ block'.in /\ block'.start = block.start + m
            /\ block'.len = block.len - m /\ block'.gen = block.gen /\ End(block') = End(block)
  <2>1. block.len \in Nat
    BY <1>0, StreamAssumption DEF TypeOK, InputBlock, Units
  <2> HIDE DEF Rest, Pieces, End
  <2>2. /\ m \in Nat /\ m <= block.len /\ (m = 0 <=> block.len = 0)
        /\ block.start \in Nat /\ block.len \in Nat /\ block.gen \in Nat
        /\ \/ m = block.len /\ ~Rest(m).in
           \/ /\ m < block.len /\ Rest(m).in /\ Rest(m).start = block.start + m
              /\ Rest(m).len = block.len - m /\ Rest(m).gen = block.gen
              /\ End(Rest(m)) = End(block)
    BY <1>0, <1>1, <1>3, <2>1, RestFacts
  <2> QED BY <1>1, <2>1, <2>2
<1>5. /\ InFile(block) /\ PreInv
      /\ block.start >= PreEnd /\ (sure \/ pre # << >> => block.start = PreEnd)
  <2> HIDE DEF SeekOut, Closing, Dead, InFile, PreInv, PreEnd
  <2> QED BY <1>0, <1>1, <1>3 DEF DataInv, Follows
<1>6. x.start = block.start /\ x.len = m /\ x.gen = block.gen /\ x \in Blocklike
  BY <1>0 DEF Blocklike, TypeOK, InputBlock
<1> HIDE DEF x
<1>7. /\ DOMAIN pre' = 1 .. Len(pre) + 1 /\ Len(pre') = Len(pre) + 1
      /\ \A i \in DOMAIN pre : pre'[i] = pre[i]
      /\ pre'[Len(pre) + 1] = x /\ Len(pre) \in Nat /\ DOMAIN pre = 1 .. Len(pre)
      /\ pre # << >> <=> Len(pre) > 0
  <2>1. pre \in Seq(Blocklike)
    BY <1>0 DEF TypeOK
  <2>2. Len(pre) \in Nat /\ DOMAIN pre = 1 .. Len(pre) /\ (pre # << >> <=> Len(pre) > 0)
    BY <2>1
  <2> QED BY <1>1, <1>6, <2>1, <2>2, AppendFacts
<1>8. pre' # << >> /\ PreEnd' = block.start + m
  <2>1. pre' # << >>
    <3>1. 1 \in DOMAIN pre'
      BY <1>7
    <3> QED BY <3>1
  <2> QED BY <1>6, <1>7, <2>1 DEF PreEnd, End
<1>9. \A i \in DOMAIN pre' : i \in Nat /\ (i \in DOMAIN pre \/ i = Len(pre) + 1)
  BY <1>7
<1>10. \A i, k \in DOMAIN pre' : i < k => i \in DOMAIN pre
  BY <1>7
<1>11. InFile(x)
  BY <1>4, <1>5, <1>6, StreamAssumption DEF InFile, End
<1>12. \A i \in DOMAIN pre : End(pre[i]) <= block.start
  <2>1. ASSUME NEW i \in DOMAIN pre
        PROVE  End(pre[i]) <= PreEnd
    <3>1. Len(pre) \in DOMAIN pre /\ PreEnd = End(pre[Len(pre)]) /\ i \in Nat /\ i <= Len(pre)
      BY <1>7 DEF PreEnd
    <3>2. /\ pre[i].start \in Nat /\ pre[i].len \in Nat /\ pre[Len(pre)].start \in Nat
          /\ pre[Len(pre)].len \in Nat
      BY <1>0, <1>5, <3>1, PreFacts
    <3>3. CASE i = Len(pre)
      BY <3>1, <3>2, <3>3 DEF End
    <3>4. CASE i < Len(pre)
      <4>1. End(pre[i]) <= pre[Len(pre)].start
        BY <1>5, <3>1, <3>4 DEF PreInv
      <4> QED BY <3>1, <3>2, <4>1 DEF End
    <3> QED BY <1>7, <3>1, <3>3, <3>4
  <2>2. \A i \in DOMAIN pre : pre # << >>
    BY <1>7
  <2> QED BY <1>5, <2>1, <2>2
<1>13. PreInv'
  <2>1. \A i \in DOMAIN pre' : pre'[i].gen = cgen /\ pre'[i].len > 0 /\ InFile(pre'[i])
    BY <1>1, <1>4, <1>5, <1>6, <1>7, <1>9, <1>11 DEF PreInv
  <2>2. \A i, k \in DOMAIN pre' : i < k => End(pre'[i]) <= pre'[k].start
    BY <1>5, <1>6, <1>7, <1>9, <1>10, <1>12 DEF PreInv
  <2>3. \A i \in DOMAIN pre' : i > 1 => End(pre'[i - 1]) = pre'[i].start
    <3>1. ASSUME NEW i \in DOMAIN pre', i > 1, i \in DOMAIN pre
          PROVE  End(pre'[i - 1]) = pre'[i].start
      <4>1. i - 1 \in DOMAIN pre
        BY <1>7, <3>1
      <4> QED BY <1>5, <1>7, <3>1, <4>1 DEF PreInv
    <3>2. ASSUME Len(pre) + 1 > 1
          PROVE  End(pre'[(Len(pre) + 1) - 1]) = pre'[Len(pre) + 1].start
      <4>1. pre # << >> /\ (Len(pre) + 1) - 1 = Len(pre) /\ Len(pre) \in DOMAIN pre
        BY <1>7, <3>2
      <4> QED BY <1>5, <1>6, <1>7, <4>1 DEF PreEnd
    <3> QED BY <1>9, <3>1, <3>2
  <2>4. pre'[1].start >= offset' /\ (sure' => pre'[1].start = offset')
    <3>1. CASE pre = << >>
      <4>1. pre'[1] = x /\ PreEnd = offset
        BY <1>7, <3>1 DEF PreEnd
      <4> QED BY <1>1, <1>5, <1>6, <4>1
    <3>2. CASE pre # << >>
      <4>1. 1 \in DOMAIN pre
        BY <1>7, <3>2
      <4> QED BY <1>1, <1>5, <1>7, <3>2, <4>1 DEF PreInv
    <3> QED BY <3>1, <3>2
  <2> HIDE DEF SeekOut
  <2> QED BY <1>1, <1>3, <2>1, <2>2, <2>3, <2>4 DEF PreInv, InFile
<1>14. block'.in => InFile(block')
  BY <1>4, <1>5 DEF InFile
<1>15. ~block'.in => End(block) = block.start + m
  BY <1>4 DEF End
<1>16. block'.in => block'.start = block.start + m /\ End(block') = End(block)
  BY <1>4
<1>17. block.start + m >= block.start + m
  BY <1>4
<1> HIDE DEF SeekOut, Closing, Dead, PreEnd, PreInv, End
<1>18. ~Dead' => \E f : Trace(f)'
  BY <1>0, <1>1, <1>3, <1>8, <1>15, <1>16, <1>17, BlockTrace
<1>19. \A i \in DOMAIN d2c' : d2c'[i].type = "data" => InFile(d2c'[i])
  BY <1>0, <1>1 DEF DataInv
<1>20. block'.in => Follows(block.start, ~SeekOut /\ block.gen = cgen)'
  BY <1>8, <1>16, <1>17 DEF Follows
<1> HIDE DEF Trace, InFile, Follows
<1> QED BY <1>13, <1>14, <1>18, <1>19, <1>20 DEF DataInv

(* Data of the current generation is only skipped when there is none. *)
LEMMA Skipped ==
  ASSUME RInv, NEW m \in Units, SkipBlock(m) PROVE DataInv'
<1>0. DataInv /\ TypeOK /\ OpInv /\ GenInv
  BY DEF RInv
<1>1. /\ op.st = "block" /\ Skips /\ m \in Pieces(block.len) /\ block' = Rest(m)
      /\ op' = [op EXCEPT !.st = "input"]
      /\ UNCHANGED <<offset, cgen, dgen, pre, d2c, bpos, shut, sure, closed>>
  BY DEF SkipBlock, daemonVars, histVars
<1>2. op'.kind = op.kind /\ op'.st = "input" /\ op'.sentCancel = op.sentCancel
  BY <1>0, <1>1 DEF TypeOK, Operations
<1>3. /\ SeekOut' <=> SeekOut
      /\ Closing' <=> Closing
      /\ ~Dead /\ block.in
  BY <1>0, <1>1, <1>2 DEF SeekOut, Closing, Dead, OpInv
<1>4. /\ m \in Nat /\ m <= block.len /\ (m = 0 <=> block.len = 0)
      /\ block.start \in Nat /\ block.len \in Nat /\ block.gen \in Nat
      /\ \/ m = block.len /\ ~block'.in
         \/ /\ m < block.len /\ block'.in /\ block'.start = block.start + m
            /\ block'.len = block.len - m /\ block'.gen = block.gen /\ End(block') = End(block)
  <2>1. block.len \in Nat
    BY <1>0, StreamAssumption DEF TypeOK, InputBlock, Units
  <2> HIDE DEF Rest, Pieces, End
  <2>2. /\ m \in Nat /\ m <= block.len /\ (m = 0 <=> block.len = 0)
        /\ block.start \in Nat /\ block.len \in Nat /\ block.gen \in Nat
        /\ \/ m = block.len /\ ~Rest(m).in
           \/ /\ m < block.len /\ Rest(m).in /\ Rest(m).start = block.start + m
              /\ Rest(m).len = block.len - m /\ Rest(m).gen = block.gen
              /\ End(Rest(m)) = End(block)
    BY <1>0, <1>1, <1>3, <2>1, RestFacts
  <2> QED BY <1>1, <2>1, <2>2
<1>5. ~Closing /\ ~SeekOut /\ block.gen = cgen => block.len = 0
  BY <1>1 DEF Skips, SeekOut, Closing
<1>6. ~SeekOut /\ dgen = cgen => block.gen = cgen
  <2> HIDE DEF SeekOut, Dead
  <2> QED BY <1>0, <1>3 DEF GenInv
<1>7. /\ InFile(block)
      /\ ~Closing => PreInv /\ block.start >= PreEnd
                     /\ ((sure \/ pre # << >>) /\ ~SeekOut /\ block.gen = cgen
                           => block.start = PreEnd)
  <2> HIDE DEF SeekOut, Closing, Dead, InFile, PreInv, PreEnd
  <2> QED BY <1>0, <1>3 DEF DataInv, Follows
<1>8. ~Closing => PreEnd \in Nat
  BY <1>0, <1>7, PreFacts
<1>9. PreEnd' = PreEnd /\ (PreInv' <=> PreInv)
  BY <1>1, <1>3 DEF PreEnd, PreInv
<1>10. block'.in => InFile(block') /\ End(block') = End(block)
  BY <1>4, <1>7 DEF InFile
<1>11. ~Closing /\ ~block'.in =>
         /\ End(block) >= PreEnd
         /\ (sure \/ pre # << >>) /\ ~SeekOut /\ dgen = cgen => End(block) = PreEnd
  BY <1>4, <1>5, <1>6, <1>7, <1>8 DEF End
<1>12. ~Closing /\ block'.in =>
         /\ block'.start >= PreEnd
         /\ ~(~SeekOut /\ block'.gen = cgen)
  BY <1>4, <1>5, <1>7, <1>8
<1> HIDE DEF SeekOut, Closing, Dead, PreEnd, PreInv, End
<1>13. ~Dead' => \E f : Trace(f)'
  BY <1>0, <1>1, <1>3, <1>9, <1>10, <1>11, BlockTrace
<1>14. \A i \in DOMAIN d2c' : d2c'[i].type = "data" => InFile(d2c'[i])
  BY <1>0, <1>1 DEF DataInv
<1>15. ~Closing' /\ block'.in => Follows(block.start, ~SeekOut /\ block.gen = cgen)'
  BY <1>1, <1>3, <1>9, <1>12 DEF Follows
<1> HIDE DEF Trace, InFile, Follows
<1> QED BY <1>3, <1>7, <1>9, <1>10, <1>13, <1>14, <1>15 DEF DataInv

(* A trace begins inside the file. *)
LEMMA TraceStart ==
  ASSUME TypeOK, NEW f, Trace(f)
  PROVE  f[1] \in Nat
<1>1. 1 \in 1 .. Len(d2c) + 1
  <2>1. Len(d2c) \in Nat
    BY DEF TypeOK
  <2> QED BY <2>1
<1>2. \A u \in Units : u \in Nat
  BY StreamAssumption DEF Units
<1> QED BY <1>1, <1>2 DEF Trace

(* With the seek on its way what was kept is thrown away; all that is      *)
(* still to come up to the seek's answer is of an older generation.        *)
LEMMA Wrote ==
  ASSUME RInv, WriteRequest PROVE DataInv'
<1>0. DataInv /\ TypeOK /\ OpInv
  BY DEF RInv
<1>1. /\ op.st = "send" /\ op' = [op EXCEPT !.st = "input"] /\ ~shut
      /\ pre' = (IF op.kind = "seek" THEN << >> ELSE pre)
      /\ cgen' = (IF op.kind = "seek" /\ ~op.sentCancel THEN cgen + 1 ELSE cgen)
      /\ UNCHANGED <<offset, dgen, block, d2c, bpos, shut, sure, closed>>
  BY DEF WriteRequest, daemonVars, histVars
<1>2. op'.kind = op.kind /\ op'.st = "input" /\ op'.sentCancel = op.sentCancel
  BY <1>0, <1>1 DEF TypeOK, Operations
<1>3. ~Dead /\ ~Dead' /\ (Closing' <=> Closing)
  BY <1>1, <1>2 DEF Closing, Dead
<1>4. CASE op.kind = "seek" /\ ~op.sentCancel
  <2>1. SeekOut' /\ ~Closing /\ pre' = << >> /\ PreEnd' = offset
    BY <1>0, <1>1, <1>2, <1>4 DEF SeekOut, Closing, OpInv, PreEnd
  <2>2. PreInv'
    <3>1. DOMAIN pre' = {}
      BY <2>1
    <3> QED BY <2>1, <3>1 DEF PreInv
  <2>3. PreInv
    BY <1>0, <2>1 DEF DataInv
  <2>4. PreEnd \in Nat /\ offset \in Nat /\ PreEnd >= offset
    BY <1>0, <2>3, PreFacts
  <2> HIDE DEF SeekOut, Closing, Dead, PreEnd, PreInv
  <2>5. block.in => block.start >= offset
    <3>1. block.start \in Nat
      BY <1>0, StreamAssumption DEF TypeOK, InputBlock, Units
    <3>2. block.in => block.start >= PreEnd
      BY <1>0, <2>1 DEF DataInv, Follows
    <3> QED BY <2>4, <3>1, <3>2
  <2>6. PICK f : Trace(f)
    BY <1>0, <1>3 DEF DataInv
  <2>7. ~block.in => f[1] >= offset
    <3>1. f[1] \in Nat
      BY <1>0, <2>6, TraceStart
    <3>2. ~block.in => f[1] >= PreEnd
      BY <2>1, <2>6 DEF Trace, Follows
    <3> QED BY <2>4, <3>1, <3>2
  <2>8. Trace(f)'
    BY <1>1, <2>1, <2>6, <2>7 DEF Trace, Follows
  <2>9. block'.in => Follows(block.start, ~SeekOut /\ block.gen = cgen)'
    BY <1>1, <2>1, <2>5 DEF Follows
  <2>10. /\ block'.in => InFile(block')
         /\ \A i \in DOMAIN d2c' : d2c'[i].type = "data" => InFile(d2c'[i])
    BY <1>0, <1>1 DEF DataInv
  <2> HIDE DEF Trace, InFile, Follows
  <2> QED BY <2>2, <2>8, <2>9, <2>10 DEF DataInv
<1>5. CASE ~(op.kind = "seek" /\ ~op.sentCancel)
  <2>1. cgen' = cgen /\ (SeekOut' <=> SeekOut) /\ (op.kind = "seek" => SeekOut)
    BY <1>1, <1>2, <1>5 DEF SeekOut
  <2>2. ~Closing => pre' = pre
    BY <1>0, <1>1, <2>1 DEF DataInv, PreInv
  <2> HIDE DEF SeekOut, Closing, Dead
  <2> QED BY <1>0, <1>1, <1>3, <2>1, <2>2, SameData
<1> QED BY <1>4, <1>5

(* A seek that fails loses the certainty about the position. *)
LEMMA Errored ==
  ASSUME RInv, StreamError PROVE DataInv'
<1>0. DataInv
  BY DEF RInv
<1>1. /\ shut /\ op' = NoOp /\ closed' = (closed \/ op.kind = "close")
      /\ sure' = (sure /\ ~(TRUE /\ op.kind = "seek"))
      /\ UNCHANGED <<offset, cgen, dgen, pre, block, d2c, bpos, shut>>
  BY DEF StreamError, FinishFailed, Finish, streamVars, daemonVars
<1>2. Dead' /\ ~SeekOut' /\ (Closing' <=> Closing) /\ PreEnd' = PreEnd
      /\ (SeekOut => ~sure') /\ (sure' => sure)
  BY <1>1 DEF Dead, SeekOut, Closing, NoOp, PreEnd
<1>3. ~Closing => PreInv /\ PreInv' /\ (SeekOut => pre = << >>)
  <2> HIDE DEF SeekOut, Closing, InFile, End
  <2> QED BY <1>0, <1>1, <1>2 DEF DataInv, PreInv, InFile, End
<1> HIDE DEF SeekOut, Closing, Dead, PreEnd, PreInv
<1>4. ~Closing' /\ block'.in => Follows(block.start, ~SeekOut /\ block.gen = cgen)'
  BY <1>0, <1>1, <1>2, <1>3 DEF DataInv, Follows
<1>5. /\ block'.in => InFile(block')
      /\ \A i \in DOMAIN d2c' : d2c'[i].type = "data" => InFile(d2c'[i])
  BY <1>0, <1>1 DEF DataInv
<1> HIDE DEF Trace, InFile, Follows
<1> QED BY <1>2, <1>3, <1>4, <1>5 DEF DataInv

(* The trace without the first reply *)
LEMMA TraceTail ==
  ASSUME RInv, ReadHeader, NEW f, Trace(f)
  PROVE  /\ \E g \in [1 .. Len(d2c') + 1 -> Units] :
              /\ g[1] = f[2]
              /\ \A i \in DOMAIN d2c' :
                   /\ d2c'[i].type = "data"
                        => d2c'[i].start = g[i] /\ g[i + 1] = g[i] + d2c'[i].len
                   /\ d2c'[i].type = "seekpos" => g[i + 1] = d2c'[i].start
                   /\ d2c'[i].type \notin {"data", "seekpos"} => g[i + 1] = g[i]
              /\ ~shut' => g[Len(d2c') + 1] = bpos'
         /\ f[1] \in Nat
         /\ d2c[1].type = "data" => d2c[1].start = f[1] /\ f[2] = f[1] + d2c[1].len
         /\ d2c[1].type = "seekpos" => f[2] = d2c[1].start
         /\ d2c[1].type \notin {"data", "seekpos"} => f[2] = f[1]
<1> DEFINE g == [i \in 1 .. Len(d2c) |-> f[i + 1]]
<1>1. /\ 1 \in DOMAIN d2c /\ Len(d2c) \in Nat /\ DOMAIN d2c = 1 .. Len(d2c)
      /\ Len(d2c') = Len(d2c) - 1 /\ DOMAIN d2c' = 1 .. Len(d2c) - 1
      /\ \A i \in DOMAIN d2c' : i \in Nat /\ i + 1 \in DOMAIN d2c /\ d2c'[i] = d2c[i + 1]
      /\ UNCHANGED <<shut, bpos>>
  BY HeaderFacts DEF daemonVars
<1>2. /\ f \in [1 .. Len(d2c) + 1 -> Units]
      /\ \A i \in DOMAIN d2c :
           /\ d2c[i].type = "data" => d2c[i].start = f[i] /\ f[i + 1] = f[i] + d2c[i].len
           /\ d2c[i].type = "seekpos" => f[i + 1] = d2c[i].start
           /\ d2c[i].type \notin {"data", "seekpos"} => f[i + 1] = f[i]
      /\ ~shut => f[Len(d2c) + 1] = bpos
  BY DEF Trace
<1>3. Len(d2c') + 1 = Len(d2c) /\ Len(d2c) >= 1
  BY <1>1
<1>4. \A i \in 1 .. Len(d2c) : i + 1 \in 1 .. Len(d2c) + 1 /\ g[i] = f[i + 1]
  BY <1>1
<1>5. g \in [1 .. Len(d2c) -> Units]
  BY <1>2, <1>4
<1>6. ASSUME NEW i \in DOMAIN d2c'
      PROVE  /\ d2c'[i].type = "data" => d2c'[i].start = g[i] /\ g[i + 1] = g[i] + d2c'[i].len
             /\ d2c'[i].type = "seekpos" => g[i + 1] = d2c'[i].start
             /\ d2c'[i].type \notin {"data", "seekpos"} => g[i + 1] = g[i]
  <2>1. i \in 1 .. Len(d2c) /\ i + 1 \in 1 .. Len(d2c)
    BY <1>1
  <2>2. g[i] = f[i + 1] /\ g[i + 1] = f[(i + 1) + 1] /\ d2c'[i] = d2c[i + 1]
    BY <1>1, <1>4, <2>1
  <2> QED BY <1>1, <1>2, <2>1, <2>2
<1>7. g[1] = f[2] /\ 1 + 1 = 2 /\ g[Len(d2c)] = f[Len(d2c) + 1]
  BY <1>1, <1>3, <1>4
<1>8. f[1] \in Nat
  BY TraceStart DEF RInv
<1> HIDE DEF g
<1>9. g \in [1 .. Len(d2c') + 1 -> Units] /\ (~shut' => g[Len(d2c') + 1] = bpos')
  BY <1>1, <1>2, <1>3, <1>5, <1>7
<1>10. /\ d2c[1].type = "data" => d2c[1].start = f[1] /\ f[2] = f[1] + d2c[1].len
       /\ d2c[1].type = "seekpos" => f[2] = d2c[1].start
       /\ d2c[1].type \notin {"data", "seekpos"} => f[2] = f[1]
  BY <1>1, <1>2, <1>7
<1> QED BY <1>6, <1>7, <1>8, <1>9, <1>10

(* A reply's header becomes the block, or moves the position (a seek), or  *)
(* ends the operation.                                                     *)
LEMMA Headed ==
  ASSUME RInv, ReadHeader PROVE DataInv'
<1>0. DataInv /\ TypeOK /\ OpInv /\ GenInv /\ op \in Operations
      /\ cgen \in Nat /\ dgen \in Nat
  BY DEF RInv, TypeOK
<1>1. /\ 1 \in DOMAIN d2c
      /\ \A i \in DOMAIN d2c' : i + 1 \in DOMAIN d2c /\ d2c'[i] = d2c[i + 1]
      /\ ~block.in /\ ~Dead /\ op.st = "header"
      /\ UNCHANGED <<cgen, pre, shut, dgen>>
  BY HeaderFacts DEF daemonVars
<1>2. PICK f : Trace(f)
  BY <1>0, <1>1 DEF DataInv
<1>20. PICK g \in [1 .. Len(d2c') + 1 -> Units] :
         /\ g[1] = f[2]
         /\ \A i \in DOMAIN d2c' :
              /\ d2c'[i].type = "data" => d2c'[i].start = g[i] /\ g[i + 1] = g[i] + d2c'[i].len
              /\ d2c'[i].type = "seekpos" => g[i + 1] = d2c'[i].start
              /\ d2c'[i].type \notin {"data", "seekpos"} => g[i + 1] = g[i]
         /\ ~shut' => g[Len(d2c') + 1] = bpos'
  BY <1>2, TraceTail
<1>3. /\ f[1] \in Nat
      /\ d2c[1].type = "data" => d2c[1].start = f[1] /\ f[2] = f[1] + d2c[1].len
      /\ d2c[1].type = "seekpos" => f[2] = d2c[1].start
      /\ d2c[1].type \notin {"data", "seekpos"} => f[2] = f[1]
  BY <1>2, TraceTail
<1>4. /\ SeekOut <=> op.kind = "seek"
      /\ closed => FALSE
      /\ ~Closing => PreInv /\ (SeekOut => pre = << >>)
  <2>1. SeekOut <=> op.kind = "seek"
    BY <1>1 DEF SeekOut
  <2>2. ~closed
    BY <1>0, <1>1 DEF OpInv
  <2> HIDE DEF SeekOut, Closing
  <2> QED BY <1>0, <2>1, <2>2 DEF DataInv, PreInv
<1>5. ~Closing => /\ f[1] >= PreEnd
                  /\ (sure \/ pre # << >>) /\ ~SeekOut /\ dgen = cgen => f[1] = PreEnd
  <2> HIDE DEF SeekOut, Closing, PreEnd
  <2> QED BY <1>1, <1>2 DEF Trace, Follows
<1>6. \A i \in DOMAIN d2c' : d2c'[i].type = "data" => InFile(d2c'[i])
  BY <1>0, <1>1 DEF DataInv
<1>7. ASSUME block' = block, ~Closing' => ~Closing /\ PreInv',
             ~Closing' => /\ f[2] >= PreEnd'
                          /\ (sure' \/ pre' # << >>) /\ ~SeekOut' /\ dgen = cgen => f[2] = PreEnd'
      PROVE  DataInv'
  <2> HIDE DEF SeekOut, Closing, Dead, PreInv, PreEnd, InFile
  <2>1. Trace(g)'
    BY <1>1, <1>7, <1>20 DEF Trace, Follows
  <2> HIDE DEF Trace
  <2> QED BY <1>1, <1>6, <1>7, <2>1 DEF DataInv
<1>8. CASE /\ d2c[1].type = "error" /\ d2c[1].seq = op.seq
           /\ FinishFailed(TRUE) /\ UNCHANGED <<offset, block>>
  <2>1. /\ op' = NoOp /\ closed' = (closed \/ op.kind = "close")
        /\ sure' = (sure /\ ~(TRUE /\ op.kind = "seek"))
    BY <1>8 DEF FinishFailed, Finish
  <2>2. ~SeekOut' /\ (Closing' <=> Closing) /\ PreEnd' = PreEnd /\ (SeekOut => ~sure')
        /\ (sure' => sure)
    BY <1>1, <1>4, <1>8, <2>1 DEF SeekOut, Closing, NoOp, PreEnd
  <2>3. PreInv => PreInv'
    <3> HIDE DEF SeekOut, InFile, End
    <3> QED BY <1>1, <1>8, <2>2 DEF PreInv, InFile, End
  <2>4. f[2] = f[1]
    BY <1>3, <1>8
  <2> HIDE DEF SeekOut, Closing, PreInv, PreEnd
  <2> QED BY <1>1, <1>4, <1>5, <1>7, <1>8, <2>2, <2>3, <2>4
<1>9. CASE /\ d2c[1].type = "data"
           /\ block' = [start |-> d2c[1].start, len |-> d2c[1].len, gen |-> d2c[1].gen, in |-> TRUE]
           /\ op' = [op EXCEPT !.st = "block"]
           /\ UNCHANGED <<offset, closed, sure, res>>
  <2>1. /\ block'.in /\ block'.start = f[1] /\ block'.len = d2c[1].len /\ block'.gen = d2c[1].gen
    BY <1>3, <1>9
  <2>2. InFile(block') /\ End(block') = f[2]
    <3>1. InFile(d2c[1])
      BY <1>0, <1>1, <1>9 DEF DataInv
    <3>2. block'.start = d2c[1].start
      BY <1>9
    <3> QED BY <1>3, <1>9, <2>1, <3>1, <3>2 DEF InFile, End
  <2>3. op'.kind = op.kind /\ op'.st = "block" /\ op'.sentCancel = op.sentCancel
    BY <1>0, <1>9 DEF Operations
  <2>4. (SeekOut' <=> SeekOut) /\ (Closing' <=> Closing) /\ PreEnd' = PreEnd
    BY <1>1, <1>9, <2>3 DEF SeekOut, Closing, PreEnd
  <2>5. PreInv' <=> PreInv
    <3> HIDE DEF SeekOut, InFile, End
    <3> QED BY <1>1, <1>9, <2>4 DEF PreInv, InFile, End
  <2>6. block'.gen = cgen => dgen = cgen
    <3>1. d2c[1].gen <= dgen /\ dgen <= cgen /\ d2c[1].gen \in Nat
      BY <1>0, <1>1, StageTypes DEF GenInv
    <3> QED BY <1>0, <2>1, <3>1
  <2> HIDE DEF SeekOut, Closing, Dead, PreInv, PreEnd, InFile, End
  <2>7. Trace(g)'
    BY <1>20, <2>1, <2>2 DEF Trace
  <2>8. ~Closing' => Follows(block.start, ~SeekOut /\ block.gen = cgen)'
    BY <1>1, <1>5, <1>9, <2>1, <2>4, <2>6 DEF Follows
  <2> HIDE DEF Trace, Follows
  <2> QED BY <1>4, <1>6, <2>2, <2>4, <2>5, <2>7, <2>8 DEF DataInv
<1>10. CASE /\ d2c[1].type = Success[op.kind] /\ d2c[1].seq = op.seq
            /\ op.kind = "seek" => /\ Finish(Outcome("seek", d2c[1].start, 0))
                                   /\ offset' = d2c[1].start /\ sure' = TRUE
            /\ op.kind # "seek" => /\ Finish(Outcome("done", 0, 0))
                                   /\ UNCHANGED <<offset, sure>>
            /\ block' = block
  <2>1. op' = NoOp /\ closed' = (closed \/ op.kind = "close")
    BY <1>10 DEF Finish
  <2>2. ~SeekOut' /\ (Closing' <=> Closing)
    BY <1>4, <2>1 DEF SeekOut, Closing, NoOp
  <2>3. CASE op.kind = "seek"
    <3>1. ~Closing /\ pre' = << >> /\ PreEnd' = d2c[1].start
      BY <1>1, <1>4, <1>10, <2>3 DEF Closing, PreEnd
    <3>2. PreInv'
      <4>1. DOMAIN pre' = {}
        BY <3>1
      <4> HIDE DEF SeekOut
      <4> QED BY <2>2, <3>1, <4>1 DEF PreInv
    <3>3. f[2] = PreEnd' /\ f[2] >= PreEnd'
      <4>1. d2c[1].type = "seekpos"
        BY <1>10, <2>3 DEF Success
      <4>2. d2c[1].start \in Nat
        <5>1. d2c[1] \in Replies
          BY <1>0, <1>1 DEF TypeOK
        <5> QED BY <5>1, StreamAssumption DEF Replies, Units
      <4> QED BY <1>3, <3>1, <4>1, <4>2
    <3> HIDE DEF SeekOut, Closing, PreInv, PreEnd
    <3> QED BY <1>7, <1>10, <3>1, <3>2, <3>3
  <2>4. CASE op.kind # "seek"
    <3>1. UNCHANGED <<offset, sure, pre>> /\ ~SeekOut
      BY <1>1, <1>4, <1>10, <2>4
    <3>2. PreEnd' = PreEnd
      BY <3>1 DEF PreEnd
    <3>3. PreInv' <=> PreInv
      <4> HIDE DEF SeekOut, InFile, End
      <4> QED BY <1>1, <2>2, <3>1 DEF PreInv, InFile, End
    <3>4. f[2] = f[1]
      <4>1. op.kind \in {"read", "query", "close"}
        BY <1>0, <1>1, <2>4 DEF OpInv, Operations, OpKinds
      <4>2. Success[op.kind] \notin {"data", "seekpos"}
        BY <4>1 DEF Success
      <4> QED BY <1>3, <1>10, <4>2
    <3> HIDE DEF SeekOut, Closing, PreInv, PreEnd
    <3> QED BY <1>4, <1>5, <1>7, <1>10, <2>2, <3>1, <3>2, <3>3, <3>4
  <2> QED BY <2>3, <2>4
<1>11. CASE /\ d2c[1].type # "data" /\ d2c[1].type # "seekpos"
            /\ UNCHANGED <<op, offset, block, closed, sure, res>>
  <2>1. f[2] = f[1]
    BY <1>3, <1>11
  <2>2. (SeekOut' <=> SeekOut) /\ (Closing' <=> Closing) /\ PreEnd' = PreEnd
    BY <1>1, <1>11 DEF SeekOut, Closing, PreEnd
  <2>3. PreInv' <=> PreInv
    <3> HIDE DEF SeekOut, InFile, End
    <3> QED BY <1>1, <1>11, <2>2 DEF PreInv, InFile, End
  <2> HIDE DEF SeekOut, Closing, PreInv, PreEnd
  <2> QED BY <1>1, <1>4, <1>5, <1>7, <1>11, <2>1, <2>2, <2>3
<1> QED BY <1>8, <1>9, <1>10, <1>11, HeaderFacts

(* Whatever the client consumes, the rest still follows on what it has. *)
LEMMA ClientData ==
  ASSUME RInv, Application \/ Client PROVE DataInv'
<1>0. DataInv /\ TypeOK /\ OpInv
  BY DEF RInv
<1>1. /\ UNCHANGED <<dgen, bpos, shut>>
      /\ ~WriteRequest /\ ~StreamError /\ ~ReadHeader
           => UNCHANGED <<d2c, cgen>> /\ (Dead => Dead') /\ (SeekOut' <=> SeekOut)
  BY ClientLeaves, QuietSteps DEF daemonVars
<1>2. ASSUME ~WriteRequest, ~StreamError, ~ReadHeader,
             UNCHANGED <<offset, block, sure>>, Closing => Closing', ~Closing' => pre' = pre
      PROVE  DataInv'
  <2> HIDE DEF SeekOut, Closing, Dead
  <2> QED BY <1>0, <1>1, <1>2, SameData
<1>3. /\ Idle => op.st = "idle" /\ op.kind = "none" /\ ~Closing
      /\ op.st \in {"idle", "send", "early", "input", "block"}
           => (op.st # "send" => ~WriteRequest) /\ ~ReadHeader
      /\ ~Closing => PreInv
  BY <1>0 DEF OpInv, Idle, Closing, WriteRequest, ReadHeader, DataInv
<1>4. ASSUME NewOp, UsablePre = << >> PROVE pre = << >>
  BY <1>0, <1>3, <1>4, UsableIsPre DEF NewOp
<1>5. CASE Application
  <2>1. ASSUME NEW n \in ReadSizes, ReadFromBlock(n) \/ SendRead(n)
        PROVE  /\ Idle /\ pre' = pre /\ UNCHANGED <<offset, block, sure>>
    BY <1>4, <2>1 DEF ReadFromBlock, SendRead, NewOp
  <2>2. ASSUME NEW p \in Units, SendSeek(p)
        PROVE  /\ Idle /\ pre' = pre /\ UNCHANGED <<offset, block, sure>>
    BY <2>2 DEF SendSeek, NewOp
  <2>3. SendQuery => /\ Idle /\ pre' = pre /\ UNCHANGED <<offset, block, sure>>
    BY DEF SendQuery, NewOp
  <2>4. SendClose => /\ Idle /\ Closing' /\ UNCHANGED <<offset, block, sure>>
    BY DEF SendClose, Begin, Closing, histVars
  <2>5. ASSUME Idle, UNCHANGED <<offset, block, sure>>, Closing' \/ pre' = pre
        PROVE  DataInv'
    <3>1. ~WriteRequest /\ ~StreamError /\ ~ReadHeader /\ ~Closing
      BY <1>3, <2>5 DEF StreamError
    <3> QED BY <1>2, <2>5, <3>1
  <2>6. CASE RequestCancel
    <3>1. UNCHANGED <<op, closed, offset, block, sure, pre, c2d, d2c>>
      BY <2>6 DEF RequestCancel, streamVars, histVars
    <3>2. Dead' = Dead /\ SeekOut' = SeekOut /\ Closing' = Closing /\ cgen' = cgen
      BY <1>1, <2>6, <3>1 DEF Dead, SeekOut, Closing, RequestCancel, streamVars
    <3> QED BY <1>0, <1>1, <3>1, <3>2, SameData
  <2>7. ASSUME NEW n \in ReadSizes, ReadFromPre(n) PROVE DataInv'
    BY <2>7, PreRead
  <2> QED BY <1>5, <2>1, <2>2, <2>3, <2>4, <2>5, <2>6, <2>7 DEF Application
<1>6. CASE CancelUnsent
  <2>1. /\ op.st = "send" /\ ~op.sentCancel /\ op' = NoOp /\ cancelled
        /\ closed' = (closed \/ op.kind = "close") /\ sure' = (sure /\ ~(FALSE /\ op.kind = "seek"))
        /\ UNCHANGED <<offset, block, pre, cgen, d2c>>
    BY <1>6 DEF CancelUnsent, FinishFailed, Finish
  <2>2. /\ Closing => Closing'
        /\ ~WriteRequest /\ ~ReadHeader /\ ~StreamError
    BY <1>0, <2>1 DEF Closing, WriteRequest, ReadHeader, StreamError
  <2>3. sure' = sure
    BY <1>0, <2>1 DEF TypeOK
  <2> QED BY <1>2, <2>1, <2>2, <2>3
<1>7. CASE ReadBlockCancelled
  <2>1. /\ op.st = "early" /\ op' = NoOp
        /\ closed' = (closed \/ op.kind = "close") /\ sure' = (sure /\ ~(FALSE /\ op.kind = "seek"))
        /\ UNCHANGED <<offset, block, pre>>
    BY <1>7 DEF ReadBlockCancelled, FinishFailed, Finish, streamVars
  <2>2. /\ Closing => Closing'
        /\ ~WriteRequest /\ ~ReadHeader /\ ~StreamError
    BY <2>1 DEF Closing, WriteRequest, ReadHeader, StreamError
  <2>3. sure' = sure
    BY <1>0, <2>1 DEF TypeOK
  <2> QED BY <1>2, <2>1, <2>2, <2>3
<1>8. CASE SendCancel \/ HandleInput \/ SkipCancelled
  <2>1. /\ op.st \in {"input", "block"} /\ UNCHANGED <<offset, block, pre, sure, closed>>
    BY <1>8 DEF SendCancel, HandleInput, SkipCancelled, streamVars, histVars
  <2>2. op'.kind = op.kind
    <3>1. op \in Operations
      BY <1>0 DEF TypeOK
    <3>2. \A s : [op EXCEPT !.st = s].kind = op.kind
                 /\ [op EXCEPT !.st = s, !.sentCancel = TRUE].kind = op.kind
      BY <3>1 DEF Operations
    <3> QED BY <1>8, <3>2 DEF SendCancel, HandleInput, SkipCancelled
  <2>3. /\ Closing' <=> Closing
        /\ ~WriteRequest /\ ~ReadHeader /\ ~StreamError
    BY <2>1, <2>2 DEF Closing, WriteRequest, ReadHeader, StreamError
  <2> QED BY <1>2, <2>1, <2>3
<1> QED BY <1>5, <1>6, <1>7, <1>8, Wrote, Errored, Headed, BlockRead, Kept, Skipped DEF Client

(* A step of the daemon that sends nothing *)
LEMMA SilentData ==
  ASSUME DataInv, UNCHANGED <<op, closed, offset, cgen, pre, block, sure, d2c>>,
         shut' = shut \/ shut', ~shut' => bpos' = bpos, dgen' = dgen \/ SeekOut
  PROVE  DataInv'
<1>1. /\ SeekOut' <=> SeekOut
      /\ Closing' <=> Closing
      /\ Dead => Dead'
      /\ PreEnd' = PreEnd
  BY DEF SeekOut, Closing, Dead, PreEnd
<1> HIDE DEF SeekOut, Closing, Dead, PreEnd
<1>2. PreInv' <=> PreInv
  BY <1>1 DEF PreInv
<1>3. ASSUME ~Dead' PROVE \E f : Trace(f)'
  <2>1. PICK f : Trace(f)
    BY <1>1, <1>3 DEF DataInv
  <2>2. Trace(f)'
    BY <1>1, <2>1 DEF Trace, Follows
  <2> QED BY <2>2
<1> HIDE DEF Trace, PreInv
<1> QED BY <1>1, <1>2, <1>3 DEF DataInv, Follows

(* The trace with one more reply *)
LEMMA TraceAppend ==
  ASSUME RInv, Backend, ~shut, TypeOK', NEW f, Trace(f)
  PROVE  \E g \in [1 .. Len(d2c') + 1 -> Units] :
           /\ g[1] = f[1]
           /\ \A i \in DOMAIN d2c' :
                /\ d2c'[i].type = "data"
                     => d2c'[i].start = g[i] /\ g[i + 1] = g[i] + d2c'[i].len
                /\ d2c'[i].type = "seekpos" => g[i + 1] = d2c'[i].start
                /\ d2c'[i].type \notin {"data", "seekpos"} => g[i + 1] = g[i]
           /\ g[Len(d2c') + 1] = bpos'
<1> DEFINE l == Len(d2c) + 1
           g == [i \in 1 .. l + 1 |-> IF i = l + 1 THEN bpos' ELSE f[i]]
<1>1. /\ DOMAIN d2c = 1 .. Len(d2c) /\ Len(d2c) \in Nat /\ Len(d2c') = l
      /\ DOMAIN d2c' = 1 .. l
      /\ \A i \in DOMAIN d2c : d2c'[i] = d2c[i]
      /\ \/ d2c'[l].type = "data" /\ d2c'[l].start = bpos /\ bpos' = bpos + d2c'[l].len
         \/ d2c'[l].type = "seekpos" /\ bpos' = d2c'[l].start
         \/ d2c'[l].type \notin {"data", "seekpos"} /\ bpos' = bpos
  BY BackendFacts
<1>2. /\ f \in [1 .. l -> Units] /\ f[l] = bpos
      /\ \A i \in DOMAIN d2c :
           /\ d2c[i].type = "data" => d2c[i].start = f[i] /\ f[i + 1] = f[i] + d2c[i].len
           /\ d2c[i].type = "seekpos" => f[i + 1] = d2c[i].start
           /\ d2c[i].type \notin {"data", "seekpos"} => f[i + 1] = f[i]
  BY DEF Trace
<1>3. bpos' \in Units
  BY DEF TypeOK
<1>4. l \in Nat /\ l >= 1 /\ l # l + 1 /\ \A i \in 1 .. l : i \in 1 .. l + 1 /\ i # l + 1
      /\ l + 1 \in 1 .. l + 1 /\ 1 \in 1 .. l /\ l \in 1 .. l
  BY <1>1
<1>5. (\A i \in 1 .. l : g[i] = f[i]) /\ g[l + 1] = bpos'
  BY <1>4
<1>6. g \in [1 .. l + 1 -> Units]
  <2>1. \A i \in 1 .. l + 1 : i = l + 1 \/ i \in 1 .. l
    BY <1>4
  <2>2. \A i \in 1 .. l + 1 : (IF i = l + 1 THEN bpos' ELSE f[i]) \in Units
    BY <1>2, <1>3, <2>1
  <2> QED BY <2>2
<1> HIDE DEF g
<1>7. ASSUME NEW i \in DOMAIN d2c'
      PROVE  /\ d2c'[i].type = "data"
                     => d2c'[i].start = g[i] /\ g[i + 1] = g[i] + d2c'[i].len
             /\ d2c'[i].type = "seekpos" => g[i + 1] = d2c'[i].start
             /\ d2c'[i].type \notin {"data", "seekpos"} => g[i + 1] = g[i]
  <2>1. CASE i = l
    BY <1>1, <1>2, <1>4, <1>5, <2>1
  <2>2. CASE i # l
    <3>1. i \in DOMAIN d2c /\ i \in 1 .. l /\ i + 1 \in 1 .. l
      BY <1>1, <2>2
    <3>2. g[i] = f[i] /\ g[i + 1] = f[i + 1] /\ d2c'[i] = d2c[i]
      BY <1>1, <1>5, <3>1
    <3> QED BY <1>2, <3>1, <3>2
  <2> QED BY <2>1, <2>2
<1>8. g[1] = f[1] /\ Len(d2c') = l
  BY <1>1, <1>4, <1>5
<1> HIDE DEF l
<1> QED BY <1>5, <1>6, <1>7, <1>8

(* What the backend reads next follows on what it replied last. *)
LEMMA DaemonData ==
  ASSUME RInv, TypeOK', Backend \/ Channel \/ ForceClose \/ SetBlockRequests PROVE DataInv'
<1>0. TypeOK /\ DataInv /\ SeekInv
  BY DEF RInv
<1>1. UNCHANGED <<op, closed, offset, cgen, pre, block, sure>> /\ (shut' = shut \/ shut')
  BY DaemonLeaves DEF streamVars, histVars
<1>2. ASSUME d2c' = d2c, ~shut' => bpos' = bpos, dgen' = dgen \/ SeekOut
      PROVE  DataInv'
  <2> HIDE DEF SeekOut
  <2> QED BY <1>0, <1>1, <1>2, SilentData
<1>3. CASE Backend
  <2>1. UNCHANGED <<shut, dgen>>
    BY <1>0, <1>3, AnsweredFacts
  <2>2. CASE shut
    <3>1. d2c' = d2c
      BY <1>3, <2>2, BackendReplies DEF Reply
    <3> QED BY <1>2, <2>1, <2>2, <3>1
  <2>3. CASE ~shut
    <3>1. /\ SeekOut' <=> SeekOut
          /\ Closing' <=> Closing
          /\ ~Dead /\ ~Dead'
          /\ PreEnd' = PreEnd
      BY <1>1, <2>1, <2>3 DEF SeekOut, Closing, Dead, PreEnd
    <3>2. /\ DOMAIN d2c = 1 .. Len(d2c) /\ Len(d2c) \in Nat
          /\ DOMAIN d2c' = 1 .. Len(d2c) + 1
          /\ \A i \in DOMAIN d2c : d2c'[i] = d2c[i]
          /\ d2c'[Len(d2c) + 1].type = "data" => InFile(d2c'[Len(d2c) + 1])
      BY <1>3, <2>3, BackendFacts DEF InFile
    <3>3. \A i \in DOMAIN d2c' : i \in DOMAIN d2c \/ i = Len(d2c) + 1
      BY <3>2
    <3> HIDE DEF SeekOut, Closing, Dead, PreEnd, InFile
    <3>4. \A i \in DOMAIN d2c' : d2c'[i].type = "data" => InFile(d2c'[i])
      BY <1>0, <3>2, <3>3 DEF DataInv
    <3>5. PreInv' <=> PreInv
      BY <1>1, <3>1 DEF PreInv, InFile
    <3>6. PICK f : Trace(f)
      BY <1>0, <3>1 DEF DataInv
    <3>7. PICK g \in [1 .. Len(d2c') + 1 -> Units] :
           /\ g[1] = f[1]
           /\ \A i \in DOMAIN d2c' :
                /\ d2c'[i].type = "data"
                     => d2c'[i].start = g[i] /\ g[i + 1] = g[i] + d2c'[i].len
                /\ d2c'[i].type = "seekpos" => g[i + 1] = d2c'[i].start
                /\ d2c'[i].type \notin {"data", "seekpos"} => g[i + 1] = g[i]
           /\ g[Len(d2c') + 1] = bpos'
      BY <1>3, <2>3, <3>6, TraceAppend
    <3>8. /\ block'.in => f[1] = End(block')
          /\ ~block'.in /\ ~Closing'
               => /\ f[1] >= PreEnd'
                  /\ (sure' \/ pre' # << >>) /\ ~SeekOut' /\ dgen' = cgen' => f[1] = PreEnd'
      BY <1>1, <2>1, <3>1, <3>6 DEF Trace, Follows
    <3>9. Trace(g)'
      BY <3>7, <3>8 DEF Trace, Follows
    <3> HIDE DEF Trace, PreInv
    <3> QED BY <1>0, <1>1, <3>1, <3>4, <3>5, <3>9 DEF DataInv, Follows
  <2> QED BY <2>2, <2>3
<1>4. ASSUME NEW q \in Seq(Queued), q # << >>, StartQueued(q), q[1].cmd = "seek" => SeekOut
      PROVE  dgen' = dgen \/ SeekOut
  BY <1>0, <1>4, StartedFacts
<1> HIDE DEF SeekOut
<1>5. CASE GotRequest
  <2>1. UNCHANGED <<d2c, shut, bpos>>
    BY <1>5 DEF GotRequest
  <2>2. ASSUME NEW q \in Seq(Queued), q # << >>,
               \A i \in DOMAIN q : \/ \E k \in DOMAIN queue : q[i] = queue[k]
                                   \/ \E k \in DOMAIN c2d : /\ q[i].cmd = c2d[k].cmd
                                                            /\ q[i].seq = c2d[k].seq,
               StartQueued(q)
        PROVE  dgen' = dgen \/ SeekOut
    <3>1. 1 \in DOMAIN q
      BY <2>2, TailFacts
    <3>2. q[1].cmd = "seek" => SeekOut
      BY <1>0, <2>2, <3>1 DEF SeekInv
    <3> QED BY <1>4, <2>2, <3>2
  <2>3. dgen' = dgen \/ SeekOut
    BY <1>5, <2>2, GotFacts
  <2> QED BY <1>2, <2>1, <2>3
<1>6. CASE SendReplyCb
  <2>1. UNCHANGED <<d2c, shut, bpos>>
    BY <1>6, RepliedSteps
  <2>2. ASSUME queue \in Seq(Queued), queue # << >>, StartQueued(queue)
        PROVE  dgen' = dgen \/ SeekOut
    <3>1. 1 \in DOMAIN queue
      BY <2>2, TailFacts
    <3>2. queue[1].cmd = "seek" => SeekOut
      BY <1>0, <3>1 DEF SeekInv
    <3> QED BY <1>4, <2>2, <3>2
  <2>3. dgen' = dgen \/ SeekOut
    BY <1>6, <2>2, RepliedSteps
  <2> QED BY <1>2, <2>1, <2>3
<1>7. CASE ForceClose \/ SetBlockRequests
  BY <1>2, <1>7 DEF ForceClose, SetBlockRequests
<1> QED BY <1>3, <1>5, <1>6, <1>7 DEF Channel

-----------------------------------------------------------------------------
(* Every step preserves the invariant.                                     *)

(* A stuttering step keeps the invariant. *)
LEMMA Stutter ==
  ASSUME RInv, UNCHANGED vars PROVE RInv'
<1> USE DEF vars, streamVars, histVars, daemonVars
<1>1. TypeOK' /\ OpInv' /\ ChannelInv'
  BY DEF RInv, TypeOK, OpInv, OutInv, Unsent, ChannelInv
<1>2. OrderInv'
  BY DEF RInv, OrderInv, Bound, Unsent
<1>3. SeekInv' /\ GenInv'
  BY DEF RInv, SeekInv, GenInv, SeekOut, Dead
<1>4. DataInv'
  <2>1. DataInv
    BY DEF RInv
  <2> QED BY <2>1, SilentData
<1> QED BY <1>1, <1>2, <1>3, <1>4 DEF RInv

(* The invariant is inductive. *)
LEMMA Inductive ==
  ASSUME "query" \notin EarlyCancel, RInv, [Next]_vars PROVE RInv'
<1>1. CASE Application \/ Client
  <2>1. TypeOK' /\ OpInv'
    BY <1>1, ApplicationTypes, ClientTypes, ClientOp
  <2>2. ChannelInv' /\ OrderInv' /\ SeekInv'
    BY <1>1, <2>1, ClientChannel, ClientOrder, ClientSeek
  <2>3. GenInv' /\ DataInv'
    BY <1>1, ClientGen, ClientData
  <2> QED BY <2>1, <2>2, <2>3 DEF RInv
<1>2. CASE Backend \/ Channel \/ ForceClose \/ SetBlockRequests
  <2>1. TypeOK' /\ OpInv'
    BY <1>2, DaemonTypes, DaemonOp
  <2>2. ChannelInv' /\ OrderInv'
    BY <1>2, DaemonChannel, DaemonOrder
  <2>3. SeekInv' /\ GenInv' /\ DataInv'
    BY <1>2, <2>1, <2>2, DaemonSeek, DaemonGen, DaemonData
  <2> QED BY <2>1, <2>2, <2>3 DEF RInv
<1>3. CASE Done \/ UNCHANGED vars
  BY <1>3, Stutter DEF Done
<1> QED BY <1>1, <1>2, <1>3 DEF Next

(* A freshly opened stream satisfies the invariant. *)
LEMMA Initial ==
  ASSUME Init PROVE RInv
<1>0. 0 \in Units /\ 0 \in Nat /\ 0 <= 0 /\ FileSize \in Nat
  BY StreamAssumption DEF Units
<1>1. TypeOK
  <2>1. /\ op \in Operations /\ block \in InputBlock /\ res \in Outcomes /\ job \in ChannelJob
    BY <1>0 DEF Init, NoOp, NoBlock, NoJob, Outcome, Operations, InputBlock, Outcomes, ChannelJob,
                OpKinds
  <2>2. /\ \A S : << >> \in Seq(S)
    OBVIOUS
  <2>3. /\ seqNr \in Nat \ {0} /\ ops \in 0 .. MaxOps /\ readCount \in 0 .. 6
    BY StreamAssumption DEF Init
  <2> QED BY <1>0, <2>1, <2>2, <2>3 DEF Init, TypeOK
<1>2. op.kind = "none" /\ op.st = "idle" /\ op.sentCancel = FALSE /\ ~block.in
      /\ job.st = "idle" /\ job.kind = "none"
  BY DEF Init, NoOp, NoBlock, NoJob
<1>3. OpInv
  BY <1>2 DEF Init, OpInv, OutInv, Unsent
<1>4. DOMAIN d2c = {} /\ DOMAIN c2d = {} /\ DOMAIN queue = {} /\ DOMAIN pre = {}
  BY DEF Init
<1>5. ChannelInv /\ OrderInv /\ SeekInv
  BY <1>2, <1>4 DEF Init, ChannelInv, OrderInv, SeekInv
<1>6. GenInv
  BY <1>0, <1>2, <1>4 DEF Init, GenInv
<1>7. DataInv
  <2>1. ~SeekOut /\ pre = << >> /\ PreEnd = 0 /\ offset = 0 /\ bpos = 0 /\ dgen = cgen
    BY <1>2 DEF Init, SeekOut, PreEnd
  <2>2. PreInv
    BY <1>4, <2>1 DEF PreInv
  <2>3. PICK f : f = [i \in 1 .. 1 |-> 0]
    OBVIOUS
  <2>4. Trace(f)
    <3>1. Len(d2c) = 0 /\ 0 + 1 = 1
      BY DEF Init
    <3>2. f \in [1 .. 1 -> Units] /\ f[1] = 0
      BY <1>0, <2>3
    <3> HIDE DEF SeekOut, PreEnd
    <3> QED BY <1>0, <1>2, <1>4, <2>1, <3>1, <3>2 DEF Trace, Follows
  <2> HIDE DEF Trace, PreInv
  <2> QED BY <1>2, <1>4, <2>2, <2>4 DEF DataInv
<1> QED BY <1>1, <1>3, <1>5, <1>6, <1>7 DEF RInv

-----------------------------------------------------------------------------
(* The theorems.                                                           *)

(* The invariant holds of every reachable state. *)
LEMMA Invariant ==
  ASSUME "query" \notin EarlyCancel PROVE Spec => []RInv
<1>1. Init => RInv
  BY Initial
<1>2. RInv /\ [Next]_vars => RInv'
  BY Inductive
<1> QED BY <1>1, <1>2, PTL DEF Spec

(* Every variable of the stream and of its channel keeps its type; above   *)
(* all, the position never leaves the file, whichever of the replies       *)
(* serves a read.                                                          *)
THEOREM StreamTypes ==
  ASSUME "query" \notin EarlyCancel PROVE Spec => []TypeOK
<1>1. RInv => TypeOK
  BY DEF RInv
<1> QED BY <1>1, Invariant, PTL

(* Two rising sequences, one ahead of the other, make a rising one. *)
LEMMA Joined ==
  ASSUME NEW s \in Seq(Nat), NEW t \in Seq(Nat), Increasing(s), Increasing(t),
         \A i \in DOMAIN s, k \in DOMAIN t : Before(s[i], t[k])
  PROVE  /\ s \o t \in Seq(Nat) /\ Increasing(s \o t)
         /\ \A i \in DOMAIN (s \o t) : \/ \E k \in DOMAIN s : (s \o t)[i] = s[k]
                                       \/ \E k \in DOMAIN t : (s \o t)[i] = t[k]
<1> DEFINE u == s \o t
<1>1. /\ u \in Seq(Nat) /\ DOMAIN u = 1 .. Len(s) + Len(t) /\ Len(s) \in Nat /\ Len(t) \in Nat
      /\ DOMAIN s = 1 .. Len(s) /\ DOMAIN t = 1 .. Len(t)
      /\ \A i \in DOMAIN u : u[i] = IF i <= Len(s) THEN s[i] ELSE t[i - Len(s)]
  OBVIOUS
<1> HIDE DEF u
<1>2. ASSUME NEW i \in DOMAIN u
      PROVE  \/ i \in DOMAIN s /\ u[i] = s[i] /\ i <= Len(s)
             \/ i - Len(s) \in DOMAIN t /\ u[i] = t[i - Len(s)] /\ ~(i <= Len(s))
  BY <1>1
<1>3. ASSUME NEW i \in DOMAIN u, NEW k \in DOMAIN u, i < k, u[i] # 0, u[k] # 0
      PROVE  u[i] < u[k]
  <2>1. CASE k <= Len(s)
    <3>1. i <= Len(s)
      BY <1>1, <1>3, <2>1
    <3>2. i \in DOMAIN s /\ u[i] = s[i] /\ k \in DOMAIN s /\ u[k] = s[k]
      BY <1>2, <2>1, <3>1
    <3> QED BY <1>3, <3>2 DEF Increasing
  <2>2. CASE i <= Len(s) /\ ~(k <= Len(s))
    <3>1. i \in DOMAIN s /\ u[i] = s[i] /\ k - Len(s) \in DOMAIN t /\ u[k] = t[k - Len(s)]
      BY <1>2, <2>2
    <3> QED BY <1>3, <3>1 DEF Before
  <2>3. CASE ~(i <= Len(s)) /\ ~(k <= Len(s))
    <3>1. /\ i - Len(s) \in DOMAIN t /\ u[i] = t[i - Len(s)]
          /\ k - Len(s) \in DOMAIN t /\ u[k] = t[k - Len(s)]
      BY <1>2, <2>3
    <3>2. i - Len(s) < k - Len(s)
      BY <1>1, <1>3
    <3> QED BY <1>3, <3>1, <3>2 DEF Increasing
  <2> QED BY <2>1, <2>2, <2>3
<1>4. Increasing(u)
  BY <1>3 DEF Increasing
<1>5. \A i \in DOMAIN u : (\E k \in DOMAIN s : u[i] = s[k]) \/ (\E k \in DOMAIN t : u[i] = t[k])
  BY <1>2
<1> QED BY <1>1, <1>4, <1>5 DEF u

(* The stages of the pipeline are sequences of numbers. *)
LEMMA StagesAreSequences ==
  ASSUME TypeOK
  PROVE  /\ Seqs(d2c) \in Seq(Nat) /\ DOMAIN Seqs(d2c) = DOMAIN d2c
         /\ \A i \in DOMAIN d2c : Seqs(d2c)[i] = d2c[i].seq
         /\ Seqs(queue) \in Seq(Nat) /\ DOMAIN Seqs(queue) = DOMAIN queue
         /\ \A i \in DOMAIN queue : Seqs(queue)[i] = queue[i].seq
         /\ AskedSeqs(c2d) \in Seq(Nat) /\ DOMAIN AskedSeqs(c2d) = DOMAIN c2d
         /\ \A i \in DOMAIN c2d : AskedSeqs(c2d)[i] = Asked(c2d[i])
         /\ CurrentSeq \in Seq(Nat) /\ Increasing(CurrentSeq)
         /\ \A i \in DOMAIN CurrentSeq : job.st = "work" /\ CurrentSeq[i] = job.seq
         /\ job.st = "work" => 1 \in DOMAIN CurrentSeq
<1> DEFINE a == Seqs(d2c)
           b == CurrentSeq
           c == Seqs(queue)
           d == AskedSeqs(c2d)
<1>0. /\ DOMAIN d2c = 1 .. Len(d2c) /\ Len(d2c) \in Nat
      /\ DOMAIN queue = 1 .. Len(queue) /\ Len(queue) \in Nat
      /\ DOMAIN c2d = 1 .. Len(c2d) /\ Len(c2d) \in Nat
  BY DEF TypeOK
<1>1. \A n \in Nat : \A f \in [1 .. n -> Nat] : f \in Seq(Nat)
  OBVIOUS
<1>2. a \in Seq(Nat) /\ DOMAIN a = DOMAIN d2c /\ \A i \in DOMAIN d2c : a[i] = d2c[i].seq
  <2>1. a = [i \in 1 .. Len(d2c) |-> d2c[i].seq] /\ \A i \in 1 .. Len(d2c) : d2c[i].seq \in Nat
    BY <1>0, StageTypes DEF Seqs
  <2> HIDE DEF a
  <2>2. a \in [1 .. Len(d2c) -> Nat]
    BY <2>1
  <2> QED BY <1>0, <1>1, <2>1, <2>2
<1>3. c \in Seq(Nat) /\ DOMAIN c = DOMAIN queue /\ \A i \in DOMAIN queue : c[i] = queue[i].seq
  <2>1. c = [i \in 1 .. Len(queue) |-> queue[i].seq]
        /\ \A i \in 1 .. Len(queue) : queue[i].seq \in Nat
    BY <1>0, StageTypes DEF Seqs
  <2> HIDE DEF c
  <2>2. c \in [1 .. Len(queue) -> Nat]
    BY <2>1
  <2> QED BY <1>0, <1>1, <2>1, <2>2
<1>4. d \in Seq(Nat) /\ DOMAIN d = DOMAIN c2d /\ \A i \in DOMAIN c2d : d[i] = Asked(c2d[i])
  <2>1. d = [i \in 1 .. Len(c2d) |-> Asked(c2d[i])]
        /\ \A i \in 1 .. Len(c2d) : Asked(c2d[i]) \in Nat
    BY <1>0, StageTypes DEF AskedSeqs, Asked
  <2> HIDE DEF d
  <2>2. d \in [1 .. Len(c2d) -> Nat]
    BY <2>1
  <2> QED BY <1>0, <1>1, <2>1, <2>2
<1>5. /\ b \in Seq(Nat) /\ Increasing(b)
      /\ \A i \in DOMAIN b : job.st = "work" /\ b[i] = job.seq
      /\ job.st = "work" => 1 \in DOMAIN b
  <2>1. job.seq \in Nat
    BY StageTypes
  <2>2. CASE job.st = "work"
    <3>1. b = <<job.seq>>
      BY <2>2 DEF CurrentSeq
    <3>2. b \in Seq(Nat) /\ DOMAIN b = 1 .. 1 /\ b[1] = job.seq
      BY <2>1, <3>1
    <3>3. \A i \in 1 .. 1 : i = 1
      OBVIOUS
    <3> HIDE DEF b
    <3>4. \A i, k \in DOMAIN b : ~(i < k)
      BY <3>2, <3>3
    <3> QED BY <2>2, <3>2, <3>3, <3>4 DEF Increasing
  <2>3. CASE job.st # "work"
    <3>1. b = << >> /\ DOMAIN b = {} /\ b \in Seq(Nat)
      BY <2>3 DEF CurrentSeq
    <3> HIDE DEF b
    <3> QED BY <2>3, <3>1 DEF Increasing
  <2> QED BY <2>2, <2>3
<1> QED BY <1>2, <1>3, <1>4, <1>5

(* The stages in order make the whole pipeline ordered. *)
LEMMA OrderSuffices ==
  ASSUME TypeOK, OrderInv PROVE PipelineOrdered
<1> DEFINE a == Seqs(d2c)
           b == CurrentSeq
           c == Seqs(queue)
           d == AskedSeqs(c2d)
<1>2. a \in Seq(Nat) /\ DOMAIN a = DOMAIN d2c /\ \A i \in DOMAIN d2c : a[i] = d2c[i].seq
  BY StagesAreSequences
<1>3. c \in Seq(Nat) /\ DOMAIN c = DOMAIN queue /\ \A i \in DOMAIN queue : c[i] = queue[i].seq
  BY StagesAreSequences
<1>4. d \in Seq(Nat) /\ DOMAIN d = DOMAIN c2d /\ \A i \in DOMAIN c2d : d[i] = Asked(c2d[i])
  BY StagesAreSequences
<1>5. b \in Seq(Nat) /\ Increasing(b) /\ \A i \in DOMAIN b : job.st = "work" /\ b[i] = job.seq
  BY StagesAreSequences
<1>6. Pipeline = ((a \o b) \o c) \o d
  BY DEF Pipeline
<1> HIDE DEF a, b, c, d, Asked
<1>7. Increasing(a) /\ Increasing(c) /\ Increasing(d)
  <2>1. \A i, k \in DOMAIN a : i < k => Before(a[i], a[k])
    BY <1>2 DEF OrderInv
  <2>2. \A i, k \in DOMAIN c : i < k => Before(c[i], c[k])
    BY <1>3 DEF OrderInv
  <2>3. \A i, k \in DOMAIN d : i < k => Before(d[i], d[k])
    BY <1>4 DEF OrderInv
  <2> QED BY <2>1, <2>2, <2>3 DEF Increasing, Before
<1>8. /\ \A i \in DOMAIN a, k \in DOMAIN b : Before(a[i], b[k])
      /\ \A i \in DOMAIN a, k \in DOMAIN c : Before(a[i], c[k])
      /\ \A i \in DOMAIN a, k \in DOMAIN d : Before(a[i], d[k])
      /\ \A i \in DOMAIN b, k \in DOMAIN c : Before(b[i], c[k])
      /\ \A i \in DOMAIN b, k \in DOMAIN d : Before(b[i], d[k])
      /\ \A i \in DOMAIN c, k \in DOMAIN d : Before(c[i], d[k])
  <2>1. \A i \in DOMAIN a, k \in DOMAIN b : Before(a[i], b[k])
    BY <1>2, <1>5 DEF OrderInv
  <2>2. \A i \in DOMAIN a, k \in DOMAIN c : Before(a[i], c[k])
    BY <1>2, <1>3 DEF OrderInv
  <2>3. \A i \in DOMAIN a, k \in DOMAIN d : Before(a[i], d[k])
    BY <1>2, <1>4 DEF OrderInv
  <2>4. \A i \in DOMAIN b, k \in DOMAIN c : Before(b[i], c[k])
    BY <1>3, <1>5 DEF OrderInv
  <2>5. \A i \in DOMAIN b, k \in DOMAIN d : Before(b[i], d[k])
    BY <1>4, <1>5 DEF OrderInv
  <2>6. \A i \in DOMAIN c, k \in DOMAIN d : Before(c[i], d[k])
    BY <1>3, <1>4 DEF OrderInv
  <2> QED BY <2>1, <2>2, <2>3, <2>4, <2>5, <2>6
<1> HIDE DEF Before
<1>9. /\ a \o b \in Seq(Nat) /\ Increasing(a \o b)
      /\ \A i \in DOMAIN (a \o b) : \/ \E k \in DOMAIN a : (a \o b)[i] = a[k]
                                    \/ \E k \in DOMAIN b : (a \o b)[i] = b[k]
  BY <1>2, <1>5, <1>7, <1>8, Joined
<1> DEFINE x == a \o b
<1>10. /\ x \in Seq(Nat) /\ Increasing(x)
       /\ \A i \in DOMAIN x, k \in DOMAIN c : Before(x[i], c[k])
       /\ \A i \in DOMAIN x, k \in DOMAIN d : Before(x[i], d[k])
  BY <1>8, <1>9
<1> HIDE DEF x
<1>11. /\ x \o c \in Seq(Nat) /\ Increasing(x \o c)
       /\ \A i \in DOMAIN (x \o c) : \/ \E k \in DOMAIN x : (x \o c)[i] = x[k]
                                     \/ \E k \in DOMAIN c : (x \o c)[i] = c[k]
  BY <1>3, <1>7, <1>10, Joined
<1> DEFINE y == x \o c
<1>12. /\ y \in Seq(Nat) /\ Increasing(y)
       /\ \A i \in DOMAIN y, k \in DOMAIN d : Before(y[i], d[k])
  BY <1>8, <1>10, <1>11
<1> HIDE DEF y
<1>13. Increasing(y \o d)
  BY <1>4, <1>7, <1>12, Joined
<1> QED BY <1>6, <1>13 DEF PipelineOrdered, x, y

(* What was asked and not yet received, in the socket, in the queue, at    *)
(* work and answered, keeps the order in which the client asked: no answer *)
(* overtakes another and none is given twice, however requests are         *)
(* cancelled, refused or cut off (g_vfs_channel_send_reply,                *)
(* start_queued_request).                                                  *)
THEOREM StreamOrder ==
  ASSUME "query" \notin EarlyCancel PROVE Spec => []PipelineOrdered
<1>1. RInv => PipelineOrdered
  BY OrderSuffices DEF RInv
<1> QED BY <1>1, Invariant, PTL

(* Data at or behind the position, inside the file, is a read of the file. *)
LEMMA ReadStep ==
  ASSUME FileSize \in Nat, NEW s \in Nat, NEW n \in Nat,
         s >= offset, sure => s = offset, s + n <= FileSize, n = 0 => s = FileSize,
         res' = Outcome("data", s, n), offset' = offset + n, sure' = sure
  PROVE  Abstract!Next
<1>1. s \in 0 .. FileSize /\ n \in 0 .. FileSize
  OBVIOUS
<1>2. res' = Abstract!Outcome("data", s, n)
  BY DEF Abstract!Outcome, Outcome
<1>3. Abstract!Read
  BY <1>1, <1>2 DEF Abstract!Read
<1> QED BY <1>3 DEF Abstract!Next

(* An operation that fails is the abstract file's Fail. *)
LEMMA FailStep ==
  ASSUME sure \in BOOLEAN, NEW b \in BOOLEAN, FinishFailed(b), offset' = offset
  PROVE  Abstract!Next
<1>1. res' = Outcome("failed", 0, 0) /\ sure' = (sure /\ ~(b /\ op.kind = "seek"))
  BY DEF FinishFailed, Finish
<1>2. sure' \in {sure, FALSE}
  BY <1>1
<1>3. res' = Abstract!Outcome("failed", 0, 0)
  BY <1>1 DEF Outcome, Abstract!Outcome
<1> QED BY <1>2, <1>3 DEF Abstract!Next, Abstract!Fail

(* Every step is one of FileStream or changes nothing of it. *)
LEMMA StepSimulates ==
  ASSUME RInv, [Next]_vars PROVE [Abstract!Next]_<<offset, res, sure>>
<1> USE DEF streamVars, histVars
<1>0. TypeOK /\ sure \in BOOLEAN /\ FileSize \in Nat /\ (~Closing => PreInv) /\ 0 \in Nat
  BY StreamAssumption DEF RInv, TypeOK, DataInv
<1>1. ASSUME NEW n \in ReadSizes, ReadFromPre(n)
      PROVE  Abstract!Next
  <2>1. ~Closing /\ PreInv /\ UsablePre = pre
    BY <1>0, <1>1, UsableIsPre DEF ReadFromPre, NewOp, Idle, Closing
  <2> DEFINE p == Head(pre)
             m == Smaller(n, p.len)
  <2>2. /\ pre # << >> /\ pre \in Seq(Blocklike) /\ offset' = offset + m
        /\ res' = Outcome("data", p.start, m) /\ sure' = sure
    BY <1>0, <1>1, <2>1 DEF ReadFromPre, TypeOK
  <2>3. p = pre[1] /\ 1 \in DOMAIN pre
    BY <2>2, TailFacts
  <2>4. /\ p.start \in Nat /\ p.len \in Nat /\ p.len > 0 /\ p.start >= offset
        /\ (sure => p.start = offset) /\ p.start + p.len <= FileSize
    BY <1>0, <2>1, <2>2, <2>3, PreFacts DEF PreInv, InFile, End
  <2>5. m \in Nat /\ m <= p.len /\ m > 0
    BY <2>4, StreamAssumption DEF Smaller
  <2> HIDE DEF m, p
  <2>6. p.start + m <= FileSize /\ m # 0
    BY <1>0, <2>4, <2>5
  <2> QED BY <1>0, <2>2, <2>4, <2>5, <2>6, ReadStep
<1>2. CASE Application /\ ~(\E n \in ReadSizes : ReadFromPre(n))
  BY <1>2 DEF Application, ReadFromBlock, SendRead, SendSeek, SendQuery, SendClose, RequestCancel
<1>3. CASE CancelUnsent \/ StreamError \/ ReadBlockCancelled
  BY <1>0, <1>3, FailStep DEF CancelUnsent, StreamError, ReadBlockCancelled
<1>4. ASSUME NEW m \in Units, ReadBlock(m)
      PROVE  Abstract!Next
  <2>1. /\ InFile(block) /\ block.start >= offset /\ (sure => block.start = offset)
        /\ m \in Nat /\ m <= block.len /\ (m = 0 <=> block.len = 0)
        /\ block.start \in Nat /\ block.len \in Nat
    BY <1>4, BlockReadFacts
  <2>2. res' = Outcome("data", block.start, m) /\ offset' = offset + m /\ sure' = sure
    BY <1>4 DEF ReadBlock, Finish
  <2>3. block.start + m <= FileSize /\ (m = 0 => block.start = FileSize)
    BY <1>0, <2>1 DEF InFile, End
  <2> QED BY <1>0, <2>1, <2>2, <2>3, ReadStep
<1>5. CASE ReadHeader
  <2>1. ASSUME FinishFailed(TRUE), offset' = offset PROVE Abstract!Next
    BY <1>0, <2>1, FailStep
  <2>2. ASSUME Finish(Outcome("seek", d2c[1].start, 0)), offset' = d2c[1].start, sure' = TRUE
        PROVE  Abstract!Next
    <3>1. d2c[1].start \in 0 .. FileSize
      <4>1. d2c \in Seq(Replies) /\ 1 \in DOMAIN d2c
        BY <1>0, <1>5, HeaderFacts DEF TypeOK
      <4>2. d2c[1] \in Replies
        BY <4>1
      <4> QED BY <4>2 DEF Replies, Units
    <3>2. res' = Abstract!Outcome("seek", d2c[1].start, 0)
      BY <2>2 DEF Finish, Outcome, Abstract!Outcome
    <3>3. Abstract!Seek
      BY <2>2, <3>1, <3>2 DEF Abstract!Seek
    <3> QED BY <3>3 DEF Abstract!Next
  <2>3. ASSUME Finish(Outcome("done", 0, 0)), UNCHANGED <<offset, sure>>
        PROVE  Abstract!Next
    <3>1. res' = Abstract!Outcome("done", 0, 0)
      BY <2>3 DEF Finish, Outcome, Abstract!Outcome
    <3> QED BY <2>3, <3>1 DEF Abstract!Other, Abstract!Next
  <2> QED BY <1>5, <2>1, <2>2, <2>3, HeaderFacts
<1>6. CASE WriteRequest \/ SendCancel \/ HandleInput \/ SkipCancelled
  BY <1>6 DEF WriteRequest, SendCancel, HandleInput, SkipCancelled
<1>7. ASSUME NEW m \in Units, KeepBlock(m) \/ SkipBlock(m)
      PROVE  UNCHANGED <<offset, res, sure>>
  BY <1>7 DEF KeepBlock, SkipBlock
<1>8. CASE Backend \/ Channel \/ ForceClose \/ SetBlockRequests
  BY <1>8, DaemonLeaves
<1>9. CASE Done \/ UNCHANGED vars
  BY <1>9 DEF Done, vars
<1>10. CASE Client
  BY <1>3, <1>4, <1>5, <1>6, <1>7, <1>10 DEF Client
<1> QED BY <1>1, <1>2, <1>8, <1>9, <1>10 DEF Next

(* The stream is a plain file to its user: whichever reply serves a read,  *)
(* an earlier one, a readahead's or one kept by a query, its data begins   *)
(* at the position, end of file is reported at the end of the file only,   *)
(* and a seek that failed loses data but never repeats it                  *)
(* (iterate_read_state_machine, iterate_seek_state_machine).               *)
THEOREM StreamRefinement ==
  ASSUME "query" \notin EarlyCancel PROVE Spec => ImplementsFileStream
<1>1. Init => Abstract!Init
  BY DEF Init, Abstract!Init, Outcome, Abstract!Outcome
<1>2. RInv /\ [Next]_vars => [Abstract!Next]_<<offset, res, sure>>
  BY StepSimulates
<1> QED BY <1>1, <1>2, Invariant, PTL DEF Spec, ImplementsFileStream, Abstract!Spec

-----------------------------------------------------------------------------
(* Without blocking of requests: generations are exact, and every          *)
(* operation that waits has an answer coming.                              *)

(* The operation's request has been sent. *)
Waiting == op.st \in {"input", "header", "block"} \/ op.sentCancel

(* A seek the channel has not started yet. *)
SeekAhead == \/ \E i \in DOMAIN c2d : c2d[i].cmd = "seek"
             \/ \E i \in DOMAIN queue : queue[i].cmd = "seek"

(* The channel lacks the generation of the one seek it has not started. *)
ExactInv == dgen = cgen \/ (cgen = dgen + 1 /\ SeekAhead)

(* A query's attributes come right after it. *)
FramedInv == \A i \in DOMAIN c2d : c2d[i].cmd = "query"
               => i + 1 \in DOMAIN c2d /\ c2d[i + 1].cmd = "attrs"

(* The types of the replies to requests of this kind *)
Answers(k) == {"error", IF k = "read" THEN "data" ELSE Success[k]}

(* What has the number n is a request of kind k or its answer. *)
Fits(n, k) ==
  /\ \A i \in DOMAIN c2d : Asked(c2d[i]) = n => c2d[i].cmd = k
  /\ \A i \in DOMAIN queue : queue[i].seq = n => queue[i].cmd = k
  /\ job.st = "work" /\ job.seq = n => job.kind \in {k, "error"}
  /\ \A i \in DOMAIN d2c : d2c[i].seq = n => d2c[i].type \in Answers(k)

(* The request n or its answer is on its way. *)
Carries(n) ==
  \/ \E i \in DOMAIN d2c : d2c[i].seq = n
  \/ job.st = "work" /\ job.seq = n
  \/ \E i \in DOMAIN queue : queue[i].seq = n
  \/ \E i \in DOMAIN c2d : Asked(c2d[i]) = n

(* A read that has come to a block is served by it, whoever asked for it. *)
PendingInv == Waiting => /\ Fits(op.seq, op.kind)
                         /\ (op.kind = "read" /\ op.st = "block") \/ Carries(op.seq)

(* The invariant, inductive together with RInv. *)
EInv == ~blocked /\ (~shut => ExactInv /\ FramedInv /\ PendingInv)

-----------------------------------------------------------------------------
(* What moves where.                                                       *)

(* A request enters the socket whole, its header first. *)
LEMMA WroteExact ==
  ASSUME TypeOK, OpInv, WriteRequest
  PROVE  /\ DOMAIN c2d = 1 .. Len(c2d) /\ Len(c2d) \in Nat
         /\ DOMAIN c2d \subseteq DOMAIN c2d' /\ \A i \in DOMAIN c2d : c2d'[i] = c2d[i]
         /\ ~op.sentCancel =>
              /\ Len(c2d) + 1 \in DOMAIN c2d'
              /\ c2d'[Len(c2d) + 1] = [cmd |-> op.kind, seq |-> op.seq, arg |-> op.arg]
              /\ op.kind = "query" => /\ Len(c2d) + 2 \in DOMAIN c2d'
                                      /\ c2d'[Len(c2d) + 2].cmd = "attrs"
<1>1. c2d \in Seq(Messages) /\ out \in Seq(Messages) /\ c2d' = c2d \o out
  BY DEF TypeOK, WriteRequest
<1>2. ~op.sentCancel => out = Request(op.kind, op.seq, op.arg)
  BY DEF OpInv, OutInv, WriteRequest, Request
<1>3. /\ DOMAIN c2d' = 1 .. Len(c2d) + Len(out)
      /\ DOMAIN c2d = 1 .. Len(c2d) /\ Len(c2d) \in Nat /\ Len(out) \in Nat
      /\ \A i \in DOMAIN c2d' : c2d'[i] = IF i <= Len(c2d) THEN c2d[i] ELSE out[i - Len(c2d)]
  BY <1>1
<1>4. ASSUME ~op.sentCancel
      PROVE  /\ Len(out) >= 1 /\ out[1] = [cmd |-> op.kind, seq |-> op.seq, arg |-> op.arg]
             /\ op.kind = "query" => Len(out) >= 2 /\ out[2].cmd = "attrs"
  <2>1. CASE op.kind # "query"
    BY <1>2, <1>4, <2>1 DEF Request
  <2>2. CASE op.kind = "query"
    <3>1. out = <<[cmd |-> op.kind, seq |-> op.seq, arg |-> op.arg],
                  [cmd |-> "attrs", seq |-> 0, arg |-> 0]>>
      BY <1>2, <1>4, <2>2 DEF Request
    <3> QED BY <3>1
  <2> QED BY <2>1, <2>2
<1>5. ASSUME NEW j \in 1 .. Len(out)
      PROVE  Len(c2d) + j \in DOMAIN c2d' /\ c2d'[Len(c2d) + j] = out[j]
  <2>1. Len(c2d) + j \in 1 .. Len(c2d) + Len(out) /\ ~(Len(c2d) + j <= Len(c2d))
        /\ Len(c2d) + j - Len(c2d) = j
    BY <1>3
  <2> QED BY <1>3, <2>1
<1>6. /\ Len(out) >= 1 => 1 \in 1 .. Len(out)
      /\ Len(out) >= 2 => 2 \in 1 .. Len(out)
  BY <1>3
<1>7. DOMAIN c2d \subseteq DOMAIN c2d' /\ \A i \in DOMAIN c2d : c2d'[i] = c2d[i]
  BY <1>3
<1> QED BY <1>3, <1>4, <1>5, <1>6, <1>7

(* A request leaves the socket whole. *)
LEMMA TakenExact ==
  ASSUME TypeOK, GotRequest
  PROVE  \E n \in {1, 2} :
           /\ n = 2 <=> c2d[1].cmd = "query"
           /\ DOMAIN c2d = 1 .. Len(c2d) /\ Len(c2d) \in Nat /\ Len(c2d) >= n
           /\ DOMAIN c2d' = 1 .. Len(c2d) - n
           /\ \A i \in DOMAIN c2d' : c2d'[i] = c2d[i + n]
<1> DEFINE n == Length(Head(c2d))
<1>1. n \in {1, 2} /\ c2d' = SubSeq(c2d, n + 1, Len(c2d)) /\ c2d \in Seq(Messages)
      /\ c2d # << >> /\ Len(c2d) >= n /\ (n = 2 <=> Head(c2d).cmd = "query")
  BY DEF Length, GotRequest, TypeOK
<1> HIDE DEF n
<1>2. /\ DOMAIN c2d' = 1 .. Len(c2d) - n /\ Len(c2d) \in Nat
      /\ DOMAIN c2d = 1 .. Len(c2d) /\ \A i \in 1 .. Len(c2d) - n : c2d'[i] = c2d[i + n]
  BY <1>1
<1>3. Head(c2d) = c2d[1]
  BY <1>1
<1> QED BY <1>1, <1>2, <1>3

(* What leaves the socket is one request, and a query's attributes. *)
LEMMA TakenRest ==
  ASSUME TypeOK, FramedInv, GotRequest
  PROVE  /\ FramedInv'
         /\ \A k \in DOMAIN c2d : k = 1 \/ c2d[k].cmd = "attrs"
                                    \/ \E i \in DOMAIN c2d' : c2d'[i] = c2d[k]
<1>1. PICK n \in {1, 2} :
           /\ n = 2 <=> c2d[1].cmd = "query"
           /\ DOMAIN c2d = 1 .. Len(c2d) /\ Len(c2d) \in Nat /\ Len(c2d) >= n
           /\ DOMAIN c2d' = 1 .. Len(c2d) - n
           /\ \A i \in DOMAIN c2d' : c2d'[i] = c2d[i + n]
  BY TakenExact
<1>2. ASSUME NEW i \in DOMAIN c2d', c2d'[i].cmd = "query"
      PROVE  i + 1 \in DOMAIN c2d' /\ c2d'[i + 1].cmd = "attrs"
  <2>1. i \in 1 .. Len(c2d) - n /\ i + n \in DOMAIN c2d /\ c2d[i + n].cmd = "query"
    BY <1>1, <1>2
  <2>2. i + n + 1 \in DOMAIN c2d /\ c2d[i + n + 1].cmd = "attrs"
    BY <2>1 DEF FramedInv
  <2>3. i + 1 \in 1 .. Len(c2d) - n /\ (i + 1) + n = i + n + 1
    BY <1>1, <2>1, <2>2
  <2> QED BY <1>1, <2>2, <2>3
<1>3. FramedInv'
  BY <1>2 DEF FramedInv
<1>4. ASSUME NEW k \in DOMAIN c2d, k > n
      PROVE  \E i \in DOMAIN c2d' : c2d'[i] = c2d[k]
  <2>1. k - n \in 1 .. Len(c2d) - n /\ (k - n) + n = k
    BY <1>1, <1>4
  <2> QED BY <1>1, <2>1
<1>5. ASSUME NEW k \in DOMAIN c2d, ~(k > n), k # 1
      PROVE  c2d[k].cmd = "attrs"
  <2>1. n = 2 /\ k = 1 + 1 /\ 1 \in DOMAIN c2d
    BY <1>1, <1>5
  <2> QED BY <1>1, <2>1 DEF FramedInv
<1> QED BY <1>3, <1>4, <1>5

(* handle_request: the first request becomes the job. *)
LEMMA StartedExact ==
  ASSUME TypeOK, ~blocked, NEW q \in Seq(Queued), q # << >>, StartQueued(q)
  PROVE  /\ 1 \in DOMAIN q
         /\ \A k \in DOMAIN q : k = 1 \/ \E i \in DOMAIN queue' : queue'[i] = q[k]
         /\ \A i \in DOMAIN queue' : \E k \in DOMAIN q : queue'[i] = q[k]
         /\ dgen' = IF q[1].cmd = "seek" THEN dgen + 1 ELSE dgen
         /\ job'.st = "work" /\ job'.seq = q[1].seq /\ job'.kind \in {q[1].cmd, "error"}
<1>1. queue' = Tail(q) /\ HandleRequest(Head(q))
  BY DEF StartQueued
<1>2. 1 \in DOMAIN q /\ Head(q) = q[1] /\ job'.st = "work" /\ job'.seq = q[1].seq
      /\ \A i \in DOMAIN queue' : i + 1 \in DOMAIN q /\ queue'[i] = q[i + 1]
  BY StartedFacts
<1>3. dgen' = IF q[1].cmd = "seek" THEN dgen + 1 ELSE dgen
  BY <1>1, <1>2 DEF HandleRequest
<1>4. job'.kind \in {q[1].cmd, "error"}
  <2>1. ASSUME NEW k, NEW n, NEW a PROVE NewJob(k, n, a).kind = k
    BY DEF NewJob, NoJob
  <2> QED BY <1>1, <1>2, <2>1 DEF HandleRequest
<1>5. ASSUME NEW k \in DOMAIN q, k # 1
      PROVE  \E i \in DOMAIN queue' : queue'[i] = q[k]
  <2>1. DOMAIN q = 1 .. Len(q) /\ Len(q) \in Nat /\ Tail(q) \in Seq(Queued)
        /\ Len(Tail(q)) = Len(q) - 1
    BY TailFacts
  <2>2. DOMAIN queue' = 1 .. Len(q) - 1
    BY <1>1, <2>1
  <2>3. k - 1 \in DOMAIN queue' /\ (k - 1) + 1 = k
    BY <1>5, <2>1, <2>2
  <2> QED BY <1>2, <2>3
<1> QED BY <1>2, <1>3, <1>4, <1>5

(* got_request, seen from the requests *)
LEMMA GotExact ==
  ASSUME RInv, GotRequest
  PROVE  \/ /\ c2d[1].cmd = "cancel" /\ UNCHANGED <<queue, dgen>>
            /\ job'.st = job.st /\ job'.kind = job.kind /\ job'.seq = job.seq
         \/ /\ c2d[1].cmd = "cancel"
            /\ UNCHANGED <<job, dgen>> /\ DOMAIN queue' = DOMAIN queue
            /\ \A i \in DOMAIN queue : /\ queue'[i].seq = queue[i].seq
                                       /\ queue'[i].cmd = queue[i].cmd
         \/ /\ c2d[1].cmd # "cancel"
            /\ \E q \in Seq(Queued) :
                 /\ q # << >>
                 /\ \A i \in DOMAIN q : \/ \E k \in DOMAIN queue : q[i] = queue[k]
                                        \/ q[i].cmd = c2d[1].cmd /\ q[i].seq = c2d[1].seq
                 /\ \A k \in DOMAIN queue : \E i \in DOMAIN q : q[i] = queue[k]
                 /\ \E i \in DOMAIN q : q[i].cmd = c2d[1].cmd /\ q[i].seq = c2d[1].seq
                 /\ \/ job.kind = "none" /\ StartQueued(q)
                    \/ UNCHANGED <<job, dgen>> /\ queue' = q
<1>0. TypeOK /\ ChannelInv /\ job \in ChannelJob /\ queue \in Seq(Queued)
  BY DEF RInv, TypeOK
<1> DEFINE r == Head(c2d)
           e == [cmd |-> r.cmd, seq |-> r.seq, arg |-> r.arg, cancelled |-> FALSE]
<1>1. r = c2d[1] /\ 1 \in DOMAIN c2d
  BY <1>0, TakenFacts
<1>3. CASE /\ r.cmd = "cancel" /\ job' = [job EXCEPT !.cancelled = TRUE]
           /\ UNCHANGED <<queue, dgen, readCount>>
  <2>1. job'.st = job.st /\ job'.kind = job.kind /\ job'.seq = job.seq
    BY <1>0, <1>3 DEF ChannelJob
  <2> QED BY <1>1, <1>3, <2>1
<1>4. CASE /\ r.cmd = "cancel" /\ queue' = MarkCancelled(r.arg)
           /\ UNCHANGED <<job, dgen, readCount>>
  <2>1. /\ DOMAIN queue' = DOMAIN queue
        /\ \A i \in DOMAIN queue : queue'[i].seq = queue[i].seq /\ queue'[i].cmd = queue[i].cmd
    BY <1>0, <1>4, MarkedFacts
  <2> QED BY <1>1, <1>4, <2>1
<1>5. CASE r.cmd # "cancel"
  <2>1. e \in Queued
    <3>1. c2d[1] \in Messages
      BY <1>0, <1>1 DEF TypeOK
    <3> QED BY <1>1, <1>5, <3>1 DEF Messages, Queued
  <2>2. e.cmd = c2d[1].cmd /\ e.seq = c2d[1].seq
    BY <1>1
  <2>3. \/ job.kind = "none" /\ StartQueued(Enqueue(e))
        \/ UNCHANGED <<job, dgen>> /\ queue' = Enqueue(e)
    BY <1>5 DEF GotRequest
  <2> DEFINE q == Append(queue, e)
  <2>4. Enqueue(e) = q
    BY DEF Enqueue
  <2> HIDE DEF e
  <2>5. /\ q \in Seq(Queued) /\ DOMAIN q = 1 .. Len(queue) + 1
        /\ \A i \in DOMAIN queue : q[i] = queue[i]
        /\ q[Len(queue) + 1] = e
    BY <1>0, <2>1, AppendFacts
  <2>6. Len(queue) \in Nat /\ DOMAIN queue = 1 .. Len(queue) /\ q # << >>
    BY <1>0, <2>1
  <2> HIDE DEF q
  <2>7. /\ \A i \in DOMAIN q : i \in DOMAIN queue \/ i = Len(queue) + 1
        /\ \A i \in DOMAIN queue : i \in DOMAIN q
        /\ Len(queue) + 1 \in DOMAIN q
    BY <2>5, <2>6
  <2>8. \A i \in DOMAIN q : \/ \E k \in DOMAIN queue : q[i] = queue[k]
                            \/ q[i].cmd = c2d[1].cmd /\ q[i].seq = c2d[1].seq
    BY <2>2, <2>5, <2>7
  <2>9. /\ \A k \in DOMAIN queue : \E i \in DOMAIN q : q[i] = queue[k]
        /\ \E i \in DOMAIN q : q[i].cmd = c2d[1].cmd /\ q[i].seq = c2d[1].seq
    BY <2>2, <2>5, <2>7
  <2>10. c2d[1].cmd # "cancel"
    BY <1>1, <1>5
  <2> QED BY <2>3, <2>4, <2>5, <2>6, <2>8, <2>9, <2>10
<1> QED BY <1>3, <1>4, <1>5 DEF GotRequest

(* A queue that grows, or whose first request is started: no request is    *)
(* lost, and a seek is counted when it is started.                         *)
LEMMA QueueStep ==
  ASSUME TypeOK, ~blocked, NEW q \in Seq(Queued), q # << >>, NEW n, NEW k,
         (job.st # "work" /\ StartQueued(q)) \/ (UNCHANGED <<job, dgen>> /\ queue' = q)
  PROVE  /\ (\E i \in DOMAIN q : q[i].cmd = "seek")
              => \/ dgen' = dgen + 1
                 \/ dgen' = dgen /\ \E i \in DOMAIN queue' : queue'[i].cmd = "seek"
         /\ dgen' = dgen \/ (dgen' = dgen + 1 /\ \E i \in DOMAIN q : q[i].cmd = "seek")
         /\ (\E i \in DOMAIN q : q[i].seq = n)
              => \/ job'.st = "work" /\ job'.seq = n
                 \/ \E i \in DOMAIN queue' : queue'[i].seq = n
         /\ job.st = "work" => job' = job
         /\ (\A i \in DOMAIN q : q[i].seq = n => q[i].cmd = k)
              => /\ \A i \in DOMAIN queue' : queue'[i].seq = n => queue'[i].cmd = k
                 /\ job'.st = "work" /\ job'.seq = n => job' = job \/ job'.kind \in {k, "error"}
<1>1. CASE job.st # "work" /\ StartQueued(q)
  <2>1. /\ 1 \in DOMAIN q
        /\ \A j \in DOMAIN q : j = 1 \/ \E i \in DOMAIN queue' : queue'[i] = q[j]
        /\ \A i \in DOMAIN queue' : \E j \in DOMAIN q : queue'[i] = q[j]
        /\ dgen' = IF q[1].cmd = "seek" THEN dgen + 1 ELSE dgen
        /\ job'.st = "work" /\ job'.seq = q[1].seq /\ job'.kind \in {q[1].cmd, "error"}
    BY <1>1, StartedExact
  <2> QED BY <1>1, <2>1
<1>2. CASE UNCHANGED <<job, dgen>> /\ queue' = q
  BY <1>2
<1> QED BY <1>1, <1>2

(* Exact generations are kept by steps that count the seeks they start. *)
LEMMA ExactKept ==
  ASSUME RInv, ExactInv, cgen' = cgen,
         SeekAhead => dgen' = dgen + 1 \/ (dgen' = dgen /\ SeekAhead'),
         dgen' = dgen \/ (dgen' = dgen + 1 /\ SeekAhead)
  PROVE  ExactInv'
<1>1. dgen \in Nat /\ cgen \in Nat
  BY DEF RInv, TypeOK
<1>2. SeekAhead => dgen < cgen
  BY DEF RInv, SeekInv, SeekAhead
<1> HIDE DEF SeekAhead
<1>3. CASE SeekAhead
  <2>1. cgen = dgen + 1
    BY <1>1, <1>2, <1>3 DEF ExactInv
  <2> QED BY <1>1, <1>3, <2>1 DEF ExactInv
<1>4. CASE ~SeekAhead
  <2>1. dgen = cgen /\ dgen' = dgen
    BY <1>4 DEF ExactInv
  <2> QED BY <2>1 DEF ExactInv
<1> QED BY <1>3, <1>4

(* The answer carries the number and the type of its request. *)
LEMMA BackendExact ==
  ASSUME RInv, Backend, ~shut
  PROVE  LET x == d2c'[Len(d2c) + 1] IN
         x.type = "error" \/ (x.type \in Answers(job.kind) /\ job.kind \in OpKinds)
<1>0. TypeOK /\ 0 \in Units /\ bpos \in Units
  BY StreamAssumption DEF Units, RInv, TypeOK
<1>1. ASSUME NEW t \in {"data", "error", "seekpos", "info", "closed"}, NEW s \in Units,
             NEW n \in Units, Reply(t, s, n)
      PROVE  d2c'[Len(d2c) + 1].type = t
  <2>1. d2c'[Len(d2c) + 1] =
          [type |-> t, seq |-> job.seq, start |-> s, len |-> n, gen |-> dgen]
    BY <1>0, <1>1, RepliedFacts
  <2> QED BY <2>1
<1>2. ASSUME NEW n \in Units, ReadDone(n)
      PROVE  d2c'[Len(d2c) + 1].type = "data" /\ job.kind = "read"
  BY <1>0, <1>1, <1>2 DEF ReadDone
<1>3. ASSUME SeekDone
      PROVE  d2c'[Len(d2c) + 1].type = "seekpos" /\ job.kind = "seek"
  <2>1. Reply("seekpos", job.arg, 0) /\ job.arg \in Units /\ job.kind = "seek"
    BY <1>3 DEF SeekDone, RInv, ChannelInv
  <2> QED BY <1>0, <1>1, <2>1
<1>4. ASSUME QueryOrCloseDone
      PROVE  d2c'[Len(d2c) + 1].type = Success[job.kind] /\ job.kind \in {"query", "close"}
  <2>1. job.kind \in {"query", "close"} /\ Reply(Success[job.kind], 0, 0)
    BY <1>4 DEF QueryOrCloseDone
  <2>2. Success[job.kind] \in {"info", "closed"}
    BY <2>1 DEF Success
  <2> QED BY <1>0, <1>1, <2>1, <2>2
<1>5. ASSUME JobFails
      PROVE  d2c'[Len(d2c) + 1].type = "error"
  BY <1>0, <1>1, <1>5 DEF JobFails
<1> DEFINE x == d2c'[Len(d2c) + 1]
<1>6. Success["seek"] = "seekpos"
  BY DEF Success
<1>7. /\ x.type = "data" /\ job.kind = "read"
         => x.type \in Answers(job.kind) /\ job.kind \in OpKinds
      /\ x.type = "seekpos" /\ job.kind = "seek"
         => x.type \in Answers(job.kind) /\ job.kind \in OpKinds
      /\ x.type = Success[job.kind] /\ job.kind \in {"query", "close"}
         => x.type \in Answers(job.kind) /\ job.kind \in OpKinds
  <2> HIDE DEF x, Success
  <2> QED BY <1>6 DEF Answers, OpKinds
<1> HIDE DEF x, Answers, OpKinds, Success
<1>8. \/ x.type = "data" /\ job.kind = "read"
      \/ x.type = "seekpos" /\ job.kind = "seek"
      \/ x.type = Success[job.kind] /\ job.kind \in {"query", "close"}
      \/ x.type = "error"
  BY <1>2, <1>3, <1>4, <1>5 DEF Backend, x
<1>9. x.type = "error" \/ (x.type \in Answers(job.kind) /\ job.kind \in OpKinds)
  BY <1>7, <1>8
<1> QED BY <1>9 DEF x

(* No step of the daemon loses a request, its number or its kind. *)
LEMMA DaemonExact ==
  ASSUME Blocks = FALSE, RInv, EInv, Backend \/ Channel \/ ForceClose \/ SetBlockRequests
  PROVE  EInv'
<1>0. TypeOK /\ OpInv /\ ChannelInv /\ ~blocked
  BY DEF RInv, EInv
<1>1. UNCHANGED <<op, cgen>> /\ (shut' = shut \/ shut')
  BY DaemonLeaves DEF streamVars
<1>2. (Waiting' <=> Waiting) /\ op'.seq = op.seq /\ op'.kind = op.kind /\ op'.st = op.st
  BY <1>1 DEF Waiting
<1>3. Waiting => op.seq \in Nat /\ op.seq # 0 /\ op.kind \in OpKinds
  <2>1. op \in Operations /\ op.seq \in Nat
    BY <1>0 DEF TypeOK, Operations
  <2> QED BY <1>0, <2>1 DEF OpInv, Waiting, Operations
<1>4. ~SetBlockRequests
  BY DEF SetBlockRequests
<1>5. CASE ForceClose
  BY <1>0, <1>5 DEF ForceClose, EInv
<1>6. CASE (Backend \/ Channel) /\ shut
  <2>1. Backend => UNCHANGED <<shut, blocked>>
    BY DEF Backend, ReadDone, SeekDone, QueryOrCloseDone, JobFails
  <2>2. Channel => UNCHANGED <<shut, blocked>>
    BY DEF Channel, GotRequest, SendReplyCb
  <2>3. UNCHANGED <<shut, blocked>>
    BY <1>6, <2>1, <2>2
  <2> QED BY <1>0, <1>6, <2>3 DEF EInv
<1>7. CASE Backend /\ ~shut
  <2>1. /\ job.st = "work" /\ job'.st = "reply" /\ UNCHANGED <<shut, queue, c2d, dgen>>
    BY <1>0, <1>7, AnsweredFacts
  <2>2. ~blocked'
    BY <1>0, <1>7 DEF Backend, ReadDone, SeekDone, QueryOrCloseDone, JobFails
  <2>3. /\ DOMAIN d2c' = 1 .. Len(d2c) + 1 /\ DOMAIN d2c = 1 .. Len(d2c) /\ Len(d2c) \in Nat
        /\ \A i \in DOMAIN d2c : d2c'[i] = d2c[i]
        /\ d2c'[Len(d2c) + 1].seq = job.seq
    BY <1>7, BackendFacts
  <2>4. \/ d2c'[Len(d2c) + 1].type = "error"
        \/ d2c'[Len(d2c) + 1].type \in Answers(job.kind) /\ job.kind \in OpKinds
    BY <1>7, BackendExact
  <2>5. /\ \A i \in DOMAIN d2c' : i \in DOMAIN d2c \/ i = Len(d2c) + 1
        /\ \A i \in DOMAIN d2c : i \in DOMAIN d2c'
        /\ Len(d2c) + 1 \in DOMAIN d2c'
    BY <2>3
  <2>6. ExactInv' /\ FramedInv'
    BY <1>1, <1>7, <2>1 DEF EInv, ExactInv, FramedInv, SeekAhead
  <2>7. ASSUME Fits(op.seq, op.kind), op.kind \in OpKinds PROVE Fits(op.seq, op.kind)'
    <3>1. job.seq = op.seq => d2c'[Len(d2c) + 1].type \in Answers(op.kind)
      BY <2>1, <2>4, <2>7 DEF Fits, Answers, OpKinds
    <3> HIDE DEF Answers, Asked
    <3>2. \A i \in DOMAIN d2c' : d2c'[i].seq = op.seq => d2c'[i].type \in Answers(op.kind)
      BY <2>3, <2>5, <2>7, <3>1 DEF Fits
    <3>3. /\ \A i \in DOMAIN c2d' : Asked(c2d'[i]) = op'.seq => c2d'[i].cmd = op'.kind
          /\ \A i \in DOMAIN queue' : queue'[i].seq = op'.seq => queue'[i].cmd = op'.kind
      BY <1>2, <2>1, <2>7 DEF Fits
    <3> QED BY <1>2, <2>1, <3>2, <3>3 DEF Fits, Asked, Answers
  <2>8. ASSUME Carries(op.seq) PROVE Carries(op.seq)'
    BY <1>2, <2>1, <2>3, <2>5, <2>8 DEF Carries, Asked
  <2>9. PendingInv'
    BY <1>2, <1>3, <1>7, <2>7, <2>8 DEF EInv, PendingInv
  <2> QED BY <2>2, <2>6, <2>9 DEF EInv
<1>8. CASE GotRequest /\ ~shut
  <2>0. ExactInv /\ FramedInv /\ PendingInv /\ UNCHANGED <<d2c, blocked, shut>>
    BY <1>8 DEF EInv, GotRequest
  <2>1. /\ FramedInv' /\ 1 \in DOMAIN c2d
        /\ \A k \in DOMAIN c2d : k = 1 \/ c2d[k].cmd = "attrs"
                                   \/ \E i \in DOMAIN c2d' : c2d'[i] = c2d[k]
        /\ \A i \in DOMAIN c2d' : \E k \in DOMAIN c2d : c2d'[i] = c2d[k]
    BY <1>0, <1>8, <2>0, TakenRest, TakenFacts
  <2>2. CASE /\ c2d[1].cmd = "cancel" /\ dgen' = dgen /\ DOMAIN queue' = DOMAIN queue
             /\ \A i \in DOMAIN queue : /\ queue'[i].seq = queue[i].seq
                                        /\ queue'[i].cmd = queue[i].cmd
             /\ job'.st = job.st /\ job'.kind = job.kind /\ job'.seq = job.seq
    <3>1. SeekAhead => SeekAhead'
      BY <2>1, <2>2 DEF SeekAhead
    <3>2. ExactInv'
      BY <1>1, <2>0, <2>2, <3>1, ExactKept
    <3>3. ASSUME Fits(op.seq, op.kind) PROVE Fits(op.seq, op.kind)'
      BY <1>2, <2>0, <2>1, <2>2, <3>3 DEF Fits, Asked, Answers
    <3>4. ASSUME Carries(op.seq), op.seq # 0 PROVE Carries(op.seq)'
      BY <1>2, <2>0, <2>1, <2>2, <3>4 DEF Carries, Asked
    <3>5. PendingInv'
      BY <1>2, <1>3, <2>0, <3>3, <3>4 DEF PendingInv
    <3> QED BY <1>0, <2>0, <2>1, <3>2, <3>5 DEF EInv
  <2>3. ASSUME c2d[1].cmd # "cancel", NEW q \in Seq(Queued), q # << >>,
               \A i \in DOMAIN q : \/ \E k \in DOMAIN queue : q[i] = queue[k]
                                   \/ q[i].cmd = c2d[1].cmd /\ q[i].seq = c2d[1].seq,
               \A k \in DOMAIN queue : \E i \in DOMAIN q : q[i] = queue[k],
               \E i \in DOMAIN q : q[i].cmd = c2d[1].cmd /\ q[i].seq = c2d[1].seq,
               \/ job.kind = "none" /\ StartQueued(q)
               \/ UNCHANGED <<job, dgen>> /\ queue' = q
        PROVE  EInv'
    <3> DEFINE n == op.seq
               k == op.kind
    <3>1. (job.st # "work" /\ StartQueued(q)) \/ (UNCHANGED <<job, dgen>> /\ queue' = q)
      BY <1>0, <2>3 DEF ChannelInv
    <3>2. /\ (\E i \in DOMAIN q : q[i].cmd = "seek")
              => \/ dgen' = dgen + 1
                 \/ dgen' = dgen /\ \E i \in DOMAIN queue' : queue'[i].cmd = "seek"
          /\ dgen' = dgen \/ (dgen' = dgen + 1 /\ \E i \in DOMAIN q : q[i].cmd = "seek")
          /\ (\E i \in DOMAIN q : q[i].seq = n)
              => \/ job'.st = "work" /\ job'.seq = n
                 \/ \E i \in DOMAIN queue' : queue'[i].seq = n
          /\ job.st = "work" => job' = job
          /\ (\A i \in DOMAIN q : q[i].seq = n => q[i].cmd = k)
              => /\ \A i \in DOMAIN queue' : queue'[i].seq = n => queue'[i].cmd = k
                 /\ job'.st = "work" /\ job'.seq = n => job' = job \/ job'.kind \in {k, "error"}
      <4> HIDE DEF n, k
      <4> QED BY <1>0, <2>3, <3>1, QueueStep
    <3>3. /\ (\E i \in DOMAIN q : q[i].cmd = "seek") => SeekAhead
          /\ SeekAhead => SeekAhead' \/ \E i \in DOMAIN q : q[i].cmd = "seek"
      BY <2>1, <2>3 DEF SeekAhead
    <3>4. (\E i \in DOMAIN queue' : queue'[i].cmd = "seek") => SeekAhead'
      BY DEF SeekAhead
    <3>5. ExactInv'
      <4> HIDE DEF SeekAhead
      <4>1. SeekAhead => dgen' = dgen + 1 \/ (dgen' = dgen /\ SeekAhead')
        BY <3>2, <3>3, <3>4
      <4>2. dgen' = dgen \/ (dgen' = dgen + 1 /\ SeekAhead)
        BY <3>2, <3>3
      <4> QED BY <1>1, <2>0, <4>1, <4>2, ExactKept
    <3>6. ASSUME Waiting, Fits(n, k) PROVE Fits(op.seq, op.kind)'
      <4>1. c2d[1].seq = n => c2d[1].cmd = k
        <5>1. c2d[1].cmd = "attrs" => c2d[1].seq = 0
          BY <1>0, <2>1 DEF ChannelInv
        <5> QED BY <1>3, <2>1, <2>3, <3>6, <5>1 DEF Fits, Asked
      <4>2. \A i \in DOMAIN q : q[i].seq = n => q[i].cmd = k
        BY <2>3, <3>6, <4>1 DEF Fits
      <4>3. /\ \A i \in DOMAIN queue' : queue'[i].seq = n => queue'[i].cmd = k
            /\ job'.st = "work" /\ job'.seq = n => job'.kind \in {k, "error"}
        BY <3>2, <3>6, <4>2 DEF Fits
      <4> QED BY <1>2, <2>0, <2>1, <3>6, <4>3 DEF Fits, Asked, Answers
    <3>7. ASSUME Waiting, Carries(n) PROVE Carries(op.seq)'
      <4>1. CASE \E i \in DOMAIN d2c : d2c[i].seq = n
        BY <1>2, <2>0, <4>1 DEF Carries
      <4>2. CASE job.st = "work" /\ job.seq = n
        BY <1>2, <3>2, <4>2 DEF Carries
      <4>3. CASE \E i \in DOMAIN q : q[i].seq = n
        BY <1>2, <3>2, <4>3 DEF Carries
      <4>4. CASE \E i \in DOMAIN c2d : Asked(c2d[i]) = n
        <5>1. PICK i \in DOMAIN c2d : Asked(c2d[i]) = n
          BY <4>4
        <5>2. c2d[i].cmd # "attrs" /\ c2d[i].seq = n
          BY <1>3, <3>7, <5>1 DEF Asked
        <5>3. CASE i = 1
          BY <2>3, <4>3, <5>2, <5>3
        <5>4. CASE i # 1
          <6>1. PICK j \in DOMAIN c2d' : c2d'[j] = c2d[i]
            BY <2>1, <5>2, <5>4
          <6>2. Asked(c2d'[j]) = n
            BY <5>1, <6>1
          <6> HIDE DEF Asked
          <6>3. \E x \in DOMAIN c2d' : Asked(c2d'[x]) = op'.seq
            BY <1>2, <6>2
          <6> QED BY <6>3 DEF Carries, Asked
        <5> QED BY <5>3, <5>4
      <4>5. (\E i \in DOMAIN queue : queue[i].seq = n) => \E i \in DOMAIN q : q[i].seq = n
        BY <2>3
      <4> QED BY <3>7, <4>1, <4>2, <4>3, <4>4, <4>5 DEF Carries
    <3>8. PendingInv'
      BY <1>2, <2>0, <3>6, <3>7 DEF PendingInv
    <3> QED BY <1>0, <2>0, <2>1, <3>5, <3>8 DEF EInv
  <2> QED BY <1>8, <2>2, <2>3, GotExact
<1>9. CASE SendReplyCb /\ ~shut
  <2>0. /\ ExactInv /\ FramedInv /\ PendingInv /\ UNCHANGED <<c2d, d2c, blocked, shut>>
        /\ job.st = "reply"
    BY <1>9 DEF EInv, SendReplyCb
  <2>1. FramedInv'
    BY <2>0 DEF FramedInv
  <2>2. CASE UNCHANGED <<queue, dgen>> /\ (job'.st # "work" \/ job'.seq = 0)
    <3>1. ExactInv'
      BY <1>1, <2>0, <2>2 DEF ExactInv, SeekAhead
    <3>2. ASSUME Waiting, Fits(op.seq, op.kind) PROVE Fits(op.seq, op.kind)'
      BY <1>2, <1>3, <2>0, <2>2, <3>2 DEF Fits, Asked, Answers
    <3>3. ASSUME Carries(op.seq) PROVE Carries(op.seq)'
      BY <1>2, <2>0, <2>2, <3>3 DEF Carries, Asked
    <3>4. PendingInv'
      BY <1>2, <2>0, <3>2, <3>3 DEF PendingInv
    <3> QED BY <1>0, <2>0, <2>1, <3>1, <3>4 DEF EInv
  <2>3. CASE queue # << >> /\ StartQueued(queue)
    <3> DEFINE n == op.seq
               k == op.kind
    <3>1. queue \in Seq(Queued)
      BY <1>0 DEF TypeOK
    <3>2. /\ (\E i \in DOMAIN queue : queue[i].cmd = "seek")
              => \/ dgen' = dgen + 1
                 \/ dgen' = dgen /\ \E i \in DOMAIN queue' : queue'[i].cmd = "seek"
          /\ dgen' = dgen \/ (dgen' = dgen + 1 /\ \E i \in DOMAIN queue : queue[i].cmd = "seek")
          /\ (\E i \in DOMAIN queue : queue[i].seq = n)
              => \/ job'.st = "work" /\ job'.seq = n
                 \/ \E i \in DOMAIN queue' : queue'[i].seq = n
          /\ (\A i \in DOMAIN queue : queue[i].seq = n => queue[i].cmd = k)
              => /\ \A i \in DOMAIN queue' : queue'[i].seq = n => queue'[i].cmd = k
                 /\ job'.st = "work" /\ job'.seq = n => job' = job \/ job'.kind \in {k, "error"}
      <4> DEFINE q == queue
      <4>1. q \in Seq(Queued) /\ q # << >> /\ job.st # "work" /\ StartQueued(q)
        BY <2>0, <2>3, <3>1
      <4> HIDE DEF n, k, q
      <4>2. /\ (\E i \in DOMAIN q : q[i].cmd = "seek")
              => \/ dgen' = dgen + 1
                 \/ dgen' = dgen /\ \E i \in DOMAIN queue' : queue'[i].cmd = "seek"
            /\ dgen' = dgen \/ (dgen' = dgen + 1 /\ \E i \in DOMAIN q : q[i].cmd = "seek")
            /\ (\E i \in DOMAIN q : q[i].seq = n)
              => \/ job'.st = "work" /\ job'.seq = n
                 \/ \E i \in DOMAIN queue' : queue'[i].seq = n
            /\ (\A i \in DOMAIN q : q[i].seq = n => q[i].cmd = k)
              => /\ \A i \in DOMAIN queue' : queue'[i].seq = n => queue'[i].cmd = k
                 /\ job'.st = "work" /\ job'.seq = n => job' = job \/ job'.kind \in {k, "error"}
        BY <1>0, <4>1, QueueStep
      <4> QED BY <4>2 DEF q
    <3>3. job' # job
      <4>1. job'.st = "work"
        BY <1>0, <2>3, <3>1, StartedFacts
      <4> QED BY <2>0, <4>1
    <3>4. ExactInv'
      <4>1. SeekAhead => dgen' = dgen + 1 \/ (dgen' = dgen /\ SeekAhead')
        BY <2>0, <3>2 DEF SeekAhead
      <4>2. dgen' = dgen \/ (dgen' = dgen + 1 /\ SeekAhead)
        BY <3>2 DEF SeekAhead
      <4> QED BY <1>1, <2>0, <4>1, <4>2, ExactKept
    <3>5. ASSUME Fits(n, k) PROVE Fits(op.seq, op.kind)'
      <4>1. /\ \A i \in DOMAIN queue' : queue'[i].seq = n => queue'[i].cmd = k
            /\ job'.st = "work" /\ job'.seq = n => job'.kind \in {k, "error"}
        BY <3>2, <3>3, <3>5 DEF Fits
      <4> QED BY <1>2, <2>0, <3>5, <4>1 DEF Fits, Asked, Answers
    <3>6. ASSUME Carries(n) PROVE Carries(op.seq)'
      BY <1>2, <2>0, <3>2, <3>6 DEF Carries, Asked
    <3>7. PendingInv'
      BY <1>2, <2>0, <3>5, <3>6 DEF PendingInv
    <3> QED BY <1>0, <2>0, <2>1, <3>4, <3>7 DEF EInv
  <2>4. job'.st = "idle" \/ job'.seq = 0 \/ (queue # << >> /\ StartQueued(queue))
    <3>1. /\ NoJob.st = "idle" /\ [NoJob EXCEPT !.kind = "gone"].st = "idle"
          /\ NewJob("read", 0, ModifyReadSize(3, 2)).seq = 0
      BY DEF NoJob, NewJob
    <3> QED BY <1>9, <3>1 DEF SendReplyCb, StopAfterReply
  <2>5. UNCHANGED <<queue, dgen>> \/ (queue # << >> /\ StartQueued(queue))
    BY <1>9 DEF SendReplyCb, StopAfterReply
  <2> QED BY <2>2, <2>3, <2>4, <2>5
<1> QED BY <1>4, <1>5, <1>6, <1>7, <1>8, <1>9 DEF Channel

(* A read that has come to a block is served by it: with exact generations *)
(* there is no other data in the socket than that of the current one.      *)
LEMMA BlockServes ==
  ASSUME RInv, ExactInv, ~shut, op.kind = "read", op.st = "block"
  PROVE  block.in /\ block.gen = cgen
<1>1. ~SeekOut /\ ~Dead /\ block.in
  BY DEF SeekOut, Dead, RInv, OpInv
<1>2. ~SeekAhead
  BY <1>1 DEF RInv, SeekInv, SeekAhead
<1>3. dgen = cgen
  BY <1>2 DEF ExactInv
<1> QED BY <1>1, <1>3 DEF RInv, GenInv

(* Steps that neither write to the socket nor read from it: none goes back *)
(* to waiting for an answer that has been consumed.                        *)
LEMMA QuietWaiting ==
  ASSUME RInv, ExactInv, ~shut, Application \/ Client, ~WriteRequest, ~StreamError, ~ReadHeader,
         Waiting'
  PROVE  /\ Waiting /\ op'.seq = op.seq /\ op'.kind = op.kind
         /\ op.kind = "read" /\ op.st = "block" => op'.st = "block"
<1>0. op \in Operations
  BY DEF RInv, TypeOK
<1>1. ASSUME op' = NoOp PROVE FALSE
  BY <1>1 DEF Waiting, NoOp
<1>2. ASSUME NEW k, NEW a, Begin(k, a) PROVE FALSE
  BY <1>2 DEF Waiting, Begin
<1>3. ASSUME NEW st, op' = [op EXCEPT !.st = st]
      PROVE  op'.seq = op.seq /\ op'.kind = op.kind /\ op'.st = st /\ op'.sentCancel = op.sentCancel
  BY <1>0, <1>3 DEF Operations
<1>4. ASSUME op.st = "block", Skips PROVE op.kind # "read"
  BY <1>4, BlockServes DEF Skips
<1>5. CASE Application
  <2>1. ASSUME NEW n \in ReadSizes, ReadFromPre(n) PROVE op' = op
    BY <2>1 DEF ReadFromPre
  <2>2. ASSUME NEW n \in ReadSizes, ReadFromBlock(n) PROVE FALSE
    BY <2>2 DEF ReadFromBlock, NoOp, Waiting
  <2>3. ASSUME NEW n \in ReadSizes, SendRead(n) PROVE FALSE
    BY <1>2, <2>3 DEF SendRead
  <2>4. ASSUME NEW p \in Units, SendSeek(p) PROVE FALSE
    BY <1>2, <2>4 DEF SendSeek
  <2>5. ASSUME SendQuery \/ SendClose PROVE FALSE
    BY <1>2, <2>5 DEF SendQuery, SendClose
  <2>6. ASSUME RequestCancel PROVE op' = op
    BY <2>6 DEF RequestCancel
  <2>7. op' = op
    BY <1>5, <2>1, <2>2, <2>3, <2>4, <2>5, <2>6 DEF Application
  <2> QED BY <2>7 DEF Waiting
<1>6. CASE CancelUnsent \/ ReadBlockCancelled
  BY <1>1, <1>6 DEF CancelUnsent, ReadBlockCancelled, FinishFailed, Finish
<1>7. CASE SendCancel
  <2>1. op.st = "input" /\ op'.seq = op.seq /\ op'.kind = op.kind
    BY <1>0, <1>7 DEF SendCancel, Operations
  <2> QED BY <2>1 DEF Waiting
<1>8. CASE HandleInput
  <2>1. op.st = "input" /\ op'.seq = op.seq /\ op'.kind = op.kind
    BY <1>3, <1>8 DEF HandleInput
  <2> QED BY <2>1 DEF Waiting
<1>9. CASE SkipCancelled
  <2>1. op.st = "block" /\ Skips /\ op'.seq = op.seq /\ op'.kind = op.kind
    BY <1>3, <1>9 DEF SkipCancelled
  <2> QED BY <1>4, <2>1 DEF Waiting
<1>10. ASSUME NEW m \in Units, ReadBlock(m) PROVE FALSE
  BY <1>1, <1>10 DEF ReadBlock, Finish
<1>11. ASSUME NEW m \in Units, KeepBlock(m)
       PROVE  op.st = "block" /\ op.kind = "query" /\ op'.seq = op.seq /\ op'.kind = op.kind
  BY <1>3, <1>11 DEF KeepBlock
<1>12. ASSUME NEW m \in Units, SkipBlock(m)
       PROVE  op.st = "block" /\ Skips /\ op'.seq = op.seq /\ op'.kind = op.kind
  BY <1>3, <1>12 DEF SkipBlock
<1>13. CASE \E m \in Units : ReadBlock(m) \/ KeepBlock(m) \/ SkipBlock(m)
  <2>1. op.st = "block" /\ op.kind # "read" /\ op'.seq = op.seq /\ op'.kind = op.kind
    BY <1>4, <1>10, <1>11, <1>12, <1>13
  <2> QED BY <2>1 DEF Waiting
<1> QED BY <1>5, <1>6, <1>7, <1>8, <1>9, <1>13 DEF Client

(* The client waits only for what it has sent, and consumes an answer only *)
(* by ending the operation that asked.                                     *)
LEMMA ClientExact ==
  ASSUME RInv, EInv, Application \/ Client PROVE EInv'
<1>0. /\ TypeOK /\ OpInv /\ op \in Operations /\ op.seq \in Nat /\ ~blocked
      /\ cgen \in Nat /\ dgen \in Nat
  BY DEF RInv, TypeOK, Operations, EInv
<1>1. UNCHANGED <<shut, queue, job, dgen, blocked>>
  BY ClientLeaves DEF daemonVars
<1>2. CASE shut
  BY <1>0, <1>1, <1>2 DEF EInv
<1>3. ASSUME ~shut PROVE ExactInv /\ FramedInv /\ PendingInv
  BY <1>3 DEF EInv
<1>4. Waiting => op.seq # 0 /\ op.kind \in OpKinds
  BY <1>0 DEF OpInv, Waiting, Operations
<1>5. CASE WriteRequest /\ ~shut
  <2>1. /\ op.st = "send" /\ op' = [op EXCEPT !.st = "input"] /\ d2c' = d2c
        /\ cgen' = IF op.kind = "seek" /\ ~op.sentCancel THEN cgen + 1 ELSE cgen
    BY <1>5 DEF WriteRequest
  <2>2. op'.st = "input" /\ op'.kind = op.kind /\ op'.seq = op.seq
    BY <1>0, <2>1 DEF Operations
  <2>3. /\ DOMAIN c2d = 1 .. Len(c2d) /\ Len(c2d) \in Nat
        /\ DOMAIN c2d \subseteq DOMAIN c2d' /\ \A i \in DOMAIN c2d : c2d'[i] = c2d[i]
        /\ ~op.sentCancel =>
             /\ Len(c2d) + 1 \in DOMAIN c2d'
             /\ c2d'[Len(c2d) + 1] = [cmd |-> op.kind, seq |-> op.seq, arg |-> op.arg]
             /\ op.kind = "query" => /\ Len(c2d) + 2 \in DOMAIN c2d'
                                     /\ c2d'[Len(c2d) + 2].cmd = "attrs"
    BY <1>0, <1>5, WroteExact
  <2>4. \A i \in DOMAIN c2d' \ DOMAIN c2d :
          \/ /\ ~op.sentCancel /\ i = Len(c2d) + 1
             /\ c2d'[i] = [cmd |-> op.kind, seq |-> op.seq, arg |-> op.arg]
          \/ c2d'[i].cmd \in {"cancel", "attrs"}
    BY <1>0, <1>5, WrittenFacts
  <2>5. op.kind \in OpKinds
    BY <1>0, <2>1 DEF OpInv, Operations
  <2>6. ~op.sentCancel => /\ c2d'[Len(c2d) + 1].cmd = op.kind
                          /\ Asked(c2d'[Len(c2d) + 1]) = op.seq
    BY <2>3, <2>5 DEF Asked, OpKinds
  <2>7. FramedInv'
    <3>1. ASSUME NEW i \in DOMAIN c2d', c2d'[i].cmd = "query"
          PROVE  i + 1 \in DOMAIN c2d' /\ c2d'[i + 1].cmd = "attrs"
      <4>1. CASE i \in DOMAIN c2d
        BY <1>3, <1>5, <2>3, <3>1, <4>1 DEF FramedInv
      <4>2. CASE i \notin DOMAIN c2d
        <5>1. ~op.sentCancel /\ i = Len(c2d) + 1 /\ op.kind = "query"
          BY <2>4, <2>6, <3>1, <4>2
        <5>2. i + 1 = Len(c2d) + 2
          BY <2>3, <5>1
        <5> QED BY <2>3, <5>1, <5>2
      <4> QED BY <4>1, <4>2
    <3> QED BY <3>1 DEF FramedInv
  <2>8. ExactInv'
    <3>1. CASE op.kind = "seek" /\ ~op.sentCancel
      <4>1. SeekAhead'
        BY <2>3, <2>6, <3>1 DEF SeekAhead
      <4>2. ~SeekOut
        BY <2>1, <3>1 DEF SeekOut
      <4>3. ~SeekAhead
        BY <4>2 DEF RInv, SeekInv, SeekAhead
      <4>4. dgen = cgen
        BY <1>3, <1>5, <4>3 DEF ExactInv
      <4> HIDE DEF SeekAhead
      <4> QED BY <1>1, <2>1, <3>1, <4>1, <4>4 DEF ExactInv
    <3>2. CASE ~(op.kind = "seek" /\ ~op.sentCancel)
      <4>1. SeekAhead => SeekAhead'
        BY <1>1, <2>3 DEF SeekAhead
      <4>2. cgen' = cgen
        BY <2>1, <3>2
      <4> HIDE DEF SeekAhead
      <4> QED BY <1>1, <1>3, <1>5, <4>1, <4>2 DEF ExactInv
    <3> QED BY <3>1, <3>2
  <2>9. PendingInv'
    <3> HIDE DEF Asked
    <3>1. CASE op.sentCancel
      <4>1. Waiting /\ Fits(op.seq, op.kind) /\ Carries(op.seq)
        BY <1>3, <1>5, <2>1, <3>1 DEF Waiting, PendingInv
      <4>2. \A i \in DOMAIN c2d' : i \in DOMAIN c2d \/ Asked(c2d'[i]) = 0
        BY <2>4, <3>1 DEF Asked
      <4>3. \A i \in DOMAIN c2d' : Asked(c2d'[i]) = op.seq => c2d'[i].cmd = op.kind
        BY <1>4, <2>3, <4>1, <4>2 DEF Fits
      <4>4. Fits(op.seq, op.kind)'
        BY <1>1, <2>1, <2>2, <4>1, <4>3 DEF Fits, Asked, Answers
      <4>5. Carries(op.seq)'
        BY <1>1, <2>1, <2>2, <2>3, <4>1 DEF Carries, Asked
      <4> QED BY <4>4, <4>5 DEF PendingInv
    <3>2. CASE ~op.sentCancel
      <4>1. Bound = op.seq
        BY <2>1, <3>2 DEF Bound, Unsent
      <4>2. /\ \A i \in DOMAIN d2c : d2c[i].seq # op.seq
            /\ \A i \in DOMAIN queue : queue[i].seq # op.seq
            /\ \A i \in DOMAIN c2d : Asked(c2d[i]) # op.seq
            /\ job.st = "work" => job.seq # op.seq
        <5>1. \A n \in Nat : n < op.seq => n # op.seq
          BY <1>0
        <5>2. /\ \A i \in DOMAIN d2c : d2c[i].seq \in Nat
              /\ \A i \in DOMAIN queue : queue[i].seq \in Nat
              /\ \A i \in DOMAIN c2d : Asked(c2d[i]) \in Nat
              /\ job.seq \in Nat
          BY <1>0, StageTypes
        <5>3. /\ \A i \in DOMAIN d2c : d2c[i].seq < op.seq
              /\ job.st = "work" => job.seq < op.seq
              /\ \A i \in DOMAIN queue : queue[i].seq < op.seq
              /\ \A i \in DOMAIN c2d : Asked(c2d[i]) < op.seq
          <6> HIDE DEF Bound
          <6> QED BY <4>1 DEF RInv, OrderInv
        <5> QED BY <5>1, <5>2, <5>3
      <4>3. op.seq # 0
        BY <1>0, <2>1, <3>2 DEF OpInv, Unsent
      <4>4. \A i \in DOMAIN c2d' : Asked(c2d'[i]) = op.seq => c2d'[i].cmd = op.kind
        <5>1. ASSUME NEW i \in DOMAIN c2d', Asked(c2d'[i]) = op.seq PROVE c2d'[i].cmd = op.kind
          <6>1. i \notin DOMAIN c2d
            BY <2>3, <4>2, <5>1
          <6>2. c2d'[i].cmd \notin {"cancel", "attrs"}
            BY <4>3, <5>1 DEF Asked
          <6>3. i = Len(c2d) + 1
            BY <2>4, <6>1, <6>2
          <6> QED BY <2>6, <3>2, <6>3
        <5> QED BY <5>1
      <4>5. Fits(op.seq, op.kind)'
        BY <1>1, <2>1, <2>2, <4>2, <4>4 DEF Fits, Asked, Answers
      <4>6. \E i \in DOMAIN c2d' : Asked(c2d'[i]) = op'.seq
        BY <2>2, <2>3, <2>6, <3>2
      <4>7. Carries(op.seq)'
        BY <4>6 DEF Carries, Asked
      <4> QED BY <4>5, <4>7 DEF PendingInv
    <3> QED BY <3>1, <3>2
  <2> QED BY <1>0, <1>1, <2>7, <2>8, <2>9 DEF EInv
<1>6. CASE ReadHeader /\ ~shut
  <2>1. /\ UNCHANGED <<cgen, c2d>> /\ op.st = "header" /\ 1 \in DOMAIN d2c
        /\ \A i \in DOMAIN d2c' : i \in Nat /\ i + 1 \in DOMAIN d2c /\ d2c'[i] = d2c[i + 1]
        /\ DOMAIN d2c = 1 .. Len(d2c) /\ Len(d2c) \in Nat /\ DOMAIN d2c' = 1 .. Len(d2c) - 1
    BY <1>6, HeaderFacts
  <2>2. ExactInv' /\ FramedInv'
    BY <1>1, <1>3, <1>6, <2>1 DEF ExactInv, FramedInv, SeekAhead
  <2>3. Fits(op.seq, op.kind) /\ Carries(op.seq) /\ op.kind \in OpKinds
    BY <1>3, <1>4, <1>6, <2>1 DEF PendingInv, Waiting
  <2>4. ASSUME op'.seq = op.seq, op'.kind = op.kind PROVE Fits(op.seq, op.kind)'
    BY <1>1, <2>1, <2>3, <2>4 DEF Fits, Asked, Answers
  <2>5. ASSUME op'.seq = op.seq, d2c[1].seq # op.seq PROVE Carries(op.seq)'
    <3>1. \A i \in DOMAIN d2c : i = 1 \/ i - 1 \in DOMAIN d2c'
      BY <2>1
    <3>2. \A i \in DOMAIN d2c : i - 1 \in DOMAIN d2c' => d2c'[i - 1] = d2c[i]
      <4>1. ASSUME NEW i \in DOMAIN d2c, i - 1 \in DOMAIN d2c' PROVE d2c'[i - 1] = d2c[i]
        <5>1. (i - 1) + 1 = i
          BY <2>1
        <5> QED BY <2>1, <4>1, <5>1
      <4> QED BY <4>1
    <3>3. (\E i \in DOMAIN d2c : d2c[i].seq = op.seq)
            => \E i \in DOMAIN d2c' : d2c'[i].seq = op.seq
      BY <2>5, <3>1, <3>2
    <3> QED BY <1>1, <2>1, <2>3, <2>5, <3>3 DEF Carries, Asked
  <2>6. CASE op' = NoOp
    <3>1. ~Waiting'
      BY <2>6 DEF Waiting, NoOp
    <3> QED BY <1>0, <1>1, <2>2, <3>1 DEF EInv, PendingInv
  <2>7. CASE d2c[1].type = "data" /\ op' = [op EXCEPT !.st = "block"]
    <3>1. op'.seq = op.seq /\ op'.kind = op.kind /\ op'.st = "block"
      BY <1>0, <2>7 DEF Operations
    <3>2. op.kind # "read" => d2c[1].seq # op.seq
      <4>1. op.kind # "read" => "data" \notin Answers(op.kind)
        BY <2>3 DEF Answers, Success, OpKinds
      <4> HIDE DEF Answers
      <4> QED BY <2>1, <2>3, <2>7, <4>1 DEF Fits
    <3>3. PendingInv'
      BY <2>4, <2>5, <3>1, <3>2 DEF PendingInv
    <3> QED BY <1>0, <1>1, <2>2, <3>3 DEF EInv
  <2>8. CASE /\ op' = op /\ d2c[1].type # "data"
             /\ ~(d2c[1].seq = op.seq /\ d2c[1].type \in {"error", Success[op.kind]})
    <3>1. d2c[1].seq # op.seq
      <4>1. d2c[1].seq = op.seq => d2c[1].type \in Answers(op.kind)
        BY <2>1, <2>3 DEF Fits
      <4> HIDE DEF Success
      <4> QED BY <2>8, <4>1 DEF Answers
    <3>2. PendingInv'
      BY <2>4, <2>5, <2>8, <3>1 DEF PendingInv
    <3> QED BY <1>0, <1>1, <2>2, <3>2 DEF EInv
  <2>9. Head(d2c) = d2c[1]
    BY <2>1
  <2> HIDE DEF Success, NoOp
  <2> QED BY <1>6, <2>6, <2>7, <2>8, <2>9 DEF ReadHeader, FinishFailed, Finish
<1>7. CASE ~WriteRequest /\ ~StreamError /\ ~ReadHeader /\ ~shut
  <2>1. UNCHANGED <<c2d, d2c, cgen>>
    BY <1>7, QuietSteps
  <2>2. ExactInv' /\ FramedInv'
    BY <1>1, <1>3, <1>7, <2>1 DEF ExactInv, FramedInv, SeekAhead
  <2>3. ASSUME Waiting'
        PROVE  /\ Waiting /\ op'.seq = op.seq /\ op'.kind = op.kind
               /\ op.kind = "read" /\ op.st = "block" => op'.st = "block"
    BY <1>3, <1>7, <2>3, QuietWaiting
  <2>4. ASSUME op'.seq = op.seq, op'.kind = op.kind
        PROVE  /\ Fits(op.seq, op.kind) => Fits(op.seq, op.kind)'
               /\ Carries(op.seq) => Carries(op.seq)'
    BY <1>1, <2>1, <2>4 DEF Fits, Carries, Asked, Answers
  <2>5. PendingInv'
    BY <1>3, <1>7, <2>3, <2>4 DEF PendingInv
  <2> QED BY <1>0, <1>1, <2>2, <2>5 DEF EInv
<1>8. StreamError => shut
  BY DEF StreamError
<1> QED BY <1>2, <1>5, <1>6, <1>7, <1>8

(* Both hold of every reachable state. *)
LEMMA ExactInvariant ==
  ASSUME "query" \notin EarlyCancel, Blocks = FALSE PROVE Spec => [](RInv /\ EInv)
<1>1. Init => EInv
  <2> SUFFICES ASSUME Init PROVE EInv
    OBVIOUS
  <2>1. DOMAIN c2d = {} /\ dgen = cgen /\ ~blocked
    BY DEF Init
  <2>2. ~Waiting
    BY DEF Init, NoOp, Waiting
  <2> QED BY <2>1, <2>2 DEF EInv, ExactInv, FramedInv, PendingInv
<1>2. RInv /\ EInv /\ [Next]_vars => EInv'
  <2> SUFFICES ASSUME RInv, EInv, [Next]_vars PROVE EInv'
    OBVIOUS
  <2>1. CASE Application \/ Client
    BY <2>1, ClientExact
  <2>2. CASE Backend \/ Channel \/ ForceClose \/ SetBlockRequests
    BY <2>2, DaemonExact
  <2>3. CASE Done \/ UNCHANGED vars
    BY <2>3 DEF Done, vars, streamVars, histVars, daemonVars, EInv, ExactInv, FramedInv,
                PendingInv, SeekAhead, Waiting, Fits, Carries, Asked, Answers
  <2> QED BY <2>1, <2>2, <2>3 DEF Next
<1>3. Init => RInv
  BY Initial
<1>4. RInv /\ [Next]_vars => RInv'
  BY Inductive
<1> QED BY <1>1, <1>2, <1>3, <1>4, PTL DEF Spec

(* A set with at most one element has zero or one. *)
LEMMA AtMostOne ==
  ASSUME NEW S, \A x, y \in S : x = y
  PROVE  Cardinality(S) = IF S = {} THEN 0 ELSE 1
<1>1. CASE S = {}
  BY <1>1, FS_EmptySet
<1>2. CASE S # {}
  <2>1. PICK x : x \in S
    BY <1>2
  <2>2. S = {x}
    BY <2>1
  <2> QED BY <1>2, <2>2, FS_Singleton
<1> QED BY <1>1, <1>2

(* As long as no request is refused, client and channel agree on           *)
(* generations, whatever is cancelled, queued, read ahead or fails: the    *)
(* client is ahead by exactly the seeks the channel has not started, so it *)
(* recognises the data of the position it is at. Blocking of requests is   *)
(* the only way to lose count (read_channel_handle_request,                *)
(* start_queued_request).                                                  *)
THEOREM GenerationsAgree ==
  ASSUME "query" \notin EarlyCancel, Blocks = FALSE PROVE Spec => []GenerationsExact
<1>1. RInv /\ EInv => GenerationsExact
  <2> SUFFICES ASSUME RInv, EInv, ~shut PROVE cgen = dgen + Seeks(queue) + Seeks(c2d)
    BY DEF GenerationsExact
  <2> DEFINE inQueue == {i \in DOMAIN queue : queue[i].cmd = "seek"}
             inSocket == {i \in DOMAIN c2d : c2d[i].cmd = "seek"}
  <2>0. TypeOK /\ OpInv /\ OrderInv /\ SeekInv /\ ExactInv /\ dgen \in Nat /\ cgen \in Nat
    BY DEF RInv, EInv, TypeOK
  <2>1. /\ \A i \in inQueue : SeekOut /\ queue[i].seq = op.seq /\ dgen < cgen
        /\ \A i \in inSocket : SeekOut /\ c2d[i].seq = op.seq /\ dgen < cgen
                               /\ Asked(c2d[i]) = op.seq
    BY <2>0 DEF SeekInv, Asked
  <2>2. SeekOut => op.seq \in Nat /\ op.seq # 0
    BY <2>0, StageTypes DEF OpInv, SeekOut
  <2> HIDE DEF SeekOut, Asked
  <2>3. ~(SeekOut /\ Before(op.seq, op.seq))
    BY <2>2 DEF Before
  <2> HIDE DEF Before
  <2>4. \A x, y \in inQueue : x = y
    <3>1. \A x, y \in inQueue : x \in Nat /\ y \in Nat /\ ~(x < y)
      BY <2>0, <2>1, <2>3, StageTypes DEF OrderInv
    <3>2. \A x, y \in Nat : ~(x < y) /\ ~(y < x) => x = y
      OBVIOUS
    <3> QED BY <3>1, <3>2
  <2>5. \A x, y \in inSocket : x = y
    <3>1. \A x, y \in inSocket : x \in Nat /\ y \in Nat /\ ~(x < y)
      BY <2>0, <2>1, <2>3, StageTypes DEF OrderInv
    <3>2. \A x, y \in Nat : ~(x < y) /\ ~(y < x) => x = y
      OBVIOUS
    <3> QED BY <3>1, <3>2
  <2>6. inQueue = {} \/ inSocket = {}
    BY <2>0, <2>1, <2>3 DEF OrderInv
  <2>7. SeekAhead <=> inQueue # {} \/ inSocket # {}
    BY DEF SeekAhead
  <2>8. dgen = cgen => inQueue = {} /\ inSocket = {}
    BY <2>0, <2>1
  <2>9. /\ Seeks(queue) = IF inQueue = {} THEN 0 ELSE 1
        /\ Seeks(c2d) = IF inSocket = {} THEN 0 ELSE 1
    <3>1. Seeks(queue) = Cardinality(inQueue) /\ Seeks(c2d) = Cardinality(inSocket)
      BY DEF Seeks
    <3> HIDE DEF inQueue, inSocket
    <3> QED BY <2>4, <2>5, <3>1, AtMostOne
  <2> HIDE DEF inQueue, inSocket, SeekAhead
  <2> QED BY <2>0, <2>6, <2>7, <2>8, <2>9 DEF ExactInv
<1> QED BY <1>1, ExactInvariant, PTL

(* n occurs in s. *)
Has(s, n) == \E i \in DOMAIN s : s[i] = n

(* What is in one of two sequences is in both together. *)
LEMMA InJoined ==
  ASSUME NEW s \in Seq(Nat), NEW t \in Seq(Nat), NEW n
  PROVE  /\ s \o t \in Seq(Nat)
         /\ Has(s, n) \/ Has(t, n) => Has(s \o t, n)
<1> DEFINE u == s \o t
<1>1. /\ u \in Seq(Nat) /\ DOMAIN u = 1 .. Len(s) + Len(t) /\ Len(s) \in Nat /\ Len(t) \in Nat
      /\ DOMAIN s = 1 .. Len(s) /\ DOMAIN t = 1 .. Len(t)
      /\ \A i \in DOMAIN u : u[i] = IF i <= Len(s) THEN s[i] ELSE t[i - Len(s)]
  OBVIOUS
<1> HIDE DEF u
<1>2. ASSUME NEW i \in DOMAIN s, s[i] = n PROVE i \in DOMAIN u /\ u[i] = n
  BY <1>1, <1>2
<1>3. ASSUME NEW i \in DOMAIN t, t[i] = n PROVE Len(s) + i \in DOMAIN u /\ u[Len(s) + i] = n
  <2> DEFINE l == Len(s)
             m == Len(t)
             j == l + i
  <2>1. /\ l \in Nat /\ m \in Nat /\ i \in 1 .. m /\ DOMAIN u = 1 .. l + m
        /\ \A h \in DOMAIN u : u[h] = IF h <= l THEN s[h] ELSE t[h - l]
    BY <1>1
  <2> HIDE DEF l, m
  <2>2. j \in 1 .. l + m /\ ~(j <= l) /\ j - l = i
    BY <2>1
  <2> HIDE DEF j
  <2>3. j \in DOMAIN u /\ u[j] = n
    BY <1>3, <2>1, <2>2
  <2> QED BY <2>3 DEF j, l
<1>4. Has(s, n) \/ Has(t, n) => Has(u, n)
  BY <1>2, <1>3 DEF Has
<1> QED BY <1>1, <1>4 DEF u

(* As long as no request is refused, no operation waits in vain: its       *)
(* request or its answer is still somewhere between client and backend,    *)
(* although a read may be served by another's data, skipped blocks and     *)
(* answers to operations given up pass by, and cancellations overtake what *)
(* they cancel (g_vfs_channel, iterate_read_state_machine).                *)
THEOREM AnswersComing ==
  ASSUME "query" \notin EarlyCancel, Blocks = FALSE PROVE Spec => []AnswerPending
<1>1. RInv /\ EInv => AnswerPending
  <2> SUFFICES ASSUME RInv, EInv, op.st \in {"input", "header"}, ~shut
               PROVE  \E i \in DOMAIN Pipeline : Pipeline[i] = op.seq
    BY DEF AnswerPending
  <2> DEFINE n == op.seq
             a == Seqs(d2c)
             b == CurrentSeq
             c == Seqs(queue)
             d == AskedSeqs(c2d)
  <2>0. TypeOK /\ Carries(n)
    BY DEF RInv, EInv, PendingInv, Waiting
  <2>1. a \in Seq(Nat) /\ b \in Seq(Nat) /\ c \in Seq(Nat) /\ d \in Seq(Nat)
    BY <2>0, StagesAreSequences
  <2>2. Has(a, n) \/ Has(b, n) \/ Has(c, n) \/ Has(d, n)
    BY <2>0, StagesAreSequences DEF Carries, Has
  <2> HIDE DEF n, a, b, c, d
  <2>3. /\ a \o b \in Seq(Nat)
        /\ Has(a, n) \/ Has(b, n) => Has(a \o b, n)
    BY <2>1, InJoined
  <2> DEFINE x == a \o b
  <2> HIDE DEF x
  <2>4. /\ x \in Seq(Nat)
        /\ Has(a, n) \/ Has(b, n) => Has(x, n)
    BY <2>3 DEF x
  <2>5. /\ x \o c \in Seq(Nat)
        /\ Has(x, n) \/ Has(c, n) => Has(x \o c, n)
    BY <2>1, <2>4, InJoined
  <2> DEFINE y == x \o c
  <2> HIDE DEF y
  <2>6. /\ y \in Seq(Nat)
        /\ Has(x, n) \/ Has(c, n) => Has(y, n)
    BY <2>5 DEF y
  <2>7. Has(y \o d, n)
    BY <2>1, <2>2, <2>4, <2>6, InJoined
  <2>8. Pipeline = y \o d
    BY DEF Pipeline, a, b, c, d, x, y
  <2> QED BY <2>7, <2>8 DEF n, Has
<1> QED BY <1>1, ExactInvariant, PTL
=============================================================================
