------------------------------ MODULE SftpPull ------------------------------
(***************************************************************************)
(* Copying a remote file to a local one over SFTP (try_pull and its        *)
(* callbacks, daemon/gvfsbackendsftp.c).  READ requests are kept in a      *)
(* window that grows up to PULL_MAX_REQUESTS; their replies may be short   *)
(* and come in any order; the data is written to the local file one write  *)
(* at a time.  A move removes the remote file at the end.                  *)
(***************************************************************************)
EXTENDS Integers, Sequences, FiniteSets, SequencesExt

CONSTANTS
  Size,        \* bytes of the remote file
  Block,       \* MAX_BUFFER_SIZE
  MaxRequests, \* PULL_MAX_REQUESTS
  ShortReads,  \* may a READ return less than there is?
  Reorder,     \* may the server answer out of order?
  Faults       \* may requests and local calls fail, and the job be cancelled?

PullAssumption == Size \in Nat /\ Block \in Nat \ {0} /\ MaxRequests \in Nat \ {0}

Invalid == -2       \* PULL_SIZE_INVALID: no fstat in progress
Incomplete == -1    \* PULL_SIZE_INCOMPLETE: fstat sent

NoWrite == [off |-> 0, len |-> 0, got |-> 0, done |-> 0]

VARIABLES
  removeSource,  \* GVfsJobPull.remove_source
  source,        \* is the remote file there?
  phase,         \* what the handle waits for besides reads and writes
  size,          \* SftpPullHandle.size
  offset,        \* SftpPullHandle.offset
  maxReq,        \* SftpPullHandle.max_req
  reads,         \* the READ requests outstanding, in the order they were sent
  queued,        \* SftpPullHandle.queued_writes
  writing,       \* the request whose data is being written
  written,       \* the bytes of the local file that are written
  remoteOpen,    \* is the remote file open on the server?
  freed,         \* was the handle freed?
  cancelled,     \* was the job cancelled?
  answers        \* the replies to the job

vars == <<removeSource, source, phase, size, offset, maxReq, reads, queued, writing,
          written, remoteOpen, freed, cancelled, answers>>

Request == [off : 0 .. Size + Block * (MaxRequests + 2), len : 1 .. Block]
Data == [off : 0 .. Size, len : 1 .. Block, got : 1 .. Block, done : 0 .. Block]

TypeOK ==
  /\ removeSource \in BOOLEAN /\ source \in BOOLEAN
  /\ phase \in {"open", "dest", "copy", "close", "perms", "remove", "over"}
  /\ size \in {Invalid, Incomplete, Size} /\ offset \in Nat
  /\ maxReq \in 0 .. MaxRequests
  /\ reads \in Seq(Request) /\ Len(reads) <= MaxRequests + 1
  /\ queued \in Seq(Data) /\ writing \in Data \cup {NoWrite}
  /\ written \subseteq 0 .. Size - 1
  /\ remoteOpen \in BOOLEAN /\ freed \in BOOLEAN /\ cancelled \in BOOLEAN
  /\ answers \in Seq({"ok", "error"})

Init ==
  /\ removeSource \in BOOLEAN /\ source = TRUE
  /\ phase = "open" /\ size = Invalid /\ offset = 0 /\ maxReq = 1
  /\ reads = <<>> /\ queued = <<>> /\ writing = NoWrite /\ written = {}
  /\ remoteOpen = FALSE /\ freed = FALSE /\ cancelled = FALSE /\ answers = <<>>

-----------------------------------------------------------------------------
Finished == answers # <<>>
Failed == answers # <<>> /\ Last(answers) = "error"

Fail == answers' = IF Failed THEN answers ELSE Append(answers, "error")
Succeed == answers' = Append(answers, "ok")

(* check_finished_or_cancelled_job *)
Stopped == Finished \/ cancelled
FailIfCancelled == IF Finished THEN UNCHANGED answers ELSE Fail

(* sftp_pull_handle_free, with the state of the handle it sees: the remote *)
(* file is closed by a command nobody waits for.                           *)
HandleFree(sz, rs, pending) ==
  IF sz # Incomplete /\ ~pending /\ rs = <<>>
  THEN freed' = TRUE /\ remoteOpen' = FALSE
  ELSE UNCHANGED <<freed, remoteOpen>>

Pending == writing # NoWrite \/ phase = "close"

(* pull_enqueue_next_request while the window has room. *)
RECURSIVE Enqueue(_, _, _)
Enqueue(rs, off, max) ==
  IF Len(rs) < max THEN Enqueue(Append(rs, [off |-> off, len |-> Block]), off + Block, max)
  ELSE [reads |-> rs, offset |-> off]

(* pull_try_finish *)
TryFinish(max, sz, rs, pending) ==
  phase' = IF max = 0 /\ sz # Incomplete /\ ~pending /\ rs = <<>> THEN "close" ELSE phase

-----------------------------------------------------------------------------
(* pull_open_reply, when both replies are there: the file is not a regular *)
(* one, could not be opened, or its destination is opened next.            *)
OpenReply ==
  /\ phase = "open"
  /\ \/ /\ Faults /\ phase' = "over"
        /\ (IF Stopped THEN FailIfCancelled ELSE Fail)
        /\ HandleFree(size, reads, FALSE)
     \/ /\ phase' = "dest" /\ remoteOpen' = TRUE /\ UNCHANGED <<answers, freed>>
  /\ UNCHANGED <<removeSource, source, size, offset, maxReq, reads, queued, writing, written, cancelled>>

(* pull_dest_open_cb: FSTAT and the first READ are sent. *)
DestOpen ==
  /\ phase = "dest"
  /\ \/ /\ Faults /\ Fail /\ phase' = "over" /\ HandleFree(size, reads, FALSE)
        /\ UNCHANGED <<size, reads, offset>>
     \/ /\ phase' = "copy" /\ size' = Incomplete
        /\ LET e == Enqueue(reads, offset, maxReq) IN reads' = e.reads /\ offset' = e.offset
        /\ UNCHANGED <<answers, freed, remoteOpen>>
  /\ UNCHANGED <<removeSource, source, maxReq, queued, writing, written, cancelled>>

(* pull_fstat_reply *)
FstatReply ==
  /\ size = Incomplete
  /\ IF Stopped
     THEN /\ size' = Invalid /\ FailIfCancelled /\ HandleFree(Invalid, reads, Pending)
          /\ UNCHANGED phase
     ELSE /\ \E sz \in {Size} \cup (IF Faults THEN {Invalid} ELSE {}) :
               size' = sz /\ TryFinish(maxReq, sz, reads, Pending)
          /\ UNCHANGED <<answers, freed, remoteOpen>>
  /\ UNCHANGED <<removeSource, source, offset, maxReq, reads, queued, writing, written, cancelled>>

(* The READ requests the server may answer next; FSTAT was sent first. *)
Answerable == IF Reorder THEN 1 .. Len(reads)
              ELSE IF size = Incomplete \/ reads = <<>> THEN {} ELSE {1}

(* How much of a request a READ returns: nothing is the end of the file.   *)
Returned(r) ==
  IF r.off >= Size THEN {0}
  ELSE LET most == IF r.off + r.len <= Size THEN r.len ELSE Size - r.off
       IN IF ShortReads THEN 1 .. most ELSE {most}

(* pull_try_start_write, after d was appended: one write at a time. *)
StartWrite(q, w) ==
  IF w # NoWrite \/ q = <<>> THEN queued' = q /\ writing' = w
  ELSE queued' = Tail(q) /\ writing' = Head(q)

(* pull_read_reply *)
ReadReply ==
  /\ \E i \in Answerable :
       LET r == reads[i]
           rest == RemoveAt(reads, i)
       IN /\ reads' = rest
          /\ \/ /\ Stopped
                /\ FailIfCancelled /\ HandleFree(size, rest, Pending)
                /\ UNCHANGED <<maxReq, phase, queued, writing>>
             \/ /\ ~Stopped /\ Faults
                /\ Fail /\ HandleFree(size, rest, Pending)
                /\ UNCHANGED <<maxReq, phase, queued, writing>>
             \/ /\ ~Stopped
                /\ \E n \in Returned(r) :
                     IF n = 0
                     THEN /\ maxReq' = 0 /\ TryFinish(0, size, rest, Pending)
                          /\ UNCHANGED <<queued, writing>>
                     ELSE /\ StartWrite(Append(queued, [off |-> r.off, len |-> r.len, got |-> n, done |-> 0]),
                                        writing)
                          /\ UNCHANGED <<maxReq, phase>>
                /\ UNCHANGED <<answers, freed, remoteOpen>>
  /\ UNCHANGED <<removeSource, source, size, offset, written, cancelled>>

(* One at a time once the end is near, else one more. *)
NewMax == IF offset > size THEN 1 ELSE IF maxReq < MaxRequests THEN maxReq + 1 ELSE maxReq

(* The request for what a short READ left out. *)
Remainder(w) == IF w.got < w.len THEN <<[off |-> w.off + w.got, len |-> w.len - w.got]>> ELSE <<>>

(* pull_write_cb: some or all of the data is written; then the next write  *)
(* starts, the rest of a short read is asked for, the copy ends or the     *)
(* window is filled again.                                                 *)
WriteCb ==
  /\ writing # NoWrite
  /\ \/ /\ Faults /\ Fail /\ writing' = NoWrite
        /\ HandleFree(size, reads, FALSE)
        /\ UNCHANGED <<queued, written, maxReq, reads, offset, phase>>
     \/ \E n \in 1 .. writing.got - writing.done :
          LET w == [writing EXCEPT !.done = @ + n] IN
          /\ written' = written \cup (w.off + writing.done .. w.off + w.done - 1)
          /\ IF w.done < w.got
             THEN writing' = w /\ UNCHANGED <<queued, maxReq, reads, offset, phase>>
             ELSE /\ StartWrite(queued, NoWrite)
                  /\ IF Remainder(w) # <<>>
                     THEN reads' = reads \o Remainder(w) /\ UNCHANGED <<maxReq, offset, phase>>
                     ELSE IF maxReq = 0
                     THEN /\ TryFinish(0, size, reads, queued # <<>>)
                          /\ UNCHANGED <<maxReq, reads, offset>>
                     ELSE /\ maxReq' = NewMax
                          /\ LET e == Enqueue(reads, offset, NewMax)
                             IN reads' = e.reads /\ offset' = e.offset
                          /\ UNCHANGED phase
          /\ UNCHANGED <<answers, freed, remoteOpen>>
  /\ UNCHANGED <<removeSource, source, size, cancelled>>

(* The end of pull_close_cb and pull_set_perms_cb: a copy succeeds, a move *)
(* removes the source first; the handle goes.                              *)
EndCopy ==
  /\ IF removeSource THEN phase' = "remove" /\ UNCHANGED answers
     ELSE phase' = "over" /\ Succeed
  /\ HandleFree(size, reads, FALSE)

(* pull_close_cb *)
CloseCb ==
  /\ phase = "close"
  /\ \/ /\ Faults /\ Fail /\ phase' = "over" /\ HandleFree(size, reads, FALSE)
     \/ size >= 0 /\ phase' = "perms" /\ UNCHANGED <<answers, freed, remoteOpen>>
     \/ size < 0 /\ EndCopy
  /\ UNCHANGED <<removeSource, source, size, offset, maxReq, reads, queued, writing, written, cancelled>>

(* pull_set_perms_cb, whatever became of the attributes. *)
SetPermsCb ==
  /\ phase = "perms"
  /\ EndCopy
  /\ UNCHANGED <<removeSource, source, size, offset, maxReq, reads, queued, writing, written, cancelled>>

(* pull_remove_source_reply *)
RemoveSourceReply ==
  /\ phase = "remove" /\ phase' = "over"
  /\ \/ source' = FALSE /\ Succeed
     \/ Faults /\ Fail /\ UNCHANGED source
  /\ UNCHANGED <<removeSource, size, offset, maxReq, reads, queued, writing, written,
                 remoteOpen, freed, cancelled>>

(* The client cancels the job. *)
Cancel ==
  /\ Faults /\ ~cancelled /\ ~Finished /\ cancelled' = TRUE
  /\ UNCHANGED <<removeSource, source, phase, size, offset, maxReq, reads, queued, writing,
                 written, remoteOpen, freed, answers>>

Over == Finished /\ freed /\ phase # "remove" /\ UNCHANGED vars

Next == OpenReply \/ DestOpen \/ FstatReply \/ ReadReply \/ WriteCb \/ CloseCb \/ SetPermsCb
        \/ RemoveSourceReply \/ Cancel \/ Over

(* The server and the local file system answer what was asked. *)
Spec == Init /\ [][Next]_vars /\ WF_vars(Next)

-----------------------------------------------------------------------------
(* A pull that succeeds has written every byte, and a move removes the     *)
(* remote file only then, in whatever order and portions the data came.    *)
NothingLost ==
  /\ Finished /\ answers[1] = "ok" => written = 0 .. Size - 1
  /\ ~source => written = 0 .. Size - 1

(* The job is answered once: g_vfs_job_emit_finished asserts it. *)
AnsweredOnce == Len(answers) <= 1

(* sftp_pull_handle_free waits for everything that still refers to the     *)
(* handle: reads, the write, the fstat, the close.                         *)
NoUseAfterFree ==
  freed => /\ reads = <<>> /\ writing = NoWrite
           /\ size # Incomplete /\ phase \notin {"open", "dest", "close", "perms"}

=============================================================================
