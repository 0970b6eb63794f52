------------------------------ MODULE SftpPush ------------------------------
(***************************************************************************)
(* Copying a local file to a remote one over SFTP (try_push and its        *)
(* callbacks, daemon/gvfsbackendsftp.c).  The local file is read block by  *)
(* block, each block is sent as a WRITE, and up to PUSH_MAX_REQUESTS of    *)
(* them may be outstanding.  A destination that exists is replaced through *)
(* a temporary file next to it, or truncated where none can be created.    *)
(* The server answers the requests of a connection in order.               *)
(***************************************************************************)
EXTENDS Integers, Sequences, FiniteSets, SequencesExt

CONSTANTS
  Blocks,      \* blocks of the local file
  MaxRequests, \* PUSH_MAX_REQUESTS
  MaxTemp,     \* temporary names that are tried, 100 in the code
  Faults       \* may requests and local calls fail, and the job be cancelled?

PushAssumption == Blocks \in Nat /\ MaxRequests \in Nat \ {0} /\ MaxTemp \in Nat \ {0}

All == 1 .. Blocks

\* A remote file is the set of the new blocks in it, or one of these.
NoFile == {-1}
Old == {0}
Directory == {-2}

VARIABLES
  flags,       \* overwrite and remove_source
  source,      \* is the local file there?
  dest,        \* the remote file: NoFile, Old, Directory or its new blocks
  temp,        \* the temporary remote file: NoFile or its blocks
  target,      \* what the open remote handle refers to: "none", "dest" or "temp"
  named,       \* SftpPushHandle.tempname is set
  tempCount,   \* SftpPushHandle.temp_count
  truncated,   \* was the destination opened with TRUNC?
  phase,       \* what the handle waits for besides reads and writes
  input,       \* the local stream: "none", "open" or "closed", and whether an operation is pending
  offset,      \* blocks read so far
  writes,      \* the WRITE requests outstanding
  numReq,      \* SftpPushHandle.num_req
  freed, cancelled, answers

vars == <<flags, source, dest, temp, target, named, tempCount, truncated, phase, input, offset,
          writes, numReq, freed, cancelled, answers>>

TypeOK ==
  /\ flags \in [overwrite : BOOLEAN, removeSource : BOOLEAN] /\ source \in BOOLEAN
  /\ dest \in {NoFile, Old, Directory} \cup SUBSET All /\ temp \in {NoFile} \cup SUBSET All
  /\ target \in {"none", "dest", "temp"} /\ named \in BOOLEAN /\ tempCount \in 0 .. MaxTemp
  /\ truncated \in BOOLEAN
  /\ phase \in {"lstat", "open", "fstat", "create", "stat", "temp", "truncate", "copy",
                "close", "closestat", "setstat", "delete", "rename", "over"}
  /\ input \in [state : {"none", "open", "closed"}, pending : BOOLEAN]
  /\ offset \in 0 .. Blocks /\ writes \in Seq(All)
  /\ numReq \in 0 .. MaxRequests + 1
  /\ freed \in BOOLEAN /\ cancelled \in BOOLEAN /\ answers \in Seq({"ok", "error"})

Init ==
  /\ flags \in [overwrite : BOOLEAN, removeSource : BOOLEAN] /\ source = TRUE
  /\ dest \in {NoFile, Old, Directory} /\ temp = NoFile /\ target = "none"
  /\ named = FALSE /\ tempCount = 0 /\ truncated = FALSE
  /\ phase = "lstat" /\ input = [state |-> "none", pending |-> FALSE]
  /\ offset = 0 /\ writes = <<>> /\ numReq = 0
  /\ freed = FALSE /\ cancelled = FALSE /\ answers = <<>>

-----------------------------------------------------------------------------
Finished == answers # <<>>
Stopped == Finished \/ cancelled
Fail == answers' = IF Finished THEN answers ELSE Append(answers, "error")
Succeed == answers' = Append(answers, "ok")

(* sftp_push_handle_free, with the counters it sees and the temporary file *)
(* t: a file that is still open is closed, a temporary one removed.        *)
HandleFree(req, pending, t) ==
  IF req = 0 /\ ~pending
  THEN freed' = TRUE /\ target' = "none" /\ temp' = IF named THEN NoFile ELSE t
  ELSE UNCHANGED <<freed, target>> /\ temp' = t

Local == <<source, input, offset>>
Remote == <<dest, temp, target>>
Names == <<named, tempCount, truncated>>
Requests == <<writes, numReq>>
Job == <<flags, cancelled>>

(* push_enqueue_request: the next block of the local file is read. *)
EnqueueRead == input' = [state |-> "open", pending |-> TRUE] /\ numReq' = numReq + 1

GiveUp ==
  /\ Fail /\ phase' = "over" /\ HandleFree(numReq, FALSE, temp)
  /\ UNCHANGED <<source, input, offset, dest, Names, Requests, Job>>

(* push_source_lstat_cb, push_source_open_cb, push_source_fstat_cb *)
SourceStep(from, to) ==
  /\ phase = from
  /\ \/ Faults /\ GiveUp
     \/ /\ phase' = to
        /\ input' = IF from = "open" THEN [input EXCEPT !.state = "open"] ELSE input
        /\ UNCHANGED <<source, offset, Remote, Names, Requests, Job, freed, answers>>

SourceReady ==
  SourceStep("lstat", "open") \/ SourceStep("open", "fstat") \/ SourceStep("fstat", "create")

(* The remote file is open: the copy starts. *)
StartCopy(t) ==
  /\ phase' = "copy" /\ target' = t /\ EnqueueRead
  /\ UNCHANGED <<source, offset, writes, Job, freed, answers>>

(* push_open_reply: the destination is created, unless it is there; then   *)
(* it may be overwritten.                                                  *)
OpenReply ==
  /\ phase = "create"
  /\ \/ /\ dest = NoFile /\ dest' = {} /\ StartCopy("dest") /\ UNCHANGED <<temp, Names>>
     \/ /\ dest # NoFile \/ Faults
        /\ flags.overwrite /\ phase' = "stat"
        /\ UNCHANGED <<Local, Remote, Names, Requests, Job, freed, answers>>
     \/ (Faults \/ (dest # NoFile /\ ~flags.overwrite)) /\ GiveUp

(* push_create_temp: a new name, up to MaxTemp of them. *)
CreateTemp ==
  IF tempCount + 1 = MaxTemp
  THEN /\ tempCount' = tempCount + 1 /\ Fail /\ phase' = "over" /\ HandleFree(0, FALSE, temp)
       /\ UNCHANGED <<Local, dest, named, truncated, Requests, Job>>
  ELSE /\ tempCount' = tempCount + 1 /\ named' = TRUE /\ phase' = "temp"
       /\ UNCHANGED <<Local, Remote, truncated, Requests, Job, freed, answers>>

(* push_open_stat_reply *)
OpenStatReply ==
  /\ phase = "stat"
  /\ IF dest \in {NoFile, Directory} THEN GiveUp ELSE (Faults /\ GiveUp) \/ CreateTemp

(* push_create_temp_reply *)
CreateTempReply ==
  /\ phase = "temp"
  /\ \/ /\ temp' = {} /\ StartCopy("temp") /\ UNCHANGED <<dest, Names>>
     \/ /\ Faults /\ CreateTemp             \* the name was taken
     \/ /\ Faults /\ GiveUp
     \/ /\ Faults /\ named' = FALSE /\ phase' = "truncate"   \* not permitted here
        /\ UNCHANGED <<Local, Remote, tempCount, truncated, Requests, Job, freed, answers>>

(* push_truncate_original_reply *)
TruncateReply ==
  /\ phase = "truncate"
  /\ \/ /\ dest' = {} /\ truncated' = TRUE /\ StartCopy("dest")
        /\ UNCHANGED <<temp, named, tempCount>>
     \/ Faults /\ GiveUp

-----------------------------------------------------------------------------
(* push_read_cb: the block is sent, and the next one read while the window *)
(* has room.  The end of the local file closes it.  A job that is over, or *)
(* a failed read, leaves without giving its place in the window back.      *)
ReadCb ==
  /\ phase = "copy" /\ input.state = "open" /\ input.pending /\ offset >= 0
  /\ \/ /\ Stopped \/ Faults
        /\ Fail /\ input' = [input EXCEPT !.pending = FALSE]
        /\ HandleFree(numReq, FALSE, temp)
        /\ UNCHANGED <<phase, source, offset, dest, Names, Requests, Job>>
     \/ /\ ~Stopped /\ offset < Blocks
        /\ writes' = Append(writes, offset + 1) /\ offset' = offset + 1
        /\ IF numReq < MaxRequests THEN EnqueueRead
           ELSE input' = [input EXCEPT !.pending = FALSE] /\ UNCHANGED numReq
        /\ UNCHANGED <<phase, source, Remote, Names, Job, freed, answers>>
     \/ /\ ~Stopped /\ offset = Blocks
        /\ numReq' = numReq - 1 /\ input' = [state |-> "closed", pending |-> TRUE]
        /\ UNCHANGED <<phase, source, offset, Remote, Names, writes, Job, freed, answers>>

(* What is in a remote file once the oldest WRITE is executed. *)
Landed(name, file) == IF target = name THEN file \cup {Head(writes)} ELSE file

(* push_finish, when the local file is closed and no request outstanding. *)
PushFinish(req) == phase' = IF input.state = "closed" /\ ~input.pending /\ req = 0
                            THEN "close" ELSE phase

(* push_write_reply *)
WriteReply ==
  /\ writes # <<>> /\ writes' = Tail(writes)
  /\ \/ /\ Faults /\ Fail /\ numReq' = numReq - 1
        /\ HandleFree(numReq - 1, input.pending, temp)
        /\ UNCHANGED <<phase, Local, dest, Names, Job>>
     \/ /\ Stopped /\ Fail /\ numReq' = numReq - 1
        /\ dest' = Landed("dest", dest)
        /\ HandleFree(numReq - 1, input.pending, Landed("temp", temp))
        /\ UNCHANGED <<phase, Local, Names, Job>>
     \/ /\ ~Stopped
        /\ dest' = Landed("dest", dest) /\ temp' = Landed("temp", temp)
        /\ IF input.state = "open" /\ ~input.pending
           THEN input' = [input EXCEPT !.pending = TRUE] /\ numReq' = numReq /\ UNCHANGED phase
           ELSE numReq' = numReq - 1 /\ UNCHANGED input /\ PushFinish(numReq - 1)
        /\ UNCHANGED <<source, offset, target, Names, Job, freed, answers>>

(* push_source_close_cb *)
SourceCloseCb ==
  /\ phase = "copy" /\ input = [state |-> "closed", pending |-> TRUE]
  /\ input' = [input EXCEPT !.pending = FALSE]
  /\ IF Stopped
     THEN Fail /\ HandleFree(numReq, FALSE, temp) /\ UNCHANGED phase
     ELSE /\ phase' = IF numReq = 0 THEN "close" ELSE phase
          /\ UNCHANGED <<temp, target, freed, answers>>
  /\ UNCHANGED <<source, offset, dest, Names, Requests, Job>>

(* push_close_write_reply, push_close_stat_reply: the times of the copy    *)
(* are set next.                                                           *)
CloseWriteReply ==
  /\ phase = "close"
  /\ \/ /\ phase' = IF flags.removeSource THEN "setstat" ELSE "closestat"
        /\ target' = "none"
        /\ UNCHANGED <<Local, dest, temp, Names, Requests, Job, freed, answers>>
     \/ Faults /\ GiveUp

CloseStatReply ==
  /\ phase = "closestat" /\ phase' = "setstat"
  /\ UNCHANGED <<Local, Remote, Names, Requests, Job, freed, answers>>

(* The source of a move goes when the copy is in place. *)
Complete ==
  /\ Succeed /\ phase' = "over"
  /\ source' = (source /\ ~flags.removeSource)

(* push_close_delete_or_succeed, whatever became of the times. *)
DeleteOrSucceed ==
  /\ phase = "setstat"
  /\ IF named
     THEN phase' = "delete" /\ UNCHANGED <<source, temp, target, freed, answers>>
     ELSE Complete /\ HandleFree(numReq, FALSE, temp)
  /\ UNCHANGED <<input, offset, dest, Names, Requests, Job>>

(* push_close_deleted_file: the old file is gone, the temporary one is     *)
(* kept from now on.                                                       *)
DeletedFile ==
  /\ phase = "delete"
  /\ \/ /\ dest' = NoFile /\ named' = FALSE /\ phase' = "rename"
        /\ UNCHANGED <<Local, temp, target, tempCount, truncated, Requests, Job, freed, answers>>
     \/ Faults /\ GiveUp

(* push_close_moved_file *)
MovedFile ==
  /\ phase = "rename"
  /\ \/ /\ dest' = temp /\ Complete /\ HandleFree(numReq, FALSE, NoFile)
     \/ /\ Faults /\ Fail /\ phase' = "over" /\ HandleFree(numReq, FALSE, temp)
        /\ UNCHANGED <<source, dest>>
  /\ UNCHANGED <<input, offset, Names, Requests, Job>>

Cancel ==
  /\ Faults /\ ~cancelled /\ ~Finished /\ cancelled' = TRUE
  /\ UNCHANGED <<flags, source, Remote, Names, phase, input, offset, Requests, freed, answers>>

Next == SourceReady \/ OpenReply \/ OpenStatReply \/ CreateTempReply \/ TruncateReply
        \/ ReadCb \/ WriteReply \/ SourceCloseCb \/ CloseWriteReply \/ CloseStatReply
        \/ DeleteOrSucceed \/ DeletedFile \/ MovedFile \/ Cancel

(* The server and the local file system answer what was asked. *)
Spec == Init /\ [][Next]_vars /\ WF_vars(Next)

-----------------------------------------------------------------------------
(* A push that succeeds left a complete copy under the name it was asked   *)
(* for, and a move removes the local file only then.                       *)
NothingLost ==
  /\ Finished /\ answers[1] = "ok" => dest = All /\ temp = NoFile
  /\ ~source => dest = All

(* A destination that is replaced keeps its old content until all of the   *)
(* new one is on the server; only where the server refuses a temporary     *)
(* file is the old content given up first.                                 *)
OldOrNew == dest = Old /\ dest' # Old => temp = All \/ (truncated' /\ tempCount > 0)

(* After that the new content exists under one of the two names, whatever  *)
(* step fails.                                                             *)
NewKept == dest = NoFile /\ phase \in {"rename", "over"} /\ tempCount > 0 => temp = All

(* The job is answered once. *)
AnsweredOnce == Len(answers) <= 1

(* sftp_push_handle_free waits for the requests and the local stream. *)
NoUseAfterFree ==
  freed => writes = <<>> /\ ~input.pending /\ phase \in {"copy", "over"}

=============================================================================
