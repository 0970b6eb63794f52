----------------------------- MODULE SftpReplace -----------------------------
(***************************************************************************)
(* Writing a remote file over SFTP: the jobs that open it (create, append, *)
(* edit, replace), write, seek, truncate and close it, and their reply     *)
(* handlers (daemon/gvfsbackendsftp.c).  A file that is replaced is        *)
(* written under a temporary name and put in place when it is closed, over *)
(* the old file or with the old one kept as a backup; where that cannot    *)
(* be done the old file is truncated.  One request is outstanding at a     *)
(* time; a request is executed and its reply handled in one step.          *)
(***************************************************************************)
EXTENDS Integers, Sequences

CONSTANTS
  MaxLen,      \* blocks a file may grow to
  MaxTemp,     \* temporary names that are tried, 100 in the code
  Faults,      \* may requests fail?
  BadReplies   \* may a reply be of a type that does not belong to its request?

ReplaceAssumption == MaxLen \in Nat \ {0} /\ MaxTemp \in Nat \ {0}

\* A file is the sequence of its blocks, or one of these.
Absent == <<"absent">>
Directory == <<"directory">>
Old == <<"old", "old">>
OldBackup == <<"older">>

Contents == {Absent, Directory, Old, OldBackup} \cup
            UNION {[1 .. n -> {"old", "new", "zero"}] : n \in 0 .. MaxLen}

VARIABLES
  job,         \* what was asked for: the mode and its options
  file, backup, temp,  \* the remote files
  phase,       \* the reply that is waited for, "writing" or "closed"
  handle,      \* SftpHandle: what it refers to, its offset, whether it has a tempname
  tempCount,   \* ReplaceData.temp_count
  cursor,      \* the client's side: what it wrote so far and where it is
  answers      \* the answers to the open job and to the close job

vars == <<job, file, backup, temp, phase, handle, tempCount, cursor, answers>>

Modes == {"create", "append", "edit", "replace"}
NoHandle == [on |-> "none", offset |-> 0, tempname |-> FALSE]

TypeOK ==
  /\ job \in [mode : Modes, backup : BOOLEAN, replaceDest : BOOLEAN, regular : BOOLEAN,
              etagMatches : BOOLEAN, otherOwner : BOOLEAN]
  /\ file \in Contents /\ backup \in Contents /\ temp \in Contents
  /\ phase \in {"open", "exclusive", "stat", "temp", "tempStat", "tempOwner", "truncate", "writing",
                "closeStat", "close", "dropBackup", "toBackup", "dropFile", "permissions", "inPlace",
                "closed"}
  /\ handle \in [on : {"none", "file", "temp"}, offset : 0 .. MaxLen, tempname : BOOLEAN]
  /\ tempCount \in 0 .. MaxTemp
  /\ cursor.content \in Contents /\ cursor.pos \in 0 .. MaxLen
  /\ answers \in Seq({"opened", "closed", "error"})

(* try_create, try_append_to, try_edit and try_replace *)
Init ==
  /\ job \in [mode : Modes, backup : BOOLEAN, replaceDest : BOOLEAN, regular : BOOLEAN,
              etagMatches : BOOLEAN, otherOwner : BOOLEAN]
  /\ file \in {Absent, Old, Directory} /\ backup \in {Absent, OldBackup} /\ temp = Absent
  /\ phase = IF job.mode = "replace" THEN "exclusive" ELSE "open"
  /\ handle = NoHandle /\ tempCount = 0 /\ cursor = [content |-> <<>>, pos |-> 0]
  /\ answers = <<>>

-----------------------------------------------------------------------------
Files == <<file, backup, temp>>
Answer(a) == answers' = Append(answers, a)
OpenFailed == Answer("error") /\ phase' = "closed"

\* sftp_handle_new, and the job succeeds
Opened(on, content) ==
  /\ handle' = [on |-> on, offset |-> 0, tempname |-> on = "temp"]
  /\ cursor' = [content |-> content, pos |-> 0]
  /\ phase' = "writing" /\ Answer("opened")

(* open_for_write_reply with open_for_write_error and                      *)
(* not_dir_or_not_exist_error, which only refine the error.                *)
OpenForWriteReply ==
  /\ phase = "open"
  /\ \/ /\ file = Absent /\ file' = <<>> /\ Opened("file", <<>>)
     \/ /\ file = Old /\ job.mode # "create" /\ Opened("file", Old) /\ UNCHANGED file
     \/ /\ Faults \/ file = Directory \/ (file = Old /\ job.mode = "create")
        /\ OpenFailed /\ UNCHANGED <<file, handle, cursor>>
  /\ UNCHANGED <<job, backup, temp, tempCount>>

(* replace_exclusive_reply: a file that does not exist is created, one     *)
(* that does is looked at.                                                 *)
ReplaceExclusiveReply ==
  /\ phase = "exclusive"
  /\ \/ /\ file = Absent /\ file' = <<>> /\ Opened("file", <<>>)
     \/ /\ file # Absent /\ phase' = "stat" /\ UNCHANGED <<file, handle, cursor, answers>>
     \/ /\ Faults /\ OpenFailed /\ UNCHANGED <<file, handle, cursor>>
  /\ UNCHANGED <<job, backup, temp, tempCount>>

(* replace_create_temp *)
CreateTemp ==
  /\ tempCount' = tempCount + 1
  /\ IF tempCount + 1 = MaxTemp THEN OpenFailed ELSE phase' = "temp" /\ UNCHANGED answers

ReplaceStatReply_AlwaysTruncate ==
  /\ phase = "stat"
  /\ IF file = Directory \/ ~job.etagMatches \/ job.backup THEN OpenFailed
     ELSE phase' = "truncate" /\ UNCHANGED answers
  /\ UNCHANGED <<job, Files, handle, cursor, tempCount>>

(* replace_stat_reply: a regular file, or any file when it may be          *)
(* replaced, gets a temporary one next to it; another kind of file is      *)
(* truncated.                                                              *)
ReplaceStatReply ==
  /\ phase = "stat"
  /\ \/ (file = Directory \/ ~job.etagMatches) /\ OpenFailed /\ UNCHANGED tempCount
     \/ /\ file # Directory /\ job.etagMatches /\ (job.replaceDest \/ job.regular)
        /\ CreateTemp
     \/ /\ file # Directory /\ job.etagMatches /\ ~job.replaceDest /\ ~job.regular
        /\ UNCHANGED tempCount
        /\ IF job.backup THEN OpenFailed ELSE phase' = "truncate" /\ UNCHANGED answers
  /\ UNCHANGED <<job, Files, handle, cursor>>

(* replace_create_temp_reply: the temporary file must belong to the owner  *)
(* of the old one.                                                         *)
CreateTempReply ==
  /\ phase = "temp"
  /\ \/ /\ temp' = <<>> /\ UNCHANGED tempCount
        /\ IF job.replaceDest THEN Opened("temp", <<>>)
           ELSE /\ phase' = "tempStat" /\ handle' = [NoHandle EXCEPT !.on = "temp", !.tempname = TRUE]
                /\ UNCHANGED <<cursor, answers>>
     \/ /\ Faults /\ CreateTemp /\ UNCHANGED <<temp, handle, cursor>>
     \/ /\ Faults /\ OpenFailed /\ UNCHANGED <<temp, handle, cursor, tempCount>>
  /\ UNCHANGED <<job, file, backup>>

\* close_temp_file, delete_temp_file and sftp_handle_free
DropTemp == temp' = Absent /\ handle' = NoHandle

(* replace_create_temp_fstat_reply *)
TempStatReply ==
  /\ phase = "tempStat"
  /\ \/ /\ ~job.otherOwner /\ Opened("temp", <<>>) /\ UNCHANGED temp
     \/ /\ job.otherOwner /\ phase' = "tempOwner" /\ UNCHANGED <<temp, handle, cursor, answers>>
     \/ Faults /\ DropTemp /\ OpenFailed /\ UNCHANGED cursor
  /\ UNCHANGED <<job, file, backup, tempCount>>

(* replace_create_temp_fsetstat_reply: where the owner may not be set the  *)
(* old file is truncated, unless a backup is wanted.  A reply that is no   *)
(* status fails the job and then lets it succeed.                          *)
TempOwnerReply ==
  /\ phase = "tempOwner"
  /\ \/ Opened("temp", <<>>) /\ UNCHANGED temp
     \/ /\ DropTemp /\ UNCHANGED cursor
        /\ IF job.backup THEN OpenFailed ELSE phase' = "truncate" /\ UNCHANGED answers
     \/ Faults /\ OpenFailed /\ UNCHANGED <<temp, handle, cursor>>
     \/ /\ BadReplies /\ answers' = answers \o <<"error", "opened">> /\ phase' = "writing"
        /\ handle' = [on |-> "temp", offset |-> 0, tempname |-> TRUE]
        /\ cursor' = [content |-> <<>>, pos |-> 0] /\ UNCHANGED temp
  /\ UNCHANGED <<job, file, backup, tempCount>>

(* replace_truncate_original_reply *)
TruncateOriginalReply ==
  /\ phase = "truncate"
  /\ \/ file' = <<>> /\ Opened("file", <<>>)
     \/ Faults /\ OpenFailed /\ UNCHANGED <<file, handle, cursor>>
  /\ UNCHANGED <<job, backup, temp, tempCount>>

-----------------------------------------------------------------------------
\* The blocks c with b at position n (from 0), zeroes filling a gap.
Put(c, n, b) == [i \in 1 .. (IF n >= Len(c) THEN n + 1 ELSE Len(c)) |->
                   IF i = n + 1 THEN b ELSE IF i <= Len(c) THEN c[i] ELSE "zero"]
Cut(c, n) == [i \in 1 .. n |-> IF i <= Len(c) THEN c[i] ELSE "zero"]

Current == IF handle.on = "temp" THEN temp ELSE file
Store(c) == IF handle.on = "temp" THEN temp' = c /\ UNCHANGED file ELSE file' = c /\ UNCHANGED temp
Session == <<job, backup, tempCount, answers, phase>>

(* write_reply: the block goes where the offset of the handle says, or to  *)
(* the end of a file that was opened with SSH_FXF_APPEND.                  *)
WriteReply ==
  /\ phase = "writing"
  /\ LET at == IF job.mode = "append" THEN Len(Current) ELSE handle.offset IN
     /\ at < MaxLen /\ handle.offset < MaxLen /\ Store(Put(Current, at, "new"))
     /\ handle' = [handle EXCEPT !.offset = @ + 1]
     /\ cursor' = [content |-> Put(cursor.content, IF job.mode = "append" THEN at ELSE cursor.pos, "new"),
                   pos |-> cursor.pos + 1]
  /\ UNCHANGED Session

\* What a seek asks for: from the start, the current position or the end.
Seeks == {"set", "cur", "end"} \X {-1, 0, 1}

Clamp(n) == IF n < 0 THEN 0 ELSE n

(* try_seek_on_write and seek_write_fstat_reply *)
SeekOnWrite(whence, d) ==
  /\ phase = "writing"
  /\ LET base == CASE whence = "set" -> 0 [] whence = "cur" -> handle.offset
                   [] OTHER -> Len(Current)
         want == CASE whence = "set" -> 0 [] whence = "cur" -> cursor.pos
                   [] OTHER -> Len(cursor.content) IN
     /\ Clamp(base + d) <= MaxLen /\ Clamp(want + d) <= MaxLen
     /\ handle' = [handle EXCEPT !.offset = Clamp(base + d)]
     /\ cursor' = [cursor EXCEPT !.pos = Clamp(want + d)]
  /\ UNCHANGED <<Files, Session>>

(* try_truncate and truncate_reply *)
Truncate(n) ==
  /\ phase = "writing" /\ Store(Cut(Current, n))
  /\ cursor' = [cursor EXCEPT !.content = Cut(cursor.content, n)]
  /\ UNCHANGED <<handle, Session>>

-----------------------------------------------------------------------------
Rest == <<job, tempCount, cursor>>
Goto(p) == phase' = p /\ UNCHANGED <<handle, answers>>

\* The close job is answered and the handle freed; d says whether the temporary file goes.
CloseFailed(d) ==
  /\ Answer("error") /\ phase' = "closed" /\ handle' = NoHandle
  /\ temp' = IF d /\ handle.tempname THEN Absent ELSE temp

(* try_close_write; close_write_fstat_reply, which takes the etag. *)
CloseWrite == phase = "writing" /\ Goto("closeStat") /\ UNCHANGED <<Files, Rest>>
CloseFstatReply == phase = "closeStat" /\ Goto("close") /\ UNCHANGED <<Files, Rest>>

(* close_write_reply *)
CloseWriteReply ==
  /\ phase = "close"
  /\ \/ /\ handle.tempname /\ Goto(IF job.backup THEN "dropBackup" ELSE "dropFile")
        /\ UNCHANGED temp
     \/ /\ ~handle.tempname /\ Answer("closed") /\ phase' = "closed" /\ handle' = NoHandle
        /\ UNCHANGED temp
     \/ Faults /\ CloseFailed(TRUE)
  /\ UNCHANGED <<file, backup, Rest>>

(* close_deleted_backup, whatever the result. *)
CloseDeletedBackup ==
  /\ phase = "dropBackup" /\ Goto("toBackup")
  /\ backup' \in {Absent} \cup (IF Faults THEN {backup} ELSE {})
  /\ UNCHANGED <<file, temp, Rest>>

(* close_moved_file: the old file is the backup now.  SFTP renames over no *)
(* existing file.                                                          *)
CloseMovedFile ==
  /\ phase = "toBackup"
  /\ \/ /\ backup = Absent /\ backup' = file /\ file' = Absent /\ Goto("inPlace") /\ UNCHANGED temp
     \/ /\ Faults \/ backup # Absent
        /\ CloseFailed(TRUE) /\ UNCHANGED <<file, backup>>
  /\ UNCHANGED Rest

(* close_deleted_file: the old file is gone, the permissions of the new    *)
(* one are set if they are known.                                          *)
CloseDeletedFile ==
  /\ phase = "dropFile"
  /\ \/ /\ file' = Absent /\ Goto("permissions") /\ UNCHANGED temp
     \/ Faults /\ CloseFailed(TRUE) /\ UNCHANGED file
  /\ UNCHANGED <<backup, Rest>>

(* close_restore_permissions, whatever the result. *)
CloseRestorePermissions == phase = "permissions" /\ Goto("inPlace") /\ UNCHANGED <<Files, Rest>>

CloseMovedTempfile_Removes ==
  /\ phase = "inPlace"
  /\ \/ /\ file' = temp /\ temp' = Absent /\ Answer("closed") /\ phase' = "closed"
        /\ handle' = NoHandle
     \/ Faults /\ CloseFailed(TRUE) /\ UNCHANGED file
  /\ UNCHANGED <<backup, Rest>>

(* close_moved_tempfile: when it fails the temporary file is all there is. *)
CloseMovedTempfile ==
  /\ phase = "inPlace"
  /\ \/ /\ file' = temp /\ temp' = Absent /\ Answer("closed") /\ phase' = "closed"
        /\ handle' = NoHandle
     \/ Faults /\ CloseFailed(FALSE) /\ UNCHANGED file
  /\ UNCHANGED <<backup, Rest>>

Next == \/ OpenForWriteReply \/ ReplaceExclusiveReply \/ ReplaceStatReply \/ CreateTempReply
        \/ TempStatReply \/ TempOwnerReply \/ TruncateOriginalReply
        \/ WriteReply \/ (\E s \in Seeks : SeekOnWrite(s[1], s[2])) \/ (\E n \in 0 .. MaxLen : Truncate(n))
        \/ CloseWrite \/ CloseFstatReply \/ CloseWriteReply \/ CloseDeletedBackup \/ CloseMovedFile
        \/ CloseDeletedFile \/ CloseRestorePermissions \/ CloseMovedTempfile

Spec == Init /\ [][Next]_vars

-----------------------------------------------------------------------------
(* Every write, seek and truncation is applied where the client's own      *)
(* position says, so the open file holds what the client wrote.            *)
WrittenWhereAsked ==
  phase \in {"writing", "closeStat", "close"} =>
    Current = cursor.content /\ (job.mode # "append" => handle.offset = cursor.pos)

(* A file that is closed successfully holds what was written, and the      *)
(* backup that was asked for holds what was there before.                  *)
ClosedMeansReplaced ==
  "closed" \in {answers[i] : i \in 1 .. Len(answers)} =>
    /\ file = cursor.content /\ temp = Absent
    /\ job.mode = "replace" /\ job.backup /\ tempCount > 0 => backup = Old

(* Replacing a file through a temporary one never loses both contents:     *)
(* once the old one is gone, the new one is under one of the two names.    *)
NeverBothLost ==
  job.mode = "replace" /\ handle.on # "file" /\ file = Absent /\ phase # "exclusive"
    /\ tempCount > 0 /\ tempCount < MaxTemp => temp = cursor.content

(* The old content stays in place until the new one is closed; it is       *)
(* truncated only where no temporary file can take its place.              *)
OldUntilClosed ==
  job.mode = "replace" /\ file = Old /\ file' # Old =>
       \/ phase \in {"dropFile", "toBackup"}
       \/ phase = "truncate" /\ ~job.backup /\ (tempCount > 0 \/ ~job.regular)

(* A replacement with a backup never touches the old content before it is  *)
(* the backup.                                                             *)
BackupFirst ==
  job.mode = "replace" /\ job.backup /\ tempCount > 0 => file = Old \/ backup = Old

(* "The delete failed, remove any temporary files": a close that fails     *)
(* leaves a temporary file only where it is the last copy.                 *)
NoStrayTemp ==
  phase = "closed" /\ "opened" \in {answers[i] : i \in 1 .. Len(answers)} /\ temp # Absent
    => file = Absent

=============================================================================
