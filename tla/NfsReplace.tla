------------------------------ MODULE NfsReplace ------------------------------
(***************************************************************************)
(* Writing a file of an NFS server: the jobs that open it (create, append, *)
(* edit, replace), write, seek, truncate and close it, as chains of libnfs *)
(* callbacks (daemon/gvfsbackendnfs.c).  A file that is replaced is        *)
(* written to a temporary file that is renamed over it when it is closed;  *)
(* a file with several names, or one whose directory may not be written    *)
(* to, is copied to its backup and truncated.  A call is executed and its  *)
(* callback run in one step; between two of them another client of the     *)
(* server may change the file, once.                                       *)
(***************************************************************************)
EXTENDS Integers, Sequences

CONSTANTS
  MaxLen,      \* blocks a file may grow to
  Faults,      \* may calls fail?
  Disturbed    \* does another client act?

NfsReplaceAssumption == MaxLen \in Nat /\ MaxLen >= 2

\* Inodes: the old file and its older backup, the temporary file, the copy of
\* the old file, a file this job creates, one the other client makes.
Inodes == {"o", "k", "t", "b", "n", "x"}
Names == {"file", "backup", "temp", "other"}
Old == <<"old", "old">>
Theirs == <<"their">>
Contents == UNION {[1 .. n -> {"old", "new", "zero", "their", "older"}] : n \in 0 .. MaxLen}

VARIABLES
  job,       \* what was asked for
  was,       \* the name's entry before the job
  entry,     \* the directory: name -> inode, or one of the kinds that are no regular file
  body,      \* inode -> content
  others,    \* what the other client did
  seen,      \* had the other client acted when the job looked at the file?
  phase,     \* the callback that is waited for, "writing" or "done"
  handle,    \* WriteHandle
  copy,      \* CopyHandle: the offset of the source and the block that was read
  fhs,       \* the handles that are open at the server
  cursor,    \* the client's side: what it wrote and where it is
  answers    \* the answers to the open job and to the close job

vars == <<job, was, entry, body, others, seen, phase, handle, copy, fhs, cursor, answers>>

Jobs == {j \in [mode : {"create", "append", "edit", "replace"}, backup : BOOLEAN, replaceDest : BOOLEAN,
                etag : BOOLEAN] :
           j.mode # "replace" => ~j.backup /\ ~j.replaceDest /\ ~j.etag}
NoHandle == [fh |-> "none", offset |-> 0, tempname |-> FALSE, backup |-> FALSE, append |-> FALSE]

TypeOK ==
  /\ job \in Jobs /\ was \in {"none", "o", "link", "dir", "fifo"}
  /\ entry \in [Names -> Inodes \cup {"none", "link", "dir", "fifo"}]
  /\ body \in [Inodes -> Contents]
  /\ others \in {"none", "made", "modified", "removed"} /\ seen \in {"no", "before", "after"}
  /\ phase \in {"stat", "create", "exclusive", "lstat", "statLink", "temp", "tempOwner", "tempMode",
                "rmBackup", "copySource", "copyDest", "copyRead", "copyWrite", "backupOwner", "trunc",
                "writing", "closeStat", "close", "closeTemp", "closeBackup", "closeRename", "done"}
  /\ handle \in [fh : Inodes \cup {"none"}, offset : 0 .. MaxLen, tempname : BOOLEAN,
                 backup : BOOLEAN, append : BOOLEAN]
  /\ copy.offset \in 0 .. MaxLen /\ copy.block \in Contents
  /\ fhs \subseteq {"handle", "source", "dest"}
  /\ cursor.content \in Contents /\ cursor.pos \in 0 .. MaxLen
  /\ answers \in Seq({"opened", "closed", "error", "noBackup", "noTemp", "wrongEtag"})

(* try_create, try_append_to, try_edit and try_replace; the file may have  *)
(* a second name, or be a link to the other name.                          *)
Init ==
  /\ job \in Jobs
  /\ was \in {"none", "o", "link", "dir", "fifo"}
  /\ \E other \in {"none", "o"} : \E backup \in {"none", "k"} :
       entry = [file |-> was, backup |-> backup, temp |-> "none", other |-> other]
  /\ body = [i \in Inodes |-> IF i = "o" THEN Old ELSE IF i = "k" THEN <<"older">>
                              ELSE IF i = "x" THEN Theirs ELSE <<>>]
  /\ others = "none" /\ seen = "no"
  /\ phase = IF job.mode = "replace" THEN "exclusive" ELSE IF job.mode = "create" THEN "create" ELSE "stat"
  /\ handle = NoHandle /\ copy = [offset |-> 0, block |-> <<>>] /\ fhs = {}
  /\ cursor = [content |-> <<>>, pos |-> 0] /\ answers = <<>>

-----------------------------------------------------------------------------
(* The server.                                                             *)

\* what a name refers to when links are followed
Resolve(n) == IF entry[n] = "link" THEN entry["other"] ELSE entry[n]
IsFile(e) == e \in Inodes
NLink(i) == (IF entry["file"] = i THEN 1 ELSE 0) + (IF entry["other"] = i THEN 1 ELSE 0)

\* A block is written at a position; a gap is filled with zeros.
Put(c, at, b) == [i \in 1 .. (IF at > Len(c) THEN at ELSE Len(c)) |->
                    IF i = at THEN b ELSE IF i <= Len(c) THEN c[i] ELSE "zero"]
Cut(c, n) == [i \in 1 .. n |-> IF i <= Len(c) THEN c[i] ELSE "zero"]

\* Opening the name with O_CREAT makes the inode i when there is none.
CreateAt(n, i) ==
  LET at == IF entry[n] = "link" THEN "other" ELSE n
  IN  IF entry[at] = "none" THEN /\ entry' = [entry EXCEPT ![at] = i]
                                 /\ handle' = [handle EXCEPT !.fh = i, !.offset = 0]
      ELSE UNCHANGED entry /\ handle' = [handle EXCEPT !.fh = entry[at], !.offset = 0]

-----------------------------------------------------------------------------
Answer(a) == answers' = Append(answers, a)
JobFailed(a) == Answer(a) /\ phase' = "done"
\* An open job that fails: nothing else changes.
OpenFailed(a) == JobFailed(a) /\ UNCHANGED <<entry, body, handle, copy, fhs, cursor>>
Next1(p) == phase' = p /\ UNCHANGED answers

(* set_handle, set_can_seek, set_can_truncate, and the job succeeds        *)
Opened(content, pos) ==
  /\ cursor' = [content |-> content, pos |-> pos] /\ fhs' = {"handle"}
  /\ phase' = "writing" /\ Answer("opened")

(* open_for_write and open_for_write_stat_cb: a directory is refused.  The *)
(* initial offset of an append is read from the stat, also from the one    *)
(* that failed because there is no file yet (Append in OpenForWriteCreateCb). *)
OpenForWriteStatCb ==
  /\ phase = "stat"
  /\ \/ /\ Resolve("file") # "dir"
        /\ handle' = [handle EXCEPT !.append = job.mode = "append"]
        /\ Next1("create") /\ UNCHANGED <<entry, body, copy, fhs, cursor>>
     \/ (Resolve("file") = "dir" \/ Faults) /\ OpenFailed("error")
  /\ UNCHANGED <<job, was, others, seen>>

(* open_for_write_create and open_for_write_create_cb *)
OpenForWriteCreateCb ==
  /\ phase = "create"
  /\ \/ /\ IF job.mode = "create" THEN entry["file"] = "none"
           ELSE IsFile(Resolve("file")) \/ Resolve("file") = "none"
        /\ CreateAt("file", "n")
        /\ IF IsFile(Resolve("file"))
           THEN Opened(body[Resolve("file")], IF handle.append THEN Len(body[Resolve("file")]) ELSE 0)
           ELSE \E garbage \in (IF handle.append THEN 0 .. MaxLen ELSE {0}) : Opened(<<>>, garbage)
        /\ UNCHANGED <<body, copy>>
     \/ /\ Faults \/ ~(IsFile(Resolve("file")) \/ Resolve("file") = "none")
                  \/ (job.mode = "create" /\ entry["file"] # "none")
        /\ OpenFailed("error")
  /\ UNCHANGED <<job, was, others, seen>>

(* replace_create_cb: the file did not exist, or it is looked at.          *)
ReplaceCreateCb ==
  /\ phase = "exclusive"
  /\ \/ entry["file"] = "none" /\ CreateAt("file", "n") /\ Opened(<<>>, 0) /\ UNCHANGED <<body, copy>>
     \/ entry["file"] # "none" /\ Next1("lstat") /\ UNCHANGED <<entry, body, handle, copy, fhs, cursor>>
     \/ Faults /\ OpenFailed("error")
  /\ UNCHANGED <<job, was, others, seen>>

(* replace_truncate: without a temporary file the old content is copied    *)
(* to the backup, or lost.                                                 *)
ReplaceTruncate ==
  /\ handle' = [handle EXCEPT !.tempname = FALSE, !.backup = job.backup]
  /\ Next1(IF job.backup THEN "rmBackup" ELSE "trunc")

\* Does the etag the client gave still hold?
EtagMatches == IF job.etag THEN Resolve("file") = "o" /\ others # "modified" ELSE TRUE

(* The last part of replace_stat_cb: a temporary file when the destination *)
(* may be replaced, or has no other name.                                  *)
Replaced(isSymlink) ==
  IF job.replaceDest \/ (~isSymlink /\ NLink(Resolve("file")) <= 1)
  THEN handle' = [handle EXCEPT !.tempname = TRUE] /\ Next1("temp")
  ELSE ReplaceTruncate

(* replace_stat_cb: the checks on the existing file.                       *)
ReplaceStatCb(isSymlink) ==
  LET e == Resolve("file")
  IN  \/ /\ e = "none" \/ (e = "dir" /\ ~(job.replaceDest /\ isSymlink)) \/ (~job.replaceDest /\ ~IsFile(e))
         /\ JobFailed("error") /\ UNCHANGED handle
      \/ /\ e # "none" /\ (e = "dir" => job.replaceDest /\ isSymlink) /\ (job.replaceDest \/ IsFile(e))
         /\ \/ ~EtagMatches /\ JobFailed("wrongEtag") /\ UNCHANGED handle
            \/ EtagMatches /\ Replaced(isSymlink)

Look == seen' = IF others = "none" THEN "before" ELSE "after"

(* replace_lstat_cb: a link is looked at through, anything else goes on    *)
(* with the stat at hand.                                                  *)
ReplaceLstatCb ==
  /\ phase = "lstat"
  /\ \/ entry["file"] = "link" /\ Next1("statLink") /\ UNCHANGED <<handle, seen>>
     \/ entry["file"] \notin {"none", "link"} /\ ReplaceStatCb(FALSE) /\ Look
     \/ (Faults \/ entry["file"] = "none") /\ JobFailed("error") /\ UNCHANGED <<handle, seen>>
  /\ UNCHANGED <<job, was, others, entry, body, copy, fhs, cursor>>

ReplaceStatLinkCb ==
  /\ phase = "statLink"
  /\ \/ ReplaceStatCb(TRUE) /\ Look
     \/ Faults /\ JobFailed("error") /\ UNCHANGED <<handle, seen>>
  /\ UNCHANGED <<job, was, others, entry, body, copy, fhs, cursor>>

(* replace_temp_cb: a temporary file that is denied, or exists, leads to   *)
(* truncation unless the destination was to be replaced.                   *)
ReplaceTempCb ==
  /\ phase = "temp"
  /\ \/ /\ entry' = [entry EXCEPT !["temp"] = "t"]
        /\ handle' = [handle EXCEPT !.fh = "t", !.backup = job.backup]
        /\ IF job.replaceDest THEN Opened(<<>>, 0)
           ELSE Next1("tempOwner") /\ fhs' = {"handle"} /\ UNCHANGED cursor
     \/ /\ Faults /\ ~job.replaceDest /\ ReplaceTruncate /\ UNCHANGED <<entry, fhs, cursor>>
     \/ /\ Faults /\ JobFailed(IF job.replaceDest THEN "noTemp" ELSE "error")
        /\ UNCHANGED <<entry, handle, fhs, cursor>>
  /\ UNCHANGED <<job, was, others, seen, body, copy>>

\* The temporary file is closed, and left behind.
TempFailed == JobFailed("noTemp") /\ fhs' = {} /\ UNCHANGED cursor

(* replace_temp_chown_cb *)
ReplaceTempChownCb ==
  /\ phase = "tempOwner"
  /\ \/ Next1("tempMode") /\ UNCHANGED <<fhs, cursor>>
     \/ Faults /\ TempFailed
  /\ UNCHANGED <<job, was, others, seen, entry, body, handle, copy>>

(* replace_temp_chmod_cb *)
ReplaceTempChmodCb ==
  /\ phase = "tempMode"
  /\ \/ Opened(<<>>, 0)
     \/ Faults /\ TempFailed
  /\ UNCHANGED <<job, was, others, seen, entry, body, handle, copy>>

-----------------------------------------------------------------------------
(* Copying the file to its backup.                                         *)

(* replace_rm_backup_cb: that there is no backup, or it may not be removed, *)
(* does not matter.                                                        *)
ReplaceRmBackupCb ==
  /\ phase = "rmBackup"
  /\ \/ entry' = [entry EXCEPT !["backup"] = "none"] /\ Next1("copySource")
     \/ Faults /\ Next1("copySource") /\ UNCHANGED entry
     \/ Faults /\ JobFailed("noBackup") /\ UNCHANGED entry
  /\ UNCHANGED <<job, was, others, seen, body, handle, copy, fhs, cursor>>

\* copy_handle_complete, and replace_backup_cb with its result
CopyComplete(success) ==
  /\ fhs' = {}
  /\ IF success THEN Next1("backupOwner") ELSE JobFailed("noBackup")

(* copy_file and copy_open_source_cb *)
CopyOpenSourceCb ==
  /\ phase = "copySource"
  /\ \/ IsFile(Resolve("file")) /\ fhs' = {"source"} /\ Next1("copyDest")
     \/ (Faults \/ ~IsFile(Resolve("file"))) /\ CopyComplete(FALSE)
  /\ copy' = [offset |-> 0, block |-> <<>>]
  /\ UNCHANGED <<job, was, others, seen, entry, body, handle, cursor>>

(* copy_open_dest_cb, which truncates a backup that could not be removed   *)
CopyOpenDestCb ==
  /\ phase = "copyDest"
  /\ \/ /\ LET i == IF entry["backup"] = "none" THEN "b" ELSE entry["backup"]
           IN  entry' = [entry EXCEPT !["backup"] = i] /\ body' = [body EXCEPT ![i] = <<>>]
        /\ fhs' = fhs \cup {"dest"} /\ Next1("copyRead")
     \/ Faults /\ CopyComplete(FALSE) /\ UNCHANGED <<entry, body>>
  /\ UNCHANGED <<job, was, others, seen, handle, copy, cursor>>

\* The copied file: what the source handle was opened on.  Nobody but the other
\* client changes the name meanwhile.
SourceOf == IF IsFile(Resolve("file")) THEN Resolve("file") ELSE was

(* copy_read_cb: the end of the file completes the copy.                   *)
CopyReadCb ==
  /\ phase = "copyRead"
  /\ \/ /\ copy.offset >= Len(body[SourceOf]) /\ CopyComplete(TRUE) /\ UNCHANGED copy
     \/ /\ copy.offset < Len(body[SourceOf])
        /\ copy' = [offset |-> Len(body[SourceOf]),
                    block |-> SubSeq(body[SourceOf], copy.offset + 1, Len(body[SourceOf]))]
        /\ Next1("copyWrite") /\ UNCHANGED fhs
     \/ Faults /\ CopyComplete(FALSE) /\ UNCHANGED copy
  /\ UNCHANGED <<job, was, others, seen, entry, body, handle, cursor>>

(* copy_write_cb: when something was written the next block is read.  A    *)
(* write is taken to be whole, as the code takes it.                       *)
CopyWriteCb ==
  /\ phase = "copyWrite"
  /\ \/ /\ body' = [body EXCEPT ![entry["backup"]] = @ \o copy.block]
        /\ Next1("copyRead") /\ UNCHANGED fhs
     \/ Faults /\ CopyComplete(FALSE) /\ UNCHANGED body
  /\ UNCHANGED <<job, was, others, seen, entry, handle, copy, cursor>>

(* replace_backup_chown_cb *)
ReplaceBackupChownCb ==
  /\ phase = "backupOwner"
  /\ handle' = [handle EXCEPT !.backup = FALSE]
  /\ \/ Next1("trunc")
     \/ Faults /\ JobFailed("noBackup")
  /\ UNCHANGED <<job, was, others, seen, entry, body, copy, fhs, cursor>>

(* replace_trunc_cb *)
ReplaceTruncCb ==
  /\ phase = "trunc"
  /\ \/ /\ IsFile(Resolve("file")) \/ Resolve("file") = "none"
        /\ CreateAt("file", "n")
        /\ body' = IF IsFile(Resolve("file")) THEN [body EXCEPT ![Resolve("file")] = <<>>] ELSE body
        /\ Opened(<<>>, 0)
     \/ Faults /\ JobFailed("error") /\ UNCHANGED <<entry, body, handle, fhs, cursor>>
  /\ UNCHANGED <<job, was, others, seen, copy>>

-----------------------------------------------------------------------------

(* try_write and write_cb: the client goes on from what was written.       *)
WriteCb ==
  /\ phase = "writing"
  /\ LET at == (IF handle.append THEN Len(body[handle.fh]) ELSE handle.offset) + 1
         mine == (IF handle.append THEN Len(cursor.content) ELSE cursor.pos) + 1
     IN  /\ at <= MaxLen /\ mine <= MaxLen
         /\ body' = [body EXCEPT ![handle.fh] = Put(@, at, "new")]
         /\ handle' = [handle EXCEPT !.offset = at]
         /\ cursor' = [content |-> Put(cursor.content, mine, "new"), pos |-> mine]
  /\ UNCHANGED <<job, was, others, seen, entry, phase, copy, fhs, answers>>

(* try_seek_on_write and seek_on_write_cb *)
SeekOnWrite ==
  /\ phase = "writing" /\ ~handle.append
  /\ \E at \in {0, Len(body[handle.fh])} :
       handle' = [handle EXCEPT !.offset = at] /\ cursor' = [cursor EXCEPT !.pos = at]
  /\ UNCHANGED <<job, was, entry, body, others, seen, phase, copy, fhs, answers>>

(* try_truncate *)
Truncate ==
  /\ phase = "writing"
  /\ \E n \in 0 .. 1 : /\ body' = [body EXCEPT ![handle.fh] = Cut(@, n)]
                       /\ cursor' = [cursor EXCEPT !.content = Cut(@, n)]
  /\ UNCHANGED <<job, was, entry, others, seen, phase, handle, copy, fhs, answers>>

-----------------------------------------------------------------------------
(* try_close_write: the size and the times are asked for first             *)
CloseWrite ==
  /\ phase = "writing" /\ phase' = "closeStat"
  /\ UNCHANGED <<job, was, entry, body, others, seen, handle, copy, fhs, cursor, answers>>

(* close_stat_cb: whatever the stat brought, the file is closed.           *)
CloseStatCb ==
  /\ phase = "closeStat" /\ phase' = IF handle.tempname THEN "closeTemp" ELSE "close"
  /\ UNCHANGED <<job, was, entry, body, others, seen, handle, copy, fhs, cursor, answers>>

(* generic_cb as the callback of the close and of the last rename          *)
GenericCb(ok) == JobFailed(IF ok THEN "closed" ELSE "error")

CloseCb ==
  /\ phase = "close" /\ fhs' = {}
  /\ \E ok \in {TRUE, ~Faults} : GenericCb(ok)
  /\ UNCHANGED <<job, was, entry, body, others, seen, handle, copy, cursor>>

(* close_write_cb *)
CloseWriteCb ==
  /\ phase = "closeTemp" /\ fhs' = {}
  /\ \/ Next1(IF handle.backup THEN "closeBackup" ELSE "closeRename")
     \/ Faults /\ JobFailed("error")
  /\ UNCHANGED <<job, was, entry, body, others, seen, handle, copy, cursor>>

(* close_backup_cb *)
CloseBackupCb ==
  /\ phase = "closeBackup"
  /\ \/ /\ entry["file"] # "none" /\ Next1("closeRename")
        \* renaming a name over another name of the same file does nothing
        /\ entry' = IF entry["file"] = entry["backup"] THEN entry
                    ELSE [entry EXCEPT !["backup"] = entry["file"], !["file"] = "none"]
     \/ (Faults \/ entry["file"] = "none") /\ JobFailed("noBackup") /\ UNCHANGED entry
  /\ UNCHANGED <<job, was, body, others, seen, handle, copy, fhs, cursor>>

(* The rename of the temporary file, and generic_cb with its result.       *)
CloseRenameCb ==
  /\ phase = "closeRename"
  /\ \/ entry' = [entry EXCEPT !["file"] = "t", !["temp"] = "none"] /\ GenericCb(TRUE)
     \/ Faults /\ GenericCb(FALSE) /\ UNCHANGED entry
  /\ UNCHANGED <<job, was, body, others, seen, handle, copy, fhs, cursor>>

-----------------------------------------------------------------------------
(* Another client of the server makes the file, changes it or removes it.  *)
OtherClient ==
  /\ Disturbed /\ others = "none" /\ phase # "done"
  /\ \/ /\ entry["file"] = "none" /\ entry' = [entry EXCEPT !["file"] = "x"]
        /\ others' = "made" /\ UNCHANGED body
     \/ /\ Resolve("file") = "o" /\ body' = [body EXCEPT !["o"] = Theirs]
        /\ others' = "modified" /\ UNCHANGED entry
     \/ /\ entry["file"] = "o" /\ entry' = [entry EXCEPT !["file"] = "none"]
        /\ others' = "removed" /\ UNCHANGED body
  /\ UNCHANGED <<job, was, seen, phase, handle, copy, fhs, cursor, answers>>

Done == phase = "done" /\ UNCHANGED vars

Next ==
  \/ OpenForWriteStatCb \/ OpenForWriteCreateCb \/ ReplaceCreateCb \/ ReplaceLstatCb
  \/ ReplaceStatLinkCb \/ ReplaceTempCb \/ ReplaceTempChownCb \/ ReplaceTempChmodCb
  \/ ReplaceRmBackupCb \/ CopyOpenSourceCb \/ CopyOpenDestCb \/ CopyReadCb \/ CopyWriteCb
  \/ ReplaceBackupChownCb \/ ReplaceTruncCb
  \/ WriteCb \/ SeekOnWrite \/ Truncate \/ CloseWrite \/ CloseStatCb \/ CloseCb
  \/ CloseWriteCb \/ CloseBackupCb \/ CloseRenameCb
  \/ OtherClient \/ Done

Spec == Init /\ [][Next]_vars

-----------------------------------------------------------------------------
Succeeded == answers # <<>> /\ answers[Len(answers)] = "closed"
Reads(n, c) == IsFile(Resolve(n)) /\ body[Resolve(n)] = c
HadOld == was = "o" \/ (was = "link" /\ entry["other"] = "o")

(* While a file is replaced with a backup, or through a temporary file,    *)
(* its old content can be read under its name or the backup's until the    *)
(* whole new content is there, whichever call fails (replace_truncate,     *)
(* close_backup_cb, close_write_cb).                                       *)
NeverBothLost ==
  job.mode = "replace" /\ HadOld /\ others = "none" /\ (job.backup \/ handle.tempname)
    => Reads("file", Old) \/ Reads("backup", Old) \/ (Succeeded /\ Reads("file", cursor.content))

(* A successful replace with a backup leaves the old content under the     *)
(* backup's name (replace_backup_cb, close_backup_cb).                     *)
BackupKept ==
  job.backup /\ HadOld /\ others = "none" /\ Succeeded => Reads("backup", Old)

(* A close that succeeds leaves under the file's name exactly what the     *)
(* client wrote, over what was there for append and edit (close_write_cb,  *)
(* write_cb, try_truncate).                                                *)
ClosedMeansWritten ==
  Succeeded /\ others = "none" => Reads("file", cursor.content)

(* Through a second name, or the target of a link, the new content is seen *)
(* as well unless the destination was to be replaced: a file with several  *)
(* names is never replaced by a new inode (replace_stat_cb).               *)
LinksKept ==
  Succeeded /\ others = "none" /\ HadOld /\ entry["other"] = "o" /\ ~job.replaceDest
    => Reads("other", cursor.content)

(* What another client wrote before the job looked at the file is kept     *)
(* when the client gave an etag (replace_stat_cb).                         *)
EtagGuards ==
  job.etag /\ others = "modified" /\ seen # "before" => Reads("file", Theirs)

(* A file another client made first is never opened by create, and what it *)
(* holds is kept (open_for_write_create with O_EXCL).                      *)
CreatedIsNew ==
  job.mode = "create" /\ others = "made" /\ handle.fh # "n" => Reads("file", Theirs) /\ handle.fh # "x"

(* A job that is over, on whichever of its error paths, has no file open   *)
(* at the server (copy_handle_complete, replace_temp_chown_cb,             *)
(* replace_temp_chmod_cb).                                                 *)
FilesClosed == phase = "done" => fhs = {}

=============================================================================
