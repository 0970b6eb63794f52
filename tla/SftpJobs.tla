------------------------------ MODULE SftpJobs ------------------------------
(***************************************************************************)
(* The SFTP backend's jobs on names and directories, and the opening of    *)
(* files for reading (daemon/gvfsbackendsftp.c).  Each job is a chain of   *)
(* requests and reply handlers; the chains of several jobs interleave on   *)
(* the server, which executes a request when it answers it.                *)
(***************************************************************************)
EXTENDS Integers, Sequences, FiniteSets

CONSTANTS
  Jobs,         \* the jobs that run concurrently
  Ops,          \* the operations they may be: see Kinds
  LateFailure   \* may OPEN fail for an unknown reason after STAT was answered?

Kinds == {"open", "enumerate", "info", "move", "rename", "symlink", "mkdir", "delete", "mode", "time"}
JobsAssumption == Ops \subseteq Kinds /\ LateFailure \in BOOLEAN

Names == {"a", "b"}                     \* two names in one directory
Entries == {"dot", "plain", "link"}     \* the directory that is enumerated
Things == {"none", "file1", "file2", "dir", "full", "link"}

VARIABLES
  tree,     \* what each name is on the server
  job,      \* each job: its operation, its name and options, its answer
  pending,  \* the requests of each job that are not answered
  handles,  \* the handles open on the server, by job
  infos,    \* the entries an enumeration reported, in order
  gone      \* contents that were removed, with the operation that did it

vars == <<tree, job, pending, handles, infos, gone>>

NoJob == [op |-> "none", name |-> "a", overwrite |-> FALSE, follow |-> FALSE, readlink |-> FALSE,
          failed |-> FALSE, outstanding |-> 0, answer |-> <<>>, done |-> 0]

TypeOK ==
  /\ tree \in [Names -> Things]
  /\ \A j \in Jobs :
       /\ job[j].op \in {"none"} \cup Kinds /\ job[j].outstanding \in 0 .. Cardinality(Entries) + 1
       /\ job[j].answer \in Seq({"ok", "error"})
  /\ \A j \in Jobs : IsFiniteSet(pending[j])
  /\ handles \subseteq Jobs

Init ==
  /\ tree \in [Names -> Things] /\ {tree["a"], tree["b"]} \notin {{"file1"}, {"file2"}}
  /\ job = [j \in Jobs |-> NoJob] /\ pending = [j \in Jobs |-> {}]
  /\ handles = {} /\ infos = [j \in Jobs |-> <<>>] /\ gone = {}

-----------------------------------------------------------------------------
Other(n) == IF n = "a" THEN "b" ELSE "a"
Finished(j) == job[j].answer # <<>>
Answers(j, a) == job' = [job EXCEPT ![j].answer = Append(@, a)]

\* The reply to request r of job j is handled; the requests rs follow.
Handled(j, r, rs) == pending' = [pending EXCEPT ![j] = (@ \ {r}) \cup rs]
FsRest == <<handles, infos>>

FirstRequests(op, follow, readlink) ==
  CASE op = "open" -> {"STAT", "OPEN"} [] op = "enumerate" -> {"OPENDIR"}
    [] op = "info" -> {"LSTAT"} \cup (IF follow THEN {"STAT"} ELSE {}) \cup (IF readlink THEN {"READLINK"} ELSE {})
    [] op = "move" -> {"LSTAT2"} [] op = "rename" -> {"RENAME"} [] op = "symlink" -> {"SYMLINK"}
    [] op = "mkdir" -> {"MKDIR"} [] op = "delete" -> {"LSTAT"} [] op = "mode" -> {"SETSTAT"}
    [] OTHER -> {"LSTAT"}

(* The try_ functions: each queues the first requests of its chain. *)
Start(j, op, n, overwrite, follow, readlink) ==
  /\ job[j].op = "none" /\ op \in Ops
  /\ job' = [job EXCEPT ![j] = [NoJob EXCEPT !.op = op, !.name = n, !.overwrite = overwrite,
                                            !.follow = follow, !.readlink = readlink]]
  /\ pending' = [pending EXCEPT ![j] = FirstRequests(op, follow, readlink)]
  /\ UNCHANGED <<tree, gone, FsRest>>

\* A RENAME on the server: SFTP version 3 refuses to replace a name.
Renamed(from, to) == tree' = [tree EXCEPT ![to] = tree[from], ![from] = "none"]
MayRename(from, to) == tree[from] # "none" /\ tree[to] = "none"
Removed(n, why) == gone' = gone \cup (IF tree[n] \in {"file1", "file2"} THEN {<<tree[n], why>>} ELSE {})

-----------------------------------------------------------------------------
(* open_stat_reply: a directory fails the job; otherwise the reply only    *)
(* answers for an OPEN that failed for an unknown reason.                  *)
OpenStatReply(j) ==
  /\ job[j].op = "open" /\ "STAT" \in pending[j] /\ Handled(j, "STAT", {})
  /\ IF ~Finished(j) /\ (tree[job[j].name] \in {"dir", "full"} \/ job[j].failed)
     THEN Answers(j, "error") ELSE UNCHANGED job
  /\ UNCHANGED <<tree, gone, FsRest>>

(* open_for_read_reply: a handle that comes after the job was failed is    *)
(* closed at once.                                                         *)
OpenForReadReply(j) ==
  /\ job[j].op = "open" /\ "OPEN" \in pending[j] /\ Handled(j, "OPEN", {})
  /\ \/ /\ tree[job[j].name] \notin {"none", "full"}   \* a server may open a directory
        /\ IF Finished(j) THEN UNCHANGED <<job, handles>>
           ELSE Answers(j, "ok") /\ handles' = handles \cup {j}
     \/ /\ IF Finished(j) THEN UNCHANGED job ELSE Answers(j, "error")
        /\ UNCHANGED handles
     \/ /\ LateFailure \/ "STAT" \in pending[j]
        /\ job' = IF Finished(j) THEN job ELSE [job EXCEPT ![j].failed = TRUE]
        /\ UNCHANGED handles
  /\ UNCHANGED <<tree, gone, infos>>

(* try_close_read and close_read_reply *)
CloseRead(j) ==
  /\ job[j].op = "open" /\ j \in handles /\ handles' = handles \ {j}
  /\ UNCHANGED <<tree, gone, infos, job, pending>>

-----------------------------------------------------------------------------
Enumerating(j) == job[j].op = "enumerate"

\* --data->outstanding_requests, and the enumeration is done when none is left
Dropped(e, d) == [e EXCEPT !.outstanding = @ - 1 + d, !.done = IF e.outstanding - 1 + d = 0 THEN @ + 1 ELSE @]

(* open_dir_reply with open_dir_error *)
OpenDirReply(j) ==
  /\ Enumerating(j) /\ "OPENDIR" \in pending[j]
  /\ \/ /\ job' = [job EXCEPT ![j].answer = Append(@, "ok"), ![j].outstanding = 1]
        /\ handles' = handles \cup {j} /\ Handled(j, "OPENDIR", {"READDIR"})
     \/ Answers(j, "error") /\ Handled(j, "OPENDIR", {}) /\ UNCHANGED handles
  /\ UNCHANGED <<tree, gone, infos>>

Readlink == [plain |-> "READLINK plain", link |-> "READLINK link"]

(* read_dir_reply with names: "." is left out, links are followed when     *)
(* that was asked for, and the next READDIR is sent.                       *)
ReadDirReply(j) ==
  /\ Enumerating(j) /\ "READDIR" \in pending[j] /\ infos[j] = <<>> /\ "READLINK plain" \notin pending[j]
  /\ LET stats == IF job[j].follow THEN {"STAT link"} ELSE {}
         shown == IF job[j].follow THEN {"plain"} ELSE {"plain", "link"}
         links == IF job[j].readlink THEN {Readlink[e] : e \in shown} ELSE {} IN
     /\ Handled(j, "READDIR", {"READDIR2"} \cup stats \cup links)
     /\ job' = [job EXCEPT ![j].outstanding = @ + Cardinality(stats) + Cardinality(links)]
     /\ infos' = [infos EXCEPT ![j] = IF job[j].readlink THEN @
                    ELSE @ \o (IF job[j].follow THEN <<"plain">> ELSE <<"plain", "link">>)]
  /\ UNCHANGED <<tree, gone, handles>>

(* read_dir_reply at the end of the directory: the handle is closed. *)
ReadDirEnd(j) ==
  /\ Enumerating(j) /\ \E r \in {"READDIR", "READDIR2"} \cap pending[j] : Handled(j, r, {})
  /\ handles' = handles \ {j} /\ job' = [job EXCEPT ![j] = Dropped(@, 0)]
  /\ UNCHANGED <<tree, gone, infos>>

(* read_dir_symlink_reply: the target's attributes, or the link's own. *)
ReadDirSymlinkReply(j) ==
  /\ Enumerating(j) /\ "STAT link" \in pending[j]
  /\ IF job[j].readlink
     THEN /\ Handled(j, "STAT link", {"READLINK link"})
          /\ job' = [job EXCEPT ![j] = Dropped(@, 1)] /\ UNCHANGED infos
     ELSE /\ Handled(j, "STAT link", {})
          /\ infos' = [infos EXCEPT ![j] = Append(@, "link")]
          /\ job' = [job EXCEPT ![j] = Dropped(@, 0)]
  /\ UNCHANGED <<tree, gone, handles>>

(* read_dir_readlink_reply *)
ReadDirReadlinkReply(j, e) ==
  /\ Enumerating(j) /\ Readlink[e] \in pending[j] /\ Handled(j, Readlink[e], {})
  /\ infos' = [infos EXCEPT ![j] = Append(@, e)] /\ job' = [job EXCEPT ![j] = Dropped(@, 0)]
  /\ UNCHANGED <<tree, gone, handles>>

-----------------------------------------------------------------------------
(* query_info_reply, once LSTAT, STAT and READLINK are all answered (see   *)
(* SftpConnection's MultiRequest); query_fs_info_reply and                 *)
(* query_info_fstat_reply answer their single request the same way.        *)
QueryInfoReply(j) ==
  /\ job[j].op = "info" /\ pending[j] # {} /\ pending' = [pending EXCEPT ![j] = {}]
  /\ Answers(j, IF tree[job[j].name] = "none" THEN "error" ELSE "ok")
  /\ UNCHANGED <<tree, gone, FsRest>>

MoveLstatReply_IgnoresFlag(j) ==
  /\ job[j].op = "move" /\ "LSTAT2" \in pending[j]
  /\ LET s == tree[job[j].name]  d == tree[Other(job[j].name)] IN
     IF s = "none" \/ d \in {"dir", "full"}
     THEN Answers(j, "error") /\ Handled(j, "LSTAT2", {})
     ELSE UNCHANGED job /\ Handled(j, "LSTAT2", {IF d = "none" THEN "RENAME" ELSE "REMOVE"})
  /\ UNCHANGED <<tree, gone, FsRest>>

(* move_lstat_reply: with both looked at, the target is removed first if   *)
(* it may be overwritten.                                                  *)
MoveLstatReply(j) ==
  /\ job[j].op = "move" /\ "LSTAT2" \in pending[j]
  /\ LET s == tree[job[j].name]  d == tree[Other(job[j].name)] IN
     IF s = "none" \/ d \in {"dir", "full"} \/ (d # "none" /\ ~job[j].overwrite)
     THEN Answers(j, "error") /\ Handled(j, "LSTAT2", {})
     ELSE UNCHANGED job /\ Handled(j, "LSTAT2", {IF d = "none" THEN "RENAME" ELSE "REMOVE"})
  /\ UNCHANGED <<tree, gone, FsRest>>

(* move_delete_target_reply *)
MoveDeleteTargetReply(j) ==
  /\ job[j].op = "move" /\ "REMOVE" \in pending[j]
  /\ LET d == Other(job[j].name) IN
     \/ /\ tree[d] \in {"file1", "file2", "link"} /\ Removed(d, "overwrite")
        /\ tree' = [tree EXCEPT ![d] = "none"] /\ Handled(j, "REMOVE", {"RENAME"}) /\ UNCHANGED job
     \/ Answers(j, "error") /\ Handled(j, "REMOVE", {}) /\ UNCHANGED <<tree, gone>>
  /\ UNCHANGED FsRest

(* move_reply, set_display_name_reply *)
RenameReply(j) ==
  /\ job[j].op \in {"move", "rename"} /\ "RENAME" \in pending[j] /\ Handled(j, "RENAME", {})
  /\ LET n == job[j].name IN
     IF MayRename(n, Other(n)) THEN Renamed(n, Other(n)) /\ Answers(j, "ok")
     ELSE Answers(j, "error") /\ UNCHANGED tree
  /\ UNCHANGED <<gone, FsRest>>

(* make_symlink_reply *)
MakeSymlinkReply(j) ==
  /\ job[j].op = "symlink" /\ "SYMLINK" \in pending[j] /\ Handled(j, "SYMLINK", {})
  /\ IF tree[job[j].name] = "none"
     THEN tree' = [tree EXCEPT ![job[j].name] = "link"] /\ Answers(j, "ok")
     ELSE Answers(j, "error") /\ UNCHANGED tree
  /\ UNCHANGED <<gone, FsRest>>

(* make_directory_reply; a failure is explained by another request. *)
MakeDirectoryReply(j) ==
  /\ job[j].op = "mkdir" /\ "MKDIR" \in pending[j]
  /\ IF tree[job[j].name] = "none"
     THEN /\ tree' = [tree EXCEPT ![job[j].name] = "dir"] /\ Answers(j, "ok")
          /\ Handled(j, "MKDIR", {})
     ELSE Handled(j, "MKDIR", {"MKSTAT"}) /\ UNCHANGED <<tree, job>>
  /\ UNCHANGED <<gone, FsRest>>

(* mkdir_stat_reply *)
MkdirStatReply(j) ==
  /\ "MKSTAT" \in pending[j] /\ Handled(j, "MKSTAT", {}) /\ Answers(j, "error")
  /\ UNCHANGED <<tree, gone, FsRest>>

(* delete_lstat_reply: what the name was decides how it is removed. *)
DeleteLstatReply(j) ==
  /\ job[j].op = "delete" /\ "LSTAT" \in pending[j]
  /\ LET t == tree[job[j].name] IN
     IF t = "none" THEN Answers(j, "error") /\ Handled(j, "LSTAT", {})
     ELSE UNCHANGED job /\ Handled(j, "LSTAT", {IF t \in {"dir", "full"} THEN "RMDIR" ELSE "REMOVE"})
  /\ UNCHANGED <<tree, gone, FsRest>>

(* delete_remove_reply, delete_rmdir_reply *)
DeleteReply(j, r) ==
  /\ job[j].op = "delete" /\ r \in {"RMDIR", "REMOVE"} \cap pending[j] /\ Handled(j, r, {})
  /\ LET n == job[j].name IN
     IF tree[n] \in (IF r = "RMDIR" THEN {"dir"} ELSE {"file1", "file2", "link"})
     THEN tree' = [tree EXCEPT ![n] = "none"] /\ Removed(n, "delete") /\ Answers(j, "ok")
     ELSE Answers(j, "error") /\ UNCHANGED <<tree, gone>>
  /\ UNCHANGED FsRest

(* try_set_attribute, set_attribute_reply *)
SetModeReply(j) ==
  /\ job[j].op \in {"mode", "time"} /\ "SETSTAT" \in pending[j] /\ Handled(j, "SETSTAT", {})
  /\ Answers(j, IF tree[job[j].name] = "none" THEN "error" ELSE "ok")
  /\ UNCHANGED <<tree, gone, FsRest>>

(* set_attribute_stat_reply: both times are sent, the one that is not set  *)
(* as it was read.                                                         *)
SetTimeStatReply(j) ==
  /\ job[j].op = "time" /\ "LSTAT" \in pending[j]
  /\ IF tree[job[j].name] = "none" THEN Answers(j, "error") /\ Handled(j, "LSTAT", {})
     ELSE UNCHANGED job /\ Handled(j, "LSTAT", {"SETSTAT"})
  /\ UNCHANGED <<tree, gone, FsRest>>

Reply(j) ==
  \/ OpenStatReply(j) \/ OpenForReadReply(j) \/ CloseRead(j)
  \/ OpenDirReply(j) \/ ReadDirReply(j) \/ ReadDirEnd(j) \/ ReadDirSymlinkReply(j)
  \/ (\E e \in {"plain", "link"} : ReadDirReadlinkReply(j, e))
  \/ QueryInfoReply(j) \/ MoveLstatReply(j) \/ MoveDeleteTargetReply(j) \/ RenameReply(j)
  \/ MakeSymlinkReply(j) \/ MakeDirectoryReply(j) \/ MkdirStatReply(j)
  \/ DeleteLstatReply(j) \/ (\E r \in {"RMDIR", "REMOVE"} : DeleteReply(j, r))
  \/ SetModeReply(j) \/ SetTimeStatReply(j)

Next == \E j \in Jobs :
  \/ \E op \in Ops, n \in Names, o \in BOOLEAN :
       IF op \in {"enumerate", "info"}
       THEN \E r \in BOOLEAN : Start(j, op, n, FALSE, o, r)
       ELSE Start(j, op, n, o /\ op = "move", FALSE, FALSE)
  \/ Reply(j)

(* The server answers the requests of every job. *)
Spec == Init /\ [][Next]_vars /\ \A j \in Jobs : WF_vars(Reply(j))

-----------------------------------------------------------------------------
(* A job is answered once, an enumeration is done once: not while a        *)
(* request of it is outstanding, and not before every entry was reported,  *)
(* each of them once.                                                      *)
AnsweredOnce == \A j \in Jobs : Len(job[j].answer) <= 1 /\ job[j].done <= 1
EnumerationComplete ==
  \A j \in Jobs :
    /\ Len(infos[j]) = Cardinality({infos[j][i] : i \in 1 .. Len(infos[j])})
    /\ job[j].done > 0 => pending[j] = {}

(* A handle that is open on the server belongs to a job that was told of   *)
(* it, or to an enumeration that is not done.                              *)
HandlesOwned ==
  \A j \in handles : job[j].answer = <<"ok">> /\ (Enumerating(j) => job[j].done = 0)

(* The content of a file goes only with a delete of it, or with a move     *)
(* that was allowed to overwrite it: what another job did between the      *)
(* requests of a move never makes it destroy a file.                       *)
OnlyOverwritesAsked ==
  \A g \in gone : \E j \in Jobs :
    \/ g[2] = "delete" /\ job[j].op = "delete"
    \/ g[2] = "overwrite" /\ job[j].op = "move" /\ job[j].overwrite

=============================================================================
