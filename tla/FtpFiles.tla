------------------------------ MODULE FtpFiles ------------------------------
(***************************************************************************)
(* The file operations of the FTP backend (gvfsbackendftp.c) and its       *)
(* directory cache (gvfsftpdircache.c).  A job is a thread that sends one  *)
(* command after the other; each command, and each access to the cache     *)
(* under its lock, is one action.  The server has a directory "/" with the *)
(* names a, a~, b and the directory d, which may hold d/a.                 *)
(***************************************************************************)
EXTENDS Integers, Sequences, FiniteSets, TLC

CONSTANTS Thread,     \* job threads
          Ops,        \* the kinds of jobs that are started
          MaxJobs,    \* bound: jobs started
          MaxFaults   \* bound: commands that fail for no reason of the file system

Files == {"a", "a~", "b", "d", "d/a"}
Dirs == {"/", "d"}
Parent(f) == IF f = "d/a" THEN "d" ELSE "/"
None == "none"
Dir == "dir"
Old == {"A", "B", "C"}
NoListing == {"not cached"}

VARIABLES fs,       \* the server's files: name -> content
          cache,    \* cache->directories: dir -> [files, stamp]
          stamp,    \* cache->stamp
          job,      \* what each thread does
          streams,  \* files open for writing
          jobs, faults

vars == <<fs, cache, stamp, job, streams, jobs, faults>>

NotCached == [files |-> NoListing, stamp |-> 0]

Free == [op |-> "none", src |-> "a", dst |-> "a", flag |-> FALSE, pc |-> "free",
         ret |-> "free", look |-> "a", dir |-> "/", stamp |-> 0, list |-> {}, found |-> FALSE,
         err |-> FALSE, did |-> FALSE, answers |-> 0, old |-> None, seen |-> {}]

Listing(dir) == {f \in Files : Parent(f) = dir /\ fs[f] /= None}

\* What the server accepts.
CanStore(f) == fs[f] /= Dir /\ (Parent(f) = "d" => fs["d"] = Dir)
CanRename(f, g) == fs[f] /= None /\ CanStore(g) /\ (fs[f] = Dir => fs[g] = None)
                   /\ ~(f = "d" /\ g = "d/a")

Init == /\ fs \in {[f \in Files |-> CASE f = "a" -> "A" [] f = "a~" -> x [] f = "b" -> "B"
                                       [] f = "d" -> Dir [] f = "d/a" -> y] :
                   x \in {None, "C"}, y \in {None, "C"}}
        /\ cache = [d \in Dirs |-> NotCached] /\ stamp = 0
        /\ job = [t \in Thread |-> Free]
        /\ streams = {} /\ jobs = 0 /\ faults = 0
-----------------------------------------------------------------------------
Go(t, fields) == job' = [job EXCEPT ![t] = fields @@ @]

\* Listings that a running enumeration of the directory may report: history.
Watch(j, new) ==
    [t \in Thread |->
       IF j[t].op = "enumerate" /\ j[t].pc /= "free"
       THEN [j[t] EXCEPT !.seen = @ \cup {{f \in Files : Parent(f) = j[t].dir /\ new[f] /= None}}]
       ELSE j[t]]

\* A command that changes the server's files, and what the task does next.
Change(t, new, fields) ==
    /\ fs' = new
    /\ job' = Watch([job EXCEPT ![t] = fields @@ @], new)
    /\ UNCHANGED <<cache, stamp, streams, jobs, faults>>

\* A command that fails without an effect (out of space, connection lost).
Fault(t, fields) ==
    /\ faults < MaxFaults /\ faults' = faults + 1
    /\ Go(t, fields)
    /\ UNCHANGED <<fs, cache, stamp, streams, jobs>>

Only(t, fields) == Go(t, fields) /\ UNCHANGED <<fs, cache, stamp, streams, jobs, faults>>

\* g_vfs_ftp_dir_cache_purge_file
Purge(f) == [cache EXCEPT ![Parent(f)] = NotCached]

FirstPc(op, flag) ==
    CASE op \in {"create", "query"} -> "lookup"
      [] op = "enumerate" -> "lookup"
      [] op \in {"append", "write"} -> "stor"
      [] op = "replace" -> IF flag THEN "lookup" ELSE "stor"
      [] op = "rename" -> "rnfr"
      [] op = "delete" -> "dele"
      [] op = "mkdir" -> "mkd"
      [] op = "move" -> "cwd"
      [] op = "pull" -> IF flag THEN "lookup" ELSE "retr"
      [] op = "pullaway" -> "retr"
      [] OTHER -> "setattr"

\* The pc the job continues with once g_vfs_ftp_dir_cache_lookup_file returns.
AfterLookup(op) == CASE op = "create" -> "exists"
                     [] op = "replace" -> "backup"
                     [] op = "move" -> "exists"
                     [] op = "pull" -> "symlink"
                     [] op = "delete" -> "purge"
                     [] op = "mkdir" -> "purge"
                     [] OTHER -> "answer"

\* do_create, do_replace, ... with the arguments the job came with.
Start(t, op, src, dst, flag) ==
    /\ job[t].pc = "free" /\ jobs < MaxJobs /\ op \in Ops
    /\ src \in (CASE op = "mkdir" -> {"b", "d"} [] op = "delete" -> {"a", "d"}
                  [] op = "enumerate" -> {"a", "d/a"} [] OTHER -> {"a", "d/a"})
    /\ IF op \in {"move", "rename"} THEN dst \in {"b", "d"} /\ src = "a"
                                    ELSE dst = "a~" /\ (op = "replace" => src = "a")
    /\ op \in {"rename", "delete", "mkdir", "append", "query", "enumerate", "create",
               "pullaway"} => ~flag
    /\ src \notin streams
    /\ jobs' = jobs + 1
    /\ stamp' = IF op = "enumerate" THEN stamp + 1 ELSE stamp
    /\ job' = [job EXCEPT ![t] =
                 [Free EXCEPT !.op = op, !.src = src, !.flag = flag, !.pc = FirstPc(op, flag),
                              !.dst = IF op = "rename" /\ dst = "d" THEN "a~" ELSE dst,
                              !.look = src, !.dir = Parent(src), !.ret = AfterLookup(op),
                              !.stamp = IF op = "enumerate" THEN stamp + 1 ELSE 0,
                              !.seen = IF op = "enumerate" THEN {Listing(Parent(src))} ELSE {}]]
    /\ UNCHANGED <<fs, cache, streams, faults>>
-----------------------------------------------------------------------------
\* g_vfs_ftp_dir_cache_lookup_file_internal has the listing of the directory.
Looked(t, files) ==
    LET found == job[t].look \in files IN
    [list |-> files, found |-> found,
     pc |-> IF found \/ job[t].op = "enumerate" THEN job[t].ret ELSE "probe"]

\* g_vfs_ftp_dir_cache_lookup_entry: an entry that is at least as new as asked
\* for is used; otherwise CWD and LIST, and the entry is stored afterwards.
LookupEntry(t) ==
    LET entry == cache[job[t].dir] IN
    /\ job[t].pc = "lookup"
    /\ IF entry.files /= NoListing /\ entry.stamp >= job[t].stamp
       THEN Only(t, Looked(t, entry.files))
       ELSE Only(t, [pc |-> "list"])

FetchEntry(t) ==
    /\ job[t].pc = "list"
    /\ \/ (job[t].dir = "d" => fs["d"] = Dir) /\ Only(t, [list |-> Listing(job[t].dir), pc |-> "insert"])
       \/ job[t].dir = "d" /\ fs["d"] /= Dir /\ Only(t, [pc |-> "answer", err |-> TRUE])
       \/ Fault(t, [pc |-> "answer", err |-> TRUE])

InsertEntry(t) ==
    /\ job[t].pc = "insert"
    /\ cache' = [cache EXCEPT ![job[t].dir] = [files |-> job[t].list, stamp |-> job[t].stamp]]
    /\ Go(t, Looked(t, job[t].list))
    /\ UNCHANGED <<fs, stamp, streams, jobs, faults>>

\* g_vfs_ftp_dir_cache_funcs_lookup_uncached: a name the listing does not have
\* is asked for with CWD and SIZE.
LookupUncached(t) ==
    /\ job[t].pc = "probe"
    /\ Only(t, [found |-> fs[job[t].look] /= None, pc |-> job[t].ret])

\* do_query_info, do_enumerate, and the error handlers of a 550 reply have what
\* they looked for in found and list.

\* do_create, do_move: the target must not exist.
ExistsCheck(t) ==
    /\ job[t].pc = "exists"
    /\ Only(t, IF job[t].found THEN [pc |-> "answer", err |-> TRUE]
               ELSE [pc |-> IF job[t].op = "move" THEN "rnfr" ELSE "stor"])
-----------------------------------------------------------------------------
\* do_start_write: STOR or APPE; the file is open until do_close_write.
StartWrite(t) ==
    LET f == job[t].src IN
    /\ job[t].pc = "stor"
    /\ \/ /\ CanStore(f)
          /\ fs' = [fs EXCEPT ![f] = IF job[t].op = "append" /\ @ /= None THEN @ ELSE "part"]
          /\ streams' = streams \cup {f}
          /\ job' = Watch([job EXCEPT ![t].pc = "purge", ![t].did = TRUE], fs')
          /\ UNCHANGED <<cache, stamp, jobs, faults>>
       \/ ~CanStore(f) /\ Only(t, [pc |-> "purge", err |-> TRUE])
       \/ Fault(t, [pc |-> "purge", err |-> TRUE])

\* do_close_write: the final reply of the transfer.
CloseWrite(t) ==
    /\ job[t].pc = "free" /\ "write" \in Ops
    /\ \E f \in streams :
        /\ streams' = streams \ {f}
        /\ fs' = [fs EXCEPT ![f] = IF @ = None THEN None ELSE "new"]
        /\ job' = Watch([job EXCEPT ![t] = [Free EXCEPT !.op = "close", !.src = f, !.did = TRUE,
                                                        !.pc = "purge"]], fs')
    /\ UNCHANGED <<cache, stamp, jobs, faults>>

\* do_replace: DELE the old backup, RNFR, RNTO; an error ends the job with
\* CANT_CREATE_BACKUP.
Backup(t) ==
    /\ job[t].pc = "backup"
    /\ IF ~job[t].found THEN Only(t, [pc |-> "stor", old |-> fs[job[t].src]])
       ELSE \/ /\ cache' = Purge("a~")
               /\ fs' = [fs EXCEPT !["a~"] = None]
               /\ job' = Watch([job EXCEPT ![t].pc = "bakrnfr", ![t].old = fs["a"]], fs')
               /\ UNCHANGED <<stamp, streams, jobs, faults>>
            \/ Fault(t, [pc |-> "answer", err |-> TRUE])

BackupRename(t) ==
    /\ job[t].pc = "bakrnfr"
    /\ \/ /\ CanRename("a", "a~")
          /\ Change(t, [fs EXCEPT !["a~"] = fs["a"], !["a"] = None], [pc |-> "bakpurge"])
       \/ ~CanRename("a", "a~") /\ Only(t, [pc |-> "answer", err |-> TRUE])
       \/ Fault(t, [pc |-> "answer", err |-> TRUE])

BackupPurge(t) ==
    /\ job[t].pc = "bakpurge"
    /\ cache' = Purge("a")
    /\ Go(t, [pc |-> "stor"])
    /\ UNCHANGED <<fs, stamp, streams, jobs, faults>>
-----------------------------------------------------------------------------
\* do_move: a target that CWD accepts is a directory to move into.
MoveCwd(t) ==
    LET target == IF fs[job[t].dst] = Dir THEN "d/a" ELSE job[t].dst IN
    /\ job[t].pc = "cwd"
    /\ Only(t, [dst |-> target, look |-> target, dir |-> Parent(target),
                pc |-> IF job[t].flag THEN "rnfr" ELSE "lookup"])

\* RNFR, which the server may refuse, and RNTO (do_move, do_set_display_name).
Rename(t) ==
    LET f == job[t].src g == job[t].dst IN
    /\ job[t].pc = "rnfr"
    /\ \/ /\ CanRename(f, g)
          /\ Change(t, [fs EXCEPT ![g] = fs[f], ![f] = None], [pc |-> "purge", did |-> TRUE])
       \/ ~CanRename(f, g) /\ Only(t, [pc |-> "purge", err |-> TRUE])
       \/ Fault(t, [pc |-> "purge", err |-> TRUE])

\* do_delete: DELE, on a 5xx reply RMD; on its 550 the cached listing of the
\* directory tells "not empty" from other errors.
Delete(t) ==
    LET f == job[t].src IN
    /\ job[t].pc = "dele"
    /\ \/ /\ fs[f] \notin {None, Dir} \/ (f = "d" /\ fs[f] = Dir /\ fs["d/a"] = None)
          /\ Change(t, [fs EXCEPT ![f] = None], [pc |-> "purge", did |-> TRUE])
       \/ /\ fs[f] = None \/ (fs[f] = Dir /\ fs["d/a"] /= None)
          /\ Only(t, [pc |-> "lookup", look |-> "d/a", dir |-> "d", err |-> TRUE])
       \/ Fault(t, [pc |-> "purge", err |-> TRUE])

\* do_make_directory: MKD; a 550 looks whether the name exists.
MakeDirectory(t) ==
    LET f == job[t].src IN
    /\ job[t].pc = "mkd"
    /\ \/ fs[f] = None /\ Change(t, [fs EXCEPT ![f] = Dir], [pc |-> "purge", did |-> TRUE])
       \/ fs[f] /= None /\ Only(t, [pc |-> "lookup", err |-> TRUE])
       \/ Fault(t, [pc |-> "purge", err |-> TRUE])

\* do_pull with NOFOLLOW_SYMLINKS: nothing found leaves without an error.
PullSymlink(t) ==
    /\ job[t].pc = "symlink"
    /\ Only(t, [pc |-> IF job[t].found THEN "retr" ELSE "answer"])

\* RETR and the copy to the local file.
PullCopy(t) ==
    LET f == job[t].src IN
    /\ job[t].pc = "retr"
    /\ \/ /\ fs[f] \notin {None, Dir}
          /\ Go(t, [pc |-> IF job[t].op = "pullaway" THEN "remove" ELSE "answer", did |-> TRUE,
                    old |-> fs[f]])
          /\ UNCHANGED <<fs, cache, stamp, streams, jobs, faults>>
       \/ fs[f] \in {None, Dir} /\ Only(t, [pc |-> "answer", err |-> TRUE])
       \/ Fault(t, [pc |-> "answer", err |-> TRUE])

\* The DELE at the end of a move to a local file: 5xx replies are no error, and
\* the cache keeps the name.
PullRemove(t) ==
    /\ job[t].pc = "remove"
    /\ \/ Change(t, [fs EXCEPT ![job[t].src] = IF @ = Dir THEN @ ELSE None], [pc |-> "answer"])
       \/ Fault(t, [pc |-> "answer", did |-> FALSE])

\* do_set_attribute with the modification time: a wrong type is answered at
\* once, and g_vfs_ftp_task_done answers again.
SetAttribute(t) ==
    /\ job[t].pc = "setattr"
    /\ \/ job[t].flag /\ Only(t, [pc |-> "answer", answers |-> 1, did |-> TRUE])
       \/ ~job[t].flag /\ fs[job[t].src] /= None /\ Only(t, [pc |-> "purge", did |-> TRUE])
       \/ ~job[t].flag /\ Fault(t, [pc |-> "answer", err |-> TRUE])

\* The purge after the commands; both directories for a move.
PurgeFile(t) ==
    /\ job[t].pc = "purge"
    /\ cache' = IF job[t].op = "move"
                THEN [Purge(job[t].src) EXCEPT ![Parent(job[t].dst)] = NotCached]
                ELSE Purge(job[t].src)
    /\ Go(t, [pc |-> "answer"])
    /\ UNCHANGED <<fs, stamp, streams, jobs, faults>>

\* g_vfs_ftp_task_done answers the job.
Done(t) == /\ job[t].pc = "answer"
           /\ Only(t, [pc |-> "ended", answers |-> job[t].answers + 1])

Ended(t) == /\ job[t].pc = "ended"
            /\ job' = [job EXCEPT ![t] = Free]
            /\ UNCHANGED <<fs, cache, stamp, streams, jobs, faults>>

Step(t) == \/ LookupEntry(t) \/ FetchEntry(t) \/ InsertEntry(t) \/ LookupUncached(t)
           \/ ExistsCheck(t) \/ StartWrite(t) \/ CloseWrite(t) \/ Backup(t)
           \/ BackupRename(t) \/ BackupPurge(t) \/ MoveCwd(t) \/ Rename(t) \/ Delete(t)
           \/ MakeDirectory(t) \/ PullSymlink(t) \/ PullCopy(t) \/ PullRemove(t)
           \/ SetAttribute(t) \/ PurgeFile(t) \/ Done(t) \/ Ended(t)

Next == \E t \in Thread :
          \/ \E op \in Ops, src, dst \in Files, flag \in BOOLEAN : Start(t, op, src, dst, flag)
          \/ Step(t)

Spec == Init /\ [][Next]_vars
-----------------------------------------------------------------------------
TypeOK == /\ fs \in [Files -> Old \cup {None, Dir, "part", "new"}]
          /\ \A d \in Dirs : cache[d].files = NoListing \/ cache[d].files \subseteq Files
          /\ \A d \in Dirs : cache[d].stamp <= stamp
          /\ fs["d/a"] /= None => fs["d"] = Dir
          /\ streams \subseteq Files
          /\ \A t \in Thread : job[t].seen \subseteq SUBSET Files

\* A job that asked for a new file, or to move without overwriting, never makes
\* the content of an existing file disappear (one job at a time: FTP cannot
\* check and store in one command).
OnlyOverwritesAsked ==
    \A f \in Files, t \in Thread :
         (/\ fs[f] \in Old /\ fs'[f] /= fs[f] /\ job[t].pc /= "free"
          /\ job[t].op \in {"create", "append", "mkdir"} \/ (job[t].op = "move" /\ ~job[t].flag))
           => \E g \in Files : fs'[g] = fs[f] /\ fs[g] = None

\* do_replace with a backup: when the file is opened for writing its former
\* content is in the backup.
BackupKept ==
    \A t \in Thread :
       (job[t].op = "replace" /\ job[t].flag /\ job[t].did /\ job[t].old \in Old /\ job[t].pc = "purge")
         => fs["a~"] = job[t].old

\* Between jobs the cached listing of a directory is what the server has: every
\* operation that changes names purges the directories it changed, also when
\* it failed half-way.
CacheFresh == (\A t \in Thread : job[t].pc = "free") =>
                 \A d \in Dirs : cache[d].files \in {NoListing, Listing(d)}

\* do_enumerate asks for a fresh listing: what it reports was in the directory
\* at some moment since the job began, whatever other jobs put into the cache.
EnumerateFresh ==
    \A t \in Thread : (job[t].op = "enumerate" /\ job[t].pc = "answer" /\ ~job[t].err)
                        => job[t].list \in job[t].seen

\* A job that is answered with success did what it was asked to.
SuccessMeansDone ==
    \A t \in Thread : (job[t].pc = "ended" /\ ~job[t].err
                       /\ job[t].op \notin {"query", "enumerate"}) => job[t].did

\* A move to a local file removes the source only once the copy is complete.
SourceKept == \A t \in Thread : (job[t].pc = "remove" /\ fs[job[t].src] \in Old
                                     /\ fs'[job[t].src] = None) => job[t].old = fs[job[t].src]

=============================================================================
