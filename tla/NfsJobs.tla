------------------------------- MODULE NfsJobs -------------------------------
(***************************************************************************)
(* The NFS backend's mount and its jobs on names, attributes, directories  *)
(* and files that are read (daemon/gvfsbackendnfs.c).  A job is a chain of *)
(* libnfs calls and their callbacks; the chains of several jobs interleave *)
(* on the server, which executes a call when it answers it.  Callbacks run *)
(* from a main loop source that watches the socket libnfs uses at the time. *)
(***************************************************************************)
EXTENDS Integers, Sequences, SequencesExt, FiniteSets

CONSTANTS
  JobIds,      \* the jobs that run concurrently
  Ops,         \* the operations they may be
  Faults,      \* may calls fail?
  ExportLists, \* the lists of exports a server may have: sequences of paths
  MountPaths,  \* the paths that are mounted
  MaxSockets   \* connections libnfs makes

Kinds == {"open", "enumerate", "info", "move", "rename", "mkdir", "symlink", "delete", "time", "owner"}
NfsJobsAssumption == Ops \subseteq Kinds /\ Faults \in BOOLEAN /\ MaxSockets \in Nat \ {0}

Names == {"a", "b"}                               \* two names in one directory
Entries == {"plain", "sub", "link", "dangling"}   \* the directory that is enumerated
Things == {"none", "file1", "file2", "dir", "full", "link"}  \* "link" leads to a file
Wants == SUBSET {"access", "parent", "target"}    \* attributes that cost another call
TimeFields == {"atime", "atimeUsec", "mtime", "mtimeUsec"}

VARIABLES
  mount,    \* the mount: its state, the path asked for, the server's exports, the one chosen
  source,   \* libnfs' socket and the one NfsSource watches
  tree,     \* what each name is on the server
  times,    \* each name's times, in seconds and nanoseconds
  job,      \* each job
  handles,  \* the handles that are open on the server, by job
  gone      \* what was removed, and whether a client had asked for that

vars == <<mount, source, tree, times, job, handles, gone>>

NoInfo == [entry |-> "none", type |-> "none", symlink |-> FALSE, target |-> FALSE, access |-> FALSE, parent |-> FALSE]
NoJob == [op |-> "none", name |-> "a", flag |-> FALSE, wants |-> {}, call |-> "none", isDir |-> FALSE, saw |-> "none",
          parentKnown |-> FALSE, readlinks |-> <<>>, symlinks |-> <<>>, accesses |-> <<>>, infos |-> <<>>,
          field |-> "atime", answer |-> "none", done |-> FALSE]

TypeOK ==
  /\ mount.state \in {"new", "mounted", "failed", "gone"}
  /\ source.fd \in -1 .. MaxSockets /\ source.watched \in 0 .. MaxSockets
  /\ tree \in [Names -> Things]
  /\ \A n \in Names : DOMAIN times[n] = {"atime", "atimeNsec", "mtime", "mtimeNsec"}
  /\ \A j \in JobIds :
       /\ job[j].op \in Kinds \cup {"none"} /\ job[j].answer \in {"none", "ok", "error"}
       /\ job[j].call \in {"none", "open", "fstat", "accessParent", "opendir", "readlink", "stat", "access",
                           "lstat", "statInfo", "accessInfo", "parentInfo", "readlinkInfo", "lstatSource",
                           "lstatDest", "unlinkDest", "rename", "renameName", "mkdir", "symlink", "unlink",
                           "rmdir", "statTimes", "utimes", "chown"}
       /\ job[j].answer # "none" /\ job[j].op # "enumerate" => job[j].call = "none"
  /\ handles \subseteq JobIds

Init ==
  /\ \E e \in ExportLists, p \in MountPaths : mount = [state |-> "new", prefix |-> p, exports |-> e, export |-> <<>>]
  /\ source = [fd |-> 0, watched |-> 0]
  /\ tree \in [Names -> Things] /\ {tree["a"], tree["b"]} \notin {{"file1"}, {"file2"}}
  /\ times = [n \in Names |-> [atime |-> 1, atimeNsec |-> 1500, mtime |-> 2, mtimeNsec |-> 2000]]
  /\ job = [j \in JobIds |-> NoJob] /\ handles = {} /\ gone = {}

-----------------------------------------------------------------------------
(* do_mount                                                                *)

(* The loop over the exports: one that begins the path, up to a slash, is  *)
(* taken when it is the shortest so far.                                   *)
FindExport(prefix, exports) ==
  LET matches(e) == IsPrefix(e, prefix) /\ (Len(prefix) > Len(e) => prefix[Len(e) + 1] = "/")
  IN  FoldLeft(LAMBDA best, e : IF matches(e) /\ (best = <<>> \/ Len(e) < Len(best)) THEN e ELSE best,
               <<>>, exports)

Mount ==
  /\ mount.state = "new"
  /\ LET export == FindExport(mount.prefix, mount.exports)
     IN  \E ok \in {TRUE, ~Faults} :
           mount' = [mount EXCEPT !.state = IF export # <<>> /\ ok THEN "mounted" ELSE "failed", !.export = export]
  /\ source' = [fd |-> 1, watched |-> 1]
  /\ UNCHANGED <<tree, times, job, handles, gone>>

\* libnfs connects again, or gives up.
Reconnect ==
  /\ mount.state = "mounted" /\ source.fd = source.watched /\ source.fd < MaxSockets
  /\ source' \in {[source EXCEPT !.fd = @ + 1], [source EXCEPT !.fd = -1]}
  /\ UNCHANGED <<mount, tree, times, job, handles, gone>>

(* nfs_source_prepare: the source follows the socket; without one the      *)
(* mount is given up.                                                      *)
SourcePrepare ==
  /\ mount.state = "mounted" /\ source.fd # source.watched
  /\ IF source.fd < 0 THEN mount' = [mount EXCEPT !.state = "gone"] /\ UNCHANGED source
     ELSE source' = [source EXCEPT !.watched = source.fd] /\ UNCHANGED mount
  /\ UNCHANGED <<tree, times, job, handles, gone>>

-----------------------------------------------------------------------------
FirstCall(op, follow, wants) ==
  CASE op = "open" -> "open" [] op = "enumerate" -> IF "parent" \in wants THEN "accessParent" ELSE "opendir"
    [] op = "info" -> "lstat" [] op = "move" -> "lstatSource" [] op = "rename" -> "renameName"
    [] op = "mkdir" -> "mkdir" [] op = "symlink" -> "symlink" [] op = "delete" -> "unlink"
    [] op = "time" -> "statTimes" [] op = "owner" -> "chown"

(* try_open_for_read, try_enumerate, try_query_info, try_move, ...: the    *)
(* flag is "follow" or "overwrite".  A move with a backup, an attribute    *)
(* that cannot be set and one of the wrong type fail at once.              *)
Start(j) ==
  /\ mount.state = "mounted" /\ job[j].op = "none"
  /\ \E op \in Ops, n \in Names :
     \E flag \in (IF op \in {"enumerate", "info", "move"} THEN BOOLEAN ELSE {FALSE}) :
     \E wants \in (IF op \in {"enumerate", "info"} THEN Wants ELSE {{}}) :
     \E field \in (IF op = "time" THEN TimeFields ELSE {"atime"}) :
       LET started == [NoJob EXCEPT !.op = op, !.name = n, !.flag = flag, !.wants = wants, !.field = field]
       IN  \/ job' = [job EXCEPT ![j] = [started EXCEPT !.call = FirstCall(op, flag, wants)]]
           \/ op \in {"move", "time", "owner"} /\ job' = [job EXCEPT ![j] = [started EXCEPT !.answer = "error"]]
  /\ UNCHANGED <<mount, source, tree, times, handles, gone>>

\* The callback of a call of job j runs: from the watched socket.
Called(j, c) == mount.state = "mounted" /\ source.fd = source.watched /\ job[j].call = c
Set(j, r) == job' = [job EXCEPT ![j] = r]
Call(j, c) == [job[j] EXCEPT !.call = c]
Answered(j, a) == [job[j] EXCEPT !.call = "none", !.answer = a]
Env == <<mount, source>>
OtherOf(n) == IF n = "a" THEN "b" ELSE "a"
IsDir(t) == t \in {"dir", "full"}
Ok(bad) == IF Faults THEN {TRUE, FALSE} \ (IF bad THEN {TRUE} ELSE {}) ELSE {~bad}

-----------------------------------------------------------------------------
(* Reading files.                                                          *)

OpenForReadCb(j) ==
  /\ Called(j, "open")
  /\ \E ok \in Ok(tree[job[j].name] = "none") :
       IF ok THEN Set(j, Call(j, "fstat")) /\ handles' = handles \cup {j}
       ELSE Set(j, Answered(j, "error")) /\ UNCHANGED handles
  /\ UNCHANGED <<Env, tree, times, gone>>

(* open_for_read_fstat_cb: a directory is closed again; a stat that fails  *)
(* does not matter.                                                        *)
OpenForReadFstatCb(j) ==
  /\ Called(j, "fstat")
  /\ \E ok \in Ok(FALSE) :
       IF ok /\ IsDir(tree[job[j].name]) THEN Set(j, Answered(j, "error")) /\ handles' = handles \ {j}
       ELSE Set(j, Answered(j, "ok")) /\ UNCHANGED handles
  /\ UNCHANGED <<Env, tree, times, gone>>

(* try_close_read *)
CloseRead(j) ==
  /\ job[j].op = "open" /\ job[j].answer = "ok" /\ ~job[j].done /\ handles' = handles \ {j}
  /\ Set(j, [job[j] EXCEPT !.done = TRUE])
  /\ UNCHANGED <<Env, tree, times, gone>>

-----------------------------------------------------------------------------
(* Enumerating.                                                            *)

\* set_type_from_mode and set_name_info on what the server tells of an entry
InfoOf(e, followed, parent) ==
  [NoInfo EXCEPT !.entry = e, !.symlink = e \in {"link", "dangling"}, !.parent = parent,
                 !.type = IF e = "sub" THEN "dir" ELSE IF e = "plain" \/ followed THEN "file" ELSE "link"]

(* enumerate_access_parent_cb *)
EnumerateAccessParentCb(j) ==
  /\ Called(j, "accessParent")
  /\ \E ok \in Ok(FALSE) : Set(j, [job[j] EXCEPT !.call = "opendir", !.parentKnown = ok])
  /\ UNCHANGED <<Env, tree, times, handles, gone>>

\* enumerate_continue: what is left decides the next call; nothing left is the end
Continue(r) ==
  IF r.readlinks # <<>> THEN [r EXCEPT !.call = "readlink"]
  ELSE IF r.symlinks # <<>> THEN [r EXCEPT !.call = "stat"]
  ELSE IF r.accesses # <<>> THEN [r EXCEPT !.call = "access"]
  ELSE [r EXCEPT !.call = "none", !.done = TRUE]

\* An entry needs its access rights, or is reported (g_vfs_job_enumerate_add_info).
Report(r, i) ==
  IF "access" \in r.wants THEN [r EXCEPT !.accesses = <<i>> \o @] ELSE [r EXCEPT !.infos = Append(@, i)]
Deliver(r, i) ==
  IF i.symlink /\ "target" \in r.wants THEN [r EXCEPT !.readlinks = <<i>> \o @]
  ELSE IF i.symlink /\ r.flag THEN [r EXCEPT !.symlinks = <<i>> \o @]
  ELSE Report(r, i)

(* enumerate_cb: the job succeeds, then every entry is put on the list of  *)
(* the next call it needs, or reported.                                    *)
EnumerateCb(j) ==
  /\ Called(j, "opendir")
  /\ \/ \E order \in {<<"plain", "link", "sub", "dangling">>, <<"dangling", "sub", "link", "plain">>} :
          Set(j, Continue(FoldLeft(LAMBDA r, e : Deliver(r, InfoOf(e, FALSE, r.parentKnown)),
                                   [job[j] EXCEPT !.answer = "ok"], order)))
     \/ Faults /\ Set(j, Answered(j, "error"))
  /\ UNCHANGED <<Env, tree, times, handles, gone>>

(* enumerate_readlink_cb *)
EnumerateReadlinkCb(j) ==
  /\ Called(j, "readlink")
  /\ \E ok \in Ok(FALSE) :
       LET r == [job[j] EXCEPT !.readlinks = Tail(@)]
           i == [Head(job[j].readlinks) EXCEPT !.target = ok]
       IN  Set(j, Continue(IF r.flag THEN [r EXCEPT !.symlinks = <<i>> \o @] ELSE Report(r, i)))
  /\ UNCHANGED <<Env, tree, times, handles, gone>>

(* enumerate_stat_cb: the target's attributes in a new info that keeps     *)
(* what was known of the link; a link that leads nowhere stays one.        *)
EnumerateStatCb(j) ==
  /\ Called(j, "stat")
  /\ \E ok \in Ok(Head(job[j].symlinks).entry = "dangling") :
       LET r == [job[j] EXCEPT !.symlinks = Tail(@)]
           old == Head(job[j].symlinks)
           new == [InfoOf(old.entry, TRUE, r.parentKnown) EXCEPT !.target = "target" \in r.wants /\ old.target]
       IN  Set(j, Continue(Report(r, IF ok THEN new ELSE old)))
  /\ UNCHANGED <<Env, tree, times, handles, gone>>

(* enumerate_access_cb *)
EnumerateAccessCb(j) ==
  /\ Called(j, "access")
  /\ \E ok \in Ok(FALSE) :
       Set(j, Continue([job[j] EXCEPT !.accesses = Tail(@),
                                      !.infos = Append(@, [Head(job[j].accesses) EXCEPT !.access = ok])]))
  /\ UNCHANGED <<Env, tree, times, handles, gone>>

-----------------------------------------------------------------------------
(* Querying one file; the info is the only element of infos.               *)

SetInfo(r, i) == [r EXCEPT !.infos = <<i>>]
\* What stat_cb, stat_access_cb and stat_access_parent_cb go on with.
AfterStat(r, done) ==
  IF "access" \in r.wants \ done THEN [r EXCEPT !.call = "accessInfo"]
  ELSE IF "parent" \in r.wants \ done THEN [r EXCEPT !.call = "parentInfo"]
  ELSE IF "target" \in r.wants THEN [r EXCEPT !.call = "readlinkInfo"]
  ELSE [r EXCEPT !.call = "none", !.answer = "ok"]

(* stat_cb *)
StatCb(j, t, symlink) ==
  Set(j, AfterStat(SetInfo(job[j], [NoInfo EXCEPT !.entry = job[j].name, !.symlink = symlink, !.type = t]), {}))

(* try_query_info and stat_is_symlink_cb *)
StatIsSymlinkCb(j) ==
  /\ Called(j, "lstat")
  /\ \E ok \in Ok(tree[job[j].name] = "none") :
       IF ~ok THEN Set(j, Answered(j, "error"))
       ELSE IF job[j].flag /\ tree[job[j].name] = "link" THEN Set(j, Call(j, "statInfo"))
       ELSE StatCb(j, tree[job[j].name], tree[job[j].name] = "link")
  /\ UNCHANGED <<Env, tree, times, handles, gone>>

StatFollowedCb(j) ==
  /\ Called(j, "statInfo")
  /\ \E ok \in Ok(tree[job[j].name] = "none") :
       IF ok THEN StatCb(j, IF tree[job[j].name] = "link" THEN "file1" ELSE tree[job[j].name], TRUE)
       ELSE Set(j, Answered(j, "error"))
  /\ UNCHANGED <<Env, tree, times, handles, gone>>

(* stat_access_cb *)
StatAccessCb(j) ==
  /\ Called(j, "accessInfo")
  /\ \E ok \in Ok(FALSE) :
       Set(j, AfterStat(SetInfo(job[j], [job[j].infos[1] EXCEPT !.access = ok]), {"access"}))
  /\ UNCHANGED <<Env, tree, times, handles, gone>>

(* stat_access_parent_cb *)
StatAccessParentCb(j) ==
  /\ Called(j, "parentInfo")
  /\ \E ok \in Ok(FALSE) :
       Set(j, AfterStat(SetInfo(job[j], [job[j].infos[1] EXCEPT !.parent = ok]), {"access", "parent"}))
  /\ UNCHANGED <<Env, tree, times, handles, gone>>

(* stat_readlink_cb *)
StatReadlinkCb(j) ==
  /\ Called(j, "readlinkInfo")
  /\ \E ok \in Ok(tree[job[j].name] # "link") :
       Set(j, SetInfo(Answered(j, "ok"), [job[j].infos[1] EXCEPT !.target = ok]))
  /\ UNCHANGED <<Env, tree, times, handles, gone>>

-----------------------------------------------------------------------------
(* Changing names.                                                         *)

\* The server renames: over nothing, a file over a file, a directory over an
\* empty one.
MayRename(t, over) ==
  t # "none" /\ (over = "none" \/ (IsDir(t) /\ over = "dir") \/ (~IsDir(t) /\ ~IsDir(over)))
Renamed(n) == [tree EXCEPT ![n] = "none", ![OtherOf(n)] = tree[n]]
\* What rename removed, and whether that was asked for: it was to be
\* overwritten, or was not there when the job looked.
Lost(n, asked) == IF tree[OtherOf(n)] = "none" THEN {} ELSE {[thing |-> tree[OtherOf(n)], asked |-> asked]}

(* move_stat_source_cb *)
MoveStatSourceCb(j) ==
  /\ Called(j, "lstatSource")
  /\ \E ok \in Ok(tree[job[j].name] = "none") :
       Set(j, IF ok THEN [Call(j, "lstatDest") EXCEPT !.isDir = IsDir(tree[job[j].name])] ELSE Answered(j, "error"))
  /\ UNCHANGED <<Env, tree, times, handles, gone>>

(* move_stat_dest_cb: a target that exists, or is a directory, is refused. *)
(* A look that fails goes on with the rename.                              *)
MoveStatDestCb(j) ==
  /\ Called(j, "lstatDest")
  /\ LET dest == tree[OtherOf(job[j].name)]
     IN  \/ dest # "none" /\ (~job[j].flag \/ IsDir(dest)) /\ Set(j, Answered(j, "error"))
         \/ /\ dest # "none" /\ job[j].flag /\ ~IsDir(dest)
            /\ Set(j, [Call(j, IF job[j].isDir THEN "unlinkDest" ELSE "rename") EXCEPT !.saw = dest])
         \/ (dest = "none" \/ Faults) /\ Set(j, Call(j, "rename"))
  /\ UNCHANGED <<Env, tree, times, handles, gone>>

(* move_remove_cb *)
MoveRemoveCb(j) ==
  /\ Called(j, "unlinkDest")
  /\ LET dest == OtherOf(job[j].name)
     IN  \E ok \in Ok(tree[dest] = "none" \/ IsDir(tree[dest])) :
           IF ok THEN /\ tree' = [tree EXCEPT ![dest] = "none"]
                      /\ gone' = gone \cup Lost(job[j].name, job[j].flag)
                      /\ Set(j, Call(j, "rename"))
           ELSE Set(j, Answered(j, "error")) /\ UNCHANGED <<tree, gone>>
  /\ UNCHANGED <<Env, times, handles>>

(* move_rename_cb; and generic_cb after try_set_display_name, whose rename *)
(* replaces what has the new name.                                         *)
RenameCb(j) ==
  /\ Called(j, "rename") \/ Called(j, "renameName")
  /\ LET n == job[j].name
     IN  \E ok \in Ok(~MayRename(tree[n], tree[OtherOf(n)])) :
           IF ok THEN /\ tree' = Renamed(n) /\ Set(j, Answered(j, "ok"))
                      /\ gone' = gone \cup Lost(n, job[j].flag \/ job[j].op = "rename"
                                                   \/ tree[OtherOf(n)] # job[j].saw)
           ELSE Set(j, Answered(j, "error")) /\ UNCHANGED <<tree, gone>>
  /\ UNCHANGED <<Env, times, handles>>

(* try_make_directory and try_make_symlink *)
MakeCb(j) ==
  /\ Called(j, "mkdir") \/ Called(j, "symlink")
  /\ \E ok \in Ok(tree[job[j].name] # "none") :
       IF ok THEN /\ tree' = [tree EXCEPT ![job[j].name] = IF job[j].op = "mkdir" THEN "dir" ELSE "link"]
                  /\ Set(j, Answered(j, "ok"))
       ELSE Set(j, Answered(j, "error")) /\ UNCHANGED tree
  /\ UNCHANGED <<Env, times, handles, gone>>

(* unlink_cb: a directory is tried again with rmdir.                       *)
UnlinkCb(j) ==
  /\ Called(j, "unlink")
  /\ LET n == job[j].name
     IN  \/ /\ ~IsDir(tree[n]) /\ tree[n] # "none" /\ tree' = [tree EXCEPT ![n] = "none"]
            /\ gone' = gone \cup {[thing |-> tree[n], asked |-> TRUE]} /\ Set(j, Answered(j, "ok"))
         \/ (IsDir(tree[n]) \/ Faults) /\ Set(j, Call(j, "rmdir")) /\ UNCHANGED <<tree, gone>>
         \/ (tree[n] = "none" \/ Faults) /\ Set(j, Answered(j, "error")) /\ UNCHANGED <<tree, gone>>
  /\ UNCHANGED <<Env, times, handles>>

RmdirCb(j) ==
  /\ Called(j, "rmdir")
  /\ LET n == job[j].name
     IN  \E ok \in Ok(tree[n] # "dir") :
           IF ok THEN tree' = [tree EXCEPT ![n] = "none"] /\ Set(j, Answered(j, "ok"))
           ELSE Set(j, Answered(j, "error")) /\ UNCHANGED tree
  /\ UNCHANGED <<Env, times, handles, gone>>

-----------------------------------------------------------------------------
(* Setting attributes: the value that is set is 5.                         *)

(* set_mod_cb: all four fields are written, the others as they were read,  *)
(* in microseconds.                                                        *)
SetModCb(j, t) ==
  LET usec(nsec) == (nsec \div 1000) * 1000
  IN  [atime |-> IF job[j].field = "atime" THEN 5 ELSE t.atime,
       atimeNsec |-> IF job[j].field = "atimeUsec" THEN 5000 ELSE usec(t.atimeNsec),
       mtime |-> IF job[j].field = "mtime" THEN 5 ELSE t.mtime,
       mtimeNsec |-> IF job[j].field = "mtimeUsec" THEN 5000 ELSE usec(t.mtimeNsec)]

(* try_set_attribute's stat for the times, then set_mod_cb and utimes      *)
SetTimes(j) ==
  /\ Called(j, "statTimes")
  /\ \E ok \in Ok(tree[job[j].name] = "none") :
       Set(j, IF ok THEN [Call(j, "utimes") EXCEPT !.infos = <<SetModCb(j, times[job[j].name])>>]
              ELSE Answered(j, "error"))
  /\ UNCHANGED <<Env, tree, times, handles, gone>>

UtimesCb(j) ==
  /\ Called(j, "utimes")
  /\ \E ok \in Ok(tree[job[j].name] = "none") :
       IF ok THEN times' = [times EXCEPT ![job[j].name] = job[j].infos[1]] /\ Set(j, Answered(j, "ok"))
       ELSE Set(j, Answered(j, "error")) /\ UNCHANGED times
  /\ UNCHANGED <<Env, tree, handles, gone>>

(* The owner, the group and the mode are set by one call (try_set_attribute). *)
SetOwnerCb(j) ==
  /\ Called(j, "chown")
  /\ \E ok \in Ok(tree[job[j].name] = "none") : Set(j, Answered(j, IF ok THEN "ok" ELSE "error"))
  /\ UNCHANGED <<Env, tree, times, handles, gone>>

-----------------------------------------------------------------------------
Callback(j) ==
  \/ OpenForReadCb(j) \/ OpenForReadFstatCb(j)
  \/ EnumerateAccessParentCb(j) \/ EnumerateCb(j) \/ EnumerateReadlinkCb(j) \/ EnumerateStatCb(j) \/ EnumerateAccessCb(j)
  \/ StatIsSymlinkCb(j) \/ StatFollowedCb(j) \/ StatAccessCb(j) \/ StatAccessParentCb(j) \/ StatReadlinkCb(j)
  \/ MoveStatSourceCb(j) \/ MoveStatDestCb(j) \/ MoveRemoveCb(j) \/ RenameCb(j)
  \/ MakeCb(j) \/ UnlinkCb(j) \/ RmdirCb(j) \/ SetTimes(j) \/ UtimesCb(j) \/ SetOwnerCb(j)

Next ==
  \/ Mount \/ Reconnect \/ SourcePrepare
  \/ \E j \in JobIds : Start(j) \/ Callback(j) \/ CloseRead(j)

Spec == Init /\ [][Next]_vars

-----------------------------------------------------------------------------
Over(j) == job[j].answer = "error" \/ (job[j].answer = "ok" /\ (job[j].op = "enumerate" => job[j].done))

(* The mount uses the shortest export that contains the path, and fails    *)
(* only when there is none or the server refuses (do_mount).               *)
ShortestExport ==
  LET contains(e) == \/ e = mount.prefix
                     \/ IsPrefix(IF e[Len(e)] = "/" THEN e ELSE Append(e, "/"), mount.prefix)
      good == {e \in Range(mount.exports) : contains(e)}
  IN  mount.state # "new" =>
        IF good = {} THEN mount.export = <<>>
        ELSE mount.export \in good /\ \A e \in good : Len(mount.export) <= Len(e)

(* An enumeration that is over has reported every entry once, whatever     *)
(* calls failed and however many lists the entry went through              *)
(* (enumerate_continue).                                                   *)
EnumeratedOnce ==
  \A j \in JobIds : job[j].op = "enumerate" /\ job[j].done =>
    /\ Len(job[j].infos) = Cardinality(Entries)
    /\ {job[j].infos[i].entry : i \in DOMAIN job[j].infos} = Entries

(* Every info holds all that was asked for: the access rights, those that  *)
(* come from the parent, a link's target also when the link was followed   *)
(* (enumerate_stat_cb copies it), for one file and for a listing.          *)
InfoComplete ==
  \A j \in JobIds : job[j].op \in {"enumerate", "info"} /\ job[j].answer = "ok" /\ Over(j) /\ ~Faults =>
    \A i \in DOMAIN job[j].infos :
      LET info == job[j].infos[i]
      IN  /\ info.access = ("access" \in job[j].wants) /\ info.parent = ("parent" \in job[j].wants)
          /\ info.target = ("target" \in job[j].wants /\ info.symlink)
          /\ job[j].flag /\ info.entry # "dangling" => info.type # "link"

(* Only a file that was opened for reading keeps a handle: a directory     *)
(* that libnfs opened is closed again (open_for_read_fstat_cb).            *)
HandlesOwned == \A j \in handles : ~(Over(j) /\ job[j].answer = "error") /\ ~job[j].done

(* A file that was there when the job looked is never removed by a move    *)
(* that was not told to overwrite, and none without a job that names it,   *)
(* with two jobs interleaved (move_stat_dest_cb).                          *)
OnlyOverwritesAsked == \A g \in gone : g.asked

(* Setting one time leaves the others, to the microsecond (set_mod_cb).    *)
OthersKept ==
  \A n \in Names :
    LET set == {job[j].field : j \in {j \in JobIds : job[j].op = "time" /\ job[j].name = n /\ job[j].answer = "ok"}}
    IN  /\ "atime" \notin set => times[n].atime = 1
        /\ "atimeUsec" \notin set => times[n].atimeNsec \div 1000 = 1
        /\ "mtime" \notin set => times[n].mtime = 2
        /\ "mtimeUsec" \notin set => times[n].mtimeNsec \div 1000 = 2

=============================================================================
