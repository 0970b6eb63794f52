------------------------------- MODULE Gphoto2 ------------------------------
(***************************************************************************)
(* The backend for cameras (daemon/gvfsbackendgphoto2.c).  Files are       *)
(* written in memory and put on the camera when the stream is closed or    *)
(* when something else has to look at the camera; listings, file           *)
(* information and the free space are cached.  The do_ functions run one   *)
(* after the other in the thread of the backend, each as one step here     *)
(* with the calls of libgphoto2 it makes, any of which may fail; the try_  *)
(* functions run in the main thread and answer from the caches alone.      *)
(* The camera has one folder with the names Names.                         *)
(***************************************************************************)
EXTENDS Integers, Sequences, FiniteSets, SequencesExt

CONSTANTS Names, Handles,
          Access,      \* what the storages may allow: "rw", "rd" (read and delete), "ro"
          Ops,         \* the kinds of jobs that are run
          SelfMoves,   \* may a move name one file twice?
          MaxLen,      \* bound: units in a file
          MaxJobs, MaxFaults
Gphoto2Assumption == /\ MaxLen \in Nat /\ MaxJobs \in Nat /\ MaxFaults \in Nat /\ Access \subseteq {"rw", "rd", "ro"}
                     /\ IsFiniteSet(Names) /\ IsFiniteSet(Handles)

VARIABLES
    mounted, access,
    cam,       \* the camera: what each name is
    info, dirs, files, free,     \* the caches ("none" where nothing is cached)
    handles, open,               \* write handles, and open_write_handles
    reader,    \* a read handle: the data taken when it was opened, and the cursor
    dirMon,    \* a monitor of the folder is there
    fileMon,   \* file_monitor_proxies: none, alive, or freed but still listed
    ev,        \* the events the last job emitted
    local,     \* the local file that pull writes
    last,      \* the last job, and the name it was to overwrite
    ans,       \* how the last job was answered
    bad,       \* memory that was freed has been read
    untold,    \* ghost: what was cached when a rename changed it and that it did not drop
    jobs, faults
vars == <<mounted, access, cam, info, dirs, files, free, handles, open, reader, dirMon, fileMon, ev, local, last, ans, bad, untold, jobs, faults>>

Gone == [k |-> "none", data |-> <<>>]
File(d) == [k |-> "file", data |-> d]
Dir == [k |-> "dir", data |-> <<>>]
FullDir == [k |-> "dir", data |-> <<"x">>]       \* a folder that is not empty
NoInfo == [k |-> "unknown", size |-> 0]
NoList == {"nolist"}
NoHandle == [open |-> FALSE, n |-> "", data |-> <<>>, cur |-> 0, replace |-> FALSE, append |-> FALSE,
             before |-> FALSE, dirty |-> FALSE, want |-> <<>>, moved |-> FALSE, failed |-> FALSE]
Init == /\ mounted = FALSE /\ access \in Access
        /\ cam \in {c \in [Names -> {Gone, Dir, FullDir} \cup {File(<<n>>) : n \in Names}] : \A n \in Names : c[n].k = "file" => c[n].data = <<n>>}
        /\ info = [n \in Names |-> NoInfo] /\ dirs = NoList /\ files = NoList /\ free = -1
        /\ handles = [h \in Handles |-> NoHandle] /\ open = <<>> /\ reader = [open |-> FALSE, data |-> <<>>, cur |-> 0]
        /\ dirMon = FALSE /\ fileMon = "none" /\ ev = {} /\ local = Gone /\ last = <<"none", "">> /\ ans = "none" /\ bad = FALSE /\ untold = {}
        /\ jobs = 0 /\ faults = 0

-----------------------------------------------------------------------------
(* A job works on a record of the state; each of its calls yields the set  *)
(* of states it may leave, with its result.                                *)
Cur == [cam |-> cam, info |-> info, dirs |-> dirs, files |-> files, free |-> free, handles |-> handles,
        open |-> open, ev |-> {}, bad |-> bad, untold |-> untold, faults |-> faults]
R(s, rc) == [s |-> s, rc |-> rc]
\* The job ends in one of the outcomes rs.
JobOver(op, m, rs) ==
    /\ mounted /\ op \in Ops /\ jobs < MaxJobs /\ jobs' = jobs + 1 /\ last' = <<op, m>>
    /\ \E r \in rs : /\ cam' = r.s.cam /\ info' = r.s.info /\ dirs' = r.s.dirs /\ files' = r.s.files /\ free' = r.s.free
                     /\ handles' = r.s.handles /\ open' = r.s.open /\ ev' = r.s.ev /\ bad' = r.s.bad /\ untold' = r.s.untold
                     /\ faults' = r.s.faults /\ ans' = r.rc
Job(op, rs) == JobOver(op, "", rs)
Rest == UNCHANGED <<mounted, access, reader, dirMon, fileMon, local>>
Fault(s) == IF s.faults < MaxFaults THEN {R([s EXCEPT !.faults = @ + 1], "failed")} ELSE {}
\* A call of libgphoto2 that sets name n to e, where the camera allows it
Gp(s, can, n, e, err) == {IF can THEN R([s EXCEPT !.cam[n] = e], "ok") ELSE R(s, err)} \cup Fault(s)
CanWrite == access = "rw"
CanDelete == access \in {"rw", "rd"}
GpDelete(s, n) == Gp(s, s.cam[n].k = "file" /\ CanDelete, n, Gone, IF CanDelete THEN "not found" ELSE "failed")
GpPut(s, n, d) == Gp(s, s.cam[n].k = "none" /\ CanWrite, n, File(d), IF CanWrite THEN "exists" ELSE "failed")
GpMakeDir(s, n) == Gp(s, s.cam[n].k = "none" /\ CanWrite, n, Dir, IF CanWrite THEN "exists" ELSE "failed")
GpRemoveDir(s, n) == Gp(s, s.cam[n] = Dir /\ CanDelete, n, Gone, "failed")
\* Go on with each outcome that succeeded; the others are the result.
Then(rs, F(_)) == UNION {IF r.rc = "ok" THEN F(r.s) ELSE {r} : r \in rs}
\* Go on with every outcome.
Next2(rs, F(_, _)) == UNION {F(r.s, r.rc) : r \in rs}
Size(s) == LET used == {n \in Names : s.cam[n].k = "file"} IN FoldLeft(LAMBDA x, n : x + Len(s.cam[n].data), 0, SetToSeq(used))

\* caches_invalidate_dir, caches_invalidate_file, caches_invalidate_free_space
InvalidateDir(s) == [s EXCEPT !.dirs = NoList, !.files = NoList, !.untold = @ \ {"dirs", "files"}]
InvalidateFile_ListsOnly(s, n) == InvalidateDir(s)
InvalidateFile(s, n) == [InvalidateDir(s) EXCEPT !.info[n] = NoInfo, !.untold = @ \ {"dirs", "files", n}]

InvalidateFree(s) == [s EXCEPT !.free = -1, !.untold = @ \ {"free"}]
\* A rename made or removed m: what is cached of m, the listings and, for a file, the space are
\* not true any more until something drops them.
Untold(s, m, rest) ==
    LET cached == {x \in {m} \cap Names : s.info[x] # NoInfo} \cup (IF s.dirs # NoList THEN {"dirs"} ELSE {})
                  \cup (IF s.files # NoList THEN {"files"} ELSE {}) \cup (IF s.free # -1 THEN {"free"} ELSE {})
    IN [s EXCEPT !.untold = @ \cup (cached \cap ({m} \cup rest))]
\* monitors_emit_internal: every proxy is looked at
Emit(s, e, n) == [s EXCEPT !.ev = @ \cup {<<e, n>>}, !.bad = @ \/ fileMon = "freed"]

\* commit_write_handle: what is there is deleted, then the data are put; the
\* handle counts as written whatever the outcome
CommitWriteHandle(s, h) ==
    LET w == s.handles[h]
        put(t) == {R(IF r.rc = "ok" THEN Emit(r.s, "changed", w.n) ELSE r.s, r.rc) : r \in GpPut(t, w.n, w.data)}
        done(t, rc) == {R(InvalidateFree(InvalidateFile([t EXCEPT !.handles[h].dirty = FALSE, !.handles[h].before = TRUE,
                                                                             !.handles[h].failed = rc # "ok"], w.n)), rc)}
    IN IF ~w.dirty THEN {R(s, "ok")}
       ELSE Next2(IF w.before \/ w.replace \/ w.append THEN Then(GpDelete(s, w.n), put) ELSE put(s), done)
\* ensure_not_dirty: errors are ignored
EnsureNotDirty(s) == FoldLeft(LAMBDA ss, h : UNION {{r.s : r \in CommitWriteHandle(t, h)} : t \in ss}, {s}, s.open)

\* file_get_info: from the cache, or from the camera once nothing is dirty;
\* an error of the camera is taken for a file that is not there
FileInfo(s, n) == [k |-> s.cam[n].k, size |-> IF s.cam[n].k = "file" THEN Len(s.cam[n].data) ELSE 0]
FileGetInfo(s, n) ==
    IF s.info[n] # NoInfo THEN {R(s, s.info[n].k)}
    ELSE UNION {(IF t.cam[n].k = "none" THEN {R(t, "none")} ELSE {R([t EXCEPT !.info[n] = FileInfo(t, n)], t.cam[n].k)})
                \cup {R(r.s, "none") : r \in Fault(t)} : t \in EnsureNotDirty(s)}
\* is_directory, then is_regular where that says no
Kind(s, n) ==
    UNION {IF r.rc = "dir" THEN {r} ELSE {R(q.s, IF q.rc = "file" THEN "file" ELSE "none") : q \in FileGetInfo(r.s, n)} : r \in FileGetInfo(s, n)}
Unsupported(s) == {R(s, "unsupported")}
Clean(F(_)) == UNION {F(s) : s \in EnsureNotDirty(Cur)}

-----------------------------------------------------------------------------
\* try_mount, do_mount: the camera is found and initialised, any step of which
\* may fail; what it allows is asked for; the caches are made
Mount ==
    /\ ~mounted /\ jobs < MaxJobs /\ jobs' = jobs + 1
    /\ \/ mounted' = TRUE /\ ans' = "ok" /\ faults' = faults
       \/ faults < MaxFaults /\ faults' = faults + 1 /\ ans' \in {"not found", "failed"} /\ UNCHANGED mounted
    /\ info' = [n \in Names |-> NoInfo] /\ dirs' = NoList /\ files' = NoList /\ free' = -1 /\ ev' = {} /\ untold' = {}
    /\ UNCHANGED <<access, cam, handles, open, reader, dirMon, fileMon, local, last, bad>>
\* on_uevent: the camera was unplugged
Unplug ==
    /\ mounted /\ "unplug" \in Ops /\ mounted' = FALSE /\ ev' = {} /\ ans' = "none"
    /\ info' = [n \in Names |-> NoInfo] /\ dirs' = NoList /\ files' = NoList /\ free' = -1 /\ untold' = {}
    /\ handles' = [h \in Handles |-> NoHandle] /\ open' = <<>> /\ reader' = [reader EXCEPT !.open = FALSE]
    /\ dirMon' = FALSE /\ fileMon' = "none"
    /\ UNCHANGED <<access, cam, local, last, bad, jobs, faults>>

\* do_open_for_read_real: the whole file is taken
OpenForRead(n) ==
    LET real(s) == UNION {IF r.rc = "dir" THEN {R(r.s, "is dir")} ELSE IF r.rc # "file" THEN {R(r.s, "not found")}
                          ELSE {R(r.s, IF r.s.cam[n].k = "file" THEN "ok" ELSE "not found")} \cup Fault(r.s) : r \in Kind(s, n)}
    IN /\ ~reader.open /\ Job("read", Clean(real))
       /\ reader' = (IF ans' = "ok" THEN [open |-> TRUE, data |-> cam'[n].data, cur |-> 0] ELSE reader)
       /\ UNCHANGED <<mounted, access, dirMon, fileMon, local>>
\* try_read, try_seek_on_read, do_close_read
Read ==
    /\ reader.open /\ Job("read", {R(Cur, IF reader.cur >= Len(reader.data) THEN "end" ELSE reader.data[reader.cur + 1])})
    /\ reader' = [reader EXCEPT !.cur = IF @ >= Len(reader.data) THEN @ ELSE @ + 1]
    /\ UNCHANGED <<mounted, access, dirMon, fileMon, local>>
SeekOnRead(o) ==
    /\ reader.open /\ Job("read", {R(Cur, "ok")}) /\ reader' = [reader EXCEPT !.cur = o]
    /\ UNCHANGED <<mounted, access, dirMon, fileMon, local>>
CloseRead ==
    /\ reader.open /\ Job("read", {R(Cur, "ok")}) /\ reader' = [open |-> FALSE, data |-> <<>>, cur |-> 0]
    /\ UNCHANGED <<mounted, access, dirMon, fileMon, local>>

\* do_query_info; the answer is the kind that was found
QueryInfo(n) == Job("info", {IF r.rc = "none" THEN R(r.s, "not found") ELSE r : r \in FileGetInfo(Cur, n)}) /\ Rest
\* try_query_info, try_enumerate, try_query_fs_info, in the main thread
TryQueryInfo(n) == info[n] # NoInfo /\ Job("info", {R(Cur, info[n].k)}) /\ Rest
TryEnumerate ==
    /\ dirs # NoList /\ files # NoList /\ (\A n \in dirs \cup files : info[n] # NoInfo)
    /\ Job("list", {R(Cur, "listed")}) /\ Rest
TryQueryFsInfo == free # -1 /\ Job("space", {R(Cur, "free")}) /\ Rest
\* do_query_fs_info
QueryFsInfo == Job("space", {R([InvalidateFree(Cur) EXCEPT !.free = Size(Cur)], "free")} \cup {R(r.s, "ok") : r \in Fault(Cur)}) /\ Rest

\* do_enumerate: folders, then files; each is asked for its information
InfosOf(s, names) ==
    FoldLeft(LAMBDA rs, n : Then(rs, LAMBDA t : {R(r.s, IF r.rc = "none" THEN "not found" ELSE "ok") : r \in FileGetInfo(t, n)}),
             {R(s, "ok")}, SetToSeq(names))
OfKind(s, k) == {n \in Names : s.cam[n].k = k}
ListFolders(s) ==
    IF s.dirs # NoList THEN InfosOf(s, s.dirs)
    ELSE UNION {Fault(t) \cup Then(InfosOf(t, OfKind(t, "dir")), LAMBDA u : {R([u EXCEPT !.dirs = OfKind(t, "dir")], "ok")}) : t \in EnsureNotDirty(s)}
ListFiles(s) ==
    IF s.files # NoList THEN InfosOf(s, s.files)
    ELSE UNION {Fault(t) \cup Then(InfosOf(t, OfKind(t, "file")), LAMBDA u : {R([u EXCEPT !.files = OfKind(t, "file")], "ok")}) : t \in EnsureNotDirty(s)}
Enumerate == Job("list", Then(Then(ListFolders(Cur), ListFiles), LAMBDA s : {R(s, "listed")})) /\ Rest

\* do_make_directory
MakeDirectory(n) ==
    LET make(s) == IF ~CanWrite THEN Unsupported(s)
                   ELSE Then(GpMakeDir(s, n), LAMBDA t : {R(Emit(InvalidateFree(InvalidateDir(t)), "created", n), "ok")})
    IN Job("mkdir", Clean(make)) /\ Rest

\* is_directory_empty: an error counts as an empty list
DirectoryEmpty(s, n) == s.cam[n] # FullDir
\* do_slow_file_rename_in_same_dir: read it, put it under the new name, delete
\* the old one; where that fails the new one is removed again.  A target that
\* may be overwritten is deleted first, and it does not matter if that fails.
Overwritten(s, m) == {IF r.rc = "ok" THEN R(Untold(r.s, m, {"files", "free"}), "ok") ELSE r : r \in GpDelete(s, m)}
SlowRename_IgnoresPut(s, n, m, over) ==
    LET put(t, rc) == Next2(GpPut(t, m, s.cam[n].data), LAMBDA u, rc2 : GpDelete(u, n))
    IN IF s.cam[n].k # "file" THEN {R(s, "not found")}
       ELSE Next2(IF over THEN Overwritten(s, m) ELSE {R(s, "ok")}, put)
SlowRename(s, n, m, over) ==
    LET remove(t) == Next2(GpDelete(t, n), LAMBDA u, rc : IF rc = "ok" THEN {R(u, "ok")}
                                                            ELSE {R(IF r.rc = "ok" THEN r.s ELSE Untold(r.s, m, {"files", "free"}), rc) : r \in GpDelete(u, m)})
        put(t, rc) == Then(GpPut(t, m, s.cam[n].data), remove)
    IN IF s.cam[n].k # "file" THEN {R(s, "not found")}
       ELSE Fault(s) \cup Next2(IF over THEN Overwritten(s, m) ELSE {R(s, "ok")}, put)
\* do_dir_rename_in_same_dir: a new folder, then the old one is removed
DirRename(s, n, m) ==
    IF ~DirectoryEmpty(s, n) THEN Unsupported(s)
    ELSE Then(GpMakeDir(s, m), LAMBDA t : {IF r.rc = "ok" THEN r ELSE R(Untold(r.s, m, {"dirs"}), r.rc) : r \in GpRemoveDir(t, n)})
\* The open handles that write to n lose it.
Moved(s, n) == [s EXCEPT !.handles = [h \in Handles |-> [s.handles[h] EXCEPT !.moved = @ \/ s.handles[h].n = n]]]
Renamed(s, n, m) == {R(Emit(Emit(Moved(Moved(InvalidateFile(s, n), n), m), "deleted", n), "created", m), "ok")}
\* do_set_display_name: a name that is taken is refused
SetDisplayName(n, m) ==
    LET rename(s) == UNION {IF r.rc = "dir" THEN DirRename(r.s, n, m) ELSE SlowRename(r.s, n, m, FALSE) : r \in FileGetInfo(s, n)}
        try(s) == IF ~CanWrite THEN Unsupported(s)
                  ELSE UNION {IF r.rc # "none" THEN {R(r.s, "exists")} ELSE Then(rename(r.s), LAMBDA t : Renamed(t, n, m)) : r \in Kind(s, m)}
    IN Job("rename", Clean(try)) /\ Rest
\* do_move, within the folder.  A file that is moved onto itself and may be overwritten is
\* deleted, put and deleted again.
Move(n, m, over) ==
    LET try(s) == UNION {IF r.rc = "dir"
                         THEN UNION {IF q.rc # "none" THEN Unsupported(q.s) ELSE DirRename(q.s, n, m) : q \in Kind(r.s, m)}
                         ELSE UNION {IF q.rc = "dir" THEN Unsupported(q.s) ELSE SlowRename(q.s, n, m, over) : q \in FileGetInfo(r.s, m)}
                         : r \in FileGetInfo(s, n)}
    IN (SelfMoves \/ n # m) /\ JobOver("move", IF over /\ n # m THEN m ELSE "", Clean(LAMBDA s : Then(try(s), LAMBDA t : Renamed(t, n, m)))) /\ Rest
\* do_delete
Delete(n) ==
    LET gone(t) == {R(Emit(InvalidateFree(InvalidateFile(Moved(t, n), n)), "deleted", n), "ok")}
        try(s) == IF ~CanDelete THEN Unsupported(s)
                  ELSE UNION {IF r.rc = "none" THEN {R(r.s, "not found")}
                              ELSE IF r.rc = "dir" THEN IF ~DirectoryEmpty(r.s, n) THEN {R(r.s, "not empty")} ELSE Then(GpRemoveDir(r.s, n), gone)
                              ELSE Then(GpDelete(r.s, n), gone) : r \in Kind(s, n)}
    IN Job("delete", Clean(try)) /\ Rest

\* do_create_internal for do_create, do_replace and do_append_to: a file to be
\* replaced that is not there is created; one to be appended to is read first
Opened(s, h, n, mode, found) ==
    LET d == IF mode = "append" /\ found THEN s.cam[n].data ELSE <<>>
        w == [NoHandle EXCEPT !.open = TRUE, !.n = n, !.data = d, !.cur = Len(d), !.want = d, !.dirty = TRUE,
                              !.replace = found /\ mode = "replace", !.append = found /\ mode = "append"]
        t == InvalidateFile([s EXCEPT !.handles[h] = w, !.open = <<h>> \o @], n)
    IN {R(Emit(t, IF found THEN "changed" ELSE "created", n), "ok")}
CreateInternal(h, n, mode) ==
    LET try(s) == IF ~CanWrite THEN Unsupported(s)
                  ELSE UNION {IF r.rc = "dir" THEN {R(r.s, "is dir")}
                              ELSE IF r.rc = "file" /\ mode = "create" THEN {R(r.s, "exists")}
                              ELSE Opened(r.s, h, n, mode, r.rc = "file") \cup (IF mode = "append" /\ r.rc = "file" THEN Fault(r.s) ELSE {})
                              : r \in Kind(s, n)}
    IN ~handles[h].open /\ (\A g \in Handles : handles[g].n # n) /\ Job("write", Clean(try)) /\ Rest
\* do_write at the cursor; what lies between the end and the cursor is not set
Overlay(d, off, u) == [i \in 1 .. (IF off + 1 > Len(d) THEN off + 1 ELSE Len(d)) |->
                         IF i = off + 1 THEN u ELSE IF i <= Len(d) THEN d[i] ELSE "?"]

Write(h, u) ==
    /\ handles[h].open /\ handles[h].cur < MaxLen
    /\ Job("write", {R([Cur EXCEPT !.handles[h] = [@ EXCEPT !.data = Overlay(@, handles[h].cur, u), !.cur = @ + 1,
                                                            !.want = Overlay(@, handles[h].cur, u), !.dirty = TRUE, !.failed = FALSE]], "ok")}) /\ Rest
\* do_seek_on_write
SeekOnWrite(h, o) == handles[h].open /\ o <= MaxLen /\ Job("seek", {R([Cur EXCEPT !.handles[h].cur = o], "ok")}) /\ Rest
\* do_truncate: a file that grows is filled with zeros
Resize(d, n) == [i \in 1 .. n |-> IF i <= Len(d) THEN d[i] ELSE "0"]
Truncate(h, n) ==
    /\ handles[h].open /\ n <= MaxLen
    /\ Job("seek", {R([Cur EXCEPT !.handles[h] = [@ EXCEPT !.data = Resize(@, n), !.want = Resize(@, n), !.dirty = TRUE, !.failed = FALSE]], "ok")}) /\ Rest
\* do_close_write
CloseWrite(h) ==
    LET free1(t, rc) == {R([IF rc = "ok" THEN Emit(t, "changed", handles[h].n) ELSE t
                            EXCEPT !.handles[h] = NoHandle, !.open = SelectSeq(@, LAMBDA g : g # h)], rc)}
    IN handles[h].open /\ Job("write", Next2(CommitWriteHandle(Cur, h), free1)) /\ Rest

\* do_pull: only a regular file; the source is removed when all is copied
Pull(n, over, move) ==
    LET copy(s) == IF move /\ ~CanDelete THEN Unsupported(s)
                   ELSE UNION {IF r.rc # "file" THEN Unsupported(r.s) ELSE IF local # Gone /\ ~over THEN {R(r.s, "exists")}
                               ELSE Fault(r.s) \cup {R(r.s, IF r.s.cam[n].k = "file" THEN "ok" ELSE "not found")} : r \in FileGetInfo(s, n)}
        end(s) == IF move THEN Then(GpDelete(s, n), LAMBDA t : {R(Emit(InvalidateFree(InvalidateFile(Moved(t, n), n)), "deleted", n), "ok")}) ELSE {R(s, "ok")}
    IN /\ Job("pull", Clean(LAMBDA s : Then(copy(s), end)))
       /\ IF ans' \in {"unsupported", "exists"} THEN UNCHANGED local
          ELSE \/ \E s \in EnsureNotDirty(Cur) : local' = s.cam[n]
               \/ ans' # "ok" /\ local' = File(<<>>)
       /\ UNCHANGED <<mounted, access, reader, dirMon, fileMon>>

\* do_create_dir_monitor, do_create_file_monitor; vfs_dir_monitor_destroyed
\* takes its proxy out of the list, vfs_file_monitor_destroyed takes it out of
\* the list of the other kind
CreateMonitor(k) ==
    /\ k \in Ops /\ mounted /\ jobs < MaxJobs /\ jobs' = jobs + 1 /\ (IF k = "dirmon" THEN ~dirMon ELSE fileMon = "none")
    /\ dirMon' = (dirMon \/ k = "dirmon") /\ fileMon' = (IF k = "filemon" THEN "alive" ELSE fileMon) /\ ev' = {} /\ ans' = "ok"
    /\ UNCHANGED <<mounted, access, cam, info, dirs, files, free, handles, open, reader, local, last, bad, untold, faults>>
DirMonitorDestroyed ==
    /\ dirMon /\ dirMon' = FALSE /\ ev' = {} /\ ans' = "none"
    /\ UNCHANGED <<mounted, access, cam, info, dirs, files, free, handles, open, reader, fileMon, local, last, bad, untold, jobs, faults>>
FileMonitorDestroyed ==
    /\ fileMon = "alive" /\ fileMon' = "freed" /\ ev' = {} /\ ans' = "none"
    /\ UNCHANGED <<mounted, access, cam, info, dirs, files, free, handles, open, reader, dirMon, local, last, bad, untold, jobs, faults>>

Next == \/ Mount \/ Unplug \/ Read \/ CloseRead \/ TryEnumerate \/ TryQueryFsInfo \/ QueryFsInfo \/ Enumerate
        \/ DirMonitorDestroyed \/ FileMonitorDestroyed
        \/ \E k \in {"dirmon", "filemon"} : CreateMonitor(k)
        \/ \E o \in 0 .. MaxLen : SeekOnRead(o)
        \/ \E n \in Names : OpenForRead(n) \/ QueryInfo(n) \/ TryQueryInfo(n) \/ MakeDirectory(n) \/ Delete(n)
        \/ \E n, m \in Names : SetDisplayName(n, m)
        \/ \E n, m \in Names, over \in BOOLEAN : Move(n, m, over)
        \/ \E n \in Names, over, move \in BOOLEAN : Pull(n, over, move)
        \/ \E h \in Handles : CloseWrite(h) \/ Write(h, "w")
        \/ \E h \in Handles, n \in Names, mode \in {"create", "replace", "append"} : CreateInternal(h, n, mode)
        \/ \E h \in Handles, o \in 0 .. MaxLen : SeekOnWrite(h, o) \/ Truncate(h, o)
Spec == Init /\ [][Next]_vars

-----------------------------------------------------------------------------
TypeOK ==
    /\ \A n \in Names : cam[n].k \in {"none", "file", "dir"} /\ Len(cam[n].data) <= MaxLen /\ info[n].k \in {"unknown", "file", "dir"}
    /\ (dirs = NoList \/ dirs \subseteq Names) /\ (files = NoList \/ files \subseteq Names)
    /\ \A h \in Handles : handles[h].open <=> (\E i \in DOMAIN open : open[i] = h)
    /\ bad \in BOOLEAN /\ untold \subseteq Names \cup {"dirs", "files", "free"} /\ faults <= MaxFaults

\* The names the backend has for a client: those of the camera and those whose
\* data still wait to be written.
Pending == {handles[h].n : h \in {g \in Handles : handles[g].open /\ handles[g].dirty}}

\* What the main thread answers from the caches is what the camera would say, beside what is
\* being written: every job that changes the camera has dropped what it made untrue.  Only a
\* rename has not (untold): one that overwrites keeps what is cached of the file that went
\* (gvfsbackendgphoto2.c:3197), one that fails half-way all it changed, until a later job
\* drops it.
CachesTrue ==
    /\ dirs # NoList /\ "dirs" \notin untold => dirs = OfKind(Cur, "dir")
    /\ files # NoList /\ "files" \notin untold => files = OfKind(Cur, "file")
    /\ \A n \in Names \ (Pending \cup untold) : info[n] # NoInfo => info[n] = FileInfo(Cur, n)

\* The free space that is cached is that of the camera, but for an overwriting move.
FreeTrue == free # -1 /\ "free" \notin untold => free = Size(Cur)

\* A stream that is closed successfully has put on the camera what was written
\* to it, unless the file was renamed or deleted meanwhile, or the last attempt
\* to put it there failed for another job and nothing was written since: that
\* failure is forgotten (gvfsbackendgphoto2.c:3048).
ClosedIsWritten ==
    \A h \in Handles : handles[h].open /\ ~handles'[h].open /\ ans' = "ok" /\ ~handles[h].moved /\ ~handles[h].failed
                          => cam'[handles[h].n] = File(handles[h].want)

\* No rename, move or pull loses a file other than the one it was told to
\* overwrite: its content stays, goes to the new name or is in the local file.
NothingLost ==
    \A n \in Names : jobs' # jobs /\ last'[1] \in {"rename", "move", "pull"} /\ cam[n].k = "file" /\ n # last'[2]
                        /\ (\A h \in Handles : handles[h].n # n)
                        => cam[n] \in {cam'[m] : m \in Names} \cup {local'}

\* A job that is refused has changed nothing on the camera, beyond writing out
\* what was pending.
RefusedUnchanged ==
    jobs' # jobs /\ ans' \in {"unsupported", "exists", "not found", "is dir", "not empty"}
       => \A n \in Names : cam'[n] = cam[n] \/ \E h \in Handles : handles[h].n = n

\* A monitor of the folder hears of every name that comes or goes in a job that
\* succeeded.
ChangesTold ==
    ans' = "ok" => \A n \in Names : (cam[n].k # "none" /\ cam'[n].k = "none" => <<"deleted", n>> \in ev')
                                       /\ (cam[n].k = "none" /\ cam'[n].k # "none" => \E e \in {"created", "changed"} : <<e, n>> \in ev')

=============================================================================
