---------------------------- MODULE FuseHandles ----------------------------
(***************************************************************************)
(* The file handles of the FUSE daemon (gvfsfusedaemon.c).  Every request  *)
(* of the kernel runs in a thread of its own.  A FileHandle is shared by   *)
(* all opens of a path, counted atomically, found by path in               *)
(* global_path_to_fh_map and by address in global_active_fh_map, both      *)
(* under global_mutex, and worked on under its own mutex.  The memory of a *)
(* freed handle may be the next handle's, so a handle is an address and    *)
(* the number of the allocation that lives there.                          *)
(***************************************************************************)
EXTENDS Integers, FiniteSets, TLC

CONSTANTS Thread,   \* worker threads of fuse_session_loop_mt
          Path,     \* paths below the mount point
          Addr,     \* addresses that g_new0 can return
          Fd,       \* open files the kernel can have at once
          Ops,      \* the requests the kernel makes
          Twice,    \* a count may reach 0 again before the thread that brought it to 0
                    \* first has looked at it under global_mutex
          MaxOps    \* bound: requests

NoAddr == "null"
NoPath == "nopath"
AllOps == {"open", "create", "release", "io", "path", "unlink", "rename"}

HandlesAssumption == /\ Ops \subseteq AllOps /\ Twice \in BOOLEAN /\ MaxOps \in Nat

VARIABLES
    pathMap,   \* global_path_to_fh_map
    active,    \* global_active_fh_map: the allocated handles
    refcount,  \* fh->refcount
    hpath,     \* fh->path
    owner,     \* fh->mutex: the thread that holds it
    birth,     \* ghost: the allocation that lives at an address
    exists,    \* remote files
    fd,        \* fi->fh of every open file, with the allocation it was set to
    thread,    \* what each thread does
    crashed,   \* ghost: memory was used after it was freed
    ops

maps == <<pathMap, active, refcount, hpath, birth>>
vars == <<maps, owner, exists, fd, thread, crashed, ops>>

Closed == [at |-> NoAddr, birth |-> 0, path |-> NoPath]
Idle == [op |-> "none", pc |-> "idle", at |-> NoAddr, birth |-> 0, path |-> NoPath,
         new |-> NoPath, fd |-> NoAddr, drops |-> 0]
Open(f) == fd[f].at /= NoAddr
Set(t, fields) == thread' = [thread EXCEPT ![t] = fields @@ @]
Dead(t) == thread[t].at \notin active \/ birth[thread[t].at] /= thread[t].birth
\* Anything may follow: the daemon is taken to die.
Crash == crashed' = TRUE /\ thread' = [t \in Thread |-> [Idle EXCEPT !.pc = "dead"]]

Init == /\ pathMap = [p \in Path |-> NoAddr] /\ active = {} /\ refcount = [a \in Addr |-> 0]
        /\ hpath = [a \in Addr |-> NoPath] /\ owner = [a \in Addr |-> "nobody"]
        /\ birth = [a \in Addr |-> 0] /\ exists \in SUBSET Path
        /\ fd = [f \in Fd |-> Closed] /\ thread = [t \in Thread |-> Idle]
        /\ crashed = FALSE /\ ops = 0
-----------------------------------------------------------------------------
\* A request of the kernel; rename and path requests name paths, the others a
\* file that this thread alone works on while it opens or releases it.
Request(t) ==
    /\ thread[t].pc = "idle" /\ ops < MaxOps /\ ops' = ops + 1
    /\ \E op \in Ops, p \in Path :
        \/ /\ op \in {"open", "create"}
           /\ \E f \in Fd : /\ ~Open(f) /\ \A u \in Thread : thread[u].fd /= f
                            /\ Set(t, [op |-> op, pc |-> "query", path |-> p, fd |-> f])
        \/ /\ op = "release" /\ p = CHOOSE q \in Path : TRUE
           /\ \E f \in Fd : /\ Open(f) /\ \A u \in Thread : thread[u].fd /= f
                            /\ Set(t, [op |-> op, pc |-> "info", fd |-> f])
        \/ /\ op = "io" /\ p = CHOOSE q \in Path : TRUE
           /\ \E f \in Fd : /\ Open(f)
                            /\ \A u \in Thread : thread[u].fd = f => thread[u].op = "io"
                            /\ Set(t, [op |-> op, pc |-> "info", fd |-> f])
        \/ /\ op \in {"path", "unlink"}
           /\ Set(t, [op |-> op, pc |-> "lookup", path |-> p])
        \/ /\ op = "rename"
           /\ \E q \in Path \ {p} : Set(t, [op |-> op, pc |-> "lookup", path |-> p, new |-> q])
    /\ UNCHANGED <<maps, owner, exists, fd, crashed>>

\* vfs_open wants a file that exists, vfs_create one that does not, and makes it.
Query(t) ==
    LET here == thread[t].path \in exists IN
    /\ thread[t].pc = "query"
    /\ \/ /\ here = (thread[t].op = "open")
          /\ exists' = exists \cup {thread[t].path}
          /\ Set(t, [pc |-> "create"])
       \/ /\ UNCHANGED exists /\ thread' = [thread EXCEPT ![t] = Idle]
    /\ UNCHANGED <<maps, owner, fd, crashed, ops>>

\* file_handle_new and the insertions of get_or_create_file_handle_for_path.
GetOrCreate(t) ==
    LET p == thread[t].path IN
    /\ thread[t].pc = "create"
    /\ IF pathMap[p] /= NoAddr
       THEN /\ refcount' = [refcount EXCEPT ![pathMap[p]] = @ + 1]
            /\ Set(t, [pc |-> "lock", at |-> pathMap[p], birth |-> birth[pathMap[p]]])
            /\ UNCHANGED <<pathMap, active, hpath, birth>>
       ELSE \E a \in Addr \ active :
            /\ refcount' = [refcount EXCEPT ![a] = 1]
            /\ hpath' = [hpath EXCEPT ![a] = p]
            /\ birth' = [birth EXCEPT ![a] = @ + 1]
            /\ active' = active \cup {a}
            /\ pathMap' = [pathMap EXCEPT ![p] = a]
            /\ Set(t, [pc |-> "lock", at |-> a, birth |-> birth'[a]])
    /\ UNCHANGED <<owner, exists, fd, crashed, ops>>

\* Mutant: the handle found by its path is used without a reference of one's own.
GetForPath_NoRef(t) ==
    LET p == thread[t].path  a == pathMap[p] IN
    /\ thread[t].pc = "lookup"
    /\ IF a = NoAddr THEN Set(t, [pc |-> "work", at |-> NoAddr])
       ELSE Set(t, [pc |-> "lock", at |-> a, birth |-> birth[a]])
    /\ UNCHANGED <<maps, owner, exists, fd, crashed, ops>>

\* get_file_handle_for_path; vfs_rename, vfs_unlink and vfs_truncate go on
\* without a handle when there is none.
GetForPath(t) ==
    LET p == thread[t].path  a == pathMap[p] IN
    /\ thread[t].pc = "lookup"
    /\ IF a = NoAddr
       THEN /\ UNCHANGED refcount /\ Set(t, [pc |-> "work", at |-> NoAddr])
       ELSE /\ refcount' = [refcount EXCEPT ![a] = @ + 1]
            /\ Set(t, [pc |-> "lock", at |-> a, birth |-> birth[a]])
    /\ UNCHANGED <<pathMap, active, hpath, birth, owner, exists, fd, crashed, ops>>

\* get_file_handle_from_info: the address counts when some handle lives there.
GetFromInfo(t) ==
    LET a == fd[thread[t].fd].at IN
    /\ thread[t].pc = "info"
    /\ IF a \in active
       THEN /\ refcount' = [refcount EXCEPT ![a] = @ + 1]
            /\ Set(t, [pc |-> "lock", at |-> a, birth |-> birth[a]])
            /\ UNCHANGED fd
       ELSE /\ UNCHANGED refcount
            /\ thread' = [thread EXCEPT ![t] = Idle]
            /\ fd' = IF thread[t].op = "release" THEN [fd EXCEPT ![thread[t].fd] = Closed] ELSE fd
    /\ UNCHANGED <<pathMap, active, hpath, birth, owner, exists, crashed, ops>>

\* g_mutex_lock (&fh->mutex).
Lock(t) ==
    LET a == thread[t].at IN
    /\ thread[t].pc = "lock"
    /\ IF Dead(t) THEN Crash /\ UNCHANGED owner
       ELSE /\ owner[a] = "nobody" /\ owner' = [owner EXCEPT ![a] = t]
            /\ Set(t, [pc |-> "work"]) /\ UNCHANGED crashed
    /\ UNCHANGED <<maps, exists, fd, ops>>

\* What the request does with the locked handle's stream and the remote file.
\* open_common fails or leaves the new reference to the open file; vfs_release
\* gives up that reference and its own.
Work(t) ==
    LET a == thread[t].at  op == thread[t].op
        opened == [at |-> a, birth |-> thread[t].birth, path |-> thread[t].path]
    IN
    /\ thread[t].pc = "work" /\ op /= "rename"
    /\ IF a /= NoAddr /\ Dead(t) THEN Crash /\ UNCHANGED <<owner, fd, exists>>
       ELSE /\ UNCHANGED crashed
            /\ owner' = IF a = NoAddr THEN owner ELSE [owner EXCEPT ![a] = "nobody"]
            /\ \/ /\ op \in {"open", "create"}
                  /\ fd' = [fd EXCEPT ![thread[t].fd] = opened]
                  /\ thread' = [thread EXCEPT ![t] = Idle] /\ UNCHANGED exists
               \/ /\ op = "open" /\ Set(t, [pc |-> "unref", drops |-> 1]) /\ UNCHANGED <<fd, exists>>
               \/ /\ op = "release" /\ Set(t, [pc |-> "unref", drops |-> 2])
                  /\ fd' = [fd EXCEPT ![thread[t].fd] = Closed] /\ UNCHANGED exists
               \/ /\ op \in {"io", "path", "unlink"} /\ UNCHANGED fd
                  /\ exists' = IF op = "unlink" THEN exists \ {thread[t].path} ELSE exists
                  /\ IF a = NoAddr THEN thread' = [thread EXCEPT ![t] = Idle]
                     ELSE Set(t, [pc |-> "unref", drops |-> 1])
    /\ UNCHANGED <<maps, ops>>

\* reindex_file_handle_for_path under global_mutex: inserting over a handle of
\* the new path frees that handle, whoever uses it.
Reindex(old, new) ==
    LET a == pathMap[old]  gone == pathMap[new] IN
    IF a = NoAddr THEN UNCHANGED maps
    ELSE /\ pathMap' = [pathMap EXCEPT ![old] = NoAddr, ![new] = a]
         /\ hpath' = [hpath EXCEPT ![a] = new]
         /\ active' = active \ ({gone} \ {a})
         /\ UNCHANGED <<refcount, birth>>

\* vfs_rename: g_file_move and, when it succeeds, the new index; the old
\* handle's mutex is held all the time.
Rename(t) ==
    LET a == thread[t].at  old == thread[t].path  new == thread[t].new IN
    /\ thread[t].pc = "work" /\ thread[t].op = "rename"
    /\ IF a /= NoAddr /\ Dead(t) THEN Crash /\ UNCHANGED <<maps, exists, owner>>
       ELSE /\ UNCHANGED crashed
            /\ \/ /\ old \in exists /\ exists' = (exists \ {old}) \cup {new}
                  /\ Reindex(old, new)
               \/ UNCHANGED <<exists, maps>>
            /\ owner' = IF a = NoAddr THEN owner ELSE [owner EXCEPT ![a] = "nobody"]
            /\ IF a = NoAddr THEN thread' = [thread EXCEPT ![t] = Idle]
               ELSE Set(t, [pc |-> "unref", drops |-> 1])
    /\ UNCHANGED <<fd, ops>>

\* g_atomic_int_dec_and_test: only the thread that reaches 0 goes on.  When the
\* handle was found again since another thread brought it to 0, both see 0 under
\* the mutex and both free it: Twice = FALSE leaves that order of steps out.
Unref(t) ==
    LET a == thread[t].at  last == thread[t].drops = 1 IN
    /\ thread[t].pc = "unref"
    /\ Twice \/ refcount[a] > 1 \/ \A u \in Thread : thread[u].pc /= "free" \/ thread[u].at /= a
    /\ IF Dead(t) THEN Crash /\ UNCHANGED refcount
       ELSE /\ UNCHANGED crashed /\ refcount' = [refcount EXCEPT ![a] = @ - 1]
            /\ IF refcount[a] = 1 THEN Set(t, [pc |-> "free", drops |-> thread[t].drops - 1])
               ELSE IF last THEN thread' = [thread EXCEPT ![t] = Idle]
               ELSE Set(t, [drops |-> 1])
    /\ UNCHANGED <<pathMap, active, hpath, birth, owner, exists, fd, ops>>

\* The second half of file_handle_unref, under global_mutex: still unused, the
\* handle leaves the map, which frees it (file_handle_free).
Free(t) ==
    LET a == thread[t].at IN
    /\ thread[t].pc = "free"
    /\ IF Dead(t) THEN Crash /\ UNCHANGED maps
       ELSE /\ UNCHANGED crashed
            /\ IF refcount[a] = 0
               THEN /\ pathMap' = [pathMap EXCEPT ![hpath[a]] = NoAddr]
                    /\ active' = active \ {pathMap[hpath[a]]}
               ELSE UNCHANGED <<pathMap, active>>
            /\ IF thread[t].drops = 0 THEN thread' = [thread EXCEPT ![t] = Idle]
               ELSE Set(t, [pc |-> "unref"])
            /\ UNCHANGED <<refcount, hpath, birth>>
    /\ UNCHANGED <<owner, exists, fd, ops>>

Step(t) == \/ Query(t) \/ GetOrCreate(t) \/ GetForPath(t) \/ GetFromInfo(t) \/ Lock(t)
           \/ Work(t) \/ Rename(t) \/ Unref(t) \/ Free(t)
Next == \E t \in Thread : Request(t) \/ Step(t)
Spec == /\ Init /\ [][Next]_vars
        /\ \A t \in Thread : WF_vars(Step(t)) /\ SF_vars(Lock(t))
-----------------------------------------------------------------------------
TypeOK ==
    /\ pathMap \in [Path -> Addr \cup {NoAddr}] /\ active \subseteq Addr
    /\ refcount \in [Addr -> Nat] /\ hpath \in [Addr -> Path \cup {NoPath}]
    /\ owner \in [Addr -> Thread \cup {"nobody"}] /\ birth \in [Addr -> Nat]
    /\ exists \subseteq Path /\ crashed \in BOOLEAN /\ ops \in 0 .. MaxOps
    /\ \A f \in Fd : fd[f].at \in Addr \cup {NoAddr}
    /\ \A t \in Thread : /\ thread[t].pc \in {"idle", "query", "create", "lookup", "info", "lock",
                                              "work", "unref", "free", "dead"}
                         /\ thread[t].drops \in 0 .. 2

\* The references the code means to hold: one for every open file, one for
\* every request that works on the handle, and release's two.
Holds(t, a) ==
    IF thread[t].at /= a \/ thread[t].birth /= birth[a] THEN 0
    ELSE CASE thread[t].pc \in {"lock", "work"} -> 1
           [] thread[t].pc \in {"unref", "free"} -> thread[t].drops
           [] OTHER -> 0
Users(a) == {f \in Fd : fd[f].at = a /\ fd[f].birth = birth[a]}
SumOf(S, w(_)) == LET sum[U \in SUBSET S] ==
                        IF U = {} THEN 0
                        ELSE LET x == CHOOSE y \in U : TRUE IN w(x) + sum[U \ {x}]
                  IN sum[S]

\* Through opens, failures, revivals and double unrefs of release, a live
\* handle's count is what its open files and its workers hold.
RefsExact ==
    \A a \in active :
        refcount[a] = Cardinality(Users(a)) + SumOf(Thread, LAMBDA t : Holds(t, a))

\* The two maps name the same handles, each under its own path, also after
\* renames: no handle is unreachable or listed twice.
MapsAgree ==
    /\ \A p \in Path : pathMap[p] /= NoAddr => pathMap[p] \in active /\ hpath[pathMap[p]] = p
    /\ \A a \in active : pathMap[hpath[a]] = a

\* No request touches a handle after file_handle_free.
NoUseAfterFree == ~crashed

=============================================================================
