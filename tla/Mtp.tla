-------------------------------- MODULE Mtp ---------------------------------
(***************************************************************************)
(* The names of the backend for phones and players                         *)
(* (daemon/gvfsbackendmtp.c).  A device knows objects by number; the       *)
(* backend keeps in file_cache the object each path was last seen to name. *)
(* Jobs run under the mutex of the backend, each as one step here with the *)
(* calls of libmtp it makes, any of which may fail.  The user of the phone *)
(* changes it at the same time: the events of the device wait in a pool of *)
(* one thread and are handled under the same mutex, until the unmount.     *)
(* The device refuses two objects of one name in one folder.               *)
(***************************************************************************)
EXTENDS Integers, Sequences, FiniteSets, SequencesExt

CONSTANTS Stores, Names,
          Longer,      \* pairs of names of which the second begins with the first
          Depth,       \* names below a storage in a path
          Watched,     \* the folder a client may watch and list
          Listed,      \* the folders other clients list
          Ops, MaxId, MaxJobs, MaxFaults, MaxPhone
MtpAssumption == /\ Depth \in Nat /\ MaxId \in Nat /\ MaxJobs \in Nat /\ MaxFaults \in Nat /\ MaxPhone \in Nat
                 /\ Longer \subseteq Names \X Names /\ IsFiniteSet(Stores) /\ IsFiniteSet(Names)

Ids == 1..MaxId
Files == UNION {[1..k -> Names] : k \in 1..Depth}
Paths == {<<s>> : s \in Stores} \cup {<<s>> \o f : s \in Stores, f \in Files}
Absent == [n |-> "", up |-> 0, st |-> "", dir |-> FALSE, data |-> 0]
Dead == [Absent EXCEPT !.data = -1]        \* a number is not used again
NoEntry == [st |-> "", id |-> -1]
Root == 0           \* the number of a storage in an entry (-1 in the code)

VARIABLES
    obj, stores,   \* the device: its objects and storages
    cache,         \* file_cache
    pool,          \* the events that wait in the pool
    watch, view,   \* the client's monitor is there; the names it shows, once it has listed the folder
    ev,            \* the events the last step emitted
    local,         \* the local file that pull writes
    started,       \* unmount_started
    freed,         \* the cache and the device were released
    crashed,       \* a null pointer was followed
    bad,           \* memory that was freed has been read
    did, ans,      \* the last job with its paths, and its answer
    jobs, faults, phone
vars == <<obj, stores, cache, pool, watch, view, ev, local, started, freed, crashed, bad, did, ans, jobs, faults, phone>>

NoView == {"unlisted"}
Init == /\ stores \in (SUBSET Stores \ {{}}) /\ obj = [o \in Ids |-> Absent]
        /\ cache = [p \in Paths |-> NoEntry] /\ pool = <<>> /\ watch = FALSE /\ view = NoView /\ ev = <<>> /\ local = 0
        /\ started = FALSE /\ freed = FALSE /\ crashed = FALSE /\ bad = FALSE /\ did = <<"none", <<>>, <<>>>> /\ ans = "none"
        /\ jobs = 0 /\ faults = 0 /\ phone = 0

-----------------------------------------------------------------------------
(* The device.                                                             *)
Live(d) == {o \in Ids : d[o] \notin {Absent, Dead}}
Kids(d, st, up) == {o \in Live(d) : d[o].st = st /\ d[o].up = up}
Named(d, st, up, n) == {o \in Kids(d, st, up) : d[o].n = n}
PathOf(d, o) == LET up[x \in Ids] == IF d[x].up = 0 THEN <<d[x].st, d[x].n>>
                                     ELSE Append(up[d[x].up], d[x].n) IN up[o]
Fresh(d) == {o \in Ids : d[o] = Absent}
Dir(p) == SubSeq(p, 1, Len(p) - 1)

(* A job works on a record of the state; held are the paths whose entries  *)
(* it points to, lost those of them that were replaced or removed since.   *)
Cur == [obj |-> obj, cache |-> cache, ev |-> <<>>, local |-> local, held |-> {}, lost |-> {}, faults |-> faults]
R(s, rc) == [s |-> s, rc |-> rc]
Then(rs, F(_)) == UNION {IF r.rc = "ok" THEN F(r.s) ELSE {r} : r \in rs}
Fault(s, rc) == IF s.faults < MaxFaults THEN {R([s EXCEPT !.faults = @ + 1], rc)} ELSE {}
Mtp(s, can, d) == {IF can THEN R([s EXCEPT !.obj = d], "ok") ELSE R(s, "failed")} \cup Fault(s, "failed")
DeleteObject(s, o) == Mtp(s, o \in Live(s.obj), [s.obj EXCEPT ![o] = Dead])
NewObject(s, st, up, n, dir, data) ==
    LET new == CHOOSE o \in Fresh(s.obj) : \A x \in Fresh(s.obj) : o <= x
    IN IF Fresh(s.obj) = {} THEN {R(s, "failed")}
       ELSE Mtp(s, /\ Named(s.obj, st, up, n) = {} /\ st \in stores /\ (up = Root \/ (up \in Live(s.obj) /\ s.obj[up].dir)),
                [s.obj EXCEPT ![new] = [n |-> n, up |-> up, st |-> st, dir |-> dir, data |-> IF data = 0 THEN new ELSE data]])
SetFileName(s, o, n) == Mtp(s, o \in Live(s.obj) /\ (n = s.obj[o].n \/ Named(s.obj, s.obj[o].st, s.obj[o].up, n) = {}), [s.obj EXCEPT ![o].n = n])
Below(d, o) == {x \in Live(d) : Len(PathOf(d, x)) > Len(PathOf(d, o)) /\ SubSeq(PathOf(d, x), 1, Len(PathOf(d, o))) = PathOf(d, o)}
MoveObject(s, o, st, up) ==
    Mtp(s, /\ o \in Live(s.obj) /\ st \in stores /\ (up = Root \/ (up \in Live(s.obj) /\ s.obj[up].dir /\ up \notin {o} \cup Below(s.obj, o)))
           /\ Named(s.obj, st, up, s.obj[o].n) = {}
           /\ \A x \in Below(s.obj, o) : Len(PathOf(s.obj, x)) - Len(PathOf(s.obj, o)) + (IF up = Root THEN 2 ELSE Len(PathOf(s.obj, up)) + 1) <= Depth + 1,
        [x \in Ids |-> IF x = o THEN [s.obj[o] EXCEPT !.st = st, !.up = up]
                       ELSE IF o \in Live(s.obj) /\ x \in Below(s.obj, o) THEN [s.obj[x] EXCEPT !.st = st] ELSE s.obj[x]])
\* LIBMTP_Get_Filemetadata: is there something, and is it a folder?
Metadata(s, o) == {R(s, IF o \in Live(s.obj) THEN "ok" ELSE "null")} \cup Fault(s, "null")

-----------------------------------------------------------------------------
(* The cache.                                                              *)
\* add_cache_entry frees the entry that was there
Add(s, p, e) == [s EXCEPT !.cache[p] = e, !.lost = @ \cup ({p} \cap s.held)]
BeginsWith(q, p) == /\ Len(p) <= Len(q) /\ SubSeq(q, 1, Len(p) - 1) = Dir(p)
                    /\ (q[Len(p)] = Last(p) \/ <<Last(p), q[Len(p)]>> \in Longer)
\* remove_cache_entry: every path that begins with these characters
Drop(s, p) == LET gone == {q \in Paths : BeginsWith(q, p)}
                IN [s EXCEPT !.cache = [q \in Paths |-> IF q \in gone THEN NoEntry ELSE @[q]], !.lost = @ \cup (gone \cap s.held)]
\* with a slash at the end: everything below the path
DropBelow(s, p) == LET gone == {q \in Paths : Len(q) > Len(p) /\ SubSeq(q, 1, Len(p)) = p}
                     IN [s EXCEPT !.cache = [q \in Paths |-> IF q \in gone THEN NoEntry ELSE @[q]], !.lost = @ \cup (gone \cap s.held)]
\* add_cache_entries_for_filename goes down from the storage; a name that is
\* missing ends it only while no name was found
Walk(s, p) ==
    LET step[i \in 1..Len(p)] ==
            IF i = 1 THEN [s |-> Add(s, <<p[1]>>, [st |-> p[1], id |-> Root]), up |-> Root, stop |-> FALSE]
            ELSE LET b == step[i - 1]
                     hit == Named(s.obj, p[1], b.up, p[i])
                     o == CHOOSE x \in hit : TRUE
                 IN IF b.stop THEN b
                    ELSE IF hit # {} THEN [s |-> Add(b.s, SubSeq(p, 1, i), [st |-> p[1], id |-> o]), up |-> o, stop |-> FALSE]
                    ELSE [b EXCEPT !.stop = b.up = Root]
    IN IF p[1] \in stores THEN step[Len(p)].s ELSE s
\* get_cache_entry: "ok" with the entry in the cache, or what the caller
\* answers without one
Get(s, p, rc) == {R(t, IF t.cache[p] = NoEntry THEN rc ELSE "ok") : t \in IF s.cache[p] # NoEntry THEN {s} ELSE {Walk(s, p)}}
                 \cup IF s.cache[p] = NoEntry THEN Fault(s, rc) ELSE {}
Try(s, p) == {r.s : r \in Get(s, p, "none")}
Hold(s, p) == [s EXCEPT !.held = @ \cup {p}]
Id(s, p) == s.cache[p].id

\* emit_event_internal: the monitors of the folder and of the path
Emit(s, e, p) == [s EXCEPT !.ev = Append(@, <<e, p>>)]
See(v, evs) == IF v = NoView THEN v
               ELSE FoldLeft(LAMBDA x, e : IF ~watch \/ Len(e[2]) # Len(Watched) + 1 \/ Dir(e[2]) # Watched THEN x
                                           ELSE IF e[1] = "created" THEN x \cup {Last(e[2])} ELSE x \ {Last(e[2])}, v, evs)

\* A job ends in one of the outcomes rs.
Job(op, p, q, rs) ==
    /\ ~started /\ ~crashed /\ op \in Ops /\ jobs < MaxJobs /\ jobs' = jobs + 1 /\ did' = <<op, p, q>>
    /\ \E r \in rs : /\ obj' = r.s.obj /\ cache' = r.s.cache /\ ev' = r.s.ev /\ local' = r.s.local /\ faults' = r.s.faults
                     /\ ans' = r.rc /\ crashed' = (r.rc = "crash") /\ bad' = (bad \/ r.rc = "freed") /\ view' = See(view, r.s.ev)
    /\ UNCHANGED <<stores, pool, watch, started, freed, phone>>

-----------------------------------------------------------------------------
(* The jobs.                                                               *)
\* do_query_info; do_query_fs_info looks the path up in the same way
QueryInfo(p) ==
    Job("query", p, <<>>, Then(Get(Cur, p, "not found"), LAMBDA s :
        IF Len(p) = 1 THEN {R(s, IF p[1] \in stores THEN "ok" ELSE "not found")} \cup Fault(s, "failed")
        ELSE {R(r.s, IF r.rc = "ok" THEN "ok" ELSE "failed") : r \in Metadata(s, Id(s, p))}))
QueryFsInfo(p) == Job("fsinfo", p, <<>>, Then(Get(Cur, p, "not found"), LAMBDA s : {R(s, "ok")} \cup Fault(s, "failed")))

\* do_enumerate: what is cached below is dropped and learnt again
Children(s, p) == Kids(s.obj, p[1], Id(s, p))
Learn(s, p) == [s EXCEPT !.cache = [q \in Paths |-> IF Len(q) = Len(p) + 1 /\ Dir(q) = p /\ (\E o \in Children(s, p) : s.obj[o].n = Last(q))
                                                    THEN [st |-> p[1], id |-> CHOOSE o \in Children(s, p) : s.obj[o].n = Last(q)] ELSE @[q]]]
Enumerate(p) == Job("enumerate", p, <<>>, Then(Get(Cur, p, "not found"), LAMBDA s :
                    LET t == DropBelow(s, p) IN {R(Learn(t, p), "ok")} \cup Fault(t, "failed")))
\* The client watches a folder and lists it.
CreateMonitor == /\ "watch" \in Ops /\ ~started /\ ~crashed /\ ~watch /\ watch' = TRUE /\ did' = <<"watch", Watched, <<>>>> /\ ans' = "ok" /\ ev' = <<>>
                 /\ UNCHANGED <<obj, stores, cache, pool, view, local, started, freed, crashed, bad, jobs, faults, phone>>
WatchedEnumerate == /\ "watch" \in Ops /\ ~started /\ ~crashed /\ watch /\ jobs < MaxJobs /\ jobs' = jobs + 1 /\ did' = <<"enumerate", Watched, <<>>>> /\ ev' = <<>>
                    /\ \E r \in Then(Get(Cur, Watched, "not found"), LAMBDA s : {R(Learn(DropBelow(s, Watched), Watched), "ok")}) :
                          /\ cache' = r.s.cache /\ ans' = r.rc /\ faults' = r.s.faults
                          /\ view' = IF r.rc = "ok" THEN {obj[o].n : o \in Children(r.s, Watched)} ELSE NoView
                    /\ UNCHANGED <<obj, stores, pool, watch, local, started, freed, crashed, bad, phone>>

\* validate_source_and_dest
Validate(exists, destDir, srcDir, canBeDir, ow) ==
    IF exists THEN IF ~ow THEN "exists" ELSE IF ~srcDir /\ destDir THEN "is directory" ELSE IF destDir THEN "would merge"
                   ELSE IF srcDir THEN "would recurse" ELSE "ok"
    ELSE IF srcDir /\ ~canBeDir THEN "would recurse" ELSE "ok"
IsDir(s, o) == o \in Live(s.obj) /\ s.obj[o].dir

MakeDirectory(p) ==
    Job("mkdir", p, <<>>, IF Len(p) < 2 THEN {R(Cur, "denied")}
        ELSE UNION {IF s.cache[p] # NoEntry /\ Id(s, p) # Root THEN {R(s, "exists")}
                    ELSE Then(Get(s, Dir(p), "not found"), LAMBDA t :
                         {R(IF r.rc = "ok" THEN Emit(r.s, "created", p) ELSE r.s, r.rc) : r \in NewObject(t, p[1], Id(t, Dir(p)), Last(p), TRUE, 0)})
                    : s \in Try(Cur, p)})

\* do_pull to a local file: what is there is deleted first; a source that
\* cannot be removed counts as removed
Pull(p, ow, removes) ==
    Job("pull", p, <<>>, Then(Get(Cur, p, "not found"), LAMBDA s :
        IF Id(s, p) = Root THEN {R(s, "not regular")}
        ELSE UNION {IF m.rc = "null" THEN {R(m.s, "not found")}
                    ELSE LET o == Id(s, p)
                             ok == Validate(m.s.local # 0, FALSE, IsDir(m.s, o), FALSE, ow)
                             t == [m.s EXCEPT !.local = 0]
                             got(u) == LET w == [u EXCEPT !.local = u.obj[o].data]
                                       IN IF removes THEN {R(Drop(Emit(d.s, "deleted", p), p), "ok") : d \in DeleteObject(w, o)} ELSE {R(w, "ok")}
                         IN IF ok # "ok" THEN {R(m.s, ok)} ELSE got(t) \cup Fault(t, "failed")
                    : m \in Metadata(s, Id(s, p))}))

\* what push, move and copy do about a destination that is there
ClearTarget(s, q, exists) == IF exists THEN {IF r.rc = "ok" THEN R(Drop(Emit(r.s, "deleted", q), q), "ok") ELSE r : r \in DeleteObject(s, Id(s, q))}
                             ELSE {R(s, "ok")}
Exists(s, q) == s.cache[q] # NoEntry /\ Id(s, q) # Root
\* do_push of a local file whose content is new
Push(q, ow) ==
    Job("push", q, <<>>, IF Len(q) < 2 THEN {R(Cur, "denied")}
        ELSE UNION {Then(Get(s, Dir(q), "not found"), LAMBDA t :
                 LET ok == Validate(Exists(s, q), IsDir(s, Id(s, q)), FALSE, FALSE, ow)
                 IN IF ok # "ok" THEN {R(t, ok)}
                    ELSE Then(ClearTarget(t, q, Exists(s, q)), LAMBDA v :
                         {R(IF r.rc = "ok" THEN Emit(r.s, "created", q) ELSE r.s, r.rc) : r \in NewObject(v, q[1], Id(t, Dir(q)), Last(q), FALSE, 0)}))
             : s \in Try(Cur, q)})

\* do_delete follows the metadata without looking whether there are any
Delete(p) ==
    Job("delete", p, <<>>, Then(Get(Cur, p, "not found"), LAMBDA s :
        IF Id(s, p) = Root THEN {R(s, "denied")}
        ELSE UNION {IF m.rc = "null" THEN {R(m.s, "crash")}
                    ELSE IF IsDir(s, Id(s, p)) /\ Kids(s.obj, s.cache[p].st, Id(s, p)) # {} THEN {R(m.s, "not empty")}
                    ELSE {IF r.rc = "ok" THEN R(Drop(Emit(r.s, "deleted", p), p), "ok") ELSE r : r \in DeleteObject(m.s, Id(s, p))}
                    : m \in Metadata(s, Id(s, p))}))
\* do_set_display_name hands the metadata on without looking, too
SetDisplayName(p, n) ==
    LET q == Append(Dir(p), n)
    IN Job("rename", p, q, Then(Get(Cur, p, "not found"), LAMBDA s :
        IF Id(s, p) = Root THEN {R(s, "denied")}
        ELSE UNION {IF m.rc = "null" THEN {R(m.s, "crash")}
                    ELSE {IF r.rc = "ok" THEN R(Emit(Emit(Add(Drop(r.s, p), q, s.cache[p]), "created", q), "deleted", p), "ok") ELSE r
                          : r \in SetFileName(m.s, Id(s, p), n)}
                    : m \in Metadata(s, Id(s, p))}))

\* do_move and do_copy up to the removal of the target: F goes on with the
\* number of the source, of the new parent and the state
Transfer(p, q, ow, dirsToo(_), F(_, _, _)) ==
    IF Len(q) < 2 THEN {R(Cur, "denied")}
    ELSE Then(Get(Cur, p, "not found"), LAMBDA s :
         IF Id(s, p) = Root THEN {R(s, "denied")}
         ELSE UNION {UNION {Then(Get(t, Dir(q), "not found"), LAMBDA u :
                  LET ok == Validate(Exists(t, q), IsDir(t, Id(t, q)), IsDir(s, Id(s, p)) /\ m.rc = "ok", dirsToo(u), ow)
                  IN IF ok # "ok" THEN {R(u, ok)}
                     ELSE Then(ClearTarget(u, q, Exists(t, q)), LAMBDA v :
                          IF p \in v.lost THEN {R(v, "freed")} ELSE F(v, Id(s, p), Id(u, Dir(q)))))
                  : t \in Try(Hold(m.s, p), q)} : m \in Metadata(s, Id(s, p))})
\* do_move: renamed first, then moved; the source stays in the cache
Move(p, q, ow) ==
    Job("move", p, q, Transfer(p, q, ow, LAMBDA u : p[1] = q[1], LAMBDA v, o, up :
        LET renamed == IF Last(p) = Last(q) THEN {R(v, "ok")}
                       ELSE UNION {IF m.rc = "null" THEN {R(m.s, "ok")} ELSE SetFileName(m.s, o, Last(q)) : m \in Metadata(v, o)}
            moved(t) == IF Dir(p) = Dir(q) THEN {R(t, "ok")} ELSE MoveObject(t, o, q[1], up)
        IN {IF r.rc = "ok" THEN R(Emit(Emit(r.s, "deleted", p), "created", q), "ok") ELSE r : r \in Then(renamed, moved)}))
\* do_copy: the copy keeps its name
Copy(p, q, ow) ==
    Job("copy", p, q, Transfer(p, q, ow, LAMBDA u : FALSE, LAMBDA v, o, up :
        {IF r.rc = "ok" THEN R(Emit(r.s, "created", q), "ok") ELSE r
         : r \in IF o \in Live(v.obj) THEN NewObject(v, q[1], up, v.obj[o].n, v.obj[o].dir, v.obj[o].data) ELSE {R(v, "failed")}}))

-----------------------------------------------------------------------------
(* The user of the phone, the events, the end.                             *)
Phone(e) == /\ "phone" \in Ops /\ ~crashed /\ ~freed /\ phone < MaxPhone /\ phone' = phone + 1
            \* check_event_cb: nothing is queued once the unmount has started
            /\ pool' = IF started THEN pool ELSE Append(pool, e)
            /\ ev' = <<>> /\ did' = <<"phone", <<>>, <<>>>> /\ ans' = "none"
            /\ UNCHANGED <<cache, watch, view, local, started, freed, crashed, bad, jobs, faults>>
PhoneAdds(p, dir) == LET up == {o \in Live(obj) : PathOf(obj, o) = Dir(p)}
                         new == CHOOSE o \in Fresh(obj) : \A x \in Fresh(obj) : o <= x
                     IN /\ Len(p) > 1 /\ p[1] \in stores /\ Fresh(obj) # {} /\ ~\E o \in Live(obj) : PathOf(obj, o) = p
                        /\ Len(p) = 2 \/ \E o \in up : obj[o].dir
                        /\ obj' = [obj EXCEPT ![new] = [n |-> Last(p), up |-> IF Len(p) = 2 THEN 0 ELSE CHOOSE o \in up : TRUE, st |-> p[1], dir |-> dir, data |-> new]]
                        /\ stores' = stores /\ Phone(<<"added", new>>)
PhoneDeletes(o) == o \in Live(obj) /\ Kids(obj, obj[o].st, o) = {} /\ obj' = [obj EXCEPT ![o] = Dead] /\ stores' = stores /\ Phone(<<"removed", o>>)
PhonePlugs(st) == st \notin stores /\ stores' = stores \cup {st} /\ obj' = obj /\ Phone(<<"plugged", st>>)
PhonePulls(st) == st \in stores /\ stores' = stores \ {st} /\ obj' = [o \in Ids |-> IF o \in Live(obj) /\ obj[o].st = st THEN Dead ELSE obj[o]] /\ Phone(<<"pulled", st>>)

\* handle_event, under the mutex
ObjectAdded(s, o) == LET ps == {p \in Paths : s.cache[p].id = s.obj[o].up /\ s.cache[p].st = s.obj[o].st}
                         q == Append(CHOOSE p \in ps : TRUE, s.obj[o].n)
                     IN IF o \in Live(s.obj) /\ ps # {} THEN Emit(Add(s, q, [st |-> s.obj[o].st, id |-> o]), "created", q) ELSE s
Forget(s, gone) == LET q == SetToSeq(gone) IN FoldLeft(LAMBDA t, p : [Emit(t, "deleted", p) EXCEPT !.cache[p] = NoEntry], s, q)

ObjectRemoved(s, o) == Forget(s, {p \in Paths : s.cache[p].id = o})
StoreAdded(s, st) == IF st \in stores THEN Emit(Add(s, <<st>>, [st |-> st, id |-> Root]), "created", <<st>>) ELSE s
StoreRemoved(s, st) == Forget(s, {p \in Paths : s.cache[p].st = st})

HandleEvent ==
    /\ pool # <<>> /\ ~crashed /\ pool' = Tail(pool)
    /\ LET e == Head(pool)
           s == IF started THEN Cur
                ELSE CASE e[1] = "added" -> ObjectAdded(Cur, e[2]) [] e[1] = "removed" -> ObjectRemoved(Cur, e[2])
                       [] e[1] = "plugged" -> StoreAdded(Cur, e[2]) [] OTHER -> StoreRemoved(Cur, e[2])
       IN cache' = s.cache /\ ev' = s.ev /\ view' = See(view, s.ev) /\ bad' = (bad \/ (freed /\ ~started))
    /\ did' = <<"event", <<>>, <<>>>> /\ ans' = "none"
    /\ UNCHANGED <<obj, stores, watch, local, started, freed, crashed, jobs, faults, phone>>

AllGone == Forget(Cur, {p \in Paths : cache[p] # NoEntry})
\* do_unmount under the mutex: what waits in the pool stays there
Unmount == /\ "unmount" \in Ops /\ ~freed /\ ~crashed /\ started' = TRUE /\ freed' = TRUE
           /\ ev' = AllGone.ev /\ view' = See(view, AllGone.ev) /\ cache' = AllGone.cache /\ did' = <<"unmount", <<>>, <<>>>> /\ ans' = "ok"
           /\ UNCHANGED <<obj, stores, pool, watch, local, crashed, bad, jobs, faults, phone>>
\* on_uevent: the device is gone
Unplug == /\ "unplug" \in Ops /\ ~started /\ ~crashed /\ started' = TRUE
          /\ ev' = AllGone.ev /\ view' = See(view, AllGone.ev) /\ did' = <<"unplug", <<>>, <<>>>> /\ ans' = "none"
          /\ UNCHANGED <<obj, stores, cache, pool, watch, local, freed, crashed, bad, jobs, faults, phone>>

Query == \E p \in Paths : QueryInfo(p) \/ QueryFsInfo(p)
ListFolder == \E p \in Listed : Enumerate(p)
Change == \E p \in Paths : \/ MakeDirectory(p) \/ Delete(p) \/ (\E ow \in BOOLEAN : Push(p, ow)) \/ (\E n \in Names : Len(p) > 1 /\ n # Last(p) /\ SetDisplayName(p, n))
Pulls == \E p \in Paths, ow, removes \in BOOLEAN : Pull(p, ow, removes)
Transfers == \E p, q \in Paths, ow \in BOOLEAN : Move(p, q, ow) \/ Copy(p, q, ow)
PhoneChange == \/ (\E p \in Paths, d \in BOOLEAN : PhoneAdds(p, d)) \/ (\E o \in Ids : PhoneDeletes(o))
               \/ (\E st \in Stores : PhonePlugs(st) \/ PhonePulls(st))
Next == Query \/ ListFolder \/ CreateMonitor \/ WatchedEnumerate \/ Change \/ Pulls \/ Transfers \/ PhoneChange \/ HandleEvent \/ Unmount \/ Unplug
Spec == Init /\ [][Next]_vars

-----------------------------------------------------------------------------
(* What holds.                                                             *)
\* Everything has its type; what the cache names below a storage is below it.
TypeOK == /\ \A p \in Paths : cache[p] = NoEntry \/ (cache[p].st = p[1] /\ cache[p].id \in 0..MaxId /\ (cache[p].id = Root <=> Len(p) = 1))
          /\ \A o \in Live(obj) : obj[o].st \in stores /\ (obj[o].up = 0 \/ obj[obj[o].up].dir)
          /\ Len(pool) <= MaxPhone /\ faults <= MaxFaults /\ (freed => started)
\* Once the events of the device are handled, each path in the cache names
\* the object that is there (file_cache against the phone's own changes).
Truth == \A p \in Paths : cache[p] # NoEntry =>
             IF Len(p) = 1 THEN p[1] \in stores ELSE cache[p].id \in Live(obj) /\ PathOf(obj, cache[p].id) = p
CacheTrue == pool = <<>> /\ ~started => Truth
\* A client that listed the folder it watches shows what is there, once the
\* events are handled (the events of the jobs and of the device).
ViewTrue == pool = <<>> /\ ~started /\ watch /\ view # NoView =>
                view = {obj[o].n : o \in {x \in Live(obj) : Dir(PathOf(obj, x)) = Watched}}
\* Nothing reads memory that was freed: no entry across a lookup or a
\* removal, no cache after the unmount.
NoUseAfterFree == ~bad

\* While the cache is true, a job changes only what is at the paths it was given, and overwrites or
\* empties no folder: an object that goes away was at such a path and had no
\* children; one that is moved or renamed was at the first path.
OnlyTouchesNamed == Truth /\ did'[1] \notin {"phone", "event", "none"} =>
    \A o \in Live(obj) : LET p == PathOf(obj, o)
                         IN /\ obj'[o] = Dead => p \in {did'[2], did'[3]} /\ Kids(obj, obj[o].st, o) = {}
                            /\ obj'[o] # Dead /\ (obj'[o].n # obj[o].n \/ obj'[o].up # obj[o].up) => p = did'[2]
\* Without a failing call a refused job leaves the device as it was.
RefusedUnchanged == faults' = faults /\ jobs' # jobs /\ ans' \notin {"ok", "failed", "freed"} => obj' = obj /\ local' = local
\* While the cache is true and no call fails, a successful move leaves under
\* the new name what was under the old one, and all else but the target
\* where it was (do_move).
MovedWhole == Truth /\ faults' = faults /\ jobs' # jobs /\ did'[1] = "move" /\ ans' = "ok" =>
    /\ \E o \in Live(obj) : PathOf(obj, o) = did'[2] /\ PathOf(obj', o) = did'[3]
    /\ \A o \in Live(obj) : PathOf(obj, o) \notin {did'[2], did'[3]} => obj'[o].n = obj[o].n /\ obj'[o].up = obj[o].up

=============================================================================
