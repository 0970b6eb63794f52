------------------------------ MODULE AfpFiles ------------------------------
(***************************************************************************)
(* The jobs of the AFP backend (daemon/gvfsbackendafp.c) that work on      *)
(* names: copy, move, rename, make directory, delete, attributes, file     *)
(* information and listings.  All run in the main thread as chains of      *)
(* commands and callbacks, so they interleave with each other and with     *)
(* other clients of the server between any two commands.                   *)
(*                                                                         *)
(* The server's volume has one directory with the names of Names in it;    *)
(* `home' tells whether the directory still has the name that the jobs use *)
(* for it (another client may rename it).                                  *)
(***************************************************************************)
EXTENDS Integers, Sequences, FiniteSets

-----------------------------------------------------------------------------
(* The volume object (daemon/gvfsafpvolume.c): for each operation the      *)
(* command it sends and the error it makes of a result code of the server. *)
(* Commands name files by their path from the root of the volume           *)
(* (directory id 2), except the ones that create or rename: these first    *)
(* ask for the id of the parent directory and then name the file in the    *)
(* directory with that id.                                                 *)

\* The result codes that the code tells apart; "misc" is any other, and
\* "cancelled" is no reply at all: the connection or the task gave up.
Codes == {"ok", "denied", "notfound", "dirnotfound", "exists", "typeerr", "busy", "notempty", "locked", "vollocked",
          "diskfull", "lockerr", "eof", "idnotfound", "toomany", "misc", "cancelled"}
\* afp_result_code_to_gerror, g_vfs_afp_connection_send_command_finish
Other(code) == IF code = "cancelled" THEN "cancelled" ELSE "failed"
Map(errors, code) == IF code \in DOMAIN errors THEN errors[code] ELSE Other(code)
Command(c, n, d) == [c |-> c, n |-> n, d |-> d, byid |-> FALSE, fork |-> 0, off |-> 0, data |-> <<>>, arg |-> <<>>]
\* g_vfs_afp_volume_get_filedir_parms, get_filedir_parms_cb
ParmsCommand(n, why) == Command("parms", n, why)
ParmsErrors == [notfound |-> "notfound"]
\* g_vfs_afp_volume_delete, delete_cb
DeleteCommand(n) == Command("delete", n, n)
DeleteErrors == [denied |-> "perm", busy |-> "busy", notempty |-> "notempty", locked |-> "failed",
                 notfound |-> "notfound", vollocked |-> "perm"]
\* g_vfs_afp_volume_create_directory
CreateDirAsk(n) == Command("parentid", n, "createdir")
\* create_directory_get_filedir_parms_cb
CreateDirCommand(n) == [Command("createdir", n, n) EXCEPT !.byid = TRUE]
\* make_directory_cb
CreateDirErrors == [denied |-> "perm", diskfull |-> "nospace", notfound |-> "notfound", exists |-> "exists",
                    vollocked |-> "perm"]
\* g_vfs_afp_volume_rename: the id of the directory the file is in
RenameAsk(n) == Command("parentof", n, "rename")
\* rename_get_filedir_parms_cb
RenameCommand(n, d) == [Command("rename", n, d) EXCEPT !.byid = TRUE]
\* rename_cb
RenameErrors == [denied |-> "perm", exists |-> "exists", locked |-> "failed", notfound |-> "notfound", vollocked |-> "perm"]
\* g_vfs_afp_volume_move_and_rename
MoveCommand(n, d) == Command("move", n, d)
\* move_and_rename_cb: an object that must not be renamed is "not found"
MoveErrors == [denied |-> "perm", exists |-> "exists", locked |-> "notfound", notfound |-> "notfound"]
\* g_vfs_afp_volume_copy_file
CopyCommand(n, d) == Command("copy", n, d)
\* copy_file_cb
CopyErrors == [denied |-> "perm", diskfull |-> "nospace", exists |-> "exists", notfound |-> "notfound", typeerr |-> "isdir"]
\* g_vfs_afp_volume_set_unix_privs: owner, group and mode together
SetPrivsCommand(n, priv) == [Command("setprivs", n, n) EXCEPT !.arg = priv]
\* set_unix_privs_cb
SetPrivsErrors == [denied |-> "perm", notfound |-> "notfound", vollocked |-> "perm"]
\* g_vfs_afp_volume_enumerate: at most a page from an index on
EnumerateCommand(n, index) == [Command("enumerate", n, n) EXCEPT !.off = index]
\* enumerate_cb: no object at the index is the end, not an error
EnumerateErrors == [denied |-> "perm", dirnotfound |-> "notfound", typeerr |-> "notdir"]

-----------------------------------------------------------------------------
CONSTANTS Jobs, Ops, Trees,        \* the jobs, what they may be asked, the volumes
          MaxFaults, MaxOthers,    \* bounds: failures, changes by other clients
          UnixPrivs,               \* the volume has owners and modes
          ReqCount, MaxIndex       \* names per reply to a listing, largest index the protocol has

Names == {"a", "b", "c"}

None == [k |-> "none", v |-> 0, kids |-> FALSE, priv |-> <<0, 0, 0>>]
AfpFilesAssumption == /\ MaxFaults \in Nat /\ MaxOthers \in Nat /\ ReqCount \in Nat \ {0} /\ MaxIndex \in Nat \ {0}
                      /\ UnixPrivs \in BOOLEAN /\ \A t \in Trees : DOMAIN t = Names

VARIABLES
    node,     \* what the directory has under each name
    home,     \* the directory still has its name
    job,      \* the jobs
    lost,     \* ghost: <<job, what a command of it destroyed>>
    before,   \* ghost: the directory as each job found it when it started
    faults, others
vars == <<node, home, job, lost, before, faults, others>>

Op(kind, n, d, ow, attr) == [kind |-> kind, n |-> n, d |-> d, ow |-> ow, attr |-> attr]
NoOp == Op("none", "a", "a", FALSE, {})
Idle == [op |-> NoOp, pc |-> "idle", out |-> {}, src |-> "wait", dst |-> "wait", sdir |-> FALSE, ddir |-> FALSE,
         names |-> {}, left |-> 0, list |-> <<>>, index |-> 1, ans |-> "none", answers |-> 0, code |-> "ok"]

Init == /\ node \in Trees /\ home = TRUE
        /\ job = [j \in Jobs |-> Idle]
        /\ lost = {} /\ before = [j \in Jobs |-> node] /\ faults = 0 /\ others = 0

-----------------------------------------------------------------------------
(* The server.                                                             *)
Listed == {n \in Names : node[n].k # "none"}
\* The names in the server's order.
Rank(n) == CASE n = "a" -> 1 [] n = "b" -> 2 [] n = "c" -> 3
Nth(i) == CHOOSE n \in Listed : Cardinality({m \in Listed : Rank(m) < Rank(n)}) = i - 1
Page(i) == [x \in 1 .. (IF Cardinality(Listed) - i + 1 < ReqCount THEN Cardinality(Listed) - i + 1 ELSE ReqCount)
                |-> Nth(i + x - 1)]
Put(n, x) == [node EXCEPT ![n] = x]

\* What a command changes and the result code of its reply.
Exec(cmd) ==
    LET n == node[cmd.n]
        found == (cmd.byid \/ home) /\ (cmd.c = "parentid" \/ n.k # "none")
    IN CASE cmd.c \in {"createdir"} -> IF n.k # "none" THEN <<node, "exists">>
                                       ELSE <<Put(cmd.n, [None EXCEPT !.k = "dir"]), "ok">>
         [] cmd.c = "mapid" -> <<node, "ok">>
         [] cmd.c = "enumerate" -> <<node, IF ~home THEN "dirnotfound"
                                           ELSE IF cmd.off > Cardinality(Listed) THEN "notfound" ELSE "ok">>
         [] ~found -> <<node, "notfound">>
         [] cmd.c \in {"parms", "parentid", "parentof"} -> <<node, "ok">>
         [] cmd.c = "delete" -> IF n.kids THEN <<node, "notempty">> ELSE <<Put(cmd.n, None), "ok">>
         [] cmd.c \in {"move", "rename"} -> IF node[cmd.d].k # "none" THEN <<node, "exists">>
                                            ELSE <<[node EXCEPT ![cmd.d] = n, ![cmd.n] = None], "ok">>
         [] cmd.c = "copy" -> IF n.k = "dir" THEN <<node, "typeerr">>
                              ELSE IF node[cmd.d].k # "none" THEN <<node, "exists">>
                              ELSE <<Put(cmd.d, n), "ok">>
         [] cmd.c = "setprivs" -> <<Put(cmd.n, [n EXCEPT !.priv = cmd.arg]), "ok">>

\* The result codes a server may fail a command with although the names in it
\* are right.
Refusals == {"denied", "locked", "vollocked", "busy", "diskfull", "misc", "cancelled"}

\* A command of the job is replied to: as the server executed it, with a
\* failure, or not at all - and then the server may have executed it.
Reply(j, cmd, code) ==
    /\ cmd \in job[j].out
    /\ LET x == Exec(cmd)
           acts == node' = x[1] /\ lost' = (IF cmd.c = "delete" /\ x[2] = "ok" THEN lost \cup {<<j, node[cmd.n]>>} ELSE lost)
       IN \/ code = x[2] /\ acts /\ UNCHANGED faults
          \/ code \in Refusals /\ faults < MaxFaults /\ faults' = faults + 1 /\ UNCHANGED <<node, lost>>
          \/ code = "cancelled" /\ faults < MaxFaults /\ faults' = faults + 1 /\ acts
    /\ UNCHANGED <<home, before, others>>

\* Another client writes a file, removes one, puts a directory in its place,
\* or renames the directory that the files are in.
OtherClient ==
    /\ others < MaxOthers /\ others' = others + 1
    /\ \/ \E n \in Names : /\ node[n].k # "dir" /\ node' = Put(n, [None EXCEPT !.k = "file", !.v = 9]) /\ UNCHANGED home
       \/ \E n \in Names : /\ node[n].k = "file" /\ node' = Put(n, None) /\ UNCHANGED home
       \/ home' = ~home /\ UNCHANGED node
    /\ UNCHANGED <<job, lost, before, faults>>

-----------------------------------------------------------------------------
(* The jobs.                                                               *)
Send(r, pc, cmds) == [r EXCEPT !.pc = pc, !.out = cmds]
\* g_vfs_job_succeeded, g_vfs_job_failed
Answer(r, a) == [r EXCEPT !.pc = "done", !.ans = a, !.answers = @ + 1]
Took(r, cmd) == [r EXCEPT !.out = @ \ {cmd}]

\* try_copy, try_move: both looks are sent at once
StartCopyMove(r) == Send(r, "looking", {ParmsCommand(r.op.n, "source"), ParmsCommand(r.op.d, "dest")})
\* try_set_display_name
StartRename(r) == Send(r, "rename", {RenameAsk(r.op.n)})
\* try_make_directory
StartMkdir(r) == Send(r, "mkdir", {CreateDirAsk(r.op.n)})
\* try_delete
StartDelete(r) == Send(r, "delete", {DeleteCommand(r.op.n)})
\* try_set_attribute: only owner, group and mode, and only where the volume
\* has them
StartSetAttribute(r) == IF UnixPrivs THEN Send(r, "getprivs", {ParmsCommand(r.op.n, "privs")}) ELSE Answer(r, "notsupported")
\* try_query_info (of another name than the root)
StartQueryInfo(r) == Send(r, "query", {ParmsCommand(r.op.n, "info")})
\* enumerate, and the end of the indexes in g_vfs_afp_volume_enumerate
Enumerate(r, index) == IF index > MaxIndex THEN Answer(r, "ok")
                       ELSE Send([r EXCEPT !.index = index], "enumerate", {EnumerateCommand("a", index)})

Start(j) ==
    /\ job[j].pc = "idle"
    /\ \E op \in Ops :
         LET r == [Idle EXCEPT !.op = op] IN
         job' = [job EXCEPT ![j] = CASE op.kind \in {"copy", "move"} -> StartCopyMove(r)
                                     [] op.kind = "rename" -> StartRename(r)
                                     [] op.kind = "mkdir" -> StartMkdir(r)
                                     [] op.kind = "delete" -> StartDelete(r)
                                     [] op.kind = "set" -> StartSetAttribute(r)
                                     [] op.kind = "query" -> StartQueryInfo(r)
                                     [] op.kind = "list" -> Enumerate(r, 1)]
    /\ before' = [before EXCEPT ![j] = node]
    /\ UNCHANGED <<node, home, lost, faults, others>>

\* do_copy: the source must be there, a missing target is no error; a
\* directory is never a target, and never copied; the target goes first.
DoCopy(r) ==
    LET exists == r.dst = "ok" IN
    IF r.src # "ok" THEN Answer(r, Map(ParmsErrors, r.src))
    ELSE IF ~exists /\ Map(ParmsErrors, r.dst) # "notfound" THEN Answer(r, Map(ParmsErrors, r.dst))
    ELSE IF exists /\ ~r.op.ow THEN Answer(r, "exists")
    ELSE IF exists /\ r.ddir THEN Answer(r, IF r.sdir THEN "merge" ELSE "isdir")
    ELSE IF r.sdir THEN Answer(r, "recurse")
    ELSE IF exists THEN Send(r, "overwrite", {DeleteCommand(r.op.d)})
    ELSE Send(r, "act", {CopyCommand(r.op.n, r.op.d)})
\* do_move: directories are moved
DoMove(r) ==
    LET exists == r.dst = "ok" IN
    IF r.src # "ok" THEN Answer(r, Map(ParmsErrors, r.src))
    ELSE IF ~exists /\ Map(ParmsErrors, r.dst) # "notfound" THEN Answer(r, Map(ParmsErrors, r.dst))
    ELSE IF exists /\ ~r.op.ow THEN Answer(r, "exists")
    ELSE IF exists /\ r.ddir THEN Answer(r, IF r.sdir THEN "merge" ELSE "isdir")
    ELSE IF exists THEN Send(r, "overwrite", {DeleteCommand(r.op.d)})
    ELSE Send(r, "act", {MoveCommand(r.op.n, r.op.d)})

\* copy_get_source_parms_cb, copy_get_dest_parms_cb and those of move: the
\* second result starts the work.
Looked(r) == IF r.src = "wait" \/ r.dst = "wait" THEN r
             ELSE IF r.op.kind = "copy" THEN DoCopy(r) ELSE DoMove(r)
LookCb(j, cmd, code) ==
    /\ job[j].pc = "looking" /\ Reply(j, cmd, code)
    /\ LET dir == node[cmd.n].k = "dir"
           r == Took(job[j], cmd)
       IN job' = [job EXCEPT ![j] = Looked(IF cmd.d = "source" THEN [r EXCEPT !.src = code, !.sdir = dir]
                                           ELSE [r EXCEPT !.dst = code, !.ddir = dir])]
\* copy_delete_cb, move_delete_cb
OverwriteCb(j, cmd, code) ==
    /\ job[j].pc = "overwrite" /\ Reply(j, cmd, code)
    /\ LET r == Took(job[j], cmd) IN
       job' = [job EXCEPT ![j] =
          IF code # "ok" THEN Answer(r, Map(DeleteErrors, code))
          ELSE Send(r, "act", {IF r.op.kind = "copy" THEN CopyCommand(r.op.n, r.op.d) ELSE MoveCommand(r.op.n, r.op.d)})]
\* copy_copy_file_cb, move_move_and_rename_cb
ActCb(j, cmd, code) ==
    /\ job[j].pc = "act" /\ Reply(j, cmd, code)
    /\ LET r == [Took(job[j], cmd) EXCEPT !.code = code] IN
       job' = [job EXCEPT ![j] = Answer(r, IF code = "ok" THEN "ok"
                                           ELSE Map(IF r.op.kind = "copy" THEN CopyErrors ELSE MoveErrors, code))]
\* rename_cb: the volume's two steps and the job's end
RenameCb(j, cmd, code) ==
    /\ job[j].pc = "rename" /\ Reply(j, cmd, code)
    /\ LET r == Took(job[j], cmd) IN
       job' = [job EXCEPT ![j] =
          IF cmd.c = "rename" THEN Answer(r, IF code = "ok" THEN "ok" ELSE Map(RenameErrors, code))
          ELSE IF code # "ok" THEN Answer(r, Map(ParmsErrors, code))
          ELSE Send(r, "rename", {RenameCommand(r.op.n, r.op.d)})]
\* create_directory_cb
MkdirCb(j, cmd, code) ==
    /\ job[j].pc = "mkdir" /\ Reply(j, cmd, code)
    /\ LET r == Took(job[j], cmd) IN
       job' = [job EXCEPT ![j] =
          IF cmd.c = "createdir" THEN Answer(r, IF code = "ok" THEN "ok" ELSE Map(CreateDirErrors, code))
          ELSE IF code # "ok" THEN Answer(r, Map(ParmsErrors, code))
          ELSE Send(r, "mkdir", {CreateDirCommand(r.op.n)})]
\* delete_delete_cb
DeleteCb(j, cmd, code) ==
    /\ job[j].pc = "delete" /\ Reply(j, cmd, code)
    /\ job' = [job EXCEPT ![j] = Answer(Took(@, cmd), IF code = "ok" THEN "ok" ELSE Map(DeleteErrors, code))]
\* set_attribute_get_filedir_parms_cb: what is not asked for is written back
\* as it was read
SetPrivs(priv, attr) == [i \in 1 .. 3 |-> IF i \in attr THEN 7 ELSE priv[i]]
GetPrivsCb(j, cmd, code) ==
    /\ job[j].pc = "getprivs" /\ Reply(j, cmd, code)
    /\ LET r == Took(job[j], cmd) IN
       job' = [job EXCEPT ![j] =
          IF code # "ok" THEN Answer(r, Map(ParmsErrors, code))
          ELSE Send(r, "setprivs", {SetPrivsCommand(r.op.n, SetPrivs(node[cmd.n].priv, r.op.attr))})]
\* set_attribute_set_unix_privs_cb
SetPrivsCb(j, cmd, code) ==
    /\ job[j].pc = "setprivs" /\ Reply(j, cmd, code)
    /\ job' = [job EXCEPT ![j] = Answer(Took(@, cmd), IF code = "ok" THEN "ok" ELSE Map(SetPrivsErrors, code))]

\* query_info_get_filedir_parms_cb: owner and group are asked for by id when
\* the reply has them, and counted
NameCommand(what) == Command("mapid", "a", what)
QueryCb(j, cmd, code) ==
    /\ job[j].pc = "query" /\ cmd.c = "parms" /\ Reply(j, cmd, code)
    /\ LET r == Took(job[j], cmd)
           ask == IF UnixPrivs THEN r.op.attr ELSE {}
       IN job' = [job EXCEPT ![j] =
             IF code # "ok" THEN Answer(r, Map(ParmsErrors, code))
             ELSE IF ask = {} THEN Answer(r, "ok")
             ELSE [Send(r, "query", {NameCommand(x) : x \in ask}) EXCEPT !.left = Cardinality(ask)]]
\* get_name_cb: a name that cannot be had is left out, the last reply answers
NameTaken(r, what, code) ==
    LET n == [r EXCEPT !.names = IF code = "ok" THEN @ \cup {what} ELSE @, !.left = @ - 1] IN
    IF n.left = 0 THEN Answer(n, "ok") ELSE n
GetNameCb(j, cmd, code) ==
    /\ cmd.c = "mapid" /\ Reply(j, cmd, code)
    /\ job' = [job EXCEPT ![j] = NameTaken(Took(@, cmd), cmd.d, code)]

\* enumerate_cb of the backend: adds a page and asks for the next
NextIndex(r, page) == r.index + Len(page)
EnumerateCb(j, cmd, code) ==
    /\ job[j].pc = "enumerate" /\ Reply(j, cmd, code)
    /\ LET r == Took(job[j], cmd) IN
       job' = [job EXCEPT ![j] =
          IF code = "notfound" THEN Answer(r, "ok")
          ELSE IF code # "ok" THEN Answer(r, Map(EnumerateErrors, code))
          ELSE Enumerate([r EXCEPT !.list = @ \o Page(cmd.off)], NextIndex(r, Page(cmd.off)))]

Next == \/ \E j \in Jobs : Start(j)
        \/ \E j \in Jobs, code \in Codes : \E cmd \in job[j].out : LookCb(j, cmd, code)
        \/ \E j \in Jobs, code \in Codes : \E cmd \in job[j].out : OverwriteCb(j, cmd, code)
        \/ \E j \in Jobs, code \in Codes : \E cmd \in job[j].out : ActCb(j, cmd, code)
        \/ \E j \in Jobs, code \in Codes : \E cmd \in job[j].out : RenameCb(j, cmd, code)
        \/ \E j \in Jobs, code \in Codes : \E cmd \in job[j].out : MkdirCb(j, cmd, code)
        \/ \E j \in Jobs, code \in Codes : \E cmd \in job[j].out : DeleteCb(j, cmd, code)
        \/ \E j \in Jobs, code \in Codes : \E cmd \in job[j].out : GetPrivsCb(j, cmd, code)
        \/ \E j \in Jobs, code \in Codes : \E cmd \in job[j].out : SetPrivsCb(j, cmd, code)
        \/ \E j \in Jobs, code \in Codes : \E cmd \in job[j].out : QueryCb(j, cmd, code)
        \/ \E j \in Jobs, code \in Codes : \E cmd \in job[j].out : GetNameCb(j, cmd, code)
        \/ \E j \in Jobs, code \in Codes : \E cmd \in job[j].out : EnumerateCb(j, cmd, code)
        \/ OtherClient
Spec == Init /\ [][Next]_vars

-----------------------------------------------------------------------------
\* Every job that has not been answered yet has a command under way, and no
\* job is answered twice or goes on after its answer.
AnsweredOnce == \A j \in Jobs : /\ job[j].answers <= 1
                                /\ job[j].pc # "idle" => (job[j].out = {} <=> job[j].answers = 1)
\* Only what a job was asked to delete or to overwrite is destroyed, whatever
\* the other jobs and clients do meanwhile.
OnlyOverwritesAsked == \A l \in lost : job[l[1]].op.kind = "delete" \/ job[l[1]].op.ow
\* Alone on the server and without failures, a copy or move that is refused
\* has destroyed nothing.
RefusedKeepsTarget ==
    \A j \in Jobs : (Cardinality(Jobs) = 1 /\ others = 0 /\ faults = 0 /\ job[j].pc = "done" /\ job[j].ans # "ok")
                    => node = before[j]
\* A copy or move that succeeds left at the target what was at the source,
\* and a move took it away there (for a job that was alone on the server).
SuccessMeansDone ==
    \A j \in Jobs : (Cardinality(Jobs) = 1 /\ others = 0 /\ job[j].ans = "ok" /\ job[j].op.kind \in {"copy", "move", "rename"})
                    => /\ node[job[j].op.d] = before[j][job[j].op.n]
                       /\ job[j].op.kind # "copy" => node[job[j].op.n].k = "none"

\* Without concurrent changes setting one attribute leaves the others alone.
OthersKept ==
    \A j \in Jobs, n \in Names :
       (Cardinality(Jobs) = 1 /\ others = 0 /\ job[j].op.kind = "set" /\ job[j].op.n = n)
       => \A i \in 1 .. 3 : node[n].priv[i] = before[j][n].priv[i] \/ i \in job[j].op.attr
\* File information that was answered without a failure has every name of an
\* owner that was asked for.
InfoComplete ==
    \A j \in Jobs : (job[j].op.kind = "query" /\ job[j].ans = "ok" /\ UnixPrivs /\ faults = 0) => job[j].names = job[j].op.attr
\* A listing that nobody disturbed has every name once, as far as the
\* protocol's indexes go.
ListingExact ==
    \A j \in Jobs :
       (job[j].op.kind = "list" /\ job[j].ans = "ok" /\ node = before[j] /\ others = 0 /\ \A i \in Jobs : job[i].op.kind \in {"list", "query", "none"})
       => /\ \A x, y \in DOMAIN job[j].list : job[j].list[x] = job[j].list[y] => x = y
          /\ Cardinality(Listed) <= MaxIndex => {job[j].list[x] : x \in DOMAIN job[j].list} = Listed
TypeOK == /\ DOMAIN node = Names /\ home \in BOOLEAN
          /\ \A j \in Jobs : job[j].left \in 0 .. 3 /\ job[j].index \in 1 .. (Cardinality(Names) + 2)
=============================================================================
