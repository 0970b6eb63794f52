------------------------------ MODULE AfpForks ------------------------------
(***************************************************************************)
(* Files opened for reading and writing by the AFP backend                 *)
(* (daemon/gvfsbackendafp.c): the jobs that open, read, write, seek,       *)
(* truncate and close, on open forks of the server.  Replacing writes a    *)
(* temporary file that is exchanged with the file when it is closed; where *)
(* that cannot be done the file is truncated and written directly.         *)
(* One client has one stream at a time; another client changes the files.  *)
(***************************************************************************)
EXTENDS Integers, Sequences, FiniteSets

-----------------------------------------------------------------------------
(* The volume object (daemon/gvfsafpvolume.c), as in AfpFiles: the command *)
(* of each operation on forks and the errors it makes of result codes.     *)

\* The result codes that the code tells apart; "misc" is any other, and
\* "cancelled" is no reply at all: the connection or the task gave up.
Codes == {"ok", "denied", "notfound", "dirnotfound", "exists", "typeerr", "busy", "notempty", "locked", "vollocked",
          "diskfull", "lockerr", "eof", "idnotfound", "toomany", "misc", "cancelled"}
\* afp_result_code_to_gerror, g_vfs_afp_connection_send_command_finish
Other(code) == IF code = "cancelled" THEN "cancelled" ELSE "failed"
Map(errors, code) == IF code \in DOMAIN errors THEN errors[code] ELSE Other(code)
Command(c, n, d) == [c |-> c, n |-> n, d |-> d, byid |-> FALSE, fork |-> 0, off |-> 0, data |-> <<>>, arg |-> <<>>]
\* g_vfs_afp_volume_get_filedir_parms, get_filedir_parms_cb
ParmsCommand(n, why) == Command("parms", n, why)
ParmsErrors == [notfound |-> "notfound"]
\* g_vfs_afp_volume_delete, delete_cb
DeleteCommand(n) == Command("delete", n, n)
\* g_vfs_afp_volume_create_file: the parent's id first
CreateFileAsk(n) == Command("parentid", n, "createfile")
\* create_file_get_filedir_parms_cb
CreateFileCommand(n) == [Command("createfile", n, n) EXCEPT !.byid = TRUE]
\* create_file_cb
CreateFileErrors == [denied |-> "perm", diskfull |-> "nospace", busy |-> "exists", exists |-> "exists",
                     typeerr |-> "exists", notfound |-> "notfound", vollocked |-> "perm"]
\* g_vfs_afp_volume_move_and_rename
MoveCommand(n, d) == Command("move", n, d)
\* g_vfs_afp_volume_exchange_files, close_replace_exchange_files_cb
ExchangeCommand(n, d) == Command("exchange", n, d)
ExchangeErrors == [denied |-> "failed", idnotfound |-> "notfound", typeerr |-> "isdir"]
\* g_vfs_afp_volume_open_fork
OpenForkCommand(n, mode) == Command("openfork", n, mode)
\* open_fork_cb
OpenForkErrors == [denied |-> "perm", notfound |-> "notfound", typeerr |-> "isdir", toomany |-> "toomany"]
\* g_vfs_afp_volume_close_fork, close_fork_cb
CloseForkCommand(fork) == [Command("closefork", "none", "none") EXCEPT !.fork = fork]
CloseForkErrors == [ok |-> "ok"]
\* g_vfs_afp_volume_get_fork_parms, get_fork_parms_cb
ForkParmsCommand(fork) == [Command("forkparms", "none", "none") EXCEPT !.fork = fork]
ForkParmsErrors == [ok |-> "ok"]
\* g_vfs_afp_volume_set_fork_size
ForkSizeCommand(fork, size) == [Command("forksize", "none", "none") EXCEPT !.fork = fork, !.off = size]
\* set_fork_parms_cb
ForkSizeErrors == [denied |-> "failed", diskfull |-> "nospace", lockerr |-> "failed"]
\* g_vfs_afp_volume_write_to_fork
WriteCommand(fork, off, data) == [Command("write", "none", "none") EXCEPT !.fork = fork, !.off = off, !.data = data]
\* write_ext_cb
WriteErrors == [denied |-> "failed", diskfull |-> "nospace", lockerr |-> "failed"]
\* g_vfs_afp_volume_read_from_fork
ReadCommand(fork, off, count) == [Command("read", "none", "none") EXCEPT !.fork = fork, !.off = off, !.arg = <<count>>]
\* read_ext_cb: a locked range and the end of the file end a read early,
\* they do not fail it
ReadErrors == [denied |-> "failed"]
ReadEnds == {"ok", "lockerr", "eof"}

-----------------------------------------------------------------------------
CONSTANTS Modes,          \* the ways to open that are tried
          Exchange,       \* the volume has FPExchangeFiles
          MaxLen,         \* bound: units in a file
          MaxFaults, MaxOthers,
          Refused         \* the codes with which the server refuses commands

Names == {"f", "t", "k"}  \* the file, a temporary file "~gvfXXXX.tmp", the backup "f~"
Gone == <<"gone">>
Old == <<"o", "o">>
AfpForksAssumption == /\ Modes \subseteq {"create", "append", "edit", "replace", "backup", "read"} /\ Exchange \in BOOLEAN
                      /\ MaxLen \in Nat /\ MaxFaults \in Nat /\ MaxOthers \in Nat /\ Refused \subseteq Codes

VARIABLES
    file,     \* the content of each name, or Gone
    fork,     \* the name a fork of the server is open on ("none": not open)
    h,        \* the handle of the stream (AfpHandle)
    mode,     \* how the stream was asked for
    pc,       \* what the job that runs waits for
    cmd,      \* its command
    tail,     \* commands that run on after the job has been answered
    ans,      \* how the last job was answered
    wrote,    \* ghost: the content that the stream's writes made
    first,    \* ghost: the file as it was when the stream was opened
    faults, others
vars == <<file, fork, h, mode, pc, cmd, tail, ans, wrote, first, faults, others>>

NoH == [open |-> FALSE, fork |-> 0, off |-> 0, size |-> 0, app |-> FALSE, tmp |-> FALSE, backup |-> FALSE]
NoCmd == Command("none", "none", "none")
Init == /\ file \in {[n \in Names |-> IF n = "f" THEN x ELSE Gone] : x \in {Old, Gone}}
        /\ fork = "none" /\ h = NoH /\ mode = "none" /\ pc = "idle" /\ cmd = NoCmd /\ tail = <<>> /\ ans = "none"
        /\ wrote = <<>> /\ first = file["f"] /\ faults = 0 /\ others = 0

-----------------------------------------------------------------------------
(* The server: one fork can be open; after an exchange it stays with the   *)
(* data it was opened on, under the other name.                            *)
Overlay(c, off, data) ==
    [i \in 1 .. (IF off + Len(data) > Len(c) THEN off + Len(data) ELSE Len(c)) |->
        IF i > off /\ i <= off + Len(data) THEN data[i - off] ELSE IF i <= Len(c) THEN c[i] ELSE "0"]
Resize(c, n) == [i \in 1 .. n |-> IF i <= Len(c) THEN c[i] ELSE "0"]
Exec(c) ==
    LET x == IF c.n \in Names THEN file[c.n] ELSE Gone
        d == IF c.d \in Names THEN file[c.d] ELSE Gone
        ok(f, k) == [file |-> f, fork |-> k, code |-> "ok"]
        no(code) == [file |-> file, fork |-> fork, code |-> code]
    IN CASE c.c = "parentid" -> ok(file, fork)
         [] c.c = "parms" -> IF x = Gone THEN no("notfound") ELSE ok(file, fork)
         [] c.c = "createfile" -> IF x # Gone THEN no("exists") ELSE ok([file EXCEPT ![c.n] = <<>>], fork)
         [] c.c = "openfork" -> IF x = Gone THEN no("notfound") ELSE ok(file, c.n)
         [] c.c = "closefork" -> ok(file, "none")
         [] c.c = "forkparms" -> ok(file, fork)
         [] c.c = "forksize" -> ok([file EXCEPT ![fork] = Resize(@, c.off)], fork)
         [] c.c = "write" -> ok([file EXCEPT ![fork] = Overlay(@, c.off, c.data)], fork)
         [] c.c = "read" -> IF c.off >= Len(file[fork]) THEN no("eof") ELSE ok(file, fork)
         [] c.c = "delete" -> IF x = Gone THEN no("notfound") ELSE IF fork = c.n THEN no("busy")
                              ELSE ok([file EXCEPT ![c.n] = Gone], fork)
         [] c.c = "move" -> IF x = Gone THEN no("notfound") ELSE IF d # Gone THEN no("exists")
                            ELSE ok([file EXCEPT ![c.d] = x, ![c.n] = Gone], fork)
         [] c.c = "exchange" -> IF x = Gone \/ d = Gone THEN no("idnotfound")
                                ELSE ok([file EXCEPT ![c.n] = d, ![c.d] = x],
                                        IF fork = c.n THEN c.d ELSE IF fork = c.d THEN c.n ELSE fork)
\* The reply to a command: as executed, or refused.
Reply(c, code) ==
    \/ /\ code = Exec(c).code /\ file' = Exec(c).file /\ fork' = Exec(c).fork /\ UNCHANGED faults
    \/ /\ code \in Refused /\ faults < MaxFaults /\ faults' = faults + 1 /\ UNCHANGED <<file, fork>>

\* Another client rewrites, creates or removes the file or leaves a file with
\* the name of the temporary one.
OtherClient ==
    /\ others < MaxOthers /\ others' = others + 1 /\ UNCHANGED <<h, mode, pc, cmd, tail, ans, wrote, first, faults, fork>>
    /\ \E n \in {"f", "t"} : /\ fork # n /\ ~(n = "t" /\ h.tmp)
                             /\ file' = [file EXCEPT ![n] = IF @ = Gone THEN <<"x">> ELSE Gone]

-----------------------------------------------------------------------------
Same == UNCHANGED <<others, first>>
Wait(p, c) == pc' = p /\ cmd' = c /\ UNCHANGED <<ans, tail>>
\* g_vfs_job_succeeded, g_vfs_job_failed
Answer(a) == pc' = "idle" /\ cmd' = NoCmd /\ ans' = a /\ UNCHANGED tail
Keep == UNCHANGED <<h, wrote, mode>>
Got(p, code) == pc = p /\ Reply(cmd, code) /\ Same
\* afp_handle_new
Handle(tmp, backup, app) == [NoH EXCEPT !.open = TRUE, !.fork = 1, !.tmp = tmp, !.backup = backup, !.app = app]

\* try_create, try_append_to, try_edit: open_for_write; try_replace: look
\* first; try_open_for_read
Open(m) ==
    /\ pc = "idle" /\ ~h.open /\ mode = "none" /\ mode' = m /\ wrote' = <<>> /\ first' = file["f"]
    /\ Wait(IF m = "read" THEN "readopen" ELSE IF m \in {"replace", "backup"} THEN "look" ELSE "create",
            IF m = "read" THEN OpenForkCommand("f", "read") ELSE IF m \in {"replace", "backup"} THEN ParmsCommand("f", "etag")
            ELSE CreateFileAsk("f"))
    /\ UNCHANGED <<file, fork, h, faults, others>>
\* read_open_fork_cb
ReadOpenForkCb(code) ==
    /\ Got("readopen", code) /\ UNCHANGED <<mode, wrote>>
    /\ IF code # "ok" THEN Answer(Map(OpenForkErrors, code)) /\ UNCHANGED h ELSE Answer("ok") /\ h' = Handle(FALSE, FALSE, FALSE)
\* open_for_write_create_file_cb: a file that exists already is opened,
\* except by a create
CreateFileCb(code) ==
    /\ Got("create", code) /\ Keep
    /\ IF cmd.c = "parentid"
       THEN IF code # "ok" THEN Answer(Map(ParmsErrors, code)) ELSE Wait("create", CreateFileCommand("f"))
       ELSE IF code # "ok" /\ (mode = "create" \/ Map(CreateFileErrors, code) # "exists")
       THEN Answer(Map(CreateFileErrors, code))
       ELSE Wait("openfork", OpenForkCommand("f", "write"))
\* open_for_write_open_fork_cb: an append asks for the size
OpenForkCb(code) ==
    /\ Got("openfork", code) /\ UNCHANGED mode
    /\ IF code # "ok" THEN Answer(Map(OpenForkErrors, code)) /\ UNCHANGED <<h, wrote>>
       ELSE /\ h' = Handle(FALSE, FALSE, mode = "append") /\ wrote' = file["f"]
            /\ IF mode = "append" THEN Wait("size", ForkParmsCommand(1)) ELSE Answer("ok")
\* open_for_write_get_fork_parms_cb: without the size the handle goes, the
\* fork stays open
SizeCb(code) ==
    /\ Got("size", code) /\ UNCHANGED <<mode, wrote>>
    /\ IF code # "ok" THEN Answer(Map(ForkParmsErrors, code)) /\ h' = NoH
       ELSE Answer("ok") /\ h' = [h EXCEPT !.off = Len(file[fork]), !.size = Len(file[fork])]

\* replace_get_filedir_parms_cb: the version the caller expects, if it gives
\* one, is the one that was there
LookCb_Direct(code) ==
    /\ Got("look", code) /\ Keep
    /\ \E given \in BOOLEAN : IF code # "ok"
       THEN IF Map(ParmsErrors, code) = "notfound" THEN Wait("create", CreateFileAsk("f")) ELSE Answer(Map(ParmsErrors, code))
       ELSE IF given /\ file["f"] # first THEN Answer("wrongetag")
       ELSE IF mode = "backup" THEN Answer("cantbackup")
       ELSE Wait("direct", OpenForkCommand("f", "write"))
LookCb(code) ==
    /\ Got("look", code) /\ Keep
    /\ \E given \in BOOLEAN : IF code # "ok"
       THEN IF Map(ParmsErrors, code) = "notfound" THEN Wait("create", CreateFileAsk("f")) ELSE Answer(Map(ParmsErrors, code))
       ELSE IF given /\ file["f"] # first THEN Answer("wrongetag")
       ELSE IF Exchange THEN Wait("tmp", CreateFileAsk("t"))
       ELSE IF mode = "backup" THEN Answer("cantbackup")
       ELSE Wait("direct", OpenForkCommand("f", "write"))
\* replace_create_tmp_file, replace_create_tmp_file_cb: another name when this
\* one is taken, directly when there may be no temporary file
TmpCb(code) ==
    /\ Got("tmp", code) /\ Keep
    /\ LET err == IF cmd.c = "parentid" THEN Map(ParmsErrors, code) ELSE Map(CreateFileErrors, code) IN
       IF code = "ok" THEN IF cmd.c = "parentid" THEN Wait("tmp", CreateFileCommand("t")) ELSE Wait("tmpopen", OpenForkCommand("t", "write"))
       ELSE IF err = "exists" THEN Wait("tmp", CreateFileAsk("t"))
       ELSE IF err = "perm" THEN IF mode = "backup" THEN Answer("cantbackup") ELSE Wait("direct", OpenForkCommand("f", "write"))
       ELSE Answer(err)
\* replace_open_fork_cb
ReplaceOpenForkCb(code) ==
    /\ \E p \in {"tmpopen", "direct"} : Got(p, code)
    /\ UNCHANGED mode
    /\ IF code # "ok" THEN Answer(Map(OpenForkErrors, code)) /\ UNCHANGED <<h, wrote>>
       ELSE /\ h' = Handle(pc = "tmpopen", pc = "tmpopen" /\ mode = "backup", FALSE) /\ wrote' = <<>>
            /\ IF pc = "direct" THEN Wait("emptied", ForkSizeCommand(1, 0)) ELSE Answer("ok")
\* replace_set_fork_size_cb: it takes the job for a truncate job, so after a
\* failure it closes some fork and frees some memory, or the daemon dies
EmptiedCb(code) ==
    /\ Got("emptied", code) /\ UNCHANGED <<mode, wrote>>
    /\ IF code = "ok" THEN Answer("ok") /\ UNCHANGED h
       ELSE h' = NoH /\ \E a \in {Map(ForkSizeErrors, code), "crash"} : Answer(a)

-----------------------------------------------------------------------------
(* The open stream.                                                        *)
Usable == pc = "idle" /\ h.open /\ ans # "crash"
\* try_write: an append goes to the end as the handle knows it
WriteAt == IF h.app THEN h.size ELSE h.off
TryWrite(u) ==
    /\ Usable /\ mode # "read" /\ WriteAt < MaxLen
    /\ h' = [h EXCEPT !.off = WriteAt] /\ Wait("write", WriteCommand(1, WriteAt, <<u>>))
    /\ UNCHANGED <<file, fork, mode, wrote, first, faults, others>>
\* write_cb
Written(hh, last) == [hh EXCEPT !.off = last, !.size = IF last > @ THEN last ELSE @]
WriteCb(code) ==
    /\ Got("write", code) /\ UNCHANGED mode
    /\ IF code # "ok" THEN Answer(Map(WriteErrors, code)) /\ UNCHANGED <<h, wrote>>
       ELSE /\ h' = Written(h, cmd.off + Len(cmd.data)) /\ wrote' = Overlay(wrote, cmd.off, cmd.data) /\ Answer("ok")
\* try_seek_on_write, try_seek_on_read: positions before the start are the start
Clamp(x) == IF x < 0 THEN 0 ELSE x
SeekWrite(type, by) ==
    /\ Usable /\ mode # "read"
    /\ h' = [h EXCEPT !.off = Clamp(CASE type = "cur" -> @ + by [] type = "set" -> by [] type = "end" -> h.size + by)]
    /\ h'.off <= MaxLen + 1
    /\ ans' = "ok" /\ UNCHANGED <<file, fork, mode, pc, cmd, tail, wrote, first, faults, others>>
\* try_truncate, truncate_cb
TryTruncate(n) ==
    /\ Usable /\ mode # "read" /\ Wait("truncate", ForkSizeCommand(1, n)) /\ Keep
    /\ UNCHANGED <<file, fork, first, faults, others>>

Truncated(hh, n) == [hh EXCEPT !.size = n]
TruncateCb(code) ==
    /\ Got("truncate", code) /\ UNCHANGED mode
    /\ IF code # "ok" THEN Answer(Map(ForkSizeErrors, code)) /\ UNCHANGED <<h, wrote>>
       ELSE h' = Truncated(h, cmd.off) /\ wrote' = Resize(wrote, cmd.off) /\ Answer("ok")
\* try_read, read_cb: what was read ends where the next read starts
TryRead ==
    /\ Usable /\ mode = "read" /\ Wait("read", ReadCommand(1, h.off, 1)) /\ Keep /\ UNCHANGED <<file, fork, first, faults, others>>
ReadCb(code) ==
    /\ Got("read", code) /\ UNCHANGED mode
    /\ IF code \notin ReadEnds THEN Answer(Map(ReadErrors, code)) /\ UNCHANGED <<h, wrote>>
       ELSE LET got == IF code = "ok" THEN SubSeq(file[fork], h.off + 1, h.off + 1) ELSE <<>> IN
            h' = [h EXCEPT !.off = @ + Len(got)] /\ UNCHANGED wrote /\ Answer("ok")
\* try_seek_on_read, seek_on_read_cb: the end is asked for
SeekRead(type, by) ==
    /\ Usable /\ mode = "read"
    /\ IF type = "end" THEN Wait("seekend", [ForkParmsCommand(1) EXCEPT !.off = by]) /\ UNCHANGED h
       ELSE /\ h' = [h EXCEPT !.off = Clamp(IF type = "cur" THEN @ + by ELSE by)] /\ h'.off <= MaxLen + 1
            /\ ans' = "ok" /\ UNCHANGED <<pc, cmd, tail>>
    /\ UNCHANGED <<file, fork, mode, wrote, first, faults, others>>
SeekEndCb(code) ==
    /\ Got("seekend", code) /\ UNCHANGED <<mode, wrote>>
    /\ IF code # "ok" THEN Answer(Map(ForkParmsErrors, code)) /\ UNCHANGED h
       ELSE Answer("ok") /\ h' = [h EXCEPT !.off = Clamp(Len(file[fork]) + cmd.off)]

\* try_close_write, try_close_read
TryClose ==
    /\ Usable /\ Keep
    /\ IF mode = "read" THEN Wait("close", CloseForkCommand(1))
       ELSE IF h.tmp THEN Wait("exchange", ExchangeCommand("f", "t"))
       ELSE Wait("etag", ForkParmsCommand(1))
    /\ UNCHANGED <<file, fork, first, faults, others>>
\* close_write_get_fork_parms_cb: the version is nice to have
EtagCb(code) == Got("etag", code) /\ Keep /\ Wait("close", CloseForkCommand(1))
\* close_fork, close_fork_cb
CloseForkCb(code) ==
    /\ Got("close", code) /\ UNCHANGED <<mode, wrote>> /\ h' = NoH
    /\ Answer(IF code = "ok" THEN "ok" ELSE Map(CloseForkErrors, code))
\* close_replace_exchange_files_cb: the fork is closed and the version asked
\* for at once
ExchangeCb(code) ==
    /\ Got("exchange", code) /\ UNCHANGED <<mode, wrote>> /\ h' = NoH
    /\ IF code # "ok" THEN Answer(Map(ExchangeErrors, code))
       ELSE /\ pc' = "tag" /\ cmd' = ParmsCommand("f", "etag") /\ UNCHANGED ans
            /\ tail' = <<CloseForkCommand(1)>> \o (IF h.backup THEN <<DeleteCommand("k"), MoveCommand("t", "k")>>
                                                   ELSE <<DeleteCommand("t")>>)
\* close_replace_get_filedir_parms_cb
TagCb(code) == Got("tag", code) /\ Keep /\ Answer(IF code = "ok" THEN "ok" ELSE Map(ParmsErrors, code))
\* close_replace_close_fork_cb, close_replace_delete_backup_cb: whatever the
\* replies are, the next command follows
TailCb(code) ==
    /\ tail # <<>> /\ Reply(Head(tail), code) /\ tail' = Tail(tail)
    /\ UNCHANGED <<h, mode, pc, cmd, ans, wrote, first, others>>

Next == \/ \E m \in Modes : Open(m)
        \/ \E code \in Codes : ReadOpenForkCb(code)
        \/ \E code \in Codes : CreateFileCb(code)
        \/ \E code \in Codes : OpenForkCb(code)
        \/ \E code \in Codes : SizeCb(code)
        \/ \E code \in Codes : LookCb(code)
        \/ \E code \in Codes : TmpCb(code)
        \/ \E code \in Codes : ReplaceOpenForkCb(code)
        \/ \E code \in Codes : EmptiedCb(code)
        \/ \E u \in {"n", "m"} : TryWrite(u)
        \/ \E code \in Codes : WriteCb(code)
        \/ \E type \in {"cur", "set", "end"}, by \in -1 .. 1 : SeekWrite(type, by)
        \/ \E n \in 0 .. 1 : TryTruncate(n)
        \/ \E code \in Codes : TruncateCb(code)
        \/ TryRead
        \/ \E code \in Codes : ReadCb(code)
        \/ \E type \in {"cur", "set", "end"}, by \in -1 .. 1 : SeekRead(type, by)
        \/ \E code \in Codes : SeekEndCb(code)
        \/ TryClose
        \/ \E code \in Codes : EtagCb(code)
        \/ \E code \in Codes : CloseForkCb(code)
        \/ \E code \in Codes : ExchangeCb(code)
        \/ \E code \in Codes : TagCb(code)
        \/ \E code \in Codes : TailCb(code)
        \/ OtherClient
Spec == Init /\ [][Next]_vars

-----------------------------------------------------------------------------
Over == mode # "none" /\ pc = "idle" /\ ~h.open /\ tail = <<>>
\* On a volume that can exchange files, until a replace is closed the file
\* keeps its old content for everybody.
OldUntilClosed == (Exchange /\ faults = 0 /\ others = 0 /\ mode \in {"replace", "backup"} /\ first # Gone /\ h.open) => file["f"] = first
\* A replace that succeeds leaves exactly what was written through it, also
\* where a file had been there before and where it is written directly.
ReplacedWhole == (Over /\ ans = "ok" /\ others = 0 /\ mode \in {"replace", "backup", "create"}) => file["f"] = wrote
\* With a backup the old content is kept under the backup's name.
BackupKept == (Over /\ ans = "ok" /\ mode = "backup" /\ first # Gone /\ others = 0 /\ faults = 0) => file["k"] = first
\* A create never opens a file that was there.
CreatedIsNew == (mode = "create" /\ h.open) => (first = Gone \/ others > 0)
\* An append through one stream never changes what was in the file before,
\* unless it is told to truncate.
AppendAdds == (mode = "append" /\ others = 0 /\ h.open /\ pc = "write") => cmd.off = Len(file[fork])
\* Where the handle keeps a size (all ways but an edit) it is the fork's.
SizeTrue == (h.open /\ pc = "idle" /\ mode \in {"create", "append", "replace", "backup"} /\ others = 0) => h.size = Len(file[fork])

\* A stream that ended without failures leaves no fork open and no temporary
\* file.
NothingLeftOnSuccess == (Over /\ faults = 0 /\ others = 0) => (fork = "none" /\ file["t"] = Gone)
TypeOK == /\ h.off \in 0 .. (MaxLen + 1) /\ h.size \in 0 .. (MaxLen + 1) /\ fork \in Names \cup {"none"}
          /\ h.open => fork # "none"
=============================================================================
