------------------------------ MODULE DavFiles ------------------------------
(***************************************************************************)
(* The file operations of the WebDAV backend (daemon/gvfsbackenddav.c):    *)
(* each is a chain of requests and callbacks on one SoupSession, so jobs   *)
(* interleave with each other and with other clients of the server         *)
(* between a look at a resource and the request that changes it.           *)
(* Requests are followed through redirections by                           *)
(* dav_send_async_with_redir_cb.                                           *)
(***************************************************************************)
EXTENDS Integers, Sequences, FiniteSets

CONSTANTS Jobs, Ops,     \* the jobs and what they may be asked to do
          Init0,         \* the server's tree at first
          MaxEtag,       \* bound: versions of files the server hands out
          MaxFaults,     \* bound: requests that fail or whose answer is lost
          MaxOthers,     \* bound: changes by other clients
          MaxRedirects,  \* redirections followed (20 in the code)
          Redirects      \* kinds of redirection the server answers: "slash", "moved"

Names == {"a", "b"}
Elsewhere == "e"         \* what a "moved" resource is redirected to
Changing == {"PUT", "DELETE", "MOVE", "COPY", "MKCOL"}
Source == <<"s", "s">>   \* what a pushed local file holds

DavAssumption == /\ MaxEtag \in Nat /\ MaxFaults \in Nat /\ MaxOthers \in Nat
                 /\ MaxRedirects \in Nat /\ Redirects \subseteq {"slash", "moved"}

VARIABLES
    node,    \* the server's resources
    etag,    \* its last version number
    job,     \* the jobs
    local,   \* the local source of each job still exists
    lost,    \* ghost: what requests of jobs have destroyed
    put,     \* ghost: the content of the last PUT each job had executed
    done,    \* ghost: the changing requests executed for each job, in order
    faults, others

vars == <<node, etag, job, local, lost, put, done, faults, others>>

None == [k |-> "none", e |-> 0, c |-> <<>>, kids |-> {}]
File(e, c) == [None EXCEPT !.k = "file", !.e = e, !.c = c]
NoRq == [m |-> "none", u |-> "a", d |-> "a", ow |-> FALSE, im |-> 0, body |-> <<>>, len |-> 0,
         slash |-> FALSE, dslash |-> FALSE, ref |-> FALSE]
NoRp == [s |-> "wait", ft |-> "none", kids |-> {}, form |-> "same", e |-> 0]
Idle == [op |-> [kind |-> "none"], pc |-> "idle", rq |-> NoRq, rp |-> NoRp, saw |-> FALSE, seen |-> {},
         tft |-> "none", sft |-> "none", tres |-> FALSE, redirs |-> 0, buf |-> <<>>, pos |-> 0,
         im |-> 0, left |-> 0, want |-> <<>>, list |-> {}, ans |-> "none"]

\* An operation: what it works on, whether it may overwrite, whether it names
\* the version it expects, whether it removes its source.
Op(kind, n, d, ow, tag, rm) == [kind |-> kind, n |-> n, d |-> d, ow |-> ow, tag |-> tag, rm |-> rm]

Init == /\ node = Init0 /\ etag = 1
        /\ job = [j \in Jobs |-> Idle] /\ local = [j \in Jobs |-> TRUE]
        /\ lost = {} /\ put = [j \in Jobs |-> <<>>] /\ done = [j \in Jobs |-> <<>>]
        /\ faults = 0 /\ others = 0

-----------------------------------------------------------------------------
(* The server, and the way of a request to it and back.                    *)

\* What a request changes and answers: <<tree, status>>.
Exec(rq) ==
    LET n == node[rq.u]
        t == node[rq.d]
    IN CASE rq.m = "HEAD" ->
              <<node, IF rq.im # 0 /\ (n.k = "none" \/ n.e # rq.im) THEN "precond"
                      ELSE IF n.k = "none" THEN "notfound" ELSE "ok">>
         [] rq.m = "PROPFIND" -> <<node, IF n.k = "none" THEN "notfound" ELSE "ok">>
         [] rq.m = "PUT" ->
              IF n.k = "dir" \/ rq.len # Len(rq.body) THEN <<node, "err">>
              ELSE IF rq.im # 0 /\ n.e # rq.im THEN <<node, "precond">>
              ELSE <<[node EXCEPT ![rq.u] = File(etag + 1, rq.body)], "ok">>
         [] rq.m = "DELETE" ->
              IF n.k = "none" THEN <<node, "notfound">> ELSE <<[node EXCEPT ![rq.u] = None], "ok">>
         [] rq.m = "MKCOL" ->
              IF n.k # "none" THEN <<node, "notallowed">>
              ELSE <<[node EXCEPT ![rq.u] = [None EXCEPT !.k = "dir"]], "ok">>
         [] rq.m \in {"MOVE", "COPY"} ->
              IF n.k = "none" THEN <<node, "notfound">>
              ELSE IF t.k # "none" /\ ~rq.ow THEN <<node, "precond">>
              ELSE IF rq.m = "MOVE" THEN <<[node EXCEPT ![rq.d] = n, ![rq.u] = None], "ok">>
              ELSE <<[node EXCEPT ![rq.d] = n], "ok">>

\* soup_session_send_async, dav_message_connect_signals
Send(j, rec, rq) == job' = [job EXCEPT ![j] = [rec EXCEPT !.rq = rq, !.rp = NoRp, !.redirs = 0]]
Answer(j, rec, a) == job' = [job EXCEPT ![j] = [rec EXCEPT !.pc = "done", !.ans = a, !.rq = NoRq, !.rp = NoRp]]
Waiting(j) == job[j].rq # NoRq /\ job[j].rp = NoRp
Reply(j, s, ft, kids, form, e) ==
    job' = [job EXCEPT ![j].rp = [s |-> s, ft |-> ft, kids |-> kids, form |-> form, e |-> e]]

Victim(rq) == IF rq.m \in {"MOVE", "COPY"} THEN rq.d ELSE rq.u

\* The server handles a request; the answer names the resource with or
\* without a slash at the end or by another name ("other"), or is "lost".
Serve(j, form) ==
    /\ Waiting(j) /\ etag < MaxEtag /\ (form \in {"lost", "other"} => faults < MaxFaults)
    /\ LET rq == job[j].rq
           x == Exec(rq)
           v == node[Victim(rq)]
       IN /\ node' = x[1]
          /\ etag' = IF rq.m = "PUT" /\ x[2] = "ok" THEN etag + 1 ELSE etag
          /\ put' = IF rq.m = "PUT" /\ x[2] = "ok" THEN [put EXCEPT ![j] = rq.body] ELSE put
          /\ done' = IF rq.m \in Changing /\ x[2] = "ok" THEN [done EXCEPT ![j] = Append(@, <<rq.m, rq.u>>)] ELSE done
          /\ lost' = IF rq.m \in Changing /\ x[2] = "ok" /\ v.k # "none"
                     THEN lost \cup {[j |-> j, m |-> rq.m, n |-> Victim(rq), e |-> v.e, kids |-> v.kids]}
                     ELSE lost
          /\ Reply(j, IF form = "lost" THEN "none" ELSE x[2], node[rq.u].k, node[rq.u].kids, form, node[rq.u].e)
    /\ faults' = IF form \in {"lost", "other"} THEN faults + 1 ELSE faults
    /\ UNCHANGED <<local, others>>

\* The request fails: the server refuses it, cannot be reached, answers
\* nonsense, or answers a redirection without saying where to.
Fail(j, s) ==
    /\ Waiting(j) /\ faults < MaxFaults
    /\ s = "redir" => job[j].rq.m \in {"MOVE", "COPY"}
    /\ faults' = faults + 1
    /\ Reply(j, s, "none", {}, "same", 0)
    /\ UNCHANGED <<node, etag, local, lost, put, done, others>>

\* Another client creates or replaces a file, or adds to a directory.
OtherClient(n) ==
    /\ others < MaxOthers /\ etag < MaxEtag /\ others' = others + 1
    /\ \/ /\ node[n].k # "dir" /\ node' = [node EXCEPT ![n] = File(etag + 1, <<"o">>)] /\ etag' = etag + 1
       \/ /\ node[n].k = "dir" /\ node' = [node EXCEPT ![n].kids = {"k"}] /\ UNCHANGED etag
    /\ UNCHANGED <<job, local, lost, put, done, faults>>

\* dav_send_async_with_redir_cb: a redirection that only adds a slash is
\* always followed, one to another place only for safe methods that ask for
\* it, and not for ever.
Safe(m) == m \in {"GET", "HEAD", "OPTIONS", "PROPFIND"}
Uses(j) == job[j].pc \notin {"tested", "etag", "closing", "openstat", "pushstat", "pushput"}

Redirect(j, kind) ==
    /\ Waiting(j) /\ Uses(j) /\ kind \in Redirects /\ node[job[j].rq.u].k # "none"
    /\ LET r == job[j]
           rq == r.rq
           follow == kind = "slash" \/ (rq.ref /\ Safe(rq.m))
           new == IF kind = "slash" THEN [rq EXCEPT !.slash = TRUE, !.dslash = rq.m \in {"MOVE", "COPY"}]
                  ELSE [rq EXCEPT !.u = Elsewhere]
       IN /\ kind = "slash" => (node[rq.u].k = "dir" /\ ~rq.slash)
          /\ kind = "moved" => (rq.u # Elsewhere /\ faults < MaxFaults)
          /\ faults' = IF kind = "moved" THEN faults + 1 ELSE faults
          /\ job' = [job EXCEPT ![j] =
                IF ~follow THEN [r EXCEPT !.rp = [NoRp EXCEPT !.s = "redir"]]
                ELSE IF r.redirs >= MaxRedirects THEN [r EXCEPT !.rp = [NoRp EXCEPT !.s = "none"]]
                ELSE [r EXCEPT !.rq = new, !.redirs = @ + 1]]
    /\ UNCHANGED <<node, etag, local, lost, put, done, others>>

\* multistatus_get_response, path_equal: the answer about the resource that
\* was asked for is recognised with and without a slash at its end.
IsTarget(rq, rp) == rp.form \in {"same", "slash"}

\* stat_location_end
StatEnd(rq, rp) == rp.s = "ok" /\ IsTarget(rq, rp)
\* stat_location_cb: any other status is an error, a missing resource one of
\* its own.
NotFound(rp) == rp.s = "notfound"
\* http_job_failed, g_vfs_job_failed_from_error
ErrorOf(rp) == CASE rp.s = "notfound" -> "notfound" [] rp.s = "none" -> "ioerror" [] OTHER -> "failed"
Got(j, pc) == job[j].pc = pc /\ job[j].rp # NoRp
Same == UNCHANGED <<node, etag, local, lost, put, done, faults, others>>

-----------------------------------------------------------------------------
(* The operations: starting a job, and the callbacks.                      *)
Rq(m, u) == [NoRq EXCEPT !.m = m, !.u = u]

\* try_query_info, try_query_fs_info, try_enumerate: PROPFIND, which asks to
\* be applied to what a redirection points to.
StartQuery(j, op) ==
    /\ op.kind \in {"query", "enumerate"}
    /\ Send(j, [Idle EXCEPT !.op = op, !.pc = op.kind], [Rq("PROPFIND", op.n) EXCEPT !.ref = TRUE, !.slash = op.kind = "enumerate"])
\* try_open_for_read
StartOpen(j, op) == /\ op.kind = "read" /\ Send(j, [Idle EXCEPT !.op = op, !.pc = "openstat"], Rq("PROPFIND", op.n))
\* try_create
StartCreate(j, op) == /\ op.kind = "create" /\ Send(j, [Idle EXCEPT !.op = op, !.pc = "tested"], Rq("HEAD", op.n))
\* open_for_replace_succeeded: a memory stream, and the PUT message for close
OpenedForWrite(j, r, im) ==
    job' = [job EXCEPT ![j] = [r EXCEPT !.pc = "open", !.im = im, !.rq = NoRq, !.rp = NoRp]]
\* try_replace: no backups; with a version to expect, look first.
StartReplace(j, op) ==
    /\ op.kind = "replace"
    /\ LET r == [Idle EXCEPT !.op = op] IN
       IF op.tag THEN Send(j, [r EXCEPT !.pc = "etag"], [Rq("HEAD", op.n) EXCEPT !.im = node[op.n].e])
       ELSE OpenedForWrite(j, r, 0)
\* try_delete: stat with the children
StartDelete(j, op) == op.kind = "delete" /\ Send(j, [Idle EXCEPT !.op = op, !.pc = "delstat"], Rq("PROPFIND", op.n))
\* try_make_directory
StartMkdir(j, op) == op.kind = "mkdir" /\ Send(j, [Idle EXCEPT !.op = op, !.pc = "mkcol"], [Rq("MKCOL", op.n) EXCEPT !.slash = TRUE])
\* message_add_destination_header, message_add_overwrite_header
MoveRq_Always(m, op) == [Rq(m, op.n) EXCEPT !.d = op.d, !.ow = TRUE]
MoveRq(m, op) == [Rq(m, op.n) EXCEPT !.d = op.d, !.ow = op.ow]
\* try_set_display_name: a MOVE that does not overwrite
StartRename(j, op) == op.kind = "rename" /\ Send(j, [Idle EXCEPT !.op = op, !.pc = "renamed"], MoveRq("MOVE", op))
\* try_move: no backups, stat of the target first
StartMove(j, op) == op.kind = "move" /\ Send(j, [Idle EXCEPT !.op = op, !.pc = "movetarget"], Rq("PROPFIND", op.d))
\* try_copy: stat of the source first
StartCopy(j, op) == op.kind = "copy" /\ Send(j, [Idle EXCEPT !.op = op, !.pc = "copysource"], Rq("PROPFIND", op.n))
\* try_push
StartPush(j, op) ==
    /\ op.kind = "push"
    /\ job' = [job EXCEPT ![j] = [Idle EXCEPT !.op = op, !.pc = "lstat", !.left = Len(Source), !.want = Source]]

Start(j) == /\ job[j] = Idle
            /\ \E op \in Ops : \/ StartQuery(j, op) \/ StartOpen(j, op) \/ StartCreate(j, op) \/ StartReplace(j, op)
                               \/ StartDelete(j, op) \/ StartMkdir(j, op) \/ StartRename(j, op) \/ StartMove(j, op)
                               \/ StartCopy(j, op) \/ StartPush(j, op)
            /\ Same

\* try_query_info_cb, try_query_fs_info_cb: the answer must be about the
\* resource asked for.
QueryInfoCb(j) ==
    /\ Got(j, "query")
    /\ LET r == job[j] IN
       IF r.rp.s # "ok" THEN Answer(j, r, ErrorOf(r.rp))
       ELSE IF IsTarget(r.rq, r.rp) THEN Answer(j, [r EXCEPT !.tft = r.rp.ft], "ok")
       ELSE Answer(j, r, "invalid")
    /\ Same
\* try_enumerate_cb: every response but the directory's own is an entry
EnumerateCb(j) ==
    /\ Got(j, "enumerate")
    /\ LET r == job[j] IN
       IF r.rp.s # "ok" THEN Answer(j, r, ErrorOf(r.rp))
       ELSE Answer(j, [r EXCEPT !.list = r.rp.kids \cup (IF IsTarget(r.rq, r.rp) THEN {} ELSE {"self"})], "ok")
    /\ Same
\* try_open_stat_done: directories cannot be read
OpenStatDone(j) ==
    /\ Got(j, "openstat")
    /\ LET r == job[j] IN
       Answer(j, r, IF r.rp.s # "ok" THEN ErrorOf(r.rp)
                    ELSE IF ~StatEnd(r.rq, r.rp) THEN "invalid"
                    ELSE IF r.rp.ft = "dir" THEN "isdir" ELSE "ok")
    /\ Same

\* try_create_tested_existence: any answer but a success counts as "it does
\* not exist".
CreateTested(j) ==
    /\ Got(j, "tested")
    /\ LET r == job[j] IN
       IF r.rp.s = "none" THEN Answer(j, r, "ioerror")
       ELSE IF r.rp.s = "ok" THEN Answer(j, [r EXCEPT !.saw = TRUE], "exists")
       ELSE OpenedForWrite(j, r, 0)
    /\ Same
\* try_replace_checked_etag (the GError it fails with is not initialised:
\* the daemon may die)
ReplaceChecked(j) ==
    /\ Got(j, "etag")
    /\ LET r == job[j] IN
       IF r.rp.s = "none" THEN \E a \in {"ioerror", "crash"} : Answer(j, r, a)
       ELSE IF r.rp.s = "precond" THEN Answer(j, r, "wrongetag")
       ELSE OpenedForWrite(j, r, r.rq.im)
    /\ Same

\* try_write, write_ready; do_seek_on_write; do_truncate: the stream's own
\* buffer.
Write(j, u) ==
    /\ job[j].pc = "open" /\ Len(job[j].buf) < 2 /\ job[j].pos < 2
    /\ LET r == job[j]
           n == IF r.pos = Len(r.buf) THEN Append(r.buf, u) ELSE [r.buf EXCEPT ![r.pos + 1] = u]
       IN job' = [job EXCEPT ![j] = [r EXCEPT !.buf = n, !.pos = @ + 1, !.want = n]]
    /\ Same
SeekTruncate(j) ==
    /\ job[j].pc = "open" /\ job[j].pos > 0
    /\ \/ job' = [job EXCEPT ![j].pos = 0]
       \/ job' = [job EXCEPT ![j].buf = <<>>, ![j].pos = 0, ![j].want = <<>>]
    /\ Same
\* try_close_write: the PUT with all of the buffer
CloseWrite(j) ==
    /\ job[j].pc = "open"
    /\ LET r == job[j] IN
       Send(j, [r EXCEPT !.pc = "closing"], [Rq("PUT", r.op.n) EXCEPT !.im = r.im, !.body = r.buf, !.len = Len(r.buf)])
    /\ Same
\* try_close_write_sent
CloseSent(j) ==
    /\ Got(j, "closing")
    /\ LET r == job[j] IN
       IF r.rp.s = "none" THEN \E a \in {"ioerror", "crash"} : Answer(j, r, a)
       ELSE Answer(j, r, IF r.rp.s = "ok" THEN "ok" ELSE ErrorOf(r.rp))
    /\ Same

\* make_directory_cb
MkdirCb(j) ==
    /\ Got(j, "mkcol")
    /\ LET r == job[j] IN
       Answer(j, r, CASE r.rp.s = "ok" -> "ok" [] r.rp.s = "notallowed" -> "exists" [] OTHER -> ErrorOf(r.rp))
    /\ Same
\* try_delete_cb: only an empty directory
DeleteCb(j) ==
    /\ Got(j, "delstat")
    /\ LET r == job[j] IN
       IF ~StatEnd(r.rq, r.rp) THEN Answer(j, r, ErrorOf(r.rp))
       ELSE IF r.rp.ft = "dir" /\ r.rp.kids # {} THEN Answer(j, r, "notempty")
       ELSE Send(j, [r EXCEPT !.pc = "deleted", !.seen = r.rp.kids], Rq("DELETE", r.op.n))
    /\ Same
\* try_delete_send_cb
DeleteSentCb(j) == /\ Got(j, "deleted")
                   /\ Answer(j, job[j], IF job[j].rp.s = "ok" THEN "ok" ELSE ErrorOf(job[j].rp))
                   /\ Same
\* try_set_display_name_cb, try_move_do_cb, try_copy_do_cb: a failed
\* precondition and a redirection of the destination mean that it exists.
Moved(j) ==
    /\ \E pc \in {"renamed", "moved", "copied"} : Got(j, pc)
    /\ LET r == job[j] IN
       Answer(j, r, CASE r.rp.s = "ok" -> "ok" [] r.rp.s \in {"precond", "redir"} -> "exists" [] OTHER -> ErrorOf(r.rp))
    /\ Same
\* try_move_target_stat_cb
MoveTargetStat(j) ==
    /\ Got(j, "movetarget")
    /\ LET r == job[j]
           res == StatEnd(r.rq, r.rp)
       IN IF ~res /\ ~NotFound(r.rp) THEN Answer(j, r, ErrorOf(r.rp))
          ELSE Send(j, [r EXCEPT !.pc = "movesource", !.tres = res, !.tft = r.rp.ft, !.saw = res], Rq("PROPFIND", r.op.n))
    /\ Same
\* try_move_do
MoveDo(j, r) == Send(j, [r EXCEPT !.pc = "moved"], MoveRq("MOVE", r.op))
\* try_move_source_stat_cb
MoveSourceStat(j) ==
    /\ Got(j, "movesource")
    /\ LET r == [job[j] EXCEPT !.sft = job[j].rp.ft]
           res == StatEnd(r.rq, r.rp)
       IN IF r.tres /\ ~r.op.ow THEN Answer(j, r, "exists")
          ELSE IF r.tres /\ ~res THEN Answer(j, r, ErrorOf(r.rp))
          ELSE IF r.tres /\ r.tft = "dir" THEN Answer(j, r, IF r.sft = "dir" THEN "merge" ELSE "isdir")
          ELSE IF r.tres /\ r.sft = "dir" THEN Send(j, [r EXCEPT !.pc = "movedelete"], Rq("DELETE", r.op.d))
          ELSE MoveDo(j, r)
    /\ Same
\* try_move_target_delete_cb
MoveTargetDeleted(j) ==
    /\ Got(j, "movedelete")
    /\ LET r == job[j] IN
       IF r.rp.s # "ok" THEN Answer(j, r, ErrorOf(r.rp)) ELSE MoveDo(j, r)
    /\ Same
\* try_copy_source_stat_cb
CopySourceStat(j) ==
    /\ Got(j, "copysource")
    /\ LET r == job[j] IN
       IF ~StatEnd(r.rq, r.rp) THEN Answer(j, r, ErrorOf(r.rp))
       ELSE Send(j, [r EXCEPT !.pc = "copytarget", !.sft = r.rp.ft], Rq("PROPFIND", r.op.d))
    /\ Same
\* try_copy_target_stat_cb
CopyTargetStat(j) ==
    /\ Got(j, "copytarget")
    /\ LET r == [job[j] EXCEPT !.saw = StatEnd(job[j].rq, job[j].rp)]
           dir == r.sft = "dir"
       IN IF r.saw /\ r.op.ow /\ r.rp.ft = "dir" THEN Answer(j, r, IF dir THEN "merge" ELSE "isdir")
          ELSE IF r.saw /\ ~r.op.ow THEN Answer(j, r, "exists")
          ELSE IF ~r.saw /\ ~NotFound(r.rp) THEN Answer(j, r, ErrorOf(r.rp))
          ELSE IF dir THEN Answer(j, r, "recurse")
          ELSE Send(j, [r EXCEPT !.pc = "copied"], MoveRq("COPY", r.op))
    /\ Same

-----------------------------------------------------------------------------
(* Uploading a local file.                                                 *)

\* push_source_lstat_cb, push_source_open_cb, push_source_fstat_cb: each may
\* fail; then the stat of the destination.
PushLstat(j, ok) == /\ job[j].pc = "lstat" /\ (~ok => faults < MaxFaults)
                    /\ faults' = IF ok THEN faults ELSE faults + 1
                    /\ IF ok THEN job' = [job EXCEPT ![j].pc = "popen"] ELSE Answer(j, job[j], "notsupported")
                    /\ UNCHANGED <<node, etag, local, lost, put, done, others>>
PushOpen(j, ok) == /\ job[j].pc = "popen" /\ (~ok => faults < MaxFaults)
                   /\ faults' = IF ok THEN faults ELSE faults + 1
                   /\ IF ok THEN job' = [job EXCEPT ![j].pc = "fstat"] ELSE Answer(j, job[j], "ioerror")
                   /\ UNCHANGED <<node, etag, local, lost, put, done, others>>
PushFstat(j) == /\ job[j].pc = "fstat"
                /\ Send(j, [job[j] EXCEPT !.pc = "pushstat"], Rq("PROPFIND", job[j].op.n))
                /\ Same
\* push_setup_message: the length is announced
PushLength(left) == Len(Source)
\* push_stat_dest_cb: a destination that cannot be looked at counts as
\* missing.
PushStatDest(j) ==
    /\ Got(j, "pushstat")
    /\ LET r == [job[j] EXCEPT !.saw = StatEnd(job[j].rq, job[j].rp)] IN
       IF r.rp.s = "none" THEN Answer(j, r, "ioerror")
       ELSE IF r.saw /\ ~r.op.ow THEN Answer(j, r, "exists")
       ELSE IF r.saw /\ r.rp.ft = "dir" THEN Answer(j, r, "isdir")
       ELSE Send(j, [r EXCEPT !.pc = "pushput"],
                 [Rq("PUT", r.op.n) EXCEPT !.ow = r.op.ow, !.body = SubSeq(Source, 1, r.left), !.len = PushLength(r.left)])
    /\ Same
\* push_restarted: after a challenge the message is sent again, with what is
\* left in the input stream.
PushRestarted(j) ==
    /\ job[j].pc = "pushput" /\ Waiting(j) /\ faults < MaxFaults /\ faults' = faults + 1
    /\ \E used \in 0 .. job[j].left :
         LET left == job[j].left - used IN
         job' = [job EXCEPT ![j].left = left, ![j].rq.body = SubSeq(Source, 1, left), ![j].rq.len = PushLength(left)]
    /\ UNCHANGED <<node, etag, local, lost, put, done, others>>
\* push_done, then push_finished: an error answers the job first, then the
\* message's end; the source is removed once it is on the server.
PushFinished(j) ==
    /\ Got(j, "pushput")
    /\ LET r == job[j] IN
       IF r.rp.s = "none" THEN Answer(j, r, "ioerror") /\ UNCHANGED local
       ELSE IF r.rp.s # "ok" THEN Answer(j, r, ErrorOf(r.rp)) /\ UNCHANGED local
       ELSE /\ local' = [local EXCEPT ![j] = ~r.op.rm]
            /\ Answer(j, r, "ok")
    /\ UNCHANGED <<node, etag, lost, put, done, faults, others>>

-----------------------------------------------------------------------------
Callback(j) == \/ QueryInfoCb(j) \/ EnumerateCb(j) \/ OpenStatDone(j) \/ CreateTested(j) \/ ReplaceChecked(j)
               \/ CloseSent(j) \/ MkdirCb(j) \/ DeleteCb(j) \/ DeleteSentCb(j) \/ Moved(j) \/ MoveTargetStat(j)
               \/ MoveSourceStat(j) \/ MoveTargetDeleted(j) \/ CopySourceStat(j) \/ CopyTargetStat(j)
               \/ PushLstat(j, TRUE) \/ PushOpen(j, TRUE) \/ PushFstat(j) \/ PushStatDest(j) \/ PushFinished(j)
Stream(j) == \/ Write(j, "w") \/ SeekTruncate(j)
Faulty(j) == \/ \E s \in {"err", "none", "redir"} : Fail(j, s)
             \/ Serve(j, "lost") \/ (job[j].rq.m = "PROPFIND" /\ Serve(j, "other")) \/ PushLstat(j, FALSE) \/ PushOpen(j, FALSE) \/ PushRestarted(j)
             \/ \E k \in Redirects : Redirect(j, k)
Handle(j) == \E form \in {"same", "slash"} : Serve(j, form)
Next == \/ \E j \in Jobs : Start(j) \/ Callback(j) \/ Stream(j) \/ CloseWrite(j) \/ Faulty(j) \/ Handle(j)
        \/ \E n \in Names : OtherClient(n)

Spec == Init /\ [][Next]_vars

-----------------------------------------------------------------------------
TypeOK ==
    /\ \A n \in Names \cup {Elsewhere} : node[n].k \in {"none", "file", "dir"} /\ node[n].e \in 0 .. MaxEtag
    /\ \A j \in Jobs : /\ job[j].redirs \in 0 .. MaxRedirects /\ job[j].pos <= 2 /\ Len(job[j].buf) <= 2
                       /\ job[j].left \in 0 .. Len(Source)
    /\ faults \in 0 .. MaxFaults /\ others \in 0 .. MaxOthers

\* A move, copy or rename that was not told to overwrite destroys nothing,
\* whoever creates the target between the stat and the request: the server
\* is told not to overwrite.
OnlyOverwritesAsked ==
    \A x \in lost : x.m \in {"MOVE", "COPY"} => job[x.j].op.ow
\* An upload or a new file never replaces what the job itself saw there.
SeenIsKept == \A x \in lost : (x.m = "PUT" /\ ~job[x.j].op.ow /\ job[x.j].op.kind \in {"create", "push"}) => ~job[x.j].saw
\* Replacing a file of a given version never replaces another version, not
\* even one that appeared while the new content was being written.
EtagGuards == \A x \in lost : (x.m = "PUT" /\ job[x.j].op.kind = "replace" /\ job[x.j].op.tag) =>
                                 (job[x.j].im # 0 /\ x.e = job[x.j].im)
\* A delete never takes entries with it that the job saw in the directory.
EmptyOnly == \A x \in lost : x.m = "DELETE" => (x.kids \cap job[x.j].seen) = {}
\* A file reported as written or uploaded was given to the server whole, as
\* the writes, seeks and truncations left it.
WholeContent == \A j \in Jobs :
    (job[j].ans = "ok" /\ job[j].op.kind \in {"create", "replace", "push"}) => put[j] = job[j].want
\* The local source of an upload is only removed once the server has it.
SourceKept == \A j \in Jobs : ~local[j] => (put[j] = Source /\ job[j].ans = "ok")
\* A change is only ever made to the resource the job named, whatever the
\* server redirects to.
ChangesAtHome == node[Elsewhere] = Init0[Elsewhere]
\* An answer about an existing resource is never called invalid, and a
\* directory never lists itself, unless the server names it differently.
TargetRecognised == faults = 0 => \A j \in Jobs : job[j].ans # "invalid" /\ "self" \notin job[j].list
\* A job that reports that the target exists, or that it would merge or
\* recurse, has changed nothing.
RefusedChangesNothing ==
    \A j \in Jobs : job[j].ans \in {"exists", "merge", "isdir", "recurse", "notempty", "wrongetag"} =>
       (done[j] = <<>> \/ (job[j].op.kind = "move" /\ job[j].sft = "dir"))

=============================================================================
