------------------------------ MODULE Enumerator ------------------------------
(***************************************************************************)
(* Listing a directory across D-Bus: the job that collects the entries and *)
(* sends them in batches (daemon/gvfsjobenumerate.c), and the enumerator   *)
(* of the client that takes them and hands them out, to callers that wait  *)
(* or to one callback at a time (client/gdaemonfileenumerator.c).  The     *)
(* client's main thread, the thread that cancels a read, and the daemon    *)
(* run at the same time; the infos lock and the wait of                    *)
(* g_cancellable_disconnect for a running handler are modelled.            *)
(***************************************************************************)
EXTENDS Integers, Sequences, SequencesExt

CONSTANTS
  Files,       \* entries of the directory
  Batch,       \* entries of a message, 50 in the code
  MaxAsk,      \* entries a client asks for at once
  Sync,        \* was the enumerator made by a synchronous call?
  CancelFrom,  \* where reads are cancelled: "nowhere", "main", "thread", or "before" they start
  MaxCancels,  \* reads that are cancelled
  Timeouts,    \* does a read wait for a minute?
  Breaks       \* may the daemon die?

EnumeratorAssumption ==
  /\ Files \in Nat /\ Batch \in Nat \ {0} /\ MaxAsk \in Nat \ {0} /\ MaxCancels \in Nat
  /\ Sync \in BOOLEAN /\ CancelFrom \in {"nowhere", "main", "thread", "before"}

VARIABLES
  srv,      \* GVfsJobEnumerate: its state, entries added, those in building_infos, replied?
  net,      \* messages on their way to the client
  cl,       \* GDaemonFileEnumerator: its state, infos, done, async_requested_files
  task,     \* the read that is waited for: its handlers, how often it returned, its result
  lock,     \* who holds the infos lock
  pc,       \* where the client's main thread is
  canceller,\* where the thread that cancels is
  cancels,  \* reads cancelled so far, and whether the present one is
  told      \* the results the client was given

vars == <<srv, net, cl, task, lock, pc, canceller, cancels, told>>

NoTask == [state |-> "none", asked |-> 0, tag |-> FALSE, timer |-> FALSE, changed |-> FALSE,
           returns |-> 0, result |-> <<>>]

TypeOK ==
  /\ srv.state \in {"new", "running", "done", "dead"} /\ srv.added \in 0 .. Files
  /\ Len(srv.building) < Batch /\ srv.replied \in BOOLEAN
  /\ cl.state \in {"new", "opening", "open", "ended", "failed", "dropped"} /\ cl.done \in BOOLEAN
  /\ cl.requested \in 0 .. MaxAsk
  /\ task.state \in {"none", "waiting", "returned"} /\ task.tag \in BOOLEAN
  /\ lock \in {"free", "main"} /\ canceller \in {"none", "handler", "done"}
  /\ pc \in {"loop", "changed", "timeout", "disconnect", "stuck", "run", "woken"}
  /\ cancels.count \in 0 .. MaxCancels /\ cancels.now \in BOOLEAN

Init ==
  /\ srv = [state |-> "new", added |-> 0, building |-> <<>>, replied |-> FALSE]
  /\ net = <<>> /\ cl = [state |-> "new", infos |-> <<>>, done |-> FALSE, requested |-> 0]
  /\ task = NoTask /\ lock = "free" /\ pc = "loop" /\ canceller = "none"
  /\ cancels = [count |-> 0, now |-> FALSE] /\ told = <<>>

Client == <<cl, task, lock, pc, canceller, cancels, told>>
Msg(k, l) == [kind |-> k, list |-> l]

-----------------------------------------------------------------------------
(* The daemon.                                                             *)

(* g_vfs_job_enumerate_new_handle and run: the backend enumerates.         *)
Run ==
  /\ cl.state = "opening" /\ srv.state = "new" /\ srv' = [srv EXCEPT !.state = "running"]
  /\ UNCHANGED <<net, Client>>

(* send_reply: a job that failed is finished, one that succeeded goes on.  *)
SendReply ==
  /\ srv.state = "running" /\ ~srv.replied
  /\ \/ srv' = [srv EXCEPT !.replied = TRUE] /\ net' = Append(net, Msg("reply", <<>>))
     \/ /\ srv.added = 0 /\ srv' = [srv EXCEPT !.state = "done", !.replied = TRUE]
        /\ net' = Append(net, Msg("failed", <<>>))
  /\ UNCHANGED Client

(* g_vfs_job_enumerate_add_info: a full batch is sent (send_infos).        *)
AddInfo ==
  /\ srv.state = "running" /\ srv.added < Files
  /\ LET building == Append(srv.building, srv.added + 1)
     IN  IF Len(building) = Batch
         THEN /\ net' = Append(net, Msg("infos", building))
              /\ srv' = [srv EXCEPT !.added = @ + 1, !.building = <<>>]
         ELSE srv' = [srv EXCEPT !.added = @ + 1, !.building = building] /\ UNCHANGED net
  /\ UNCHANGED Client

(* g_vfs_job_enumerate_done: what is left is sent, then the end.           *)
EnumerateDone ==
  /\ srv.state = "running" /\ srv.replied /\ srv.added = Files
  /\ net' = net \o (IF srv.building = <<>> THEN <<>> ELSE <<Msg("infos", srv.building)>>) \o <<Msg("done", <<>>)>>
  /\ srv' = [srv EXCEPT !.state = "done", !.building = <<>>]
  /\ UNCHANGED Client

\* The daemon dies; the bus answers a call it had not answered.
Die ==
  /\ Breaks /\ srv.state = "running" /\ srv' = [srv EXCEPT !.state = "dead"]
  /\ net' = IF srv.replied THEN net ELSE Append(net, Msg("failed", <<>>))
  /\ UNCHANGED Client

-----------------------------------------------------------------------------
(* The client: opening.                                                    *)

(* g_daemon_file_enumerate_children and its asynchronous form, with        *)
(* g_daemon_file_enumerator_new and create_skeleton: the enumerator can be *)
(* called before it is asked for.                                          *)
EnumerateChildren ==
  /\ cl.state = "new" /\ cl' = [cl EXCEPT !.state = "opening"]
  /\ UNCHANGED <<srv, net, task, lock, pc, canceller, cancels, told>>

(* enumerate_children_async_cb.  A synchronous call takes its reply before *)
(* the messages ahead of it are dispatched: those wait for the context of  *)
(* the enumerator.                                                         *)
Opened ==
  /\ cl.state = "opening" /\ pc = "loop"
  /\ \E i \in DOMAIN net :
       /\ net[i].kind \in {"reply", "failed"} /\ (Sync \/ i = 1)
       /\ net' = RemoveAt(net, i)
       /\ cl' = [cl EXCEPT !.state = IF net[i].kind = "reply" THEN "open" ELSE "failed"]
  /\ UNCHANGED <<srv, task, lock, pc, canceller, cancels, told>>

-----------------------------------------------------------------------------
(* The client: messages.  In a synchronous enumerator they are dispatched  *)
(* only while a read runs the loop of its context.                         *)

Dispatching(kind) ==
  /\ net # <<>> /\ Head(net).kind = kind /\ lock = "free" /\ cl.state \in {"opening", "open"}
  /\ pc = IF Sync THEN "run" ELSE "loop"
  /\ net' = Tail(net)

\* next_files_sync_check, and the "changed" signal
Changed == pc' = IF Sync THEN "woken" ELSE IF task.changed THEN "changed" ELSE "loop"

(* handle_got_info *)
HandleGotInfo ==
  /\ Dispatching("infos") /\ cl' = [cl EXCEPT !.infos = @ \o Head(net).list] /\ Changed
  /\ UNCHANGED <<srv, task, lock, canceller, cancels, told>>

(* handle_done *)
HandleDone ==
  /\ Dispatching("done") /\ cl' = [cl EXCEPT !.done = TRUE] /\ Changed
  /\ UNCHANGED <<srv, task, lock, canceller, cancels, told>>

-----------------------------------------------------------------------------
(* The client: synchronous reads.                                          *)

Take(n) == SubSeq(cl.infos, 1, IF n < Len(cl.infos) THEN n ELSE Len(cl.infos))
Rest(n) == SubSeq(cl.infos, n + 1, Len(cl.infos))

Give_DropsList ==
  /\ told' = Append(told, [list |-> Take(1), asked |-> 1, kind |-> "ok"])
  /\ cl' = [cl EXCEPT !.infos = <<>>, !.state = IF cl.infos = <<>> THEN "ended" ELSE @]

\* An entry, or none: the end of the listing for the caller.
Give ==
  /\ told' = Append(told, [list |-> Take(1), asked |-> 1, kind |-> "ok"])
  /\ cl' = [cl EXCEPT !.infos = Rest(1), !.state = IF cl.infos = <<>> THEN "ended" ELSE @]

(* g_daemon_file_enumerator_next_file *)
NextFile ==
  /\ Sync /\ pc = "loop" /\ cl.state = "open"
  /\ IF cl.infos = <<>> /\ ~cl.done THEN pc' = "run" /\ UNCHANGED <<cl, told>> ELSE Give /\ UNCHANGED pc
  /\ UNCHANGED <<srv, net, task, lock, canceller, cancels>>

NextFileWoken ==
  /\ pc = "woken" /\ Give /\ pc' = "loop"
  /\ UNCHANGED <<srv, net, task, lock, canceller, cancels>>

(* sync_timeout *)
SyncTimeout ==
  /\ Timeouts /\ pc = "run" /\ pc' = "woken"
  /\ UNCHANGED <<srv, net, cl, task, lock, canceller, cancels, told>>

-----------------------------------------------------------------------------
(* The client: asynchronous reads.                                         *)

Enough == cl.done \/ Len(cl.infos) >= cl.requested

(* trigger_async_done after the handler of the cancellable is gone: the    *)
(* list is split, the result returned in an idle callback, and the timer   *)
(* and the handlers of the task are removed.                               *)
TriggerAsyncDone(ok, r) ==
  /\ task' = [r EXCEPT !.state = "returned", !.returns = @ + 1,
                       !.result = IF ok THEN Take(cl.requested) ELSE <<>>,
                       !.tag = FALSE, !.timer = FALSE, !.changed = FALSE]
  /\ cl' = [cl EXCEPT !.infos = IF ok THEN Rest(cl.requested) ELSE @, !.requested = 0]

(* g_daemon_file_enumerator_next_files_async: there is enough, or the      *)
(* timer, the cancellable and the signal are connected.  A cancellable     *)
(* that is cancelled already calls its handler at once, which wants the    *)
(* lock that is held.                                                      *)
NextFilesAsync(n) ==
  /\ ~Sync /\ pc = "loop" /\ lock = "free" /\ cl.state = "open" /\ task.state = "none"
  /\ canceller' = "none"
  /\ \E before \in (IF CancelFrom = "before" /\ cancels.count < MaxCancels THEN BOOLEAN ELSE {FALSE}) :
       /\ cancels' = [count |-> cancels.count + (IF before THEN 1 ELSE 0), now |-> before]
       /\ LET asked == [NoTask EXCEPT !.asked = n]
          IN  IF cl.done \/ Len(cl.infos) >= n
              THEN /\ task' = [asked EXCEPT !.state = "returned", !.returns = 1, !.result = Take(n)]
                   /\ cl' = [cl EXCEPT !.infos = Rest(n), !.requested = 0] /\ UNCHANGED <<lock, pc>>
              ELSE /\ cl' = [cl EXCEPT !.requested = n]
                   /\ task' = [asked EXCEPT !.state = "waiting", !.timer = TRUE, !.changed = ~before,
                                            !.tag = CancelFrom # "nowhere" /\ ~before]
                   /\ IF before THEN lock' = "main" /\ pc' = "stuck" ELSE UNCHANGED <<lock, pc>>
  /\ UNCHANGED <<srv, net, told>>

\* The handler of the signal or of the timer goes on to trigger_async_done(TRUE),
\* with the lock held: it first disconnects the cancellable.
TriggerOk ==
  IF task.tag THEN lock' = "main" /\ pc' = "disconnect" /\ UNCHANGED <<cl, task>>
  ELSE TriggerAsyncDone(TRUE, task) /\ pc' = "loop" /\ UNCHANGED lock

(* async_changed *)
AsyncChanged ==
  /\ pc = "changed" /\ lock = "free"
  /\ IF Enough THEN TriggerOk ELSE pc' = "loop" /\ UNCHANGED <<cl, task, lock>>
  /\ UNCHANGED <<srv, net, canceller, cancels, told>>

\* The timer fires; its callback is under way.
TimerFires ==
  /\ Timeouts /\ pc = "loop" /\ task.state = "waiting" /\ task.timer /\ pc' = "timeout"
  /\ UNCHANGED <<srv, net, cl, task, lock, canceller, cancels, told>>

AsyncTimeout_Again ==
  /\ pc = "timeout" /\ lock = "free" /\ pc' = "loop"
  /\ UNCHANGED <<srv, net, cl, task, lock, canceller, cancels, told>>

(* async_timeout *)
AsyncTimeout ==
  /\ pc = "timeout" /\ lock = "free" /\ TriggerOk
  /\ UNCHANGED <<srv, net, canceller, cancels, told>>

(* g_cancellable_disconnect returns when no handler runs.                  *)
Disconnected ==
  /\ pc = "disconnect" /\ canceller # "handler"
  /\ TriggerAsyncDone(TRUE, task) /\ lock' = "free" /\ pc' = "loop"
  /\ UNCHANGED <<srv, net, canceller, cancels, told>>

\* g_cancellable_cancel in another thread: the handler runs if it is connected.
CancelInThread ==
  /\ CancelFrom = "thread" /\ task.state = "waiting" /\ canceller = "none" /\ cancels.count < MaxCancels
  /\ cancels' = [count |-> cancels.count + 1, now |-> TRUE]
  /\ canceller' = IF task.tag THEN "handler" ELSE "done"
  /\ UNCHANGED <<srv, net, cl, task, lock, pc, told>>

\* The handler of the cancellable: nothing is taken from the list.
CancelledRuns == TriggerAsyncDone(FALSE, task)

(* async_cancelled *)
AsyncCancelled ==
  /\ canceller = "handler" /\ lock = "free" /\ canceller' = "done"
  /\ CancelledRuns
  /\ UNCHANGED <<srv, net, lock, pc, cancels, told>>

\* g_cancellable_cancel in the main thread: the handler runs to its end.
CancelInMain ==
  /\ CancelFrom = "main" /\ pc = "loop" /\ task.state = "waiting" /\ cancels.count < MaxCancels
  /\ cancels' = [count |-> cancels.count + 1, now |-> TRUE]
  /\ IF task.tag THEN CancelledRuns ELSE UNCHANGED <<cl, task>>
  /\ UNCHANGED <<srv, net, lock, pc, canceller, told>>

(* _g_task_return_pointer_idle_cb and next_files_finish: a task whose      *)
(* cancellable is cancelled by then gives an error, whatever its result.   *)
TaskReturns ==
  /\ pc = "loop" /\ task.state = "returned" /\ task' = NoTask
  /\ told' = Append(told, [list |-> IF cancels.now THEN <<>> ELSE task.result, asked |-> task.asked,
                           kind |-> IF cancels.now THEN "cancelled" ELSE "ok"])
  /\ cl' = [cl EXCEPT !.state = IF ~cancels.now /\ task.result = <<>> /\ @ = "open" THEN "ended" ELSE @]
  /\ UNCHANGED <<srv, net, lock, pc, canceller, cancels>>

(* g_daemon_file_enumerator_finalize: the skeleton is not exported longer. *)
Drop ==
  /\ pc = "loop" /\ task.state = "none" /\ cl.state \in {"open", "ended"} /\ canceller # "handler"
  /\ cl' = [cl EXCEPT !.state = "dropped", !.infos = <<>>]
  /\ UNCHANGED <<srv, net, task, lock, pc, canceller, cancels, told>>

-----------------------------------------------------------------------------
Daemon == Run \/ SendReply \/ AddInfo \/ EnumerateDone
MainLoop ==
  \/ Opened \/ HandleGotInfo \/ HandleDone \/ NextFileWoken \/ SyncTimeout
  \/ AsyncChanged \/ TimerFires \/ AsyncTimeout \/ Disconnected \/ TaskReturns

Next ==
  \/ Daemon \/ Die \/ MainLoop
  \/ EnumerateChildren \/ NextFile \/ (\E n \in 1 .. MaxAsk : NextFilesAsync(n))
  \/ CancelInThread \/ AsyncCancelled \/ CancelInMain \/ Drop

Spec == Init /\ [][Next]_vars

-----------------------------------------------------------------------------
Given == FlattenSeq([i \in DOMAIN told |-> told[i].list])
InFlight == FlattenSeq([i \in DOMAIN net |-> net[i].list])
UpTo(n) == [i \in 1 .. n |-> i]

(* While nothing is cancelled no entry is lost, repeated or put out of     *)
(* order between the backend and the client, whichever message, read or    *)
(* timer comes when; after a cancelled read none is given twice            *)
(* (g_vfs_job_enumerate_add_info, handle_got_info, trigger_async_done).    *)
NothingLost ==
  /\ cancels.count = 0 /\ cl.state \in {"opening", "open", "ended"}
       => Given \o task.result \o cl.infos \o InFlight \o srv.building = UpTo(srv.added)
  /\ \A i, k \in DOMAIN Given : i < k => Given[i] < Given[k]

(* An end of the listing the client was told of is the end: everything     *)
(* that was not lost to a cancelled read has been given                    *)
(* (g_daemon_file_enumerator_next_file, async_changed).                    *)
EndIsEnd == cl.state = "ended" => cl.done /\ cl.infos = <<>> /\ (cancels.count = 0 => Given = UpTo(Files))

(* A read returns what was asked for; less only at the end of the listing. *)
BatchesFull ==
  \A i \in DOMAIN told : told[i].kind = "ok" =>
    /\ Len(told[i].list) <= told[i].asked
    /\ Len(told[i].list) < told[i].asked => cl.done /\ \A k \in i + 1 .. Len(told) : told[k].list = <<>>

(* A read is answered once: it is never triggered again after it was       *)
(* cancelled ("cancelled signal handler won't execute after this").        *)
ReturnedOnce == task.returns <= 1

=============================================================================
