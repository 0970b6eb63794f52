------------------------------ MODULE ProxyOps ------------------------------
(***************************************************************************)
(* The operations of the remote volume monitors: an application ejects,    *)
(* starts, stops or polls a drive, mounts a volume or unmounts a mount      *)
(* through the proxy objects of monitor/proxy (gproxydrive.c,               *)
(* gproxyvolume.c, gproxymount.c); the monitor's daemon                     *)
(* (gvfsproxyvolumemonitordaemon.c) runs the operation of the native object *)
(* and forwards the questions of its mount operation                        *)
(* (gproxymountoperation.c).  Cancellation, the death of the application    *)
(* and the objects' disappearance happen at any moment in between.          *)
(***************************************************************************)
EXTENDS Integers, Sequences, FiniteSets, SequencesExt

CONSTANTS Ops,          \* records [n, client, kind, cancel, asks]: the calls an application makes
          Clients,      \* applications (unique bus names)
          Threads,      \* the application cancels from another thread than the one that calls
          NativeSync,   \* a native operation may end inside the call that aborts or cancels it
          StartsSupported,  \* the native monitor is supported when the daemon starts
          Goes,         \* bound: the native objects that may go away
          MaxAsk        \* bound: questions of one native operation

Wrappers == {"ejectVolume", "ejectMount"}

Objects == {"drive", "volume", "mount"}
NoCancel == "none"
None == [n |-> 0]

\* The native object an operation is carried out on.
Target(o) == CASE o.kind \in {"mount", "foreign"} -> "volume"
               [] o.kind = "unmount" -> "mount"
               [] OTHER -> "drive"

VARIABLES
  task,      \* op -> the state of its GTask in the application
  handler,   \* ops whose "cancelled" handler is connected
  told,      \* op -> the results its callback was given
  cancelled, \* <<client, cancellable>> pairs that were cancelled
  wrapped,   \* ops whose mount operation is in id_to_op
  dialog,    \* ops whose user is being asked
  given,     \* ops whose user answered
  seen,      \* client -> the objects in its tables
  alive,     \* client -> the application runs
  inCall,    \* client -> the operation its thread is in the middle of starting
  supp,      \* client -> what IsSupported said
  toDaemon, toClient,     \* client -> messages under way, in order
  monitor,   \* the daemon has a native monitor
  handled,   \* the daemon handles calls other than IsSupported
  watched,   \* unique_names_being_watched
  native,    \* op -> the state of the native operation
  asks,      \* op -> questions it asked
  result,    \* op -> how the native operation ended
  pend,      \* object -> the operation its "cancellable" data belongs to
  outstanding,  \* outstanding_ops: newest first
  mops,         \* outstanding_mount_op_objects: newest first
  ncancelled,   \* ops whose daemon-side cancellable was cancelled
  answered,     \* op -> what its native mount operation was replied
  objects,      \* native objects that exist
  buried        \* clients whose disappearance the daemon handled

cvars == <<task, handler, told, cancelled, wrapped, dialog, given, seen, alive, inCall, supp>>
dvars == <<monitor, handled, watched, native, asks, result, pend, outstanding, mops, ncancelled, answered, objects, buried>>
vars == <<cvars, toDaemon, toClient, dvars>>

TypeOK ==
  /\ task \in [Ops -> {"idle", "checked", "connected", "waiting", "over", "dropped"}]
  /\ handler \subseteq Ops /\ wrapped \subseteq Ops /\ dialog \subseteq Ops /\ given \subseteq Ops
  /\ \A o \in Ops: told[o] \in Seq({"ok", "error", "cancelled"})
  /\ seen \in [Clients -> SUBSET Objects] /\ objects \subseteq Objects
  /\ native \in [Ops -> {"none", "running", "asking", "ended"}]
  /\ pend \in [Objects -> Ops \cup {None}]
  /\ ncancelled \subseteq Ops /\ ToSet(outstanding) \subseteq Ops /\ ToSet(mops) \subseteq Ops
  /\ \A o \in Ops: answered[o] \subseteq {"answer", "aborted"}
  /\ \A o \in handler: task[o] \in {"connected", "waiting"}

\* The daemon starts: with a supported native monitor it connects every handler, otherwise only IsSupported's.
Init ==
  /\ task = [o \in Ops |-> "idle"] /\ handler = {} /\ told = [o \in Ops |-> <<>>] /\ cancelled = {}
  /\ wrapped = {} /\ dialog = {} /\ given = {} /\ seen = [c \in Clients |-> Objects]
  /\ alive = [c \in Clients |-> TRUE] /\ inCall = [c \in Clients |-> None]
  /\ supp = [c \in Clients |-> "unknown"]
  /\ toDaemon = [c \in Clients |-> <<>>] /\ toClient = [c \in Clients |-> <<>>]
  /\ monitor = StartsSupported /\ handled = StartsSupported /\ watched = {}
  /\ native = [o \in Ops |-> "none"] /\ asks = [o \in Ops |-> 0] /\ result = [o \in Ops |-> "none"]
  /\ pend = [x \in Objects |-> None] /\ outstanding = <<>> /\ mops = <<>> /\ ncancelled = {}
  /\ answered = [o \in Ops |-> {}] /\ objects = Objects /\ buried = {}

Tell(c, m) == toClient' = [toClient EXCEPT ![c] = Append(@, m)]
Free(c) == alive[c] /\ inCall[c] = None
IsCancelled(o) == <<o.client, o.cancel>> \in cancelled

-----------------------------------------------------------------------------
(* The application *)

\* The client's is_supported: a synchronous call; the daemon tries again to create its monitor and watches the caller.
IsSupported(c) ==
  /\ Free(c) /\ supp[c] = "unknown"
  /\ monitor' \in (IF monitor THEN {TRUE} ELSE BOOLEAN)
  /\ watched' = IF monitor' THEN watched \cup {c} ELSE watched
  /\ supp' = [supp EXCEPT ![c] = IF monitor' THEN "yes" ELSE "no"]
  /\ UNCHANGED <<task, handler, told, cancelled, wrapped, dialog, given, seen, alive, inCall, toDaemon, toClient,
                 handled, native, asks, result, pend, outstanding, mops, ncancelled, answered, objects, buried>>

\* A proxy object's call begins: an operation that is already cancelled is answered at once.
Begin(o) ==
  /\ Free(o.client) /\ task[o] = "idle" /\ supp[o.client] = "yes"
  /\ IF IsCancelled(o)
       THEN /\ told' = [told EXCEPT ![o] = Append(@, "cancelled")]
            /\ task' = [task EXCEPT ![o] = "over"] /\ UNCHANGED inCall
       ELSE /\ task' = [task EXCEPT ![o] = "checked"] /\ inCall' = [inCall EXCEPT ![o.client] = o]
            /\ UNCHANGED told
  /\ UNCHANGED <<handler, cancelled, wrapped, dialog, given, seen, alive, supp, toDaemon, toClient, dvars>>

EjectDrive(o) == o.kind = "eject" /\ Begin(o)
StopDrive(o) == o.kind = "stop" /\ Begin(o)
StartDrive(o) == o.kind = "start" /\ Begin(o)
PollDrive(o) == o.kind = "poll" /\ Begin(o)
UnmountMount(o) == o.kind = "unmount" /\ Begin(o)

\* Ejecting a volume or a mount ejects its drive; without one nothing is done and nobody is told.
EjectThrough(o) ==
  IF "drive" \in seen[o.client] THEN Begin(o)
  ELSE /\ Free(o.client) /\ task[o] = "idle" /\ supp[o.client] = "yes"
       /\ task' = [task EXCEPT ![o] = "dropped"]
       /\ UNCHANGED <<handler, told, cancelled, wrapped, dialog, given, seen, alive, inCall, supp, toDaemon, toClient, dvars>>

EjectVolume(o) == o.kind = "ejectVolume" /\ EjectThrough(o)
EjectMount(o) == o.kind = "ejectMount" /\ EjectThrough(o)

\* Mounting a volume with an activation root mounts the root's location instead.
MountVolume(o) ==
  \/ o.kind = "mount" /\ Begin(o)
  \/ /\ o.kind = "foreign" /\ Free(o.client) /\ task[o] = "idle" /\ supp[o.client] = "yes"
     /\ task' = [task EXCEPT ![o] = "waiting"]
     /\ UNCHANGED <<handler, told, cancelled, wrapped, dialog, given, seen, alive, inCall, supp, toDaemon, toClient, dvars>>

\* mount_foreign_callback.
ForeignDone(o, r) ==
  /\ o.kind = "foreign" /\ task[o] = "waiting" /\ Free(o.client)
  /\ told' = [told EXCEPT ![o] = Append(@, IF IsCancelled(o) THEN "cancelled" ELSE r)]
  /\ task' = [task EXCEPT ![o] = "over"]
  /\ UNCHANGED <<handler, cancelled, wrapped, dialog, given, seen, alive, inCall, supp, toDaemon, toClient, dvars>>

\* The "cancelled" handler is connected: a cancellation from before is not noticed.
Connects(o) ==
  /\ inCall[o.client] = o /\ task[o] = "checked" /\ alive[o.client]
  /\ handler' = IF o.cancel # NoCancel THEN handler \cup {o} ELSE handler
  /\ task' = [task EXCEPT ![o] = "connected"]
  /\ UNCHANGED <<told, cancelled, wrapped, dialog, given, seen, alive, inCall, supp, toDaemon, toClient, dvars>>

\* The mount operation is wrapped, the DBusOp attached and the method called.
Calls(o) ==
  /\ inCall[o.client] = o /\ task[o] = "connected" /\ alive[o.client]
  /\ wrapped' = IF o.asks /\ o.kind # "poll" THEN wrapped \cup {o} ELSE wrapped
  /\ task' = [task EXCEPT ![o] = "waiting"] /\ inCall' = [inCall EXCEPT ![o.client] = None]
  /\ toDaemon' = [toDaemon EXCEPT ![o.client] = Append(@, <<"call", o>>)]
  /\ UNCHANGED <<handler, told, cancelled, dialog, given, seen, alive, supp, toClient, dvars>>

\* operation_cancelled, start_cancelled and mount_cancelled of every operation connected to the cancellable.
\* The cancellation id is the cancellable's address, so all of them send the same one.
Cancel(c, k) ==
  /\ alive[c] /\ (Threads \/ inCall[c] = None) /\ <<c, k>> \notin cancelled
  /\ LET hit == {o \in handler: o.client = c /\ o.cancel = k} IN
     /\ cancelled' = cancelled \cup {<<c, k>>}
     /\ IF \E o \in hit: task[o] = "connected"      \* the handler finds no DBusOp yet: the application crashes
          THEN /\ alive' = [alive EXCEPT ![c] = FALSE] /\ UNCHANGED told
               /\ toDaemon' = [toDaemon EXCEPT ![c] = Append(@, <<"vanished">>)]
          ELSE /\ told' = [o \in Ops |-> IF o \in hit THEN Append(told[o], "cancelled") ELSE told[o]]
               /\ toDaemon' = [toDaemon EXCEPT ![c] = @ \o [i \in 1 .. Cardinality(hit) |-> <<"cancel", k>>]]
               /\ UNCHANGED alive
  /\ UNCHANGED <<task, handler, wrapped, dialog, given, seen, inCall, supp, toClient, dvars>>

\* eject_cb, stop_cb, start_cb, poll_for_media_cb, unmount_cb, mount_cb: a cancelled operation was answered by its handler.
\* A volume or mount whose drive is gone by then reports success (its eject_with_operation_finish).
OnDone(o, r) ==
  /\ handler' = handler \ {o} /\ task' = [task EXCEPT ![o] = "over"]
  /\ wrapped' = wrapped \ {o}                                            \* dbus_op_free
  /\ told' = IF IsCancelled(o) THEN told
             ELSE [told EXCEPT ![o] = Append(@, IF o.kind \in Wrappers /\ "drive" \notin seen[o.client] THEN "ok" ELSE r)]
  /\ UNCHANGED <<dialog, seen>>

\* g_proxy_mount_operation_handle_ask_password, _ask_question and _show_processes: a question of an operation that is
\* no longer known is dropped.
OnAsk(o) ==
  /\ dialog' = IF o \in wrapped THEN dialog \cup {o} ELSE dialog
  /\ UNCHANGED <<handler, task, wrapped, told, seen>>

\* g_proxy_mount_operation_handle_aborted.
OnAborted(o) ==
  /\ dialog' = IF o \in wrapped THEN dialog \ {o} ELSE dialog
  /\ UNCHANGED <<handler, task, wrapped, told, seen>>

ClientReceives(c) ==
  /\ Free(c) /\ toClient[c] # <<>>
  /\ toClient' = [toClient EXCEPT ![c] = Tail(@)]
  /\ LET m == Head(toClient[c]) IN
     CASE m[1] = "done" -> OnDone(m[2], m[3])
       [] m[1] = "ask" -> OnAsk(m[2])
       [] m[1] = "aborted" -> OnAborted(m[2])
       [] m[1] = "removed" -> /\ seen' = [seen EXCEPT ![c] = @ \ {m[2]}]
                              /\ UNCHANGED <<handler, task, wrapped, told, dialog>>
  /\ UNCHANGED <<cancelled, given, alive, inCall, supp, toDaemon, dvars>>

\* The user answers: mount_operation_reply forwards it while the operation is still wrapped.
UserAnswers(o) ==
  /\ Free(o.client) /\ o \in dialog
  /\ dialog' = dialog \ {o} /\ given' = given \cup {o}
  /\ toDaemon' = IF o \in wrapped THEN [toDaemon EXCEPT ![o.client] = Append(@, <<"reply", o>>)] ELSE toDaemon
  /\ UNCHANGED <<task, handler, told, cancelled, wrapped, seen, alive, inCall, supp, toClient, dvars>>

ClientDies(c) ==
  /\ alive[c] /\ alive' = [alive EXCEPT ![c] = FALSE]
  /\ toDaemon' = [toDaemon EXCEPT ![c] = Append(@, <<"vanished">>)]
  /\ toClient' = [toClient EXCEPT ![c] = <<>>]
  /\ UNCHANGED <<task, handler, told, cancelled, wrapped, dialog, given, seen, inCall, supp, dvars>>

-----------------------------------------------------------------------------
(* The daemon *)

Reply(o, r) == IF alive[o.client] THEN Tell(o.client, <<"done", o, r>>) ELSE UNCHANGED toClient

\* The operation begins on the native object: its cancellable and its mount operation are put in the daemon's lists.
Runs(o, withMop) ==
  /\ native' = [native EXCEPT ![o] = "running"] /\ pend' = [pend EXCEPT ![Target(o)] = o]
  /\ outstanding' = <<o>> \o outstanding
  /\ mops' = IF withMop /\ o.asks THEN <<o>> \o mops ELSE mops
  /\ UNCHANGED toClient

Refused(o) == Reply(o, "error") /\ UNCHANGED <<native, pend, outstanding, mops>>

\* An object that is gone, or that another operation is pending on, refuses.
Accept(o, withMop) ==
  IF Target(o) \notin objects \/ pend[Target(o)] # None THEN Refused(o) ELSE Runs(o, withMop)

HandleMountUnmount(o) == Accept(o, TRUE)
HandleVolumeMount(o) == Accept(o, TRUE)

HandleDriveEject(o) == Accept(o, TRUE)

HandleDriveStop(o) == Accept(o, TRUE)
HandleDriveStart(o) == Accept(o, TRUE)
HandleDrivePollForMedia(o) == Accept(o, FALSE)

HandleCall(o) ==
  IF ~handled THEN Refused(o)
  ELSE CASE o.kind = "unmount" -> HandleMountUnmount(o)
         [] o.kind = "mount" -> HandleVolumeMount(o)
         [] o.kind \in {"eject"} \cup Wrappers -> HandleDriveEject(o)
         [] o.kind = "stop" -> HandleDriveStop(o)
         [] o.kind = "start" -> HandleDriveStart(o)
         [] o.kind = "poll" -> HandleDrivePollForMedia(o)

\* The first outstanding operation of the sender with the cancellation id, if there is one.
HandleCancelOperation(c, k) ==
  LET hit == SelectSeq(outstanding, LAMBDA o: o.client = c /\ o.cancel = k) IN
  ncancelled' = IF hit # <<>> /\ handled THEN ncancelled \cup {hit[1]} ELSE ncancelled

\* handle_mount_op_reply2: the mount operation of the sender with the id.
HandleMountOpReply_FirstOfOwner(o) ==
  LET hit == SelectSeq(mops, LAMBDA x: x.client = o.client) IN
  IF hit = <<>> THEN UNCHANGED <<answered, native>>
  ELSE /\ answered' = [answered EXCEPT ![hit[1]] = @ \cup {"answer"}]
       /\ native' = [native EXCEPT ![hit[1]] = "running"]
HandleMountOpReply(o) ==
  IF o \notin ToSet(mops) THEN UNCHANGED <<answered, native>>
  ELSE /\ answered' = [answered EXCEPT ![o] = @ \cup {"answer"}]
       /\ native' = [native EXCEPT ![o] = IF @ = "asking" THEN "running" ELSE @]

\* The operations of c a walk over the list acts on: it is cut short behind the first that ended inside the call and
\* took the link the walk stands on with it.
Walk(list, c, ending) ==
  {list[i]: i \in {j \in DOMAIN list: list[j].client = c /\ \A h \in 1 .. (j - 1): list[h] \notin ending}}

\* on_name_owner_vanished: mount operations are aborted, then cancellables cancelled, and the name is unwatched.
OnNameOwnerVanished(c, ending) ==
  LET aborted == Walk(mops, c, ending)
      left == SelectSeq(outstanding, LAMBDA o: o \notin (aborted \cap ending))
      cancel == Walk(left, c, ending)
      ended == (aborted \cup cancel) \cap ending IN
  /\ answered' = [o \in Ops |-> IF o \in aborted THEN answered[o] \cup {"aborted"} ELSE answered[o]]
  /\ ncancelled' = ncancelled \cup cancel
  /\ native' = [o \in Ops |-> IF o \in ended THEN "ended" ELSE native[o]]
  /\ outstanding' = SelectSeq(left, LAMBDA o: o \notin ended) /\ mops' = SelectSeq(mops, LAMBDA o: o \notin ended)
  /\ pend' = [x \in Objects |-> IF pend[x] \in ended THEN None ELSE pend[x]]
  /\ result' = [o \in Ops |-> IF o \in ended THEN "error" ELSE result[o]]
  /\ watched' = watched \ {c}

DaemonReceives(c) ==
  /\ toDaemon[c] # <<>> /\ toDaemon' = [toDaemon EXCEPT ![c] = Tail(@)]
  /\ LET m == Head(toDaemon[c]) IN
     CASE m[1] = "call" -> HandleCall(m[2]) /\ UNCHANGED <<watched, result, ncancelled, answered, buried>>
       [] m[1] = "cancel" -> /\ HandleCancelOperation(c, m[2])
                             /\ UNCHANGED <<toClient, watched, native, result, pend, outstanding, mops, answered, buried>>
       [] m[1] = "reply" -> /\ HandleMountOpReply(m[2])
                            /\ UNCHANGED <<toClient, watched, result, pend, outstanding, mops, ncancelled, buried>>
       [] m[1] = "vanished" ->
            /\ buried' = buried \cup {c} /\ UNCHANGED toClient
            /\ IF c \notin watched THEN UNCHANGED <<watched, native, result, pend, outstanding, mops, ncancelled, answered>>
               ELSE \E ending \in (IF NativeSync THEN SUBSET {o \in Ops: o.client = c} ELSE {{}}): OnNameOwnerVanished(c, ending)
  /\ UNCHANGED <<cvars, monitor, handled, asks, objects>>

\* ask_password_cb, ask_question_cb, show_processes_cb: the question goes to the mount operation's owner.
NativeAsks(o) ==
  /\ native[o] = "running" /\ o \in ToSet(mops) /\ asks[o] < MaxAsk /\ answered[o] \cap {"aborted"} = {}
  /\ native' = [native EXCEPT ![o] = "asking"] /\ asks' = [asks EXCEPT ![o] = @ + 1]
  /\ IF alive[o.client] THEN Tell(o.client, <<"ask", o>>) ELSE UNCHANGED toClient
  /\ UNCHANGED <<cvars, toDaemon, monitor, handled, watched, result, pend, outstanding, mops, ncancelled, answered, objects, buried>>

\* aborted_cb: the native operation gives its question up.
NativeAborts(o) ==
  /\ native[o] = "asking" /\ native' = [native EXCEPT ![o] = "running"]
  /\ IF alive[o.client] THEN Tell(o.client, <<"aborted", o>>) ELSE UNCHANGED toClient
  /\ UNCHANGED <<cvars, toDaemon, monitor, handled, watched, asks, result, pend, outstanding, mops, ncancelled, answered, objects, buried>>

\* mount_unmount_cb, volume_mount_cb, drive_eject_cb, drive_stop_cb, drive_start_cb, drive_poll_for_media_cb: the
\* object's data is dropped, which takes the operation from both lists, and the caller gets the result.
NativeEnds(o, r) ==
  /\ native[o] = "running" \/ (native[o] = "asking" /\ o \in ncancelled)
  /\ r = "ok" => o \notin ncancelled
  /\ native' = [native EXCEPT ![o] = "ended"] /\ result' = [result EXCEPT ![o] = r]
  /\ pend' = [pend EXCEPT ![Target(o)] = None]
  /\ outstanding' = SelectSeq(outstanding, LAMBDA x: x # o) /\ mops' = SelectSeq(mops, LAMBDA x: x # o)
  /\ Reply(o, r)
  /\ UNCHANGED <<cvars, toDaemon, monitor, handled, watched, asks, ncancelled, answered, objects, buried>>

\* A drive, volume or mount goes away natively; every application is signalled.
ObjectGoes(x) ==
  /\ x \in objects \cap Goes /\ objects' = objects \ {x}
  /\ toClient' = [c \in Clients |-> IF alive[c] /\ handled THEN Append(toClient[c], <<"removed", x>>) ELSE toClient[c]]
  /\ UNCHANGED <<cvars, toDaemon, monitor, handled, watched, native, asks, result, pend, outstanding, mops, ncancelled, answered, buried>>

Next ==
  \/ \E c \in Clients: IsSupported(c)
  \/ \E o \in Ops: EjectDrive(o)
  \/ \E o \in Ops: StopDrive(o)
  \/ \E o \in Ops: StartDrive(o)
  \/ \E o \in Ops: PollDrive(o)
  \/ \E o \in Ops: UnmountMount(o)
  \/ \E o \in Ops: EjectVolume(o)
  \/ \E o \in Ops: EjectMount(o)
  \/ \E o \in Ops: MountVolume(o)
  \/ \E o \in Ops, r \in {"ok", "error"}: ForeignDone(o, r)
  \/ \E o \in Ops: Connects(o)
  \/ \E o \in Ops: Calls(o)
  \/ \E o \in Ops: o.cancel # NoCancel /\ Cancel(o.client, o.cancel)
  \/ \E c \in Clients: ClientReceives(c)
  \/ \E o \in Ops: UserAnswers(o)
  \/ \E c \in Clients: ClientDies(c)
  \/ \E c \in Clients: DaemonReceives(c)
  \/ \E o \in Ops: NativeAsks(o)
  \/ \E o \in Ops: NativeAborts(o)
  \/ \E o \in Ops, r \in {"ok", "error"}: NativeEnds(o, r)
  \/ \E x \in Objects: ObjectGoes(x)

Spec == Init /\ [][Next]_vars

-----------------------------------------------------------------------------
(* Properties *)

\* The callback of an operation is called at most once, however the reply and a cancellation race: the reply
\* callbacks leave a cancelled task to its handler (gproxydrive.c:602).
AnsweredOnce == \A o \in Ops: Len(told[o]) <= 1

\* A native object runs one operation at a time, and the object's data names it until it ended (the check for a
\* pending operation in every handler of the daemon).
OneAtATime == \A o \in Ops: native[o] \in {"running", "asking"} => pend[Target(o)] = o

\* An operation is only cancelled in the daemon when its own application cancelled it or is gone: cancellation ids are
\* addresses, which two applications may have in common (handle_cancel_operation).
CancelsOwn == \A o \in ncancelled: <<o.client, o.cancel>> \in cancelled \/ ~alive[o.client]

\* A native mount operation only receives an answer its own user gave (handle_mount_op_reply2).
AnswersOwn == \A o \in Ops: "answer" \in answered[o] => o \in given

\* Success is only reported for an operation of a drive, a volume or a mount itself that succeeded natively.
SuccessTrue == \A o \in Ops: o.kind \notin {"foreign"} \cup Wrappers /\ ToSet(told[o]) = {"ok"} => result[o] = "ok"

\* Once the daemon has handled the end of an application, none of its operations runs on unless it was cancelled, and
\* none waits for an answer nobody will give (on_name_owner_vanished).
AbandonedStopped ==
  \A o \in Ops: o.client \in buried /\ native[o] \in {"running", "asking"} =>
     o \in ncancelled /\ (o \in ToSet(mops) => "aborted" \in answered[o])

\* An operation its application cancelled while it waited is, or is about to be, cancelled in the daemon as well
\* (operation_cancelled tells the daemon).
CancelTold ==
  \A o \in Ops: /\ task[o] = "waiting" /\ IsCancelled(o) /\ alive[o.client]
                /\ native[o] \in {"running", "asking"}
                => o \in ncancelled \/ <<"cancel", o.cancel>> \in ToSet(toDaemon[o.client])

=============================================================================
