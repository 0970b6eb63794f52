---------------------------- MODULE MountTracker ----------------------------
(***************************************************************************)
(* gvfsd's mount tracker (mount.c, main.c) and the start-up of the mount   *)
(* daemons it spawns (daemon-main.c): the registered mounts, the mounts in *)
(* progress with the callers that wait for them, automounting, lookups,    *)
(* the re-reading of the configuration and the restart of gvfsd.           *)
(*                                                                         *)
(* A callback of gvfsd's main loop is one action.  What a daemon sends to  *)
(* gvfsd arrives in the order in which it was sent, the loss of its bus    *)
(* name last.  One mountable type is configured; a Mount call is named by  *)
(* a number, and so is the backend it creates.                             *)
(***************************************************************************)
EXTENDS Integers, Sequences, FiniteSets, FiniteSetTheorems, TLAPS

CONSTANTS
  Specs,        \* mount specs of the type
  Callers,      \* clients that look up and mount locations
  Daemons,      \* processes that may be spawned, each once
  HasDBusName,  \* does the .mount file have a DBusName?
  Automount,    \* AutoMount of the .mount file
  MaxCalls,     \* bound on Mount calls, and so on backends
  MaxRestarts,  \* bound on restarts of gvfsd
  MayDieEarly,  \* may a daemon die before it has called Spawned?
  NoDaemon

TrackerAssumption ==
  /\ IsFiniteSet(Daemons) /\ NoDaemon \notin Daemons
  /\ {HasDBusName, Automount, MayDieEarly} \subseteq BOOLEAN
  /\ MaxCalls \in Nat /\ MaxRestarts \in Nat

ASSUME TrackerConstants == TrackerAssumption

Calls == 1 .. MaxCalls

VARIABLES
  configured, \* is the type in mountables?
  mounts,     \* the list of VfsMounts: pairs of a daemon and a backend
  data,       \* the MountData in the list of ongoing ones, by spec
  ask,        \* what every caller waits for
  proc,       \* life of every daemon process
  owner,      \* who owns the DBusName
  backend,    \* the backends, by the Mount call that created them
  out,        \* messages from every daemon to gvfsd
  lost,       \* daemon->lost_main_daemon, until the mounts are registered again
  restarts

procVars == <<proc, owner, backend, out>>
vars == <<configured, mounts, data, ask, procVars, lost, restarts>>

Stages == {"none",
           "spawn",  \* the spawner is exported, Spawned is to come
           "call"}   \* Mount is on its way or at work
MountData == [st : Stages, spawned : BOOLEAN, call : 0 .. MaxCalls,
              to : Daemons \cup {NoDaemon}, callers : SUBSET Callers,
              stale : BOOLEAN, seen : BOOLEAN]
NoData == [st |-> "none", spawned |-> FALSE, call |-> 0, to |-> NoDaemon,
           callers |-> {}, stale |-> FALSE, seen |-> FALSE]
Asks == [how : {"none", "lookup", "mount"}, s : Specs,
         ans : {"none", "ok", "error"}]
Backend == [st : {"none", "sent", "mounting", "registering", "mounted",
                  "unmounting", "gone"},
            d : Daemons \cup {NoDaemon}, s : Specs]
Message == [t : {"spawned", "refused", "register", "unregister", "reply",
                 "already", "fail", "gone"}, n : 0 .. MaxCalls]
Msg(t, n) == [t |-> t, n |-> n]

(* Every variable has its type.  Of a MountData only the stage, the        *)
(* mountable's staleness and whether the spec was registered since its     *)
(* creation (seen, a history variable) are kept.                           *)
TypeOK ==
  /\ configured \in BOOLEAN
  /\ mounts \subseteq (Daemons \X Calls)
  /\ data \in [Specs -> MountData]
  /\ \A s \in Specs : data[s].st = "none" => data[s].callers = {}
  /\ ask \in [Callers -> Asks]
  /\ proc \in [Daemons -> {"free", "starting", "up", "exited"}]
  /\ owner \in Daemons \cup {NoDaemon}
  /\ backend \in [Calls -> Backend]
  /\ out \in [Daemons -> Seq(Message)]
  /\ lost \in [Daemons -> BOOLEAN]
  /\ restarts \in 0 .. MaxRestarts

Init ==
  /\ configured = TRUE
  /\ mounts = {}
  /\ data = [s \in Specs |-> NoData]
  /\ \E s \in Specs :
       /\ ask = [c \in Callers |-> [how |-> "none", s |-> s, ans |-> "none"]]
       /\ backend = [n \in Calls |-> [st |-> "none", d |-> NoDaemon, s |-> s]]
  /\ proc = [d \in Daemons |-> "free"]
  /\ owner = NoDaemon
  /\ out = [d \in Daemons |-> <<>>]
  /\ lost = [d \in Daemons |-> FALSE]
  /\ restarts = 0

-----------------------------------------------------------------------------
(* The tracker's tables.                                                   *)

SpecOf(m) == backend[m[2]].s

(* match_vfs_mount, find_vfs_mount *)
Matches(s) == {m \in mounts : SpecOf(m) = s}
FindVfsMount(d, n) == <<d, n>> \in mounts

(* lookup_mountable, find_mountable *)
Mountable(s) == configured

(* The mountable's dbus_name as a MountData sees it: a mountable that was  *)
(* freed by re_read_mountable_config may read as anything.                 *)
NamedAs(s) == IF data[s].stale THEN BOOLEAN ELSE {HasDBusName}

Waits(c) == ask[c].how # "none" /\ ask[c].ans = "none"
Asking(c, s, how) == [ask EXCEPT ![c] = [how |-> how, s |-> s, ans |-> "none"]]

(* The answers mount_finish gives to the callers cs among the questions a: *)
(* mount_location_done passes the result on, automount_done looks the      *)
(* mount up again, without automounting, in the list ms.                   *)
Answer(a, cs, ok, ms) ==
  [c \in Callers |->
     IF c \notin cs THEN a[c]
     ELSE [a[c] EXCEPT !.ans =
            IF ok /\ (a[c].how = "mount" \/ ms # {}) THEN "ok" ELSE "error"]]

MountFinish_NoPending(s, f, a, ok) ==
  /\ data' = [data EXCEPT ![s] = NoData]
  /\ ask' = Answer(a, {CHOOSE c \in f.callers : TRUE}, ok, Matches(s))

(* mount_finish: the callback of the data f and of all pending ones *)
MountFinish(s, f, a, ok) ==
  /\ data' = [data EXCEPT ![s] = NoData]
  /\ ask' = Answer(a, f.callers, ok, Matches(s))

-----------------------------------------------------------------------------
(* A MountData f of spec s, with the questions a, spawns or calls.         *)

(* mountable_mount_with_name, mountable_mount_proxy_cb: Mount is sent to   *)
(* the daemon d, or to whoever owns the name                               *)
CallMount(s, f, a, d) ==
  \E n \in Calls :
    /\ backend[n].st = "none"
    /\ \A k \in 1 .. n - 1 : backend[k].st # "none"
    /\ backend' = [backend EXCEPT ![n] = [st |-> "sent", d |-> d, s |-> s]]
    /\ data' = [data EXCEPT ![s] = [f EXCEPT !.st = "call", !.call = n, !.to = d]]
    /\ ask' = a
    /\ UNCHANGED proc

(* spawn_mount: the daemon is started.  Without an exec key, a bus or a    *)
(* program to run the callers learn of the failure at once.                *)
SpawnMount(s, f, a) ==
  \/ \E d \in Daemons :
       /\ proc[d] = "free"
       /\ proc' = [proc EXCEPT ![d] = "starting"]
       /\ data' = [data EXCEPT ![s] =
                    [f EXCEPT !.st = "spawn", !.spawned = TRUE, !.to = d]]
       /\ ask' = a
       /\ UNCHANGED backend
  \/ MountFinish(s, f, a, FALSE) /\ UNCHANGED <<proc, backend>>

(* mountable_mount: join an ongoing mount of the same spec or begin one    *)
MountableMount(s, c, a) ==
  LET f == [NoData EXCEPT !.callers = {c}]
  IN IF data[s].st # "none"
     THEN /\ data' = [data EXCEPT ![s].callers = @ \cup {c}]
          /\ ask' = a
          /\ UNCHANGED <<proc, backend>>
     ELSE IF HasDBusName THEN CallMount(s, f, a, NoDaemon)
                         ELSE SpawnMount(s, f, a)

Reply(c, s, how, r) ==
  /\ ask' = [ask EXCEPT ![c] = [how |-> how, s |-> s, ans |-> r]]
  /\ UNCHANGED <<data, proc, backend>>

(* handle_lookup_mount, lookup_mount and maybe_automount *)
HandleLookupMount(c, s) ==
  /\ ~Waits(c)
  /\ IF Matches(s) # {} THEN Reply(c, s, "lookup", "ok")
     ELSE IF Mountable(s) /\ Automount
     THEN MountableMount(s, c, Asking(c, s, "lookup"))
     ELSE Reply(c, s, "lookup", "error")
  /\ UNCHANGED <<configured, mounts, owner, out, lost, restarts>>

(* handle_mount_location *)
HandleMountLocation(c, s) ==
  /\ ~Waits(c)
  /\ IF Matches(s) = {} /\ Mountable(s)
     THEN MountableMount(s, c, Asking(c, s, "mount"))
     ELSE Reply(c, s, "mount", "error")
  /\ UNCHANGED <<configured, mounts, owner, out, lost, restarts>>

(* re_read_mountable_config on SIGUSR1: the mountables of the ongoing      *)
(* mounts are freed with the rest                                          *)
ReReadMountableConfig(there) ==
  /\ configured' = there
  /\ data' = [s \in Specs |-> [data[s] EXCEPT !.stale = data[s].st # "none"]]
  /\ UNCHANGED <<mounts, ask, procVars, lost, restarts>>

-----------------------------------------------------------------------------
(* The daemon processes.                                                   *)

Send(d, m) == out' = [out EXCEPT ![d] = Append(@, m)]

(* on_name_acquired: the daemon object is created and Spawned called *)
OnNameAcquired(d) ==
  /\ proc[d] = "starting"
  /\ HasDBusName => owner = NoDaemon
  /\ proc' = [proc EXCEPT ![d] = "up"]
  /\ owner' = IF HasDBusName THEN d ELSE owner
  /\ Send(d, Msg("spawned", 0))
  /\ UNCHANGED <<configured, mounts, data, ask, backend, lost, restarts>>

(* on_name_lost: somebody else has the name; the process exits when gvfsd  *)
(* has been told                                                           *)
OnNameLost(d) ==
  /\ proc[d] = "starting"
  /\ HasDBusName /\ owner # NoDaemon
  /\ proc' = [proc EXCEPT ![d] = "exited"]
  /\ out' = [out EXCEPT ![d] = @ \o <<Msg("refused", 0), Msg("gone", 0)>>]
  /\ UNCHANGED <<configured, mounts, data, ask, owner, backend, lost, restarts>>

(* The process dies, or leaves because it has no job source left. *)
Exit(d) ==
  /\ proc' = [proc EXCEPT ![d] = "exited"]
  /\ owner' = IF owner = d THEN NoDaemon ELSE owner
  /\ backend' = [n \in Calls |->
       IF backend[n].d = d /\ backend[n].st # "sent"
       THEN [backend[n] EXCEPT !.st = "gone"] ELSE backend[n]]
  /\ Send(d, Msg("gone", 0))
  /\ UNCHANGED <<configured, mounts, data, ask, lost, restarts>>

Crash(d) ==
  /\ proc[d] \in (IF MayDieEarly THEN {"starting", "up"} ELSE {"up"})
  /\ Exit(d)

Serves(d) == \E n \in Calls : backend[n].d = d /\ backend[n].st \notin {"none", "gone"}

(* exit_at_idle: the last job source has gone *)
ExitAtIdle(d) ==
  /\ proc[d] = "up" /\ ~Serves(d)
  /\ \E n \in Calls : backend[n].d = d /\ backend[n].st = "gone"
  /\ Exit(d)

ChildWatchCb_NoFinish(d) == UNCHANGED <<data, ask>>

(* child_watch_cb with status 126 or 127: pkexec did not start the daemon  *)
ChildWatchCb(d) ==
  \A s \in Specs : data[s].st = "spawn" /\ data[s].to = d =>
                     MountFinish(s, data[s], ask, FALSE)

PermissionDenied(d) ==
  /\ proc[d] = "starting"
  /\ proc' = [proc EXCEPT ![d] = "exited"]
  /\ \E s \in Specs : data[s].st = "spawn" /\ data[s].to = d
  /\ ChildWatchCb(d)
  /\ UNCHANGED <<configured, mounts, owner, backend, out, lost, restarts>>

(* daemon_handle_mount: the Mount call arrives and a backend is created *)
HandleMount(n, d) ==
  /\ backend[n].st = "sent"
  /\ d = (IF backend[n].d = NoDaemon THEN owner ELSE backend[n].d)
  /\ d # NoDaemon /\ proc[d] = "up"
  /\ backend' = [backend EXCEPT ![n].st = "mounting", ![n].d = d]
  /\ UNCHANGED <<configured, mounts, data, ask, proc, owner, out, lost, restarts>>

(* send_reply of the mount job: the backend's mount succeeded or failed *)
BackendMounted(n) ==
  /\ backend[n].st = "mounting"
  /\ backend' = [backend EXCEPT ![n].st = "registering"]
  /\ Send(backend[n].d, Msg("register", n))
  /\ UNCHANGED <<configured, mounts, data, ask, proc, owner, lost, restarts>>

BackendFailed(n) ==
  /\ backend[n].st = "mounting"
  /\ backend' = [backend EXCEPT ![n].st = "gone"]
  /\ Send(backend[n].d, Msg("fail", n))
  /\ UNCHANGED <<configured, mounts, data, ask, proc, owner, lost, restarts>>

(* An unmount, by a client or by force: UnregisterMount is sent *)
Unmount(n) ==
  /\ backend[n].st = "mounted"
  /\ backend' = [backend EXCEPT ![n].st = "unmounting"]
  /\ Send(backend[n].d, Msg("unregister", n))
  /\ UNCHANGED <<configured, mounts, data, ask, proc, owner, lost, restarts>>

(* name_appeared_handler, g_vfs_daemon_re_register_job_sources: what was   *)
(* registered before, or is being unregistered, is registered again        *)
ReRegister(d) ==
  /\ lost[d] /\ proc[d] = "up"
  /\ lost' = [lost EXCEPT ![d] = FALSE]
  /\ LET again == {n \in Calls : backend[n].d = d
                               /\ backend[n].st \in {"mounted", "unmounting"}}
     IN \E q \in [1 .. Cardinality(again) -> again] :
          /\ \A n \in again : \E i \in DOMAIN q : q[i] = n
          /\ out' = [out EXCEPT ![d] = @ \o [i \in DOMAIN q |-> Msg("register", q[i])]]
  /\ UNCHANGED <<configured, mounts, data, ask, proc, owner, backend, restarts>>

-----------------------------------------------------------------------------
(* What gvfsd does with the messages of the daemon d.                      *)

Got(d, t) == out[d] # <<>> /\ Head(out[d]).t = t
Pop(d) == [out EXCEPT ![d] = Tail(@)]

SpawnOf(d) == {s \in Specs : data[s].st = "spawn" /\ data[s].to = d}

(* spawn_mount_handle_spawned.  The spawner of a gvfsd that has gone is    *)
(* not there any more.                                                     *)
HandleSpawned(d) ==
  /\ Got(d, "spawned")
  /\ out' = Pop(d)
  /\ \/ SpawnOf(d) = {} /\ UNCHANGED <<data, ask, proc, backend>>
     \/ \E s \in SpawnOf(d) : CallMount(s, data[s], ask, d)
  /\ UNCHANGED <<configured, mounts, owner, lost, restarts>>

HandleRefused(d) ==
  /\ Got(d, "refused")
  /\ out' = Pop(d)
  /\ \/ SpawnOf(d) = {} /\ UNCHANGED <<data, ask, proc, backend>>
     \/ \E s \in SpawnOf(d) : \E named \in NamedAs(s) :
          IF named THEN CallMount(s, data[s], ask, NoDaemon)
          ELSE MountFinish(s, data[s], ask, FALSE) /\ UNCHANGED <<proc, backend>>
  /\ UNCHANGED <<configured, mounts, owner, lost, restarts>>

RegisterMount_NoMatch(d, n) == ~FindVfsMount(d, n)

(* May the mount be registered?  Neither (id, path) nor the spec is taken  *)
RegisterMount(d, n) == ~FindVfsMount(d, n) /\ Matches(backend[n].s) = {}

(* The answer to RegisterMount as the mount job meets it: an answer to a   *)
(* re-registration is ignored.                                             *)
RegisterAnswer(n, ok) ==
  IF backend[n].st # "registering" THEN UNCHANGED <<backend, out>>
  ELSE /\ backend' = [backend EXCEPT ![n].st = IF ok THEN "mounted" ELSE "gone"]
       /\ out' = [out EXCEPT ![backend[n].d] =
                   Append(Tail(@), Msg(IF ok THEN "reply" ELSE "already", n))]

(* handle_register_mount, and register_mount_callback in the daemon *)
HandleRegisterMount(d) ==
  /\ Got(d, "register")
  /\ LET n == Head(out[d]).n
         ok == RegisterMount(d, n)
     IN /\ mounts' = IF ok THEN mounts \cup {<<d, n>>} ELSE mounts
        /\ data' = IF ok THEN [data EXCEPT ![backend[n].s].seen = TRUE] ELSE data
        /\ IF backend[n].st = "registering" THEN RegisterAnswer(n, ok)
           ELSE out' = Pop(d) /\ UNCHANGED backend
  /\ UNCHANGED <<configured, ask, proc, owner, lost, restarts>>

(* handle_unregister_mount, and unregister_mount_callback in the daemon,   *)
(* which removes the backend whatever the answer                           *)
HandleUnregisterMount(d) ==
  /\ Got(d, "unregister")
  /\ LET n == Head(out[d]).n
     IN /\ mounts' = mounts \ {<<d, n>>}
        /\ backend' = [backend EXCEPT ![n].st = "gone"]
  /\ out' = Pop(d)
  /\ UNCHANGED <<configured, data, ask, proc, owner, lost, restarts>>

(* dbus_mount_reply: is this answer a success? *)
DbusMountReply(s, t) == t \in {"reply", "already"}

(* The answer to Mount; the one to a call that timed out is dropped. *)
HandleMountReply(d) ==
  /\ \E t \in {"reply", "already", "fail"} :
       /\ Got(d, t)
       /\ LET n == Head(out[d]).n
              s == backend[n].s
          IN IF data[s].st = "call" /\ data[s].call = n
             THEN MountFinish(s, data[s], ask, DbusMountReply(s, t))
             ELSE UNCHANGED <<data, ask>>
  /\ out' = Pop(d)
  /\ UNCHANGED <<configured, mounts, proc, owner, backend, lost, restarts>>

(* Mount cannot be delivered: nobody owns the name, or the daemon went.    *)
(* A mount that has not spawned a daemon yet does so now.                  *)
MountUndelivered(n) ==
  LET s == backend[n].s
      d == IF backend[n].d = NoDaemon THEN owner ELSE backend[n].d
  IN /\ backend[n].st = "sent"
     /\ IF d = NoDaemon THEN TRUE ELSE proc[d] = "exited"
     /\ IF data[s].st = "call" /\ data[s].call = n
        THEN IF d = NoDaemon /\ ~data[s].spawned
             THEN \/ \E e \in Daemons :
                       /\ proc[e] = "free"
                       /\ proc' = [proc EXCEPT ![e] = "starting"]
                       /\ data' = [data EXCEPT ![s] = [@ EXCEPT
                            !.st = "spawn", !.spawned = TRUE, !.to = e]]
                       /\ UNCHANGED ask
                  \/ MountFinish(s, data[s], ask, FALSE) /\ UNCHANGED proc
             ELSE MountFinish(s, data[s], ask, FALSE) /\ UNCHANGED proc
        ELSE UNCHANGED <<data, ask, proc>>
     /\ backend' = [backend EXCEPT ![n].st = "gone"]
     /\ UNCHANGED <<configured, mounts, owner, out, lost, restarts>>

(* G_VFS_DBUS_MOUNT_TIMEOUT_MSECS runs out while the daemon is mounting *)
MountTimeout(s) ==
  /\ data[s].st = "call"
  /\ backend[data[s].call].st \in {"mounting", "registering", "mounted"}
  /\ MountFinish(s, data[s], ask, FALSE)
  /\ UNCHANGED <<configured, mounts, procVars, lost, restarts>>

DbusClientDisconnected_Keep(d) == mounts

(* dbus_client_disconnected: the mounts that stay *)
DbusClientDisconnected(d) == {m \in mounts : m[1] # d}

(* name_vanished_cb, and the error of a Mount call that is still out *)
NameVanished(d) ==
  /\ Got(d, "gone")
  /\ out' = Pop(d)
  /\ mounts' = DbusClientDisconnected(d)
  /\ LET failed == {s \in Specs : data[s].st = "call"
                        /\ backend[data[s].call].d = d
                        /\ backend[data[s].call].st = "gone"}
     IN /\ data' = [s \in Specs |-> IF s \in failed THEN NoData ELSE data[s]]
        /\ ask' = Answer(ask, UNION {data[s].callers : s \in failed}, FALSE, {})
  /\ UNCHANGED <<configured, proc, owner, backend, lost, restarts>>

(* gvfsd goes and a new one starts (main.c): its lists are empty, and all  *)
(* who wait for an answer of the old one get an error instead              *)
Restart ==
  /\ restarts < MaxRestarts
  /\ restarts' = restarts + 1
  /\ configured' = TRUE
  /\ mounts' = {}
  /\ data' = [s \in Specs |-> NoData]
  /\ ask' = Answer(ask, {c \in Callers : Waits(c)}, FALSE, {})
  /\ out' = [d \in Daemons |-> <<>>]
  /\ lost' = [d \in Daemons |-> lost[d] \/ proc[d] = "up"]
  /\ backend' = [n \in Calls |->
       IF \/ backend[n].st = "registering"
          \/ \E d \in Daemons : \E i \in 1 .. Len(out[d]) :
               out[d][i] = Msg("unregister", n)
       THEN [backend[n] EXCEPT !.st = "gone"] ELSE backend[n]]
  /\ UNCHANGED <<proc, owner>>

-----------------------------------------------------------------------------
TrackerStep(d) ==
  \/ HandleSpawned(d) \/ HandleRefused(d)
  \/ HandleRegisterMount(d) \/ HandleUnregisterMount(d)
  \/ HandleMountReply(d) \/ NameVanished(d)

StartUp(d) == OnNameAcquired(d) \/ OnNameLost(d)

DaemonStep(n) ==
  \/ \E d \in Daemons : HandleMount(n, d)
  \/ BackendMounted(n) \/ BackendFailed(n)

Next ==
  \/ \E c \in Callers, s \in Specs :
       HandleLookupMount(c, s) \/ HandleMountLocation(c, s)
  \/ \E there \in BOOLEAN : ReReadMountableConfig(there)
  \/ \E d \in Daemons :
       \/ StartUp(d) \/ Crash(d) \/ ExitAtIdle(d) \/ PermissionDenied(d)
       \/ ReRegister(d) \/ TrackerStep(d)
  \/ \E n \in Calls : DaemonStep(n) \/ Unmount(n) \/ MountUndelivered(n)
  \/ \E s \in Specs : MountTimeout(s)
  \/ Restart

Spec == Init /\ [][Next]_vars

-----------------------------------------------------------------------------
(* Two lookups of one spec never see different mounts: no two entries of   *)
(* the list have the same spec, whichever daemons raced to register it     *)
(* (mount.c:714).                                                          *)
OneMountPerSpec == \A m1, m2 \in mounts : SpecOf(m1) = SpecOf(m2) => m1 = m2

(* Nobody is forgotten: a caller that has no answer yet is in the data of  *)
(* exactly the mount it asked for, and only there (mount.c:281).           *)
WaitersOwned ==
  \A c \in Callers : \A s \in Specs :
    Waits(c) /\ ask[c].s = s <=> data[s].st # "none" /\ c \in data[s].callers

(* The child watch of a process that never became a daemon finds the       *)
(* MountData it was given still there and still waiting (mount.c:438).     *)
ChildDataAlive ==
  \A d \in Daemons : proc[d] = "starting" /\ restarts = 0 =>
                       \E s \in Specs : data[s].st = "spawn" /\ data[s].to = d

(* A registered mount has a backend behind it, or the news that it has     *)
(* gone is under way (mount.c:663); so it is until a restart of gvfsd lets *)
(* a daemon register a mount that is just being unmounted.                 *)
MountsServed ==
  restarts = 0 =>
    \A m \in mounts :
      \/ backend[m[2]].st \in {"mounted", "unmounting"} /\ proc[m[1]] = "up"
      \/ \E i \in 1 .. Len(out[m[1]]) :
           out[m[1]][i] \in {Msg("unregister", m[2]), Msg("gone", 0)}

(* mount_finish reports success only for a spec that was in the list at    *)
(* some time since the mount was begun, the ALREADY_MOUNTED of a named     *)
(* daemon included (mount.c:385).                                          *)
SuccessMeansRegistered ==
  \A c \in Callers :
       Waits(c) /\ ask'[c].ans = "ok" => data[ask[c].s].seen

-----------------------------------------------------------------------------
(* The inductive invariant behind these properties.                        *)

(* The messages that are about a backend, and the backends at work *)
OfBackend == {"register", "unregister", "reply", "already", "fail"}
Active == {"mounting", "registering", "mounted", "unmounting"}

(* A backend at work is in a running daemon, what is registered or under   *)
(* way was sent by the daemon that has the backend, and the mount in       *)
(* progress of a spec waits for a backend of that spec.                    *)
BackendsPlaced ==
  /\ \A n \in Calls : backend[n].st \in Active =>
                        backend[n].d \in Daemons /\ proc[backend[n].d] = "up"
  /\ \A m \in mounts : backend[m[2]].st \notin {"none", "sent"} /\ backend[m[2]].d = m[1]
  /\ \A s \in Specs : data[s].st = "call" =>
                        /\ data[s].call \in Calls
                        /\ backend[data[s].call].st # "none"
                        /\ backend[data[s].call].s = s

MessagesPlaced ==
  \A d \in Daemons : \A i \in 1 .. Len(out[d]) :
    /\ proc[d] \in {"up", "exited"}
    /\ out[d][i].t \in OfBackend =>
         /\ out[d][i].n \in Calls
         /\ backend[out[d][i].n].st \notin {"none", "sent"}
         /\ backend[out[d][i].n].d = d

(* The end of a daemon is the last that is heard of it, and before a       *)
(* restart of gvfsd a mount is registered once.                            *)
GoneIsLast ==
  \A d \in Daemons : \A i \in 1 .. Len(out[d]) :
    out[d][i] = Msg("gone", 0) <=> proc[d] = "exited" /\ i = Len(out[d])

RegisteredOnce ==
  restarts = 0 =>
    \A d \in Daemons : \A i, j \in 1 .. Len(out[d]) :
      out[d][i].t = "register" /\ out[d][j] = out[d][i] => i = j

Registering ==
  restarts = 0 =>
    \A d \in Daemons :
      /\ ~lost[d]
      /\ \A i \in 1 .. Len(out[d]) : out[d][i].t = "register" =>
           backend[out[d][i].n].st = "registering" \/ proc[d] = "exited"
      /\ \A i \in 1 .. Len(out[d]) : out[d][i].t = "unregister" =>
           backend[out[d][i].n].st \in {"unmounting", "gone"}

(* What a MountData may report was registered after it was begun. *)
SeenSince ==
  /\ \A s \in Specs : data[s].st # "none" /\ Matches(s) # {} => data[s].seen
  /\ \A d \in Daemons : \A i \in 1 .. Len(out[d]) :
       out[d][i].t \in {"reply", "already"} =>
         \A s \in Specs : data[s].st = "call" /\ data[s].call = out[d][i].n => data[s].seen

TrackerInv ==
  /\ TypeOK /\ BackendsPlaced /\ MessagesPlaced /\ GoneIsLast
  /\ RegisteredOnce /\ Registering /\ SeenSince
  /\ OneMountPerSpec /\ WaitersOwned /\ ChildDataAlive /\ MountsServed

-----------------------------------------------------------------------------
(* Proofs, for any number of specs, callers, daemons, calls and restarts.  *)

(* What a queue is without its first message, and with one more. *)
LEMMA TailFacts ==
  ASSUME NEW T, NEW q \in Seq(T), q # <<>>
  PROVE  /\ Len(q) \in Nat /\ Len(q) >= 1 /\ Head(q) = q[1] /\ q[1] \in T
         /\ Tail(q) \in Seq(T) /\ Len(Tail(q)) = Len(q) - 1
         /\ \A i \in 1 .. Len(q) - 1 : Tail(q)[i] = q[i + 1]
  OBVIOUS

LEMMA AppendFacts ==
  ASSUME NEW T, NEW q \in Seq(T), NEW m \in T
  PROVE  /\ Append(q, m) \in Seq(T) /\ Len(q) \in Nat
         /\ Len(Append(q, m)) = Len(q) + 1
         /\ \A i \in 1 .. Len(q) : Append(q, m)[i] = q[i]
         /\ Append(q, m)[Len(q) + 1] = m
  OBVIOUS

(* Messages, and the empty MountData, are of their types. *)
LEMMA MsgType ==
  ASSUME TrackerAssumption, NEW n \in 0 .. MaxCalls,
         NEW t \in {"spawned", "refused", "register", "unregister", "reply",
                    "already", "fail", "gone"}
  PROVE  Msg(t, n) \in Message /\ Msg(t, n).t = t /\ Msg(t, n).n = n
  BY DEF Msg, Message

LEMMA NoDataType ==
  TrackerAssumption => /\ NoData \in MountData /\ NoData.st = "none" /\ NoData.callers = {}
                       /\ ~NoData.spawned /\ ~NoData.stale /\ ~NoData.seen
                       /\ NoData.call = 0 /\ NoData.to = NoDaemon
  BY DEF TrackerAssumption, NoData, MountData, Stages

(* The invariant holds when gvfsd starts. *)
LEMMA InitInv == ASSUME TrackerAssumption, Init PROVE TrackerInv
<1> USE DEF Init
<1>1. TypeOK
  <2>1. PICK s \in Specs :
          /\ ask = [c \in Callers |-> [how |-> "none", s |-> s, ans |-> "none"]]
          /\ backend = [n \in Calls |-> [st |-> "none", d |-> NoDaemon, s |-> s]]
    OBVIOUS
  <2>2. data \in [Specs -> MountData] /\ \A x \in Specs : data[x].callers = {}
    BY NoDataType
  <2>3. ask \in [Callers -> Asks] /\ backend \in [Calls -> Backend]
    BY <2>1 DEF Asks, Backend
  <2>4. out \in [Daemons -> Seq(Message)]
    OBVIOUS
  <2>5. restarts \in 0 .. MaxRestarts /\ owner \in Daemons \cup {NoDaemon}
    BY DEF TrackerAssumption
  <2>6. QED BY <2>2, <2>3, <2>4, <2>5 DEF TypeOK
<1>2. \A d \in Daemons : Len(out[d]) = 0
  OBVIOUS
<1>3. \A s \in Specs : data[s].st = "none" /\ data[s].callers = {}
  BY NoDataType
<1>4. \A n \in Calls : backend[n].st = "none"
  OBVIOUS
<1>5. \A c \in Callers : ask[c].how = "none"
  OBVIOUS
<1>6. BackendsPlaced
  BY <1>3, <1>4 DEF BackendsPlaced, Active
<1>7. MessagesPlaced /\ GoneIsLast /\ RegisteredOnce /\ Registering /\ SeenSince
  BY <1>2, <1>3 DEF MessagesPlaced, GoneIsLast, RegisteredOnce, Registering, SeenSince
<1>8. OneMountPerSpec /\ MountsServed /\ ChildDataAlive
  BY DEF OneMountPerSpec, MountsServed, ChildDataAlive
<1>9. WaitersOwned
  BY <1>3, <1>5 DEF WaitersOwned, Waits
<1>10. QED
  BY <1>1, <1>6, <1>7, <1>8, <1>9 DEF TrackerInv

(* The answers of mount_finish keep the type of the questions. *)
LEMMA AnswerFacts ==
  ASSUME NEW a \in [Callers -> Asks], NEW cs, NEW ok \in BOOLEAN, NEW ms
  PROVE  /\ Answer(a, cs, ok, ms) \in [Callers -> Asks]
         /\ \A c \in Callers : c \notin cs => Answer(a, cs, ok, ms)[c] = a[c]
         /\ \A c \in cs \cap Callers :
              /\ Answer(a, cs, ok, ms)[c].ans # "none"
              /\ Answer(a, cs, ok, ms)[c].ans = "ok" => ok
  BY DEF Answer, Asks

(* mount_finish of a mount in progress. *)
LEMMA FinishFacts ==
  ASSUME TrackerAssumption, TypeOK, WaitersOwned, NEW s \in Specs, NEW ok \in BOOLEAN,
         data[s].st # "none", MountFinish(s, data[s], ask, ok)
  PROVE  /\ data' \in [Specs -> MountData] /\ ask' \in [Callers -> Asks]
         /\ data'[s] = NoData /\ \A x \in Specs : x # s => data'[x] = data[x]
         /\ \A x \in Specs : data'[x].st = "none" => data'[x].callers = {}
         /\ WaitersOwned'
<1>1. /\ data' = [data EXCEPT ![s] = NoData]
      /\ ask' = Answer(ask, data[s].callers, ok, Matches(s))
  BY DEF MountFinish
<1>2. data \in [Specs -> MountData] /\ ask \in [Callers -> Asks]
  BY DEF TypeOK
<1>3. data' \in [Specs -> MountData] /\ data'[s] = NoData
  BY <1>1, <1>2, NoDataType
<1>4. \A x \in Specs : x # s => data'[x] = data[x]
  BY <1>1, <1>2
<1>5. \A x \in Specs : data'[x].st = "none" => data'[x].callers = {}
  BY <1>3, <1>4, NoDataType DEF TypeOK
<1>6. ask' \in [Callers -> Asks] /\ data[s].callers \subseteq Callers
  BY <1>1, <1>2, AnswerFacts DEF MountData
<1>7. \A c \in Callers : IF c \in data[s].callers THEN ask'[c].ans # "none" ELSE ask'[c] = ask[c]
  BY <1>1, <1>2, <1>6, AnswerFacts
<1>8. WaitersOwned'
  <2> SUFFICES ASSUME NEW c \in Callers, NEW x \in Specs
               PROVE  (ask'[c].how # "none" /\ ask'[c].ans = "none") /\ ask'[c].s = x
                        <=> data'[x].st # "none" /\ c \in data'[x].callers
    BY DEF WaitersOwned, Waits
  <2>1. \A y \in Specs : (ask[c].how # "none" /\ ask[c].ans = "none") /\ ask[c].s = y
                           <=> data[y].st # "none" /\ c \in data[y].callers
    BY DEF WaitersOwned, Waits
  <2>2. CASE c \in data[s].callers
    <3>1. ask'[c].ans # "none" BY <1>7, <2>2
    <3>2. \A y \in Specs : y # s => ~(data[y].st # "none" /\ c \in data[y].callers)
      BY <2>1, <2>2
    <3>3. QED BY <1>3, <1>4, <3>1, <3>2, NoDataType
  <2>3. CASE c \notin data[s].callers
    <3>1. ask'[c] = ask[c] BY <1>7, <2>3
    <3>2. CASE x = s
      BY <1>3, <2>1, <2>3, <3>1, <3>2, NoDataType
    <3>3. CASE x # s
      BY <1>4, <2>1, <3>1, <3>3
    <3>4. QED BY <3>2, <3>3
  <2>4. QED BY <2>2, <2>3
<1>9. QED BY <1>3, <1>4, <1>5, <1>6, <1>8

(* The Mount call of a MountData f of the spec s. *)
LEMMA CallFacts ==
  ASSUME TrackerAssumption, TypeOK, NEW s \in Specs, NEW f \in MountData,
         NEW a, NEW d \in Daemons \cup {NoDaemon}, CallMount(s, f, a, d)
  PROVE  /\ ask' = a /\ proc' = proc
         /\ data' \in [Specs -> MountData] /\ data'[s].st = "call"
         /\ data'[s].callers = f.callers /\ data'[s].seen = f.seen
         /\ \A x \in Specs : x # s => data'[x] = data[x]
         /\ backend' \in [Calls -> Backend]
         /\ \E n \in Calls :
              /\ data'[s].call = n /\ backend[n].st = "none"
              /\ backend'[n].st = "sent" /\ backend'[n].d = d /\ backend'[n].s = s
              /\ \A k \in Calls : k # n => backend'[k] = backend[k]
<1>1. PICK n \in Calls :
        /\ backend[n].st = "none"
        /\ backend' = [backend EXCEPT ![n] = [st |-> "sent", d |-> d, s |-> s]]
        /\ data' = [data EXCEPT ![s] = [f EXCEPT !.st = "call", !.call = n, !.to = d]]
        /\ ask' = a /\ proc' = proc
  BY DEF CallMount
<1>2. data \in [Specs -> MountData] /\ backend \in [Calls -> Backend]
  BY DEF TypeOK
<1> DEFINE g == [f EXCEPT !.st = "call", !.call = n, !.to = d]
<1>3. /\ g \in MountData /\ g.st = "call" /\ g.call = n /\ g.callers = f.callers
      /\ g.seen = f.seen
  <2>1. n \in 0 .. MaxCalls
    BY DEF Calls, TrackerAssumption
  <2>2. QED BY <2>1 DEF MountData, Stages
<1>4. [st |-> "sent", d |-> d, s |-> s] \in Backend
  BY DEF Backend
<1> HIDE DEF g
<1>5. /\ data' \in [Specs -> MountData] /\ data'[s] = g
      /\ \A x \in Specs : x # s => data'[x] = data[x]
  BY <1>1, <1>2, <1>3 DEF g
<1>6. /\ backend' \in [Calls -> Backend]
      /\ backend'[n].st = "sent" /\ backend'[n].d = d /\ backend'[n].s = s
      /\ \A k \in Calls : k # n => backend'[k] = backend[k]
  BY <1>1, <1>2, <1>4
<1>7. QED BY <1>1, <1>3, <1>5, <1>6

(* Messages are only taken from the queues. *)
QueuesShrink ==
  \A d \in Daemons : \A i \in 1 .. Len(out'[d]) :
    \E j \in 1 .. Len(out[d]) : out'[d][i] = out[d][j]

(* gvfsd takes the first message of a daemon.                              *)
LEMMA PopFacts ==
  ASSUME TypeOK, NEW d \in Daemons, out[d] # <<>>, out' = Pop(d)
  PROVE  /\ out' \in [Daemons -> Seq(Message)] /\ QueuesShrink
         /\ out'[d] = Tail(out[d]) /\ \A e \in Daemons : e # d => out'[e] = out[e]
         /\ Head(out[d]) = out[d][1] /\ 1 \in 1 .. Len(out[d]) /\ out[d][1] \in Message
         /\ GoneIsLast /\ proc' = proc => GoneIsLast'
         /\ RegisteredOnce /\ restarts' = restarts => RegisteredOnce'
<1>1. out \in [Daemons -> Seq(Message)] BY DEF TypeOK
<1>2. /\ out' \in [Daemons -> Seq(Message)] /\ out'[d] = Tail(out[d])
      /\ \A e \in Daemons : e # d => out'[e] = out[e]
  <2>1. Tail(out[d]) \in Seq(Message) BY <1>1, TailFacts
  <2>2. QED BY <1>1, <2>1 DEF Pop
<1>3. /\ Len(out[d]) \in Nat /\ Len(out[d]) >= 1
      /\ Head(out[d]) = out[d][1] /\ out[d][1] \in Message
      /\ Len(out'[d]) = Len(out[d]) - 1
      /\ \A i \in 1 .. Len(out[d]) - 1 : out'[d][i] = out[d][i + 1]
  BY <1>1, <1>2, TailFacts
<1>4. QueuesShrink
  <2> SUFFICES ASSUME NEW e \in Daemons, NEW i \in 1 .. Len(out'[e])
               PROVE  \E j \in 1 .. Len(out[e]) : out'[e][i] = out[e][j]
    BY DEF QueuesShrink
  <2>1. CASE e = d
    <3>1. i + 1 \in 1 .. Len(out[e]) /\ out'[e][i] = out[e][i + 1] BY <1>3, <2>1
    <3>2. QED BY <3>1
  <2>2. CASE e # d
    BY <1>2, <2>2
  <2>3. QED BY <2>1, <2>2
<1>5. ASSUME GoneIsLast, proc' = proc PROVE GoneIsLast'
  <2> SUFFICES ASSUME NEW e \in Daemons, NEW i \in 1 .. Len(out'[e])
               PROVE  out'[e][i] = Msg("gone", 0) <=> proc[e] = "exited" /\ i = Len(out'[e])
    BY <1>5 DEF GoneIsLast, Msg
  <2>1. \A j \in 1 .. Len(out[e]) : out[e][j] = Msg("gone", 0) <=> proc[e] = "exited" /\ j = Len(out[e])
    BY <1>5 DEF GoneIsLast
  <2>2. CASE e = d
    <3>1. i + 1 \in 1 .. Len(out[e]) /\ out'[e][i] = out[e][i + 1] BY <1>3, <2>2
    <3>2. i = Len(out'[e]) <=> i + 1 = Len(out[e]) BY <1>3, <2>2
    <3>3. QED BY <2>1, <3>1, <3>2
  <2>3. CASE e # d
    BY <1>2, <2>1, <2>3
  <2>4. QED BY <2>2, <2>3
<1>6. ASSUME RegisteredOnce, restarts' = restarts PROVE RegisteredOnce'
  <2> SUFFICES ASSUME restarts = 0, NEW e \in Daemons, NEW i \in 1 .. Len(out'[e]), NEW j \in 1 .. Len(out'[e]),
                      out'[e][i].t = "register", out'[e][j] = out'[e][i]
               PROVE  i = j
    BY <1>6 DEF RegisteredOnce
  <2>1. CASE e = d
    <3>1. /\ i + 1 \in 1 .. Len(out[e]) /\ out'[e][i] = out[e][i + 1]
          /\ j + 1 \in 1 .. Len(out[e]) /\ out'[e][j] = out[e][j + 1]
      BY <1>3, <2>1
    <3>2. i + 1 = j + 1 BY <1>6, <3>1 DEF RegisteredOnce
    <3>3. QED BY <3>2
  <2>2. CASE e # d
    BY <1>2, <1>6, <2>2 DEF RegisteredOnce
  <2>3. QED BY <2>1, <2>2
<1>7. QED BY <1>2, <1>3, <1>4, <1>5, <1>6

(* What is sent by a daemon that runs and is not its end. *)
LEMMA SendFacts ==
  ASSUME TypeOK, NEW d \in Daemons, NEW m \in Message, Send(d, m)
  PROVE  /\ out' \in [Daemons -> Seq(Message)]
         /\ Len(out[d]) \in Nat /\ Len(out'[d]) = Len(out[d]) + 1
         /\ \A i \in 1 .. Len(out[d]) : out'[d][i] = out[d][i]
         /\ out'[d][Len(out[d]) + 1] = m
         /\ \A e \in Daemons : e # d => out'[e] = out[e]
         /\ \A e \in Daemons : \A i \in 1 .. Len(out'[e]) :
              \/ i \in 1 .. Len(out[e]) /\ out'[e][i] = out[e][i]
              \/ e = d /\ i = Len(out[d]) + 1 /\ out'[e][i] = m
         /\ \A e \in Daemons : \A i \in 1 .. Len(out[e]) :
              i \in 1 .. Len(out'[e]) /\ out'[e][i] = out[e][i]
<1>1. out \in [Daemons -> Seq(Message)] BY DEF TypeOK
<1>2. /\ out' \in [Daemons -> Seq(Message)] /\ out'[d] = Append(out[d], m)
      /\ \A e \in Daemons : e # d => out'[e] = out[e]
  <2>1. Append(out[d], m) \in Seq(Message) BY <1>1, AppendFacts
  <2>2. QED BY <1>1, <2>1 DEF Send
<1>3. /\ Len(out[d]) \in Nat /\ Len(out'[d]) = Len(out[d]) + 1
      /\ \A i \in 1 .. Len(out[d]) : out'[d][i] = out[d][i]
      /\ out'[d][Len(out[d]) + 1] = m
  BY <1>1, <1>2, AppendFacts
<1>4. ASSUME NEW e \in Daemons, NEW i \in 1 .. Len(out'[e])
      PROVE  \/ i \in 1 .. Len(out[e]) /\ out'[e][i] = out[e][i]
             \/ e = d /\ i = Len(out[d]) + 1 /\ out'[e][i] = m
  <2>1. CASE e # d BY <1>2, <2>1
  <2>2. CASE e = d BY <1>3, <2>2
  <2>3. QED BY <2>1, <2>2
<1>5. ASSUME NEW e \in Daemons, NEW i \in 1 .. Len(out[e])
      PROVE  i \in 1 .. Len(out'[e]) /\ out'[e][i] = out[e][i]
  <2>1. CASE e # d BY <1>2, <2>1
  <2>2. CASE e = d BY <1>3, <2>2
  <2>3. QED BY <2>1, <2>2
<1>6. QED BY <1>2, <1>3, <1>4, <1>5

(* What is sent keeps the end of a daemon the last that is heard of it.    *)
LEMMA SendGone ==
  ASSUME TypeOK, GoneIsLast, NEW d \in Daemons, NEW m \in Message, Send(d, m),
         proc[d] # "exited",
         IF m = Msg("gone", 0) THEN proc' = [proc EXCEPT ![d] = "exited"]
         ELSE proc'[d] # "exited" /\ \A e \in Daemons : e # d => proc'[e] = proc[e]
  PROVE  GoneIsLast'
<1> SUFFICES ASSUME NEW e \in Daemons, NEW i \in 1 .. Len(out'[e])
             PROVE  out'[e][i] = Msg("gone", 0) <=> proc'[e] = "exited" /\ i = Len(out'[e])
  BY DEF GoneIsLast, Msg
<1>1. \A x \in Daemons : \A j \in 1 .. Len(out[x]) :
         out[x][j] = Msg("gone", 0) <=> proc[x] = "exited" /\ j = Len(out[x])
  BY DEF GoneIsLast
<1>2. proc \in [Daemons -> {"free", "starting", "up", "exited"}] BY DEF TypeOK
<1>3. /\ Len(out[d]) \in Nat /\ Len(out'[d]) = Len(out[d]) + 1
      /\ \A j \in 1 .. Len(out[d]) : out'[d][j] = out[d][j]
      /\ out'[d][Len(out[d]) + 1] = m
      /\ \A x \in Daemons : x # d => out'[x] = out[x]
  BY SendFacts
<1>4. CASE e = d
  <2>1. CASE i = Len(out[d]) + 1
    BY <1>2, <1>3, <1>4, <2>1
  <2>2. CASE i # Len(out[d]) + 1
    <3>1. i \in 1 .. Len(out[d]) /\ i # Len(out'[d]) BY <1>3, <1>4, <2>2
    <3>2. out'[e][i] # Msg("gone", 0) BY <1>1, <1>3, <1>4, <3>1
    <3>3. QED BY <1>4, <3>1, <3>2
  <2>3. QED BY <2>1, <2>2
<1>5. CASE e # d
  BY <1>1, <1>2, <1>3, <1>5
<1>6. QED BY <1>4, <1>5

(* What is sent keeps a mount registered once.                             *)
LEMMA SendRegistered ==
  ASSUME TypeOK, RegisteredOnce, NEW d \in Daemons, NEW m \in Message, Send(d, m),
         restarts' = restarts,
         restarts = 0 /\ m.t = "register" => \A i \in 1 .. Len(out[d]) : out[d][i] # m
  PROVE  RegisteredOnce'
<1> SUFFICES ASSUME restarts = 0, NEW e \in Daemons, NEW i \in 1 .. Len(out'[e]),
                    NEW j \in 1 .. Len(out'[e]),
                    out'[e][i].t = "register", out'[e][j] = out'[e][i]
             PROVE  i = j
  BY DEF RegisteredOnce
<1>1. \A k \in 1 .. Len(out'[e]) :
         \/ k \in 1 .. Len(out[e]) /\ out'[e][k] = out[e][k]
         \/ e = d /\ k = Len(out[d]) + 1 /\ out'[e][k] = m
  BY SendFacts
<1>2. \A k, l \in 1 .. Len(out[e]) : out[e][k].t = "register" /\ out[e][l] = out[e][k] => k = l
  BY DEF RegisteredOnce
<1>3. QED BY <1>1, <1>2

(* The news of an end stays in the queues. *)
QueuesKeep ==
  \A d \in Daemons : \A i \in 1 .. Len(out[d]) : out[d][i].t \in {"unregister", "gone"} =>
    \E j \in 1 .. Len(out'[d]) : out'[d][j] = out[d][i]

(* Only the news of an end itself takes that news out of the queue.        *)
LEMMA PopKeeps ==
  ASSUME TypeOK, NEW d \in Daemons, out[d] # <<>>, out' = Pop(d),
         Head(out[d]).t \notin {"unregister", "gone"}
  PROVE  QueuesKeep
<1> SUFFICES ASSUME NEW e \in Daemons, NEW i \in 1 .. Len(out[e]),
                    out[e][i].t \in {"unregister", "gone"}
             PROVE  \E j \in 1 .. Len(out'[e]) : out'[e][j] = out[e][i]
  BY DEF QueuesKeep
<1>1. out[e] \in Seq(Message) BY DEF TypeOK
<1>2. CASE e # d
  BY <1>2, PopFacts
<1>3. CASE e = d
  <2>1. /\ out'[d] = Tail(out[d]) /\ Head(out[d]) = out[d][1]
        /\ Len(out[d]) \in Nat /\ Len(Tail(out[d])) = Len(out[d]) - 1
        /\ \A k \in 1 .. Len(out[d]) - 1 : Tail(out[d])[k] = out[d][k + 1]
    BY <1>1, <1>3, PopFacts, TailFacts
  <2>2. i # 1 BY <1>3, <2>1
  <2>3. i - 1 \in 1 .. Len(out'[e]) /\ out'[e][i - 1] = out[e][i]
    BY <1>3, <2>1, <2>2
  <2>4. QED BY <2>3
<1>4. QED BY <1>2, <1>3

(* A spec has the mounts it had when the list and the specs stay.          *)
LEMMA MatchesKept ==
  ASSUME TypeOK, mounts' = mounts, \A m \in mounts : backend'[m[2]].s = backend[m[2]].s
  PROVE  /\ \A s \in Specs : Matches(s)' = Matches(s)
         /\ OneMountPerSpec => OneMountPerSpec'
<1>1. \A m \in mounts : SpecOf(m)' = SpecOf(m)
  BY DEF SpecOf
<1>2. ASSUME NEW s \in Specs PROVE Matches(s)' = Matches(s)
  BY <1>1 DEF Matches
<1>3. OneMountPerSpec => OneMountPerSpec'
  BY <1>1 DEF OneMountPerSpec
<1>4. QED BY <1>2, <1>3

(* A mount stays served when its backend and the news of its end do.       *)
LEMMA ServedKept ==
  ASSUME TypeOK, MountsServed, mounts' \subseteq mounts, restarts' = restarts, QueuesKeep,
         \A m \in mounts' : backend[m[2]].st \in {"mounted", "unmounting"} /\ proc[m[1]] = "up"
                         => backend'[m[2]].st \in {"mounted", "unmounting"} /\ proc'[m[1]] = "up"
  PROVE  MountsServed'
<1> SUFFICES ASSUME restarts = 0, NEW m \in mounts'
             PROVE  \/ backend'[m[2]].st \in {"mounted", "unmounting"} /\ proc'[m[1]] = "up"
                    \/ \E i \in 1 .. Len(out'[m[1]]) :
                         out'[m[1]][i] \in {Msg("unregister", m[2]), Msg("gone", 0)}
  BY DEF MountsServed, Msg
<1>1. m \in mounts /\ m[1] \in Daemons
  BY DEF TypeOK
<1>2. CASE backend[m[2]].st \in {"mounted", "unmounting"} /\ proc[m[1]] = "up"
  BY <1>2
<1>3. CASE \E i \in 1 .. Len(out[m[1]]) :
             out[m[1]][i] \in {Msg("unregister", m[2]), Msg("gone", 0)}
  <2>1. PICK i \in 1 .. Len(out[m[1]]) :
               out[m[1]][i] \in {Msg("unregister", m[2]), Msg("gone", 0)}
    BY <1>3
  <2>2. out[m[1]][i].t \in {"unregister", "gone"} BY <2>1 DEF Msg
  <2>3. QED BY <1>1, <2>1, <2>2 DEF QueuesKeep
<1>4. QED BY <1>1, <1>2, <1>3 DEF MountsServed

(* A Mount call of a new number disturbs nothing that is under way. *)
LEMMA CallInv ==
  ASSUME TrackerAssumption, TrackerInv, NEW s \in Specs, NEW f \in MountData, NEW a,
         NEW d \in Daemons \cup {NoDaemon}, CallMount(s, f, a, d),
         mounts' = mounts, restarts' = restarts, lost' = lost, QueuesShrink, QueuesKeep,
         Matches(s) # {} => f.seen
  PROVE  /\ BackendsPlaced' /\ MessagesPlaced' /\ Registering' /\ SeenSince'
         /\ OneMountPerSpec' /\ MountsServed'
<1> USE DEF TrackerInv
<1>1. /\ ask' = a /\ proc' = proc
      /\ data'[s].st = "call" /\ data'[s].seen = f.seen
      /\ \A x \in Specs : x # s => data'[x] = data[x]
      /\ backend' \in [Calls -> Backend]
  BY CallFacts
<1>2. PICK n \in Calls :
        /\ data'[s].call = n /\ backend[n].st = "none"
        /\ backend'[n].st = "sent" /\ backend'[n].d = d /\ backend'[n].s = s
        /\ \A k \in Calls : k # n => backend'[k] = backend[k]
  BY CallFacts
<1>3. \A m \in mounts : m[2] \in Calls /\ m[2] # n /\ backend'[m[2]] = backend[m[2]]
  BY <1>2 DEF TypeOK, BackendsPlaced
<1>4. BackendsPlaced'
  <2>1. \A k \in Calls : backend'[k].st \in Active =>
                           backend'[k].d \in Daemons /\ proc'[backend'[k].d] = "up"
    BY <1>1, <1>2 DEF BackendsPlaced, Active
  <2>2. \A m \in mounts' : backend'[m[2]].st \notin {"none", "sent"} /\ backend'[m[2]].d = m[1]
    BY <1>3 DEF BackendsPlaced
  <2>3. ASSUME NEW x \in Specs, data'[x].st = "call"
        PROVE  /\ data'[x].call \in Calls
               /\ backend'[data'[x].call].st # "none" /\ backend'[data'[x].call].s = x
    <3>1. CASE x = s BY <1>1, <1>2, <3>1
    <3>2. CASE x # s
      BY <1>1, <1>2, <2>3, <3>2 DEF BackendsPlaced
    <3>3. QED BY <3>1, <3>2
  <2>4. QED BY <2>1, <2>2, <2>3 DEF BackendsPlaced, Active
<1>5. ASSUME NEW e \in Daemons, NEW i \in 1 .. Len(out'[e])
      PROVE  /\ \E j \in 1 .. Len(out[e]) : out'[e][i] = out[e][j]
             /\ proc[e] \in {"up", "exited"}
             /\ out'[e][i].t \in OfBackend =>
                  /\ out'[e][i].n \in Calls /\ out'[e][i].n # n
                  /\ backend'[out'[e][i].n] = backend[out'[e][i].n]
                  /\ backend[out'[e][i].n].st \notin {"none", "sent"}
                  /\ backend[out'[e][i].n].d = e
  BY <1>2 DEF QueuesShrink, MessagesPlaced
<1>6. MessagesPlaced'
  BY <1>1, <1>5 DEF MessagesPlaced, OfBackend
<1>7. Registering'
  <2> SUFFICES ASSUME restarts = 0, NEW e \in Daemons
               PROVE  /\ ~lost[e]
                      /\ \A i \in 1 .. Len(out'[e]) : out'[e][i].t = "register" =>
                           backend'[out'[e][i].n].st = "registering" \/ proc'[e] = "exited"
                      /\ \A i \in 1 .. Len(out'[e]) : out'[e][i].t = "unregister" =>
                           backend'[out'[e][i].n].st \in {"unmounting", "gone"}
    BY DEF Registering
  <2>1. ~lost[e] BY DEF Registering
  <2>2. ASSUME NEW i \in 1 .. Len(out'[e]), out'[e][i].t = "register"
        PROVE  backend'[out'[e][i].n].st = "registering" \/ proc'[e] = "exited"
    <3>1. PICK j \in 1 .. Len(out[e]) : out'[e][i] = out[e][j] BY <1>5
    <3>2. backend[out[e][j].n].st = "registering" \/ proc[e] = "exited"
      BY <2>2, <3>1 DEF Registering
    <3>3. backend'[out'[e][i].n] = backend[out'[e][i].n]
      BY <1>5, <2>2 DEF OfBackend
    <3>4. QED BY <1>1, <3>1, <3>2, <3>3
  <2>3. ASSUME NEW i \in 1 .. Len(out'[e]), out'[e][i].t = "unregister"
        PROVE  backend'[out'[e][i].n].st \in {"unmounting", "gone"}
    <3>1. PICK j \in 1 .. Len(out[e]) : out'[e][i] = out[e][j] BY <1>5
    <3>2. backend[out[e][j].n].st \in {"unmounting", "gone"}
      BY <2>3, <3>1 DEF Registering
    <3>3. backend'[out'[e][i].n] = backend[out'[e][i].n]
      BY <1>5, <2>3 DEF OfBackend
    <3>4. QED BY <3>1, <3>2, <3>3
  <2>4. QED BY <2>1, <2>2, <2>3
<1>8. (\A x \in Specs : Matches(x)' = Matches(x)) /\ OneMountPerSpec'
  BY <1>3, MatchesKept
<1>9. SeenSince'
  <2>1. \A x \in Specs : data'[x].st # "none" /\ Matches(x)' # {} => data'[x].seen
    BY <1>1, <1>8 DEF SeenSince
  <2>2. ASSUME NEW e \in Daemons, NEW i \in 1 .. Len(out'[e]),
               out'[e][i].t \in {"reply", "already"},
               NEW x \in Specs, data'[x].st = "call", data'[x].call = out'[e][i].n
        PROVE  data'[x].seen
    <3>1. out'[e][i].n # n BY <1>5, <2>2 DEF OfBackend
    <3>2. x # s BY <1>2, <2>2, <3>1
    <3>3. data'[x] = data[x] BY <1>1, <3>2
    <3>4. PICK j \in 1 .. Len(out[e]) : out'[e][i] = out[e][j] BY <1>5
    <3>5. QED BY <2>2, <3>3, <3>4 DEF SeenSince
  <2>3. QED BY <2>1, <2>2 DEF SeenSince
<1>10. MountsServed'
  BY <1>1, <1>3, ServedKept
<1>11. QED BY <1>4, <1>6, <1>7, <1>8, <1>9, <1>10

(* Steps of gvfsd in which no backend moves, but for one that never        *)
(* begins: they take messages, finish mounts in progress or start a        *)
(* process.                                                                *)
ProcsKept == \A d \in Daemons : proc[d] \in {"up", "exited"} => proc'[d] = proc[d]

BackendsKept ==
  \A n \in Calls : IF backend[n].st = "sent"
                   THEN backend'[n].s = backend[n].s /\ backend'[n].st \in {"sent", "gone"}
                   ELSE backend'[n] = backend[n]

DataKept ==
  \A s \in Specs : data'[s].st = "call" \/ (data'[s].st # "none" /\ data[s].st # "none") =>
    /\ data[s].st # "none" /\ data'[s].seen = data[s].seen
    /\ data'[s].st = "call" => data[s].st = "call" /\ data'[s].call = data[s].call

(* What such a step does to the tables, the backends and the messages.     *)
LEMMA DataInv ==
  ASSUME TrackerAssumption, TrackerInv, mounts' = mounts, BackendsKept,
         restarts' = restarts, lost' = lost, ProcsKept, DataKept, QueuesShrink, QueuesKeep,
         \A s \in Specs : data'[s].st # "none" /\ data[s].st = "none" => Matches(s) = {}
  PROVE  /\ BackendsPlaced' /\ MessagesPlaced' /\ Registering' /\ SeenSince'
         /\ OneMountPerSpec' /\ MountsServed'
<1> USE DEF TrackerInv
<1>1. \A m \in mounts : m[2] \in Calls /\ m[1] \in Daemons /\ backend'[m[2]] = backend[m[2]]
  BY DEF TypeOK, BackendsPlaced, BackendsKept
<1>2. BackendsPlaced'
  <2>1. \A n \in Calls : backend'[n].st \in Active =>
                           backend'[n].d \in Daemons /\ proc'[backend'[n].d] = "up"
    BY DEF BackendsPlaced, ProcsKept, BackendsKept, Active
  <2>2. \A m \in mounts' : backend'[m[2]].st \notin {"none", "sent"} /\ backend'[m[2]].d = m[1]
    BY <1>1 DEF BackendsPlaced
  <2>3. \A s \in Specs : data'[s].st = "call" =>
          /\ data'[s].call \in Calls
          /\ backend'[data'[s].call].st # "none" /\ backend'[data'[s].call].s = s
    BY DEF BackendsPlaced, DataKept, BackendsKept
  <2>4. QED BY <2>1, <2>2, <2>3 DEF BackendsPlaced, Active
<1>3. ASSUME NEW e \in Daemons, NEW i \in 1 .. Len(out'[e])
      PROVE  /\ \E j \in 1 .. Len(out[e]) : out'[e][i] = out[e][j]
             /\ proc[e] \in {"up", "exited"} /\ proc'[e] = proc[e]
             /\ out'[e][i].t \in OfBackend =>
                  /\ out'[e][i].n \in Calls
                  /\ backend'[out'[e][i].n] = backend[out'[e][i].n]
                  /\ backend[out'[e][i].n].st \notin {"none", "sent"}
                  /\ backend[out'[e][i].n].d = e
  BY DEF QueuesShrink, MessagesPlaced, ProcsKept, BackendsKept
<1>4. MessagesPlaced'
  BY <1>3 DEF MessagesPlaced, OfBackend
<1>5. Registering'
  <2> SUFFICES ASSUME restarts = 0, NEW e \in Daemons
               PROVE  /\ ~lost[e]
                      /\ \A i \in 1 .. Len(out'[e]) : out'[e][i].t = "register" =>
                           backend'[out'[e][i].n].st = "registering" \/ proc'[e] = "exited"
                      /\ \A i \in 1 .. Len(out'[e]) : out'[e][i].t = "unregister" =>
                           backend'[out'[e][i].n].st \in {"unmounting", "gone"}
    BY DEF Registering
  <2>1. ~lost[e] BY DEF Registering
  <2>2. ASSUME NEW i \in 1 .. Len(out'[e]), out'[e][i].t = "register"
        PROVE  backend'[out'[e][i].n].st = "registering" \/ proc'[e] = "exited"
    <3>1. PICK j \in 1 .. Len(out[e]) : out'[e][i] = out[e][j] BY <1>3
    <3>2. backend[out[e][j].n].st = "registering" \/ proc[e] = "exited"
      BY <2>2, <3>1 DEF Registering
    <3>3. backend'[out'[e][i].n] = backend[out'[e][i].n] /\ proc'[e] = proc[e]
      BY <1>3, <2>2 DEF OfBackend
    <3>4. QED BY <3>1, <3>2, <3>3
  <2>3. ASSUME NEW i \in 1 .. Len(out'[e]), out'[e][i].t = "unregister"
        PROVE  backend'[out'[e][i].n].st \in {"unmounting", "gone"}
    <3>1. PICK j \in 1 .. Len(out[e]) : out'[e][i] = out[e][j] BY <1>3
    <3>2. backend[out[e][j].n].st \in {"unmounting", "gone"}
      BY <2>3, <3>1 DEF Registering
    <3>3. backend'[out'[e][i].n] = backend[out'[e][i].n]
      BY <1>3, <2>3 DEF OfBackend
    <3>4. QED BY <3>1, <3>2, <3>3
  <2>4. QED BY <2>1, <2>2, <2>3
<1>6. (\A x \in Specs : Matches(x)' = Matches(x)) /\ OneMountPerSpec'
  BY <1>1, MatchesKept
<1>7. SeenSince'
  <2>1. \A x \in Specs : data'[x].st # "none" /\ Matches(x)' # {} => data'[x].seen
    BY <1>6 DEF SeenSince, DataKept
  <2>2. ASSUME NEW e \in Daemons, NEW i \in 1 .. Len(out'[e]),
               out'[e][i].t \in {"reply", "already"},
               NEW x \in Specs, data'[x].st = "call", data'[x].call = out'[e][i].n
        PROVE  data'[x].seen
    <3>1. PICK j \in 1 .. Len(out[e]) : out'[e][i] = out[e][j] BY DEF QueuesShrink
    <3>2. QED BY <2>2, <3>1 DEF SeenSince, DataKept
  <2>3. QED BY <2>1, <2>2 DEF SeenSince
<1>8. MountsServed'
  <2>1. \A m \in mounts' : backend[m[2]].st \in {"mounted", "unmounting"} /\ proc[m[1]] = "up"
                         => backend'[m[2]].st \in {"mounted", "unmounting"} /\ proc'[m[1]] = "up"
    BY <1>1 DEF ProcsKept
  <2>2. QED BY <2>1, ServedKept
<1>9. QED BY <1>2, <1>4, <1>5, <1>6, <1>7, <1>8

(* A step that sends and takes nothing keeps the messages in order.        *)
LEMMA StillQueues ==
  ASSUME TypeOK, MessagesPlaced, GoneIsLast, RegisteredOnce, out' = out, ProcsKept,
         restarts' = restarts
  PROVE  QueuesShrink /\ QueuesKeep /\ GoneIsLast' /\ RegisteredOnce'
<1>1. QueuesShrink /\ QueuesKeep
  BY DEF QueuesShrink, QueuesKeep
<1>2. RegisteredOnce'
  BY DEF RegisteredOnce
<1>3. GoneIsLast'
  BY DEF GoneIsLast, MessagesPlaced, ProcsKept, Msg
<1>4. QED BY <1>1, <1>2, <1>3

(* A caller that waits for nothing is answered at once.                    *)
LEMMA ReplyInv ==
  ASSUME TrackerAssumption, TrackerInv, NEW c \in Callers, NEW s \in Specs,
         NEW how \in {"lookup", "mount"}, NEW r \in {"ok", "error"}, ~Waits(c),
         Reply(c, s, how, r), UNCHANGED <<configured, mounts, owner, out, lost, restarts>>
  PROVE  TrackerInv'
<1> USE DEF TrackerInv
<1>1. /\ ask' \in [Callers -> Asks] /\ ask'[c].ans = r
      /\ \A x \in Callers : x # c => ask'[x] = ask[x]
  <2>1. ask \in [Callers -> Asks] BY DEF TypeOK
  <2>2. [how |-> how, s |-> s, ans |-> r] \in Asks BY DEF Asks
  <2>3. QED BY <2>1, <2>2 DEF Reply
<1>2. data' = data /\ proc' = proc /\ backend' = backend
  BY DEF Reply
<1>3. TypeOK'
  BY <1>1, <1>2 DEF TypeOK
<1>4. ProcsKept /\ DataKept /\ BackendsKept
  BY <1>2 DEF ProcsKept, DataKept, BackendsKept, TypeOK, Backend
<1>5. QueuesShrink /\ QueuesKeep /\ GoneIsLast' /\ RegisteredOnce'
  BY <1>4, StillQueues
<1>6. /\ BackendsPlaced' /\ MessagesPlaced' /\ Registering' /\ SeenSince'
      /\ OneMountPerSpec' /\ MountsServed'
  BY <1>2, <1>4, <1>5, DataInv
<1>7. WaitersOwned'
  BY <1>1, <1>2 DEF WaitersOwned, Waits
<1>8. ChildDataAlive'
  BY <1>2 DEF ChildDataAlive
<1>9. QED BY <1>3, <1>5, <1>6, <1>7, <1>8

(* A caller joins the mount in progress of its spec or begins one. *)
LEMMA MountableMountInv ==
  ASSUME TrackerAssumption, TrackerInv, NEW c \in Callers, NEW s \in Specs,
         NEW how \in {"lookup", "mount"}, ~Waits(c), Matches(s) = {},
         MountableMount(s, c, Asking(c, s, how)),
         UNCHANGED <<configured, mounts, owner, out, lost, restarts>>
  PROVE  TrackerInv'
<1> USE DEF TrackerInv
<1> DEFINE a == Asking(c, s, how)
           f == [NoData EXCEPT !.callers = {c}]
<1>1. /\ a \in [Callers -> Asks] /\ a[c].how = how /\ a[c].s = s /\ a[c].ans = "none"
      /\ \A x \in Callers : x # c => a[x] = ask[x]
  <2>1. ask \in [Callers -> Asks] BY DEF TypeOK
  <2>2. [how |-> how, s |-> s, ans |-> "none"] \in Asks BY DEF Asks
  <2>3. QED BY <2>1, <2>2 DEF Asking
<1>2. /\ f \in MountData /\ f.st = "none" /\ f.callers = {c} /\ ~f.seen
  BY NoDataType DEF MountData
<1>3. \A x \in Specs : data[x].st # "none" => c \notin data[x].callers
  BY DEF WaitersOwned
<1>4. /\ data \in [Specs -> MountData] /\ ask \in [Callers -> Asks]
      /\ \A x \in Specs : data[x].st = "none" => data[x].callers = {}
  BY DEF TypeOK
<1> HIDE DEF a, f
<1>5. CASE data[s].st # "none"
  <2>1. /\ data' = [data EXCEPT ![s].callers = @ \cup {c}]
        /\ ask' = a /\ proc' = proc /\ backend' = backend
    BY <1>5 DEF MountableMount, a
  <2>2. /\ data' \in [Specs -> MountData]
        /\ data'[s].callers = data[s].callers \cup {c}
        /\ data'[s].st = data[s].st /\ data'[s].to = data[s].to
        /\ data'[s].call = data[s].call /\ data'[s].seen = data[s].seen
        /\ \A x \in Specs : x # s => data'[x] = data[x]
    BY <1>4, <2>1 DEF MountData
  <2>3. TypeOK'
    BY <1>1, <1>4, <1>5, <2>1, <2>2 DEF TypeOK
  <2>4. ProcsKept /\ DataKept /\ BackendsKept
    BY <2>1, <2>2 DEF ProcsKept, DataKept, BackendsKept, TypeOK, Backend
  <2>5. QueuesShrink /\ QueuesKeep /\ GoneIsLast' /\ RegisteredOnce'
    BY <2>4, StillQueues
  <2>6. \A x \in Specs : data'[x].st # "none" /\ data[x].st = "none" => Matches(x) = {}
    BY <2>2
  <2>7. /\ BackendsPlaced' /\ MessagesPlaced' /\ Registering' /\ SeenSince'
        /\ OneMountPerSpec' /\ MountsServed'
    BY <2>1, <2>4, <2>5, <2>6, DataInv
  <2>8. WaitersOwned'
    BY <1>1, <1>3, <1>5, <2>1, <2>2 DEF WaitersOwned, Waits
  <2>9. ChildDataAlive'
    BY <2>1, <2>2 DEF ChildDataAlive
  <2>10. QED BY <2>3, <2>5, <2>7, <2>8, <2>9
<1>6. CASE data[s].st = "none" /\ CallMount(s, f, a, NoDaemon)
  <2>1. /\ ask' = a /\ proc' = proc
        /\ data' \in [Specs -> MountData] /\ data'[s].st = "call"
        /\ data'[s].callers = f.callers /\ data'[s].seen = f.seen
        /\ \A x \in Specs : x # s => data'[x] = data[x]
        /\ backend' \in [Calls -> Backend]
    BY <1>2, <1>6, CallFacts
  <2>2. TypeOK'
    BY <1>1, <1>4, <2>1 DEF TypeOK
  <2>3. ProcsKept BY <2>1 DEF ProcsKept
  <2>4. QueuesShrink /\ QueuesKeep /\ GoneIsLast' /\ RegisteredOnce'
    BY <2>3, StillQueues
  <2>5. /\ BackendsPlaced' /\ MessagesPlaced' /\ Registering' /\ SeenSince'
        /\ OneMountPerSpec' /\ MountsServed'
    BY <1>2, <1>6, <2>4, CallInv
  <2>6. WaitersOwned'
    BY <1>1, <1>2, <1>3, <1>6, <2>1 DEF WaitersOwned, Waits
  <2>7. ChildDataAlive'
    BY <1>6, <2>1 DEF ChildDataAlive
  <2>8. QED BY <2>2, <2>4, <2>5, <2>6, <2>7
<1>7. ASSUME data[s].st = "none", NEW d \in Daemons, proc[d] = "free",
             proc' = [proc EXCEPT ![d] = "starting"],
             data' = [data EXCEPT ![s] = [f EXCEPT !.st = "spawn", !.spawned = TRUE, !.to = d]],
             ask' = a, backend' = backend
      PROVE  TrackerInv'
  <2>1. /\ data' \in [Specs -> MountData] /\ data'[s].st = "spawn" /\ data'[s].to = d
        /\ data'[s].callers = {c} /\ \A x \in Specs : x # s => data'[x] = data[x]
    <3> DEFINE g == [f EXCEPT !.st = "spawn", !.spawned = TRUE, !.to = d]
    <3>1. g \in MountData /\ g.st = "spawn" /\ g.to = d /\ g.callers = {c}
      BY <1>2 DEF MountData, Stages
    <3> HIDE DEF g
    <3>2. data' = [data EXCEPT ![s] = g] BY <1>7 DEF g
    <3>3. QED BY <1>4, <3>1, <3>2
  <2>2. proc \in [Daemons -> {"free", "starting", "up", "exited"}] BY DEF TypeOK
  <2>3. TypeOK'
    BY <1>1, <1>4, <1>7, <2>1, <2>2 DEF TypeOK
  <2>4. ProcsKept /\ DataKept /\ BackendsKept
    BY <1>7, <2>1, <2>2 DEF ProcsKept, DataKept, BackendsKept, TypeOK, Backend
  <2>5. QueuesShrink /\ QueuesKeep /\ GoneIsLast' /\ RegisteredOnce'
    BY <2>4, StillQueues
  <2>6. \A x \in Specs : data'[x].st # "none" /\ data[x].st = "none" => Matches(x) = {}
    BY <2>1
  <2>7. /\ BackendsPlaced' /\ MessagesPlaced' /\ Registering' /\ SeenSince'
        /\ OneMountPerSpec' /\ MountsServed'
    BY <1>7, <2>4, <2>5, <2>6, DataInv
  <2>8. WaitersOwned'
    BY <1>1, <1>3, <1>7, <2>1 DEF WaitersOwned, Waits
  <2>9. ChildDataAlive'
    BY <1>7, <2>1, <2>2 DEF ChildDataAlive
  <2>10. QED BY <2>3, <2>5, <2>7, <2>8, <2>9
<1>8. CASE data[s].st = "none" /\ MountFinish(s, f, a, FALSE) /\ UNCHANGED <<proc, backend>>
  <2>1. data' = [data EXCEPT ![s] = NoData] /\ ask' = Answer(a, {c}, FALSE, Matches(s))
    BY <1>2, <1>8 DEF MountFinish
  <2>2. /\ data' \in [Specs -> MountData] /\ data'[s] = NoData
        /\ \A x \in Specs : x # s => data'[x] = data[x]
    BY <1>4, <2>1, NoDataType
  <2>3. /\ ask' \in [Callers -> Asks] /\ ask'[c].ans # "none"
        /\ \A x \in Callers : x # c => ask'[x] = ask[x]
    <3>1. \A x \in Callers : x \in {c} <=> x = c
      OBVIOUS
    <3>2. /\ Answer(a, {c}, FALSE, Matches(s)) \in [Callers -> Asks]
          /\ \A x \in Callers : x \notin {c} => Answer(a, {c}, FALSE, Matches(s))[x] = a[x]
          /\ \A x \in {c} \cap Callers : Answer(a, {c}, FALSE, Matches(s))[x].ans # "none"
      BY <1>1 DEF Answer, Asks
    <3>3. QED BY <1>1, <2>1, <3>1, <3>2
  <2>4. TypeOK'
    BY <1>4, <1>8, <2>2, <2>3, NoDataType DEF TypeOK
  <2>5. ProcsKept /\ DataKept /\ BackendsKept
    BY <1>8, <2>2, NoDataType DEF ProcsKept, DataKept, BackendsKept, TypeOK, Backend
  <2>6. QueuesShrink /\ QueuesKeep /\ GoneIsLast' /\ RegisteredOnce'
    BY <2>5, StillQueues
  <2>7. \A x \in Specs : data'[x].st # "none" /\ data[x].st = "none" => Matches(x) = {}
    BY <2>2
  <2>8. /\ BackendsPlaced' /\ MessagesPlaced' /\ Registering' /\ SeenSince'
        /\ OneMountPerSpec' /\ MountsServed'
    BY <1>8, <2>5, <2>6, <2>7, DataInv
  <2>9. WaitersOwned'
    BY <1>1, <1>3, <1>8, <2>2, <2>3, NoDataType DEF WaitersOwned, Waits
  <2>10. ChildDataAlive'
    BY <1>8, <2>2 DEF ChildDataAlive
  <2>11. QED BY <2>4, <2>6, <2>8, <2>9, <2>10
<1>9. QED
  <2>1. CASE data[s].st # "none" BY <1>5, <2>1
  <2>2. CASE data[s].st = "none" /\ HasDBusName
    BY <1>6, <2>2 DEF MountableMount, a, f
  <2>3. CASE data[s].st = "none" /\ ~HasDBusName
    <3>1. SpawnMount(s, f, a) BY <2>3 DEF MountableMount, a, f
    <3>2. QED BY <1>7, <1>8, <2>3, <3>1 DEF SpawnMount
  <2>4. QED BY <2>1, <2>2, <2>3 DEF TrackerAssumption

(* handle_lookup_mount, handle_mount_location: an answer or a mount.       *)
LEMMA HandleLookupMountInv ==
  ASSUME TrackerAssumption, TrackerInv, NEW c \in Callers, NEW s \in Specs,
         HandleLookupMount(c, s)
  PROVE  TrackerInv'
<1>1. ~Waits(c) /\ UNCHANGED <<configured, mounts, owner, out, lost, restarts>>
  BY DEF HandleLookupMount
<1>2. \/ \E r \in {"ok", "error"} : Reply(c, s, "lookup", r)
      \/ Matches(s) = {} /\ MountableMount(s, c, Asking(c, s, "lookup"))
  BY DEF HandleLookupMount
<1>3. QED BY <1>1, <1>2, ReplyInv, MountableMountInv

LEMMA HandleMountLocationInv ==
  ASSUME TrackerAssumption, TrackerInv, NEW c \in Callers, NEW s \in Specs,
         HandleMountLocation(c, s)
  PROVE  TrackerInv'
<1>1. ~Waits(c) /\ UNCHANGED <<configured, mounts, owner, out, lost, restarts>>
  BY DEF HandleMountLocation
<1>2. \/ \E r \in {"ok", "error"} : Reply(c, s, "mount", r)
      \/ Matches(s) = {} /\ MountableMount(s, c, Asking(c, s, "mount"))
  BY DEF HandleMountLocation
<1>3. QED BY <1>1, <1>2, ReplyInv, MountableMountInv

(* mount_finish of a mount in progress, in any step of gvfsd. *)
LEMMA FinishInv ==
  ASSUME TrackerAssumption, TrackerInv, NEW s \in Specs, NEW ok \in BOOLEAN,
         data[s].st # "none", MountFinish(s, data[s], ask, ok),
         UNCHANGED <<configured, mounts, owner, lost, restarts>>,
         proc' \in [Daemons -> {"free", "starting", "up", "exited"}],
         backend' \in [Calls -> Backend], out' \in [Daemons -> Seq(Message)],
         ProcsKept, BackendsKept, QueuesShrink, QueuesKeep, GoneIsLast', RegisteredOnce',
         \A d \in Daemons : proc'[d] = "starting" => proc[d] = "starting",
         \A d \in Daemons : data[s].st = "spawn" /\ data[s].to = d => proc'[d] # "starting"
  PROVE  TrackerInv'
<1> USE DEF TrackerInv
<1>1. /\ data' \in [Specs -> MountData] /\ ask' \in [Callers -> Asks]
      /\ data'[s] = NoData /\ \A x \in Specs : x # s => data'[x] = data[x]
      /\ \A x \in Specs : data'[x].st = "none" => data'[x].callers = {}
      /\ WaitersOwned'
  BY FinishFacts
<1>2. TypeOK'
  BY <1>1 DEF TypeOK
<1>3. DataKept
  BY <1>1, NoDataType DEF DataKept
<1>4. \A x \in Specs : data'[x].st # "none" /\ data[x].st = "none" => Matches(x) = {}
  BY <1>1, NoDataType
<1>5. /\ BackendsPlaced' /\ MessagesPlaced' /\ Registering' /\ SeenSince'
      /\ OneMountPerSpec' /\ MountsServed'
  BY <1>3, <1>4, DataInv
<1>6. ChildDataAlive'
  <2> SUFFICES ASSUME NEW d \in Daemons, proc'[d] = "starting", restarts = 0
               PROVE  \E x \in Specs : data'[x].st = "spawn" /\ data'[x].to = d
    BY DEF ChildDataAlive
  <2>1. PICK x \in Specs : data[x].st = "spawn" /\ data[x].to = d
    BY DEF ChildDataAlive
  <2>2. x # s BY <2>1
  <2>3. QED BY <1>1, <2>1, <2>2
<1>7. QED BY <1>1, <1>2, <1>5, <1>6

(* re_read_mountable_config: only the staleness of the data changes.       *)
LEMMA ReReadMountableConfigInv ==
  ASSUME TrackerAssumption, TrackerInv, NEW there \in BOOLEAN, ReReadMountableConfig(there)
  PROVE  TrackerInv'
<1> USE DEF TrackerInv
<1>1. /\ configured' = there
      /\ data' = [s \in Specs |-> [data[s] EXCEPT !.stale = data[s].st # "none"]]
      /\ UNCHANGED <<mounts, ask, proc, owner, backend, out, lost, restarts>>
  BY DEF ReReadMountableConfig, procVars
<1>2. data \in [Specs -> MountData] BY DEF TypeOK
<1>3. ASSUME NEW s \in Specs
      PROVE  /\ data'[s] \in MountData /\ data'[s].st = data[s].st
             /\ data'[s].callers = data[s].callers /\ data'[s].call = data[s].call
             /\ data'[s].to = data[s].to /\ data'[s].seen = data[s].seen
  <2>1. (data[s].st # "none") \in BOOLEAN OBVIOUS
  <2>2. QED BY <1>1, <1>2, <2>1 DEF MountData
<1>4. data' \in [Specs -> MountData]
  BY <1>1, <1>3
<1>5. TypeOK'
  BY <1>1, <1>3, <1>4 DEF TypeOK
<1>6. ProcsKept /\ DataKept /\ BackendsKept
  BY <1>1, <1>3 DEF ProcsKept, DataKept, BackendsKept, TypeOK, Backend
<1>7. QueuesShrink /\ QueuesKeep /\ GoneIsLast' /\ RegisteredOnce'
  BY <1>1, <1>6, StillQueues
<1>8. /\ BackendsPlaced' /\ MessagesPlaced' /\ Registering' /\ SeenSince'
      /\ OneMountPerSpec' /\ MountsServed'
  BY <1>1, <1>3, <1>6, <1>7, DataInv
<1>9. WaitersOwned' /\ ChildDataAlive'
  BY <1>1, <1>3 DEF WaitersOwned, Waits, ChildDataAlive
<1>10. QED BY <1>5, <1>7, <1>8, <1>9

(* The answer to Mount does not come in time.                              *)
LEMMA MountTimeoutInv ==
  ASSUME TrackerAssumption, TrackerInv, NEW s \in Specs, MountTimeout(s)
  PROVE  TrackerInv'
<1> USE DEF TrackerInv
<1>1. /\ data[s].st = "call" /\ MountFinish(s, data[s], ask, FALSE)
      /\ UNCHANGED <<configured, mounts, owner, backend, proc, out, lost, restarts>>
  BY DEF MountTimeout, procVars
<1>2. ProcsKept /\ BackendsKept
  BY <1>1 DEF ProcsKept, BackendsKept, TypeOK, Backend
<1>3. QueuesShrink /\ QueuesKeep /\ GoneIsLast' /\ RegisteredOnce'
  BY <1>1, <1>2, StillQueues
<1>4. /\ proc' \in [Daemons -> {"free", "starting", "up", "exited"}]
      /\ backend' \in [Calls -> Backend] /\ out' \in [Daemons -> Seq(Message)]
  BY <1>1 DEF TypeOK
<1>5. FALSE \in BOOLEAN OBVIOUS
<1>6. QED BY <1>1, <1>2, <1>3, <1>4, <1>5, FinishInv

(* child_watch_cb: exactly one MountData waits for the process.            *)
LEMMA PermissionDeniedInv ==
  ASSUME TrackerAssumption, TrackerInv, NEW d \in Daemons, PermissionDenied(d)
  PROVE  TrackerInv'
<1> USE DEF TrackerInv
<1>1. /\ proc[d] = "starting" /\ proc' = [proc EXCEPT ![d] = "exited"]
      /\ UNCHANGED <<configured, mounts, owner, backend, out, lost, restarts>>
  BY DEF PermissionDenied
<1>2. PICK s \in Specs : /\ data[s].st = "spawn" /\ data[s].to = d
                         /\ MountFinish(s, data[s], ask, FALSE)
  BY DEF PermissionDenied, ChildWatchCb
<1>3. proc \in [Daemons -> {"free", "starting", "up", "exited"}] BY DEF TypeOK
<1>4. ProcsKept /\ BackendsKept
  BY <1>1, <1>3 DEF ProcsKept, BackendsKept, TypeOK, Backend
<1>5. QueuesShrink /\ QueuesKeep /\ GoneIsLast' /\ RegisteredOnce'
  BY <1>1, <1>4, StillQueues
<1>6. /\ proc' \in [Daemons -> {"free", "starting", "up", "exited"}]
      /\ backend' \in [Calls -> Backend] /\ out' \in [Daemons -> Seq(Message)]
      /\ \A e \in Daemons : proc'[e] = "starting" => proc[e] = "starting" /\ e # d
  BY <1>1, <1>3 DEF TypeOK
<1>7. FALSE \in BOOLEAN OBVIOUS
<1>8. QED BY <1>1, <1>2, <1>4, <1>5, <1>6, <1>7, FinishInv

(* The other messages are taken without a change of any mount in progress. *)
LEMMA DropInv ==
  ASSUME TrackerAssumption, TrackerInv, NEW d \in Daemons, out[d] # <<>>, out' = Pop(d),
         Head(out[d]).t \notin {"unregister", "gone"},
         UNCHANGED <<configured, mounts, data, ask, proc, owner, backend, lost, restarts>>
  PROVE  TrackerInv'
<1> USE DEF TrackerInv
<1>1. /\ out' \in [Daemons -> Seq(Message)] /\ QueuesShrink
      /\ GoneIsLast' /\ RegisteredOnce'
  BY PopFacts
<1>2. QueuesKeep BY PopKeeps
<1>3. ProcsKept /\ DataKept /\ BackendsKept
  BY DEF ProcsKept, DataKept, BackendsKept, TypeOK, Backend
<1>4. TypeOK' BY <1>1 DEF TypeOK
<1>5. /\ BackendsPlaced' /\ MessagesPlaced' /\ Registering' /\ SeenSince'
      /\ OneMountPerSpec' /\ MountsServed'
  BY <1>1, <1>2, <1>3, DataInv
<1>6. WaitersOwned' /\ ChildDataAlive'
  BY DEF WaitersOwned, Waits, ChildDataAlive
<1>7. QED BY <1>1, <1>4, <1>5, <1>6

(* Mount is called for a daemon that has come up, or that another owns. *)
LEMMA SpawnCallInv ==
  ASSUME TrackerAssumption, TrackerInv, NEW d \in Daemons, out[d] # <<>>, out' = Pop(d),
         Head(out[d]).t \notin {"unregister", "gone"}, NEW s \in SpawnOf(d),
         NEW e \in Daemons \cup {NoDaemon}, CallMount(s, data[s], ask, e),
         UNCHANGED <<configured, mounts, owner, lost, restarts>>
  PROVE  TrackerInv'
<1> USE DEF TrackerInv
<1>1. s \in Specs /\ data[s].st = "spawn" /\ data[s].to = d /\ data[s] \in MountData
  BY DEF SpawnOf, TypeOK
<1>2. /\ ask' = ask /\ proc' = proc
      /\ data' \in [Specs -> MountData] /\ data'[s].st = "call"
      /\ data'[s].callers = data[s].callers
      /\ \A x \in Specs : x # s => data'[x] = data[x]
      /\ backend' \in [Calls -> Backend]
  BY <1>1, CallFacts
<1>3. /\ out' \in [Daemons -> Seq(Message)] /\ QueuesShrink
      /\ GoneIsLast' /\ RegisteredOnce'
      /\ Head(out[d]) = out[d][1] /\ 1 \in 1 .. Len(out[d])
  BY <1>2, PopFacts
<1>4. QueuesKeep BY PopKeeps
<1>5. TypeOK' BY <1>2, <1>3 DEF TypeOK
<1>6. Matches(s) # {} => data[s].seen
  BY <1>1 DEF SeenSince
<1>7. /\ BackendsPlaced' /\ MessagesPlaced' /\ Registering' /\ SeenSince'
      /\ OneMountPerSpec' /\ MountsServed'
  BY <1>1, <1>3, <1>4, <1>6, CallInv
<1>8. WaitersOwned'
  BY <1>1, <1>2 DEF WaitersOwned, Waits
<1>9. ChildDataAlive'
  <2>1. proc[d] # "starting" BY <1>3 DEF MessagesPlaced
  <2>2. QED BY <1>1, <1>2, <2>1 DEF ChildDataAlive
<1>10. QED BY <1>3, <1>5, <1>7, <1>8, <1>9

(* spawn_mount_handle_spawned, with a success and with an error.           *)
LEMMA HandleSpawnedInv ==
  ASSUME TrackerAssumption, TrackerInv, NEW d \in Daemons, HandleSpawned(d)
  PROVE  TrackerInv'
<1>1. /\ out[d] # <<>> /\ out' = Pop(d) /\ Head(out[d]).t \notin {"unregister", "gone"}
      /\ UNCHANGED <<configured, mounts, owner, lost, restarts>>
  BY DEF HandleSpawned, Got
<1>2. \/ UNCHANGED <<data, ask, proc, backend>>
      \/ \E s \in SpawnOf(d) : CallMount(s, data[s], ask, d)
  BY DEF HandleSpawned
<1>3. QED BY <1>1, <1>2, DropInv, SpawnCallInv

LEMMA HandleRefusedInv ==
  ASSUME TrackerAssumption, TrackerInv, NEW d \in Daemons, HandleRefused(d)
  PROVE  TrackerInv'
<1>1. /\ out[d] # <<>> /\ out' = Pop(d) /\ Head(out[d]).t \notin {"unregister", "gone"}
      /\ UNCHANGED <<configured, mounts, owner, lost, restarts>>
  BY DEF HandleRefused, Got
<1>2. \/ UNCHANGED <<data, ask, proc, backend>>
      \/ \E s \in SpawnOf(d) : CallMount(s, data[s], ask, NoDaemon)
      \/ \E s \in SpawnOf(d) : MountFinish(s, data[s], ask, FALSE) /\ UNCHANGED <<proc, backend>>
  BY DEF HandleRefused
<1>3. ASSUME NEW s \in SpawnOf(d), MountFinish(s, data[s], ask, FALSE), UNCHANGED <<proc, backend>>
      PROVE  TrackerInv'
  <2> USE DEF TrackerInv
  <2>1. s \in Specs /\ data[s].st = "spawn" /\ data[s].to = d BY DEF SpawnOf
  <2>2. /\ out' \in [Daemons -> Seq(Message)] /\ QueuesShrink
        /\ GoneIsLast' /\ RegisteredOnce' /\ 1 \in 1 .. Len(out[d])
    BY <1>1, <1>3, PopFacts
  <2>3. QueuesKeep BY <1>1, PopKeeps
  <2>4. ProcsKept /\ BackendsKept
    BY <1>3 DEF ProcsKept, BackendsKept, TypeOK, Backend
  <2>5. proc[d] # "starting" BY <2>2 DEF MessagesPlaced
  <2>6. /\ proc' \in [Daemons -> {"free", "starting", "up", "exited"}]
        /\ backend' \in [Calls -> Backend]
        /\ \A e \in Daemons : proc'[e] = "starting" => proc[e] = "starting" /\ e # d
    BY <1>3, <2>5 DEF TypeOK
  <2>7. FALSE \in BOOLEAN OBVIOUS
  <2>8. QED BY <1>1, <1>3, <2>1, <2>2, <2>3, <2>4, <2>6, <2>7, FinishInv
<1>4. QED BY <1>1, <1>2, <1>3, DropInv, SpawnCallInv

(* The answer to Mount finishes the mount, or comes too late.              *)
LEMMA HandleMountReplyInv ==
  ASSUME TrackerAssumption, TrackerInv, NEW d \in Daemons, HandleMountReply(d)
  PROVE  TrackerInv'
<1> DEFINE n == Head(out[d]).n
           s == backend[n].s
<1>1. PICK t \in {"reply", "already", "fail"} :
        /\ Got(d, t)
        /\ IF data[s].st = "call" /\ data[s].call = n
           THEN MountFinish(s, data[s], ask, DbusMountReply(s, t))
           ELSE UNCHANGED <<data, ask>>
  BY DEF HandleMountReply
<1>2. /\ out[d] # <<>> /\ out' = Pop(d) /\ Head(out[d]).t = t
      /\ UNCHANGED <<configured, mounts, proc, owner, backend, lost, restarts>>
  BY <1>1 DEF HandleMountReply, Got
<1>3. /\ out' \in [Daemons -> Seq(Message)] /\ QueuesShrink
      /\ GoneIsLast' /\ RegisteredOnce'
      /\ Head(out[d]) = out[d][1] /\ 1 \in 1 .. Len(out[d])
  BY <1>2, PopFacts DEF TrackerInv
<1>4. CASE UNCHANGED <<data, ask>>
  BY <1>2, <1>4, DropInv
<1>5. CASE data[s].st = "call" /\ MountFinish(s, data[s], ask, DbusMountReply(s, t))
  <2> USE DEF TrackerInv
  <2>1. n \in Calls
    BY <1>2, <1>3 DEF MessagesPlaced, OfBackend
  <2>2. s \in Specs BY <2>1 DEF TypeOK, Backend
  <2>3. QueuesKeep BY <1>2, PopKeeps
  <2>4. ProcsKept /\ BackendsKept
    BY <1>2 DEF ProcsKept, BackendsKept, TypeOK, Backend
  <2>5. /\ proc' \in [Daemons -> {"free", "starting", "up", "exited"}]
        /\ backend' \in [Calls -> Backend]
    BY <1>2 DEF TypeOK
  <2>6. DbusMountReply(s, t) \in BOOLEAN BY DEF DbusMountReply
  <2> HIDE DEF s
  <2>7. QED BY <1>2, <1>3, <1>5, <2>2, <2>3, <2>4, <2>5, <2>6, FinishInv
<1>6. QED BY <1>1, <1>4, <1>5

(* A Mount that reaches nobody spawns a daemon or ends the mount.          *)
LEMMA MountUndeliveredInv ==
  ASSUME TrackerAssumption, TrackerInv, NEW n \in Calls, MountUndelivered(n)
  PROVE  TrackerInv'
<1> USE DEF TrackerInv
<1> DEFINE s == backend[n].s
<1>1. /\ backend[n].st = "sent" /\ backend' = [backend EXCEPT ![n].st = "gone"]
      /\ UNCHANGED <<configured, mounts, owner, out, lost, restarts>>
  BY DEF MountUndelivered
<1>2. \/ UNCHANGED <<data, ask, proc>>
      \/ /\ data[s].st = "call" /\ proc' = proc
         /\ MountFinish(s, data[s], ask, FALSE)
      \/ /\ data[s].st = "call" /\ ask' = ask
         /\ \E e \in Daemons :
              /\ proc[e] = "free"
              /\ proc' = [proc EXCEPT ![e] = "starting"]
              /\ data' = [data EXCEPT ![s] = [@ EXCEPT
                   !.st = "spawn", !.spawned = TRUE, !.to = e]]
  BY DEF MountUndelivered
<1>3. s \in Specs /\ backend \in [Calls -> Backend]
  BY DEF TypeOK, Backend
<1>4. backend' \in [Calls -> Backend] /\ BackendsKept
  <2>1. /\ [backend[n] EXCEPT !.st = "gone"] \in Backend
        /\ [backend[n] EXCEPT !.st = "gone"].s = backend[n].s
    BY <1>3 DEF Backend
  <2>2. backend' = [backend EXCEPT ![n] = [backend[n] EXCEPT !.st = "gone"]]
    BY <1>1
  <2>3. QED BY <1>1, <1>3, <2>1, <2>2 DEF BackendsKept, Backend
<1>5. /\ proc \in [Daemons -> {"free", "starting", "up", "exited"}]
      /\ data \in [Specs -> MountData] /\ out' \in [Daemons -> Seq(Message)]
  BY <1>1 DEF TypeOK
<1> HIDE DEF s
<1>6. CASE UNCHANGED <<data, ask, proc>>
  <2>1. TypeOK' BY <1>1, <1>4, <1>6 DEF TypeOK
  <2>2. ProcsKept /\ DataKept BY <1>6 DEF ProcsKept, DataKept
  <2>3. QueuesShrink /\ QueuesKeep /\ GoneIsLast' /\ RegisteredOnce'
    BY <1>1, <2>2, StillQueues
  <2>4. /\ BackendsPlaced' /\ MessagesPlaced' /\ Registering' /\ SeenSince'
        /\ OneMountPerSpec' /\ MountsServed'
    BY <1>1, <1>4, <1>6, <2>2, <2>3, DataInv
  <2>5. WaitersOwned' /\ ChildDataAlive'
    BY <1>1, <1>6 DEF WaitersOwned, Waits, ChildDataAlive
  <2>6. QED BY <2>1, <2>3, <2>4, <2>5
<1>7. CASE data[s].st = "call" /\ proc' = proc /\ MountFinish(s, data[s], ask, FALSE)
  <2>1. ProcsKept BY <1>7 DEF ProcsKept
  <2>2. QueuesShrink /\ QueuesKeep /\ GoneIsLast' /\ RegisteredOnce'
    BY <1>1, <2>1, StillQueues
  <2>3. FALSE \in BOOLEAN OBVIOUS
  <2>4. QED BY <1>1, <1>3, <1>4, <1>5, <1>7, <2>1, <2>2, <2>3, FinishInv
<1>8. ASSUME data[s].st = "call", ask' = ask, NEW e \in Daemons, proc[e] = "free",
             proc' = [proc EXCEPT ![e] = "starting"],
             data' = [data EXCEPT ![s] = [@ EXCEPT !.st = "spawn", !.spawned = TRUE, !.to = e]]
      PROVE  TrackerInv'
  <2>1. /\ data' \in [Specs -> MountData] /\ data'[s].st = "spawn" /\ data'[s].to = e
        /\ data'[s].callers = data[s].callers /\ data'[s].seen = data[s].seen
        /\ \A x \in Specs : x # s => data'[x] = data[x]
    <3> DEFINE g == [data[s] EXCEPT !.st = "spawn", !.spawned = TRUE, !.to = e]
    <3>1. /\ g \in MountData /\ g.st = "spawn" /\ g.to = e
          /\ g.callers = data[s].callers /\ g.seen = data[s].seen
      BY <1>3, <1>5 DEF MountData, Stages
    <3>2. data' = [data EXCEPT ![s] = g] BY <1>8
    <3> HIDE DEF g
    <3>3. QED BY <1>3, <1>5, <3>1, <3>2
  <2>2. TypeOK' BY <1>1, <1>4, <1>5, <1>8, <2>1 DEF TypeOK
  <2>3. ProcsKept /\ DataKept
    BY <1>5, <1>8, <2>1 DEF ProcsKept, DataKept
  <2>4. QueuesShrink /\ QueuesKeep /\ GoneIsLast' /\ RegisteredOnce'
    BY <1>1, <2>3, StillQueues
  <2>5. \A x \in Specs : data'[x].st # "none" /\ data[x].st = "none" => Matches(x) = {}
    BY <1>8, <2>1
  <2>6. /\ BackendsPlaced' /\ MessagesPlaced' /\ Registering' /\ SeenSince'
        /\ OneMountPerSpec' /\ MountsServed'
    BY <1>1, <1>4, <2>3, <2>4, <2>5, DataInv
  <2>7. WaitersOwned'
    BY <1>8, <2>1 DEF WaitersOwned, Waits
  <2>8. ChildDataAlive'
    BY <1>1, <1>3, <1>5, <1>8, <2>1 DEF ChildDataAlive
  <2>9. QED BY <2>2, <2>4, <2>6, <2>7, <2>8
<1>9. QED BY <1>2, <1>6, <1>7, <1>8

(* The end of a daemon: what it had registered goes from the list, and the *)
(* mounts in progress that waited for it fail.                             *)
LEMMA NameVanishedInv ==
  ASSUME TrackerAssumption, TrackerInv, NEW d \in Daemons, NameVanished(d)
  PROVE  TrackerInv'
<1> USE DEF TrackerInv
<1> DEFINE failed == {s \in Specs : data[s].st = "call" /\ backend[data[s].call].d = d
                                      /\ backend[data[s].call].st = "gone"}
<1>1. /\ out[d] # <<>> /\ Head(out[d]).t = "gone" /\ out' = Pop(d)
      /\ mounts' = {m \in mounts : m[1] # d}
      /\ data' = [s \in Specs |-> IF s \in failed THEN NoData ELSE data[s]]
      /\ ask' = Answer(ask, UNION {data[s].callers : s \in failed}, FALSE, {})
      /\ UNCHANGED <<configured, proc, owner, backend, lost, restarts>>
  BY DEF NameVanished, Got, DbusClientDisconnected
<1>2. /\ out' \in [Daemons -> Seq(Message)] /\ QueuesShrink
      /\ out'[d] = Tail(out[d]) /\ \A e \in Daemons : e # d => out'[e] = out[e]
      /\ GoneIsLast' /\ RegisteredOnce'
  BY <1>1, PopFacts
<1>3. /\ data' \in [Specs -> MountData]
      /\ \A s \in Specs : data'[s] = IF s \in failed THEN NoData ELSE data[s]
  BY <1>1, NoDataType DEF TypeOK
<1>4. /\ ask' \in [Callers -> Asks]
      /\ \A c \in Callers : IF \E s \in failed : c \in data[s].callers
                            THEN ask'[c].ans # "none" ELSE ask'[c] = ask[c]
  <2> DEFINE cs == UNION {data[s].callers : s \in failed}
  <2>1. \A c \in Callers : c \in cs <=> \E s \in failed : c \in data[s].callers
    OBVIOUS
  <2> HIDE DEF cs
  <2>2. ask \in [Callers -> Asks] BY DEF TypeOK
  <2>3. /\ Answer(ask, cs, FALSE, {}) \in [Callers -> Asks]
        /\ \A c \in Callers : IF c \in cs THEN Answer(ask, cs, FALSE, {})[c].ans # "none"
                                          ELSE Answer(ask, cs, FALSE, {})[c] = ask[c]
    BY <2>2 DEF Answer, Asks
  <2>4. QED BY <1>1, <2>1, <2>3 DEF cs
<1>5. TypeOK'
  BY <1>1, <1>2, <1>3, <1>4, NoDataType DEF TypeOK
<1>6. BackendsPlaced' /\ MessagesPlaced'
  <2>1. BackendsPlaced'
    BY <1>1, <1>3, NoDataType DEF BackendsPlaced
  <2>2. MessagesPlaced'
    <3>1. ASSUME NEW e \in Daemons, NEW i \in 1 .. Len(out'[e])
          PROVE  /\ proc[e] \in {"up", "exited"}
                 /\ out'[e][i].t \in OfBackend =>
                      /\ out'[e][i].n \in Calls
                      /\ backend[out'[e][i].n].st \notin {"none", "sent"}
                      /\ backend[out'[e][i].n].d = e
      <4>1. PICK j \in 1 .. Len(out[e]) : out'[e][i] = out[e][j] BY <1>2 DEF QueuesShrink
      <4>2. QED BY <4>1 DEF MessagesPlaced
    <3>2. QED BY <1>1, <3>1 DEF MessagesPlaced, OfBackend
  <2>3. QED BY <2>1, <2>2
<1>7. Registering'
  <2> SUFFICES ASSUME restarts = 0, NEW e \in Daemons
               PROVE  /\ ~lost[e]
                      /\ \A i \in 1 .. Len(out'[e]) : out'[e][i].t = "register" =>
                           backend[out'[e][i].n].st = "registering" \/ proc[e] = "exited"
                      /\ \A i \in 1 .. Len(out'[e]) : out'[e][i].t = "unregister" =>
                           backend[out'[e][i].n].st \in {"unmounting", "gone"}
    BY <1>1 DEF Registering
  <2>1. ~lost[e] BY DEF Registering
  <2>2. ASSUME NEW i \in 1 .. Len(out'[e]), out'[e][i].t = "register"
        PROVE  backend[out'[e][i].n].st = "registering" \/ proc[e] = "exited"
    <3>1. PICK j \in 1 .. Len(out[e]) : out'[e][i] = out[e][j] BY <1>2 DEF QueuesShrink
    <3>2. QED BY <2>2, <3>1 DEF Registering
  <2>3. ASSUME NEW i \in 1 .. Len(out'[e]), out'[e][i].t = "unregister"
        PROVE  backend[out'[e][i].n].st \in {"unmounting", "gone"}
    <3>1. PICK j \in 1 .. Len(out[e]) : out'[e][i] = out[e][j] BY <1>2 DEF QueuesShrink
    <3>2. QED BY <2>3, <3>1 DEF Registering
  <2>4. QED BY <2>1, <2>2, <2>3
<1>8. \A m \in mounts' : m \in mounts /\ m[1] # d /\ m[1] \in Daemons
  BY <1>1 DEF TypeOK
<1>9. OneMountPerSpec'
  BY <1>1, <1>8 DEF OneMountPerSpec, SpecOf
<1>10. MountsServed'
  BY <1>1, <1>2, <1>8 DEF MountsServed, Msg
<1>11. SeenSince'
  <2>1. \A x \in Specs : Matches(x)' \subseteq Matches(x)
    BY <1>1, <1>8 DEF Matches, SpecOf
  <2>2. \A x \in Specs : data'[x].st # "none" /\ Matches(x)' # {} => data'[x].seen
    BY <1>3, <2>1, NoDataType DEF SeenSince
  <2>3. ASSUME NEW e \in Daemons, NEW i \in 1 .. Len(out'[e]),
               out'[e][i].t \in {"reply", "already"},
               NEW x \in Specs, data'[x].st = "call", data'[x].call = out'[e][i].n
        PROVE  data'[x].seen
    <3>1. PICK j \in 1 .. Len(out[e]) : out'[e][i] = out[e][j] BY <1>2 DEF QueuesShrink
    <3>2. data'[x] = data[x] BY <1>3, <2>3, NoDataType
    <3>3. QED BY <2>3, <3>1, <3>2 DEF SeenSince
  <2>4. QED BY <2>2, <2>3 DEF SeenSince
<1>12. WaitersOwned'
  <2> SUFFICES ASSUME NEW c \in Callers, NEW x \in Specs
               PROVE  (ask'[c].how # "none" /\ ask'[c].ans = "none") /\ ask'[c].s = x
                        <=> data'[x].st # "none" /\ c \in data'[x].callers
    BY DEF WaitersOwned, Waits
  <2>1. \A y \in Specs : (ask[c].how # "none" /\ ask[c].ans = "none") /\ ask[c].s = y
                           <=> data[y].st # "none" /\ c \in data[y].callers
    BY DEF WaitersOwned, Waits
  <2>2. CASE \E y \in failed : c \in data[y].callers
    <3>1. PICK y \in failed : c \in data[y].callers BY <2>2
    <3>2. ask'[c].ans # "none" BY <1>4, <2>2
    <3>3. \A z \in Specs : data[z].st # "none" /\ c \in data[z].callers => z = y
      BY <2>1, <3>1
    <3>4. QED BY <1>3, <3>1, <3>2, <3>3, NoDataType
  <2>3. CASE ~ \E y \in failed : c \in data[y].callers
    <3>1. ask'[c] = ask[c] BY <1>4, <2>3
    <3>2. CASE x \in failed
      BY <1>3, <2>1, <2>3, <3>1, <3>2, NoDataType
    <3>3. CASE x \notin failed
      BY <1>3, <2>1, <3>1, <3>3
    <3>4. QED BY <3>2, <3>3
  <2>4. QED BY <2>2, <2>3
<1>13. ChildDataAlive'
  BY <1>1, <1>3 DEF ChildDataAlive
<1>14. QED BY <1>2, <1>5, <1>6, <1>7, <1>9, <1>10, <1>11, <1>12, <1>13

(* A new gvfsd knows nothing, and nobody waits for it. *)
LEMMA RestartInv ==
  ASSUME TrackerAssumption, TrackerInv, Restart
  PROVE  TrackerInv'
<1> USE DEF TrackerInv
<1>1. /\ restarts < MaxRestarts /\ restarts' = restarts + 1 /\ configured' = TRUE
      /\ mounts' = {} /\ data' = [s \in Specs |-> NoData]
      /\ ask' = Answer(ask, {c \in Callers : Waits(c)}, FALSE, {})
      /\ out' = [d \in Daemons |-> <<>>]
      /\ lost' = [d \in Daemons |-> lost[d] \/ proc[d] = "up"]
      /\ UNCHANGED <<proc, owner>>
  BY DEF Restart
<1>2. /\ backend' \in [Calls -> Backend]
      /\ \A n \in Calls : /\ backend'[n].d = backend[n].d
                          /\ backend'[n].st \in {backend[n].st, "gone"}
  <2> DEFINE P(n) == \/ backend[n].st = "registering"
                     \/ \E d \in Daemons : \E i \in 1 .. Len(out[d]) :
                          out[d][i] = Msg("unregister", n)
  <2>1. backend' = [n \in Calls |-> IF P(n) THEN [backend[n] EXCEPT !.st = "gone"] ELSE backend[n]]
    BY DEF Restart
  <2> HIDE DEF P
  <2>2. backend \in [Calls -> Backend] BY DEF TypeOK
  <2>3. \A n \in Calls : /\ [backend[n] EXCEPT !.st = "gone"] \in Backend
                         /\ [backend[n] EXCEPT !.st = "gone"].st = "gone"
                         /\ [backend[n] EXCEPT !.st = "gone"].d = backend[n].d
    BY <2>2 DEF Backend
  <2>4. QED BY <2>1, <2>2, <2>3
<1>3. \A s \in Specs : data'[s] = NoData
  BY <1>1
<1>4. \A d \in Daemons : out'[d] = <<>> /\ Len(out'[d]) = 0
  BY <1>1
<1>5. /\ ask' \in [Callers -> Asks]
      /\ \A c \in Callers : ~(ask'[c].how # "none" /\ ask'[c].ans = "none")
  BY <1>1 DEF Answer, Asks, Waits, TypeOK
<1>6. restarts' \in 0 .. MaxRestarts /\ restarts' # 0
  BY <1>1 DEF TypeOK, TrackerAssumption
<1>7. TypeOK'
  <2>1. /\ data' \in [Specs -> MountData]
        /\ \A s \in Specs : data'[s].st = "none" => data'[s].callers = {}
    BY <1>1, <1>3, NoDataType
  <2>2. out' \in [Daemons -> Seq(Message)] BY <1>1
  <2>3. lost' \in [Daemons -> BOOLEAN] BY <1>1 DEF TypeOK
  <2>4. QED BY <1>1, <1>2, <1>5, <1>6, <2>1, <2>2, <2>3 DEF TypeOK
<1>8. BackendsPlaced'
  <2>1. ASSUME NEW n \in Calls, backend'[n].st \in Active
        PROVE  backend'[n].d \in Daemons /\ proc'[backend'[n].d] = "up"
    BY <1>1, <1>2, <2>1 DEF BackendsPlaced, Active
  <2>2. QED BY <1>1, <1>3, <2>1, NoDataType DEF BackendsPlaced, Active
<1>9. MessagesPlaced' /\ GoneIsLast' /\ SeenSince'
  BY <1>3, <1>4, NoDataType DEF MessagesPlaced, GoneIsLast, SeenSince
<1>10. RegisteredOnce' /\ Registering' /\ MountsServed' /\ ChildDataAlive'
  BY <1>6 DEF RegisteredOnce, Registering, MountsServed, ChildDataAlive
<1>11. OneMountPerSpec'
  BY <1>1 DEF OneMountPerSpec
<1>12. WaitersOwned'
  BY <1>3, <1>5, NoDataType DEF WaitersOwned, Waits
<1>13. QED BY <1>7, <1>8, <1>9, <1>10, <1>11, <1>12

(* handle_unregister_mount: the mount and its backend go together.         *)
LEMMA HandleUnregisterMountInv ==
  ASSUME TrackerAssumption, TrackerInv, NEW d \in Daemons, HandleUnregisterMount(d)
  PROVE  TrackerInv'
<1> USE DEF TrackerInv
<1> DEFINE n == Head(out[d]).n
<1>1. /\ out[d] # <<>> /\ Head(out[d]).t = "unregister" /\ out' = Pop(d)
      /\ mounts' = mounts \ {<<d, n>>}
      /\ backend' = [backend EXCEPT ![n].st = "gone"]
      /\ UNCHANGED <<configured, data, ask, proc, owner, lost, restarts>>
  BY DEF HandleUnregisterMount, Got
<1>2. /\ out' \in [Daemons -> Seq(Message)] /\ QueuesShrink
      /\ out'[d] = Tail(out[d]) /\ \A e \in Daemons : e # d => out'[e] = out[e]
      /\ GoneIsLast' /\ RegisteredOnce'
      /\ Head(out[d]) = out[d][1] /\ 1 \in 1 .. Len(out[d])
  BY <1>1, PopFacts
<1>3. n \in Calls /\ backend[n].d = d /\ backend[n].st \notin {"none", "sent"}
  BY <1>1, <1>2 DEF MessagesPlaced, OfBackend
<1> HIDE DEF n
<1>4. /\ backend' \in [Calls -> Backend]
      /\ backend'[n].st = "gone" /\ backend'[n].d = d /\ backend'[n].s = backend[n].s
      /\ \A k \in Calls : k # n => backend'[k] = backend[k]
  <2>1. backend \in [Calls -> Backend] BY DEF TypeOK
  <2>2. backend' = [backend EXCEPT ![n] = [backend[n] EXCEPT !.st = "gone"]] BY <1>1
  <2>3. QED BY <1>3, <2>1, <2>2 DEF Backend
<1>5. \A k \in Calls : /\ backend'[k].s = backend[k].s /\ backend'[k].d = backend[k].d
                       /\ backend'[k].st \in {backend[k].st, "gone"}
  BY <1>3, <1>4
<1>6. TypeOK'
  BY <1>1, <1>2, <1>4 DEF TypeOK
<1>7. \A m \in mounts' : /\ m \in mounts /\ m[1] \in Daemons /\ m[2] \in Calls /\ m[2] # n
                         /\ backend'[m[2]] = backend[m[2]]
  <2> SUFFICES ASSUME NEW m \in mounts' PROVE m \in mounts /\ m[1] \in Daemons /\ m[2] \in Calls /\ m[2] # n
    BY <1>4
  <2>1. m \in mounts /\ m # <<d, n>> /\ m \in Daemons \X Calls BY <1>1 DEF TypeOK
  <2>2. m = <<m[1], m[2]>> /\ m[1] \in Daemons /\ m[2] \in Calls BY <2>1
  <2>3. m[2] = n => m[1] = d BY <1>3, <2>1 DEF BackendsPlaced
  <2>4. QED BY <2>1, <2>2, <2>3
<1>8. BackendsPlaced'
  <2>1. \A k \in Calls : backend'[k].st \in Active =>
                           backend'[k].d \in Daemons /\ proc'[backend'[k].d] = "up"
    BY <1>1, <1>5 DEF BackendsPlaced, Active
  <2>2. \A m \in mounts' : backend'[m[2]].st \notin {"none", "sent"} /\ backend'[m[2]].d = m[1]
    BY <1>7 DEF BackendsPlaced
  <2>3. \A x \in Specs : data'[x].st = "call" =>
          /\ data'[x].call \in Calls
          /\ backend'[data'[x].call].st # "none" /\ backend'[data'[x].call].s = x
    BY <1>1, <1>5 DEF BackendsPlaced
  <2>4. QED BY <2>1, <2>2, <2>3 DEF BackendsPlaced, Active
<1>9. ASSUME NEW e \in Daemons, NEW i \in 1 .. Len(out'[e])
      PROVE  /\ proc[e] \in {"up", "exited"}
             /\ out'[e][i].t \in OfBackend =>
                  /\ out'[e][i].n \in Calls
                  /\ backend[out'[e][i].n].st \notin {"none", "sent"}
                  /\ backend'[out'[e][i].n].st \notin {"none", "sent"}
                  /\ backend'[out'[e][i].n].d = e
             /\ restarts = 0 /\ out'[e][i].t = "register" =>
                  backend[out'[e][i].n].st = "registering" \/ proc[e] = "exited"
             /\ restarts = 0 /\ out'[e][i].t = "unregister" =>
                  backend[out'[e][i].n].st \in {"unmounting", "gone"}
             /\ out'[e][i].t \in {"reply", "already"} =>
                  \A x \in Specs : data[x].st = "call" /\ data[x].call = out'[e][i].n => data[x].seen
  <2>1. PICK j \in 1 .. Len(out[e]) : out'[e][i] = out[e][j] BY <1>2 DEF QueuesShrink
  <2>2. /\ proc[e] \in {"up", "exited"}
        /\ out'[e][i].t \in OfBackend =>
             /\ out'[e][i].n \in Calls
             /\ backend[out'[e][i].n].st \notin {"none", "sent"}
             /\ backend[out'[e][i].n].d = e
    BY <2>1 DEF MessagesPlaced
  <2>3. /\ restarts = 0 /\ out'[e][i].t = "register" =>
             backend[out'[e][i].n].st = "registering" \/ proc[e] = "exited"
        /\ restarts = 0 /\ out'[e][i].t = "unregister" =>
             backend[out'[e][i].n].st \in {"unmounting", "gone"}
    BY <2>1 DEF Registering
  <2>4. out'[e][i].t \in {"reply", "already"} =>
          \A x \in Specs : data[x].st = "call" /\ data[x].call = out'[e][i].n => data[x].seen
    BY <2>1 DEF SeenSince
  <2>5. QED BY <1>5, <2>2, <2>3, <2>4
<1>10. MessagesPlaced'
  BY <1>1, <1>9 DEF MessagesPlaced, OfBackend
<1>11. Registering'
  <2>1. restarts = 0 => backend[n].st # "registering"
    <3>1. out[d][1].t = "unregister" /\ out[d][1].n = n BY <1>1, <1>2 DEF n
    <3>2. restarts = 0 => backend[out[d][1].n].st \in {"unmounting", "gone"}
      BY <1>2, <3>1 DEF Registering
    <3>3. QED BY <3>1, <3>2
  <2>2. restarts = 0 => \A e \in Daemons : ~lost[e] BY DEF Registering
  <2>3. ASSUME restarts = 0, NEW e \in Daemons, NEW i \in 1 .. Len(out'[e])
        PROVE  /\ out'[e][i].t = "register" =>
                    backend'[out'[e][i].n].st = "registering" \/ proc[e] = "exited"
               /\ out'[e][i].t = "unregister" =>
                    backend'[out'[e][i].n].st \in {"unmounting", "gone"}
    BY <1>4, <1>5, <1>9, <2>1, <2>3 DEF OfBackend
  <2>4. QED BY <1>1, <2>2, <2>3 DEF Registering
<1>12. OneMountPerSpec'
  BY <1>7 DEF OneMountPerSpec, SpecOf
<1>13. SeenSince'
  <2>1. \A x \in Specs : Matches(x)' \subseteq Matches(x)
    BY <1>7 DEF Matches, SpecOf
  <2>2. \A x \in Specs : data'[x].st # "none" /\ Matches(x)' # {} => data'[x].seen
    BY <1>1, <2>1 DEF SeenSince
  <2>3. QED BY <1>1, <1>9, <2>2 DEF SeenSince
<1>14. MountsServed'
  <2> SUFFICES ASSUME restarts = 0, NEW m \in mounts'
               PROVE  \/ backend'[m[2]].st \in {"mounted", "unmounting"} /\ proc[m[1]] = "up"
                      \/ \E i \in 1 .. Len(out'[m[1]]) :
                           out'[m[1]][i] \in {Msg("unregister", m[2]), Msg("gone", 0)}
    BY <1>1 DEF MountsServed, Msg
  <2>1. CASE backend[m[2]].st \in {"mounted", "unmounting"} /\ proc[m[1]] = "up"
    BY <1>7, <2>1
  <2>2. CASE \E i \in 1 .. Len(out[m[1]]) :
               out[m[1]][i] \in {Msg("unregister", m[2]), Msg("gone", 0)}
    <3>1. PICK i \in 1 .. Len(out[m[1]]) :
                 out[m[1]][i] \in {Msg("unregister", m[2]), Msg("gone", 0)}
      BY <2>2
    <3>2. CASE m[1] # d
      BY <1>2, <1>7, <3>1, <3>2
    <3>3. CASE m[1] = d
      <4>1. out[d][1].t = "unregister" /\ out[d][1].n = n BY <1>1, <1>2 DEF n
      <4>2. i # 1 BY <1>7, <3>1, <3>3, <4>1 DEF Msg
      <4>3. /\ Len(out[d]) \in Nat /\ Len(out'[d]) = Len(out[d]) - 1
            /\ \A k \in 1 .. Len(out[d]) - 1 : out'[d][k] = out[d][k + 1]
        BY <1>1, <1>2, TailFacts DEF TypeOK
      <4>4. i - 1 \in 1 .. Len(out'[d]) /\ out'[d][i - 1] = out[d][i]
        BY <3>3, <4>2, <4>3
      <4>5. QED BY <3>1, <3>3, <4>4
    <3>4. QED BY <3>2, <3>3
  <2>3. QED BY <1>7, <2>1, <2>2 DEF MountsServed
<1>15. WaitersOwned' /\ ChildDataAlive'
  BY <1>1 DEF WaitersOwned, Waits, ChildDataAlive
<1>16. QED BY <1>2, <1>6, <1>8, <1>10, <1>11, <1>12, <1>13, <1>14, <1>15

(* A registration: at most the spec's own entry comes, and the mount job   *)
(* learns whether it did.                                                  *)
LEMMA HandleRegisterMountInv ==
  ASSUME TrackerAssumption, TrackerInv, NEW d \in Daemons, HandleRegisterMount(d)
  PROVE  TrackerInv'
<1> USE DEF TrackerInv
<1> DEFINE n == Head(out[d]).n
           ok == RegisterMount(d, n)
           s == backend[n].s
           r == Msg(IF ok THEN "reply" ELSE "already", n)
<1>1. /\ out[d] # <<>> /\ Head(out[d]).t = "register"
      /\ mounts' = IF ok THEN mounts \cup {<<d, n>>} ELSE mounts
      /\ data' = IF ok THEN [data EXCEPT ![s].seen = TRUE] ELSE data
      /\ UNCHANGED <<configured, ask, proc, owner, lost, restarts>>
  BY DEF HandleRegisterMount, Got
<1>2. IF backend[n].st = "registering" THEN RegisterAnswer(n, ok)
      ELSE out' = Pop(d) /\ backend' = backend
  BY DEF HandleRegisterMount
<1>3. /\ out \in [Daemons -> Seq(Message)] /\ out[d] \in Seq(Message)
      /\ Len(out[d]) \in Nat /\ Len(out[d]) >= 1 /\ Head(out[d]) = out[d][1]
      /\ out[d][1] \in Message /\ 1 \in 1 .. Len(out[d])
      /\ Tail(out[d]) \in Seq(Message) /\ Len(Tail(out[d])) = Len(out[d]) - 1
      /\ \A i \in 1 .. Len(out[d]) - 1 : Tail(out[d])[i] = out[d][i + 1]
  <2>1. out \in [Daemons -> Seq(Message)] /\ out[d] \in Seq(Message) BY DEF TypeOK
  <2>2. QED BY <1>1, <2>1, TailFacts
<1>4. /\ n \in Calls /\ backend[n].d = d /\ backend[n].st \notin {"none", "sent"}
      /\ proc[d] \in {"up", "exited"} /\ out[d][1].t = "register" /\ out[d][1].n = n
  BY <1>1, <1>3 DEF MessagesPlaced, OfBackend
<1>5. s \in Specs /\ backend \in [Calls -> Backend] /\ data \in [Specs -> MountData]
  BY <1>4 DEF TypeOK, Backend
<1>6. r \in Message /\ r.t \in {"reply", "already"} /\ r.n = n
  BY <1>4, MsgType DEF Calls, TrackerAssumption
<1>7. /\ ok \in BOOLEAN
      /\ ok => Matches(s) = {} /\ <<d, n>> \notin mounts
      /\ ~ok => Matches(s) # {}
  BY DEF RegisterMount, FindVfsMount, Matches, SpecOf
<1> HIDE DEF n, ok, s, r
<1>8. /\ backend' \in [Calls -> Backend]
      /\ \A k \in Calls : backend'[k].d = backend[k].d /\ backend'[k].s = backend[k].s
      /\ \A k \in Calls : k # n => backend'[k] = backend[k]
      /\ IF backend[n].st = "registering"
         THEN backend'[n].st = IF ok THEN "mounted" ELSE "gone"
         ELSE backend'[n] = backend[n]
  <2>1. CASE backend[n].st = "registering"
    <3>1. backend' = [backend EXCEPT ![n] = [backend[n] EXCEPT !.st = IF ok THEN "mounted" ELSE "gone"]]
      BY <1>2, <2>1 DEF RegisterAnswer
    <3>2. QED BY <1>4, <1>5, <2>1, <3>1 DEF Backend
  <2>2. CASE backend[n].st # "registering"
    BY <1>2, <1>5, <2>2
  <2>3. QED BY <2>1, <2>2
<1>9. /\ data' \in [Specs -> MountData]
      /\ \A x \in Specs : /\ data'[x].st = data[x].st /\ data'[x].callers = data[x].callers
                          /\ data'[x].call = data[x].call /\ data'[x].to = data[x].to
                          /\ data[x].seen => data'[x].seen
      /\ ok => data'[s].seen
  <2>1. CASE ok
    <3>1. data' = [data EXCEPT ![s] = [data[s] EXCEPT !.seen = TRUE]] BY <1>1, <2>1
    <3>2. QED BY <1>5, <2>1, <3>1 DEF MountData
  <2>2. CASE ~ok BY <1>1, <1>5, <2>2
  <2>3. QED BY <2>1, <2>2
<1>10. /\ out' \in [Daemons -> Seq(Message)]
       /\ \A e \in Daemons : e # d => out'[e] = out[e]
       /\ out'[d] = IF backend[n].st = "registering" THEN Append(Tail(out[d]), r) ELSE Tail(out[d])
  <2>1. Append(Tail(out[d]), r) \in Seq(Message) BY <1>3, <1>6, AppendFacts
  <2>2. out' = [out EXCEPT ![d] =
           IF backend[n].st = "registering" THEN Append(Tail(out[d]), r) ELSE Tail(out[d])]
    BY <1>2, <1>3, <1>4 DEF RegisterAnswer, Pop, r
  <2>3. QED BY <1>3, <2>1, <2>2
<1>11. /\ Len(out[d]) \in Nat /\ Len(out[d]) >= 1
       /\ \A i \in 1 .. Len(out[d]) - 1 : out'[d][i] = out[d][i + 1]
       /\ IF backend[n].st = "registering"
          THEN Len(out'[d]) = Len(out[d]) /\ out'[d][Len(out[d])] = r
          ELSE Len(out'[d]) = Len(out[d]) - 1
  <2>1. CASE backend[n].st = "registering"
    <3>1. /\ Len(Append(Tail(out[d]), r)) = Len(Tail(out[d])) + 1
          /\ \A i \in 1 .. Len(Tail(out[d])) : Append(Tail(out[d]), r)[i] = Tail(out[d])[i]
          /\ Append(Tail(out[d]), r)[Len(Tail(out[d])) + 1] = r
      BY <1>3, <1>6, AppendFacts
    <3>2. QED BY <1>3, <1>10, <2>1, <3>1
  <2>2. CASE backend[n].st # "registering"
    BY <1>3, <1>10, <2>2
  <2>3. QED BY <2>1, <2>2
<1>12. ASSUME NEW e \in Daemons, NEW i \in 1 .. Len(out'[e])
       PROVE  \/ \E j \in 1 .. Len(out[e]) :
                   /\ out'[e][i] = out[e][j]
                   /\ e = d => j = i + 1
                   /\ e # d => j = i
              \/ /\ e = d /\ backend[n].st = "registering" /\ i = Len(out[d])
                 /\ out'[e][i] = r
  <2>1. CASE e # d BY <1>10, <2>1
  <2>2. CASE e = d
    <3>1. CASE i \in 1 .. Len(out[d]) - 1
      <4>1. i + 1 \in 1 .. Len(out[d]) /\ out'[d][i] = out[d][i + 1] BY <1>11, <3>1
      <4>2. QED BY <2>2, <4>1
    <3>2. CASE i \notin 1 .. Len(out[d]) - 1
      BY <1>11, <2>2, <3>2
    <3>3. QED BY <3>1, <3>2
  <2>3. QED BY <2>1, <2>2
<1>13. TypeOK'
  <2>1. mounts' \subseteq Daemons \X Calls
    BY <1>1, <1>4 DEF TypeOK
  <2>2. \A x \in Specs : data'[x].st = "none" => data'[x].callers = {}
    BY <1>9 DEF TypeOK
  <2>3. QED BY <1>1, <1>8, <1>9, <1>10, <2>1, <2>2 DEF TypeOK
<1>14. backend[n].st = "registering" => proc[d] = "up"
  BY <1>4 DEF BackendsPlaced, Active
<1>15. BackendsPlaced'
  <2>1. ASSUME NEW k \in Calls, backend'[k].st \in Active
        PROVE  backend'[k].d \in Daemons /\ proc'[backend'[k].d] = "up"
    <3>1. backend[k].st \in Active
      BY <1>8, <2>1 DEF Active
    <3>2. QED BY <1>1, <1>8, <3>1 DEF BackendsPlaced
  <2>2. ASSUME NEW m \in mounts'
        PROVE  backend'[m[2]].st \notin {"none", "sent"} /\ backend'[m[2]].d = m[1]
    <3>1. m \in mounts \/ m = <<d, n>> BY <1>1
    <3>2. CASE m \in mounts
      <4>1. m[2] \in Calls /\ backend[m[2]].st \notin {"none", "sent"} /\ backend[m[2]].d = m[1]
        BY <3>2 DEF BackendsPlaced, TypeOK
      <4>2. QED BY <1>8, <4>1
    <3>3. CASE m = <<d, n>>
      BY <1>4, <1>8, <3>3
    <3>4. QED BY <3>1, <3>2, <3>3
  <2>3. ASSUME NEW x \in Specs, data'[x].st = "call"
        PROVE  /\ data'[x].call \in Calls
               /\ backend'[data'[x].call].st # "none" /\ backend'[data'[x].call].s = x
    BY <1>8, <1>9, <2>3 DEF BackendsPlaced
  <2>4. QED BY <2>1, <2>2, <2>3 DEF BackendsPlaced, Active
<1>16. MessagesPlaced'
  <2> SUFFICES ASSUME NEW e \in Daemons, NEW i \in 1 .. Len(out'[e])
               PROVE  /\ proc[e] \in {"up", "exited"}
                      /\ out'[e][i].t \in OfBackend =>
                           /\ out'[e][i].n \in Calls
                           /\ backend'[out'[e][i].n].st \notin {"none", "sent"}
                           /\ backend'[out'[e][i].n].d = e
    BY <1>1 DEF MessagesPlaced, OfBackend
  <2>1. CASE \E j \in 1 .. Len(out[e]) : out'[e][i] = out[e][j]
    <3>1. PICK j \in 1 .. Len(out[e]) : out'[e][i] = out[e][j] BY <2>1
    <3>2. /\ proc[e] \in {"up", "exited"}
          /\ out[e][j].t \in OfBackend =>
               /\ out[e][j].n \in Calls
               /\ backend[out[e][j].n].st \notin {"none", "sent"}
               /\ backend[out[e][j].n].d = e
      BY DEF MessagesPlaced
    <3>3. QED BY <1>8, <3>1, <3>2
  <2>2. CASE e = d /\ out'[e][i] = r
    BY <1>4, <1>6, <1>8, <2>2
  <2>3. QED BY <1>12, <2>1, <2>2
<1>17. GoneIsLast'
  <2> SUFFICES ASSUME NEW e \in Daemons, NEW i \in 1 .. Len(out'[e])
               PROVE  out'[e][i] = Msg("gone", 0) <=> proc[e] = "exited" /\ i = Len(out'[e])
    BY <1>1 DEF GoneIsLast, Msg
  <2>1. \A j \in 1 .. Len(out[e]) : out[e][j] = Msg("gone", 0) <=> proc[e] = "exited" /\ j = Len(out[e])
    BY DEF GoneIsLast
  <2>2. CASE e # d BY <1>10, <2>1, <2>2
  <2>3. CASE e = d /\ backend[n].st # "registering"
    <3>1. /\ i + 1 \in 1 .. Len(out[d]) /\ out'[d][i] = out[d][i + 1]
          /\ i = Len(out'[d]) <=> i + 1 = Len(out[d])
      BY <1>11, <2>3
    <3>2. QED BY <2>1, <2>3, <3>1
  <2>4. CASE e = d /\ backend[n].st = "registering"
    <3>1. r # Msg("gone", 0) BY <1>6 DEF Msg
    <3>2. \A j \in 1 .. Len(out[d]) : out[d][j] # Msg("gone", 0)
      BY <1>14, <2>1, <2>4
    <3>3. out'[e][i] # Msg("gone", 0) BY <1>12, <2>4, <3>1, <3>2
    <3>4. QED BY <1>14, <2>4, <3>3
  <2>5. QED BY <2>2, <2>3, <2>4
<1>18. RegisteredOnce'
  <2> SUFFICES ASSUME restarts = 0, NEW e \in Daemons, NEW i \in 1 .. Len(out'[e]),
                      NEW j \in 1 .. Len(out'[e]),
                      out'[e][i].t = "register", out'[e][j] = out'[e][i]
               PROVE  i = j
    BY <1>1 DEF RegisteredOnce
  <2>1. out'[e][i] # r /\ out'[e][j] # r BY <1>6
  <2>2. PICK k \in 1 .. Len(out[e]) :
          out'[e][i] = out[e][k] /\ (e = d => k = i + 1) /\ (e # d => k = i)
    BY <1>12, <2>1
  <2>3. PICK l \in 1 .. Len(out[e]) :
          out'[e][j] = out[e][l] /\ (e = d => l = j + 1) /\ (e # d => l = j)
    BY <1>12, <2>1
  <2>4. k = l BY <2>2, <2>3 DEF RegisteredOnce
  <2>5. QED BY <2>2, <2>3, <2>4
<1>19. Registering'
  <2> SUFFICES ASSUME restarts = 0, NEW e \in Daemons
               PROVE  /\ ~lost[e]
                      /\ \A i \in 1 .. Len(out'[e]) : out'[e][i].t = "register" =>
                           backend'[out'[e][i].n].st = "registering" \/ proc[e] = "exited"
                      /\ \A i \in 1 .. Len(out'[e]) : out'[e][i].t = "unregister" =>
                           backend'[out'[e][i].n].st \in {"unmounting", "gone"}
    BY <1>1 DEF Registering
  <2>1. ~lost[e] BY DEF Registering
  <2>2. ASSUME NEW i \in 1 .. Len(out'[e]), out'[e][i].t = "register"
        PROVE  backend'[out'[e][i].n].st = "registering" \/ proc[e] = "exited"
    <3>1. PICK k \in 1 .. Len(out[e]) :
            out'[e][i] = out[e][k] /\ (e = d => k = i + 1) /\ (e # d => k = i)
      BY <1>6, <1>12, <2>2
    <3>2. backend[out[e][k].n].st = "registering" \/ proc[e] = "exited"
      BY <2>2, <3>1 DEF Registering
    <3>3. out[e][k].n \in Calls /\ backend[out[e][k].n].d = e
      BY <2>2, <3>1 DEF MessagesPlaced, OfBackend
    <3>4. CASE out[e][k].n # n
      BY <1>8, <3>1, <3>2, <3>3, <3>4
    <3>5. CASE out[e][k].n = n
      <4>1. e = d BY <1>4, <3>3, <3>5
      <4>2. out[e][k] = out[d][1]
        <5>1. out[e][k] \in Message BY <1>3, <4>1 DEF TypeOK
        <5>2. QED BY <1>3, <1>4, <2>2, <3>1, <3>5, <4>1, <5>1 DEF Message
      <4>3. k = 1 BY <1>3, <1>4, <4>1, <4>2 DEF RegisteredOnce
      <4>4. QED BY <3>1, <4>1, <4>3
    <3>6. QED BY <3>4, <3>5
  <2>3. ASSUME NEW i \in 1 .. Len(out'[e]), out'[e][i].t = "unregister"
        PROVE  backend'[out'[e][i].n].st \in {"unmounting", "gone"}
    <3>1. PICK k \in 1 .. Len(out[e]) : out'[e][i] = out[e][k]
      BY <1>6, <1>12, <2>3
    <3>2. backend[out[e][k].n].st \in {"unmounting", "gone"} /\ out[e][k].n \in Calls
      BY <2>3, <3>1 DEF Registering, MessagesPlaced, OfBackend
    <3>3. QED BY <1>8, <3>1, <3>2
  <2>4. QED BY <2>1, <2>2, <2>3
<1>20. ASSUME NEW m \in mounts'
       PROVE  /\ m \in mounts \/ (ok /\ m = <<d, n>>)
              /\ m[1] \in Daemons /\ m[2] \in Calls /\ backend'[m[2]].s = backend[m[2]].s
  <2>1. m \in mounts \/ (ok /\ m = <<d, n>>) BY <1>1
  <2>2. m[1] \in Daemons /\ m[2] \in Calls BY <1>13 DEF TypeOK
  <2>3. QED BY <1>8, <2>1, <2>2
<1>21. OneMountPerSpec'
  <2> SUFFICES ASSUME NEW m1 \in mounts', NEW m2 \in mounts',
                      backend'[m1[2]].s = backend'[m2[2]].s
               PROVE  m1 = m2
    BY DEF OneMountPerSpec, SpecOf
  <2>1. backend[m1[2]].s = backend[m2[2]].s BY <1>20
  <2>2. \A m \in mounts : ok => backend[m[2]].s # s
    BY <1>7 DEF Matches, SpecOf
  <2>3. m1 = <<d, n>> => backend[m1[2]].s = s BY DEF s
  <2>4. m2 = <<d, n>> => backend[m2[2]].s = s BY DEF s
  <2>5. QED BY <1>20, <2>1, <2>2, <2>3, <2>4 DEF OneMountPerSpec, SpecOf
<1>22. SeenSince'
  <2>1. ASSUME NEW x \in Specs, data'[x].st # "none", Matches(x)' # {} PROVE data'[x].seen
    <3>1. PICK m \in mounts' : backend'[m[2]].s = x BY <2>1 DEF Matches, SpecOf
    <3>2. CASE m \in mounts
      <4>1. Matches(x) # {} BY <1>20, <3>1, <3>2 DEF Matches, SpecOf
      <4>2. QED BY <1>9, <2>1, <4>1 DEF SeenSince
    <3>3. CASE ok /\ m = <<d, n>>
      <4>1. x = s BY <1>20, <3>1, <3>3 DEF s
      <4>2. QED BY <1>9, <3>3, <4>1
    <3>4. QED BY <1>20, <3>2, <3>3
  <2>2. ASSUME NEW e \in Daemons, NEW i \in 1 .. Len(out'[e]),
               out'[e][i].t \in {"reply", "already"},
               NEW x \in Specs, data'[x].st = "call", data'[x].call = out'[e][i].n
        PROVE  data'[x].seen
    <3>1. CASE \E j \in 1 .. Len(out[e]) : out'[e][i] = out[e][j]
      <4>1. PICK j \in 1 .. Len(out[e]) : out'[e][i] = out[e][j] BY <3>1
      <4>2. data[x].seen BY <1>9, <2>2, <4>1 DEF SeenSince
      <4>3. QED BY <1>9, <4>2
    <3>2. CASE out'[e][i] = r
      <4>1. data[x].st = "call" /\ data[x].call = n BY <1>6, <1>9, <2>2, <3>2
      <4>2. x = s BY <4>1 DEF BackendsPlaced, s
      <4>3. CASE ok BY <1>9, <4>2, <4>3
      <4>4. CASE ~ok
        <5>1. data[x].seen BY <1>7, <4>1, <4>2, <4>4 DEF SeenSince
        <5>2. QED BY <1>9, <5>1
      <4>5. QED BY <1>7, <4>3, <4>4
    <3>3. QED BY <1>12, <3>1, <3>2
  <2>3. QED BY <2>1, <2>2 DEF SeenSince
<1>23. MountsServed'
  <2> SUFFICES ASSUME restarts = 0, NEW m \in mounts'
               PROVE  \/ backend'[m[2]].st \in {"mounted", "unmounting"} /\ proc[m[1]] = "up"
                      \/ \E i \in 1 .. Len(out'[m[1]]) :
                           out'[m[1]][i] \in {Msg("unregister", m[2]), Msg("gone", 0)}
    BY <1>1 DEF MountsServed, Msg
  <2>1. ASSUME NEW i \in 1 .. Len(out[m[1]]),
               out[m[1]][i] \in {Msg("unregister", m[2]), Msg("gone", 0)}
        PROVE  \E j \in 1 .. Len(out'[m[1]]) :
                 out'[m[1]][j] \in {Msg("unregister", m[2]), Msg("gone", 0)}
    <3>1. CASE m[1] # d BY <1>10, <1>20, <2>1, <3>1
    <3>2. CASE m[1] = d
      <4>1. i # 1 BY <1>4, <2>1, <3>2 DEF Msg
      <4>2. i - 1 \in 1 .. Len(out'[d]) /\ out'[d][i - 1] = out[d][i]
        BY <1>11, <3>2, <4>1
      <4>3. QED BY <2>1, <3>2, <4>2
    <3>3. QED BY <3>1, <3>2
  <2>2. CASE m \in mounts
    <3>1. CASE backend[m[2]].st \in {"mounted", "unmounting"} /\ proc[m[1]] = "up"
      BY <1>8, <1>20, <3>1
    <3>2. QED BY <2>1, <2>2, <3>1 DEF MountsServed
  <2>3. CASE ok /\ m = <<d, n>>
    <3>1. CASE backend[n].st = "registering"
      BY <1>8, <1>14, <2>3, <3>1
    <3>2. CASE backend[n].st # "registering"
      <4>1. proc[d] = "exited" BY <1>3, <1>4, <3>2 DEF Registering
      <4>2. Len(out[d]) \in 1 .. Len(out[d]) BY <1>3
      <4>3. out[d][Len(out[d])] = Msg("gone", 0) BY <4>1, <4>2 DEF GoneIsLast
      <4>4. QED BY <2>1, <2>3, <4>2, <4>3
    <3>3. QED BY <3>1, <3>2
  <2>4. QED BY <1>20, <2>2, <2>3
<1>24. WaitersOwned' /\ ChildDataAlive'
  BY <1>1, <1>9 DEF WaitersOwned, Waits, ChildDataAlive
<1>25. QED
  BY <1>13, <1>15, <1>16, <1>17, <1>18, <1>19, <1>21, <1>22, <1>23, <1>24

(* A backend at work goes on, and its daemon tells gvfsd. *)
LEMMA BackendSends ==
  ASSUME TrackerAssumption, TrackerInv, NEW n \in Calls, NEW to, NEW t,
         \/ backend[n].st = "mounting" /\ to = "registering" /\ t = "register"
         \/ backend[n].st = "mounting" /\ to = "gone" /\ t = "fail"
         \/ backend[n].st = "mounted" /\ to = "unmounting" /\ t = "unregister",
         backend' = [backend EXCEPT ![n].st = to], Send(backend[n].d, Msg(t, n)),
         UNCHANGED <<configured, mounts, data, ask, proc, owner, lost, restarts>>
  PROVE  TrackerInv'
<1> USE DEF TrackerInv
<1> DEFINE d == backend[n].d
           m == Msg(t, n)
<1>1. /\ \/ backend[n].st = "mounting" /\ to = "registering" /\ t = "register"
         \/ backend[n].st = "mounting" /\ to = "gone" /\ t = "fail"
         \/ backend[n].st = "mounted" /\ to = "unmounting" /\ t = "unregister"
      /\ backend[n].st \in Active /\ t \in OfBackend
  BY DEF Active, OfBackend
<1>2. d \in Daemons /\ proc[d] = "up"
  BY <1>1 DEF BackendsPlaced
<1>3. m \in Message /\ m.t = t /\ m.n = n
  BY <1>1, MsgType DEF Calls, TrackerAssumption
<1>4. /\ backend' \in [Calls -> Backend]
      /\ backend'[n].st = to /\ backend'[n].d = d /\ backend'[n].s = backend[n].s
      /\ \A k \in Calls : k # n => backend'[k] = backend[k]
  <2>1. backend \in [Calls -> Backend] BY DEF TypeOK
  <2>2. [backend[n] EXCEPT !.st = to] \in Backend BY <1>1, <2>1 DEF Backend
  <2>3. backend' = [backend EXCEPT ![n] = [backend[n] EXCEPT !.st = to]] OBVIOUS
  <2>4. QED BY <2>1, <2>2, <2>3 DEF Backend
<1>5. Send(d, m) OBVIOUS
<1> HIDE DEF d, m
<1>6. /\ out' \in [Daemons -> Seq(Message)]
      /\ \A e \in Daemons : \A i \in 1 .. Len(out'[e]) :
           \/ i \in 1 .. Len(out[e]) /\ out'[e][i] = out[e][i]
           \/ e = d /\ out'[e][i] = m
      /\ \A e \in Daemons : \A i \in 1 .. Len(out[e]) :
           i \in 1 .. Len(out'[e]) /\ out'[e][i] = out[e][i]
  BY <1>2, <1>3, <1>5, SendFacts
<1>7. TypeOK'
  BY <1>4, <1>6 DEF TypeOK
<1>8. \A k \in Calls : backend'[k].s = backend[k].s /\ backend'[k].d = backend[k].d
  BY <1>4 DEF d
<1>9. BackendsPlaced'
  <2>1. ASSUME NEW k \in Calls, backend'[k].st \in Active
        PROVE  backend'[k].d \in Daemons /\ proc'[backend'[k].d] = "up"
    BY <1>2, <1>4, <2>1 DEF BackendsPlaced
  <2>2. ASSUME NEW p \in mounts'
        PROVE  backend'[p[2]].st \notin {"none", "sent"} /\ backend'[p[2]].d = p[1]
    <3>1. p \in mounts /\ p[2] \in Calls BY <2>2 DEF TypeOK
    <3>2. QED BY <1>1, <1>4, <1>8, <3>1 DEF BackendsPlaced
  <2>3. ASSUME NEW x \in Specs, data'[x].st = "call"
        PROVE  /\ data'[x].call \in Calls
               /\ backend'[data'[x].call].st # "none" /\ backend'[data'[x].call].s = x
    BY <1>1, <1>4, <1>8, <2>3 DEF BackendsPlaced
  <2>4. QED BY <2>1, <2>2, <2>3 DEF BackendsPlaced, Active
<1>10. MessagesPlaced'
  <2> SUFFICES ASSUME NEW e \in Daemons, NEW i \in 1 .. Len(out'[e])
               PROVE  /\ proc[e] \in {"up", "exited"}
                      /\ out'[e][i].t \in OfBackend =>
                           /\ out'[e][i].n \in Calls
                           /\ backend'[out'[e][i].n].st \notin {"none", "sent"}
                           /\ backend'[out'[e][i].n].d = e
    BY DEF MessagesPlaced, OfBackend
  <2>1. CASE e = d /\ out'[e][i] = m
    BY <1>1, <1>2, <1>3, <1>4, <2>1
  <2>2. CASE i \in 1 .. Len(out[e]) /\ out'[e][i] = out[e][i]
    <3>1. /\ proc[e] \in {"up", "exited"}
          /\ out'[e][i].t \in OfBackend =>
               /\ out'[e][i].n \in Calls
               /\ backend[out'[e][i].n].st \notin {"none", "sent"}
               /\ backend[out'[e][i].n].d = e
      BY <2>2 DEF MessagesPlaced
    <3>2. QED BY <1>1, <1>4, <1>8, <3>1
  <2>3. QED BY <1>6, <2>1, <2>2
<1>11. GoneIsLast'
  <2>1. m # Msg("gone", 0) BY <1>1 DEF m, Msg
  <2>2. QED BY <1>2, <1>3, <1>5, <2>1, SendGone
<1>12. restarts = 0 => \A e \in Daemons : \A i \in 1 .. Len(out[e]) :
                         /\ ~(out[e][i].t = "register" /\ out[e][i].n = n)
                         /\ ~(out[e][i].t = "unregister" /\ out[e][i].n = n)
  <2> SUFFICES ASSUME restarts = 0, NEW e \in Daemons, NEW i \in 1 .. Len(out[e]),
                      out[e][i].t \in {"register", "unregister"}, out[e][i].n = n
               PROVE  FALSE
    OBVIOUS
  <2>1. e = d BY DEF MessagesPlaced, OfBackend, d
  <2>2. backend[n].st \in {"registering", "unmounting", "gone"} \/ proc[e] = "exited"
    BY DEF Registering
  <2>3. QED BY <1>1, <1>2, <2>1, <2>2
<1>13. RegisteredOnce'
  <2>1. restarts = 0 /\ m.t = "register" => \A i \in 1 .. Len(out[d]) : out[d][i] # m
    BY <1>2, <1>3, <1>12
  <2>2. QED BY <1>2, <1>3, <1>5, <2>1, SendRegistered
<1>14. Registering'
  <2> SUFFICES ASSUME restarts = 0, NEW e \in Daemons
               PROVE  /\ ~lost[e]
                      /\ \A i \in 1 .. Len(out'[e]) : out'[e][i].t = "register" =>
                           backend'[out'[e][i].n].st = "registering" \/ proc[e] = "exited"
                      /\ \A i \in 1 .. Len(out'[e]) : out'[e][i].t = "unregister" =>
                           backend'[out'[e][i].n].st \in {"unmounting", "gone"}
    BY DEF Registering
  <2>1. ~lost[e] BY DEF Registering
  <2>2. ASSUME NEW i \in 1 .. Len(out'[e]), out'[e][i].t \in {"register", "unregister"}
        PROVE  IF out'[e][i].t = "register"
               THEN backend'[out'[e][i].n].st = "registering" \/ proc[e] = "exited"
               ELSE backend'[out'[e][i].n].st \in {"unmounting", "gone"}
    <3>1. CASE e = d /\ out'[e][i] = m
      BY <1>1, <1>3, <1>4, <2>2, <3>1
    <3>2. CASE i \in 1 .. Len(out[e]) /\ out'[e][i] = out[e][i]
      <4>1. out[e][i].n \in Calls /\ out[e][i].n # n
        BY <1>12, <2>2, <3>2 DEF MessagesPlaced, OfBackend
      <4>2. IF out[e][i].t = "register"
            THEN backend[out[e][i].n].st = "registering" \/ proc[e] = "exited"
            ELSE backend[out[e][i].n].st \in {"unmounting", "gone"}
        BY <2>2, <3>2 DEF Registering
      <4>3. QED BY <1>4, <3>2, <4>1, <4>2
    <3>3. QED BY <1>6, <3>1, <3>2
  <2>3. QED BY <2>1, <2>2
<1>15. /\ \A x \in Specs : Matches(x)' = Matches(x)
       /\ OneMountPerSpec'
  <2>1. \A p \in mounts : backend'[p[2]].s = backend[p[2]].s
    BY <1>8 DEF TypeOK
  <2>2. QED BY <2>1, MatchesKept
<1>16. SeenSince'
  <2>1. \A x \in Specs : data'[x].st # "none" /\ Matches(x)' # {} => data'[x].seen
    BY <1>15 DEF SeenSince
  <2>2. ASSUME NEW e \in Daemons, NEW i \in 1 .. Len(out'[e]),
               out'[e][i].t \in {"reply", "already"}
        PROVE  \A x \in Specs : data'[x].st = "call" /\ data'[x].call = out'[e][i].n => data'[x].seen
    <3>1. i \in 1 .. Len(out[e]) /\ out'[e][i] = out[e][i]
      BY <1>1, <1>3, <1>6, <2>2
    <3>2. QED BY <2>2, <3>1 DEF SeenSince
  <2>3. QED BY <2>1, <2>2 DEF SeenSince
<1>17. MountsServed'
  <2>1. QueuesKeep BY <1>6 DEF QueuesKeep
  <2>2. \A p \in mounts' : backend[p[2]].st \in {"mounted", "unmounting"} /\ proc[p[1]] = "up"
                         => backend'[p[2]].st \in {"mounted", "unmounting"} /\ proc'[p[1]] = "up"
    BY <1>1, <1>4 DEF TypeOK
  <2>3. QED BY <2>1, <2>2, ServedKept
<1>18. WaitersOwned' /\ ChildDataAlive'
  BY DEF WaitersOwned, Waits, ChildDataAlive
<1>19. QED
  BY <1>7, <1>9, <1>10, <1>11, <1>13, <1>14, <1>15, <1>16, <1>17, <1>18

(* The three messages of a backend at work.                                *)
LEMMA BackendMountedInv ==
  ASSUME TrackerAssumption, TrackerInv, NEW n \in Calls, BackendMounted(n)
  PROVE  TrackerInv'
<1>1. /\ backend[n].st = "mounting" /\ backend' = [backend EXCEPT ![n].st = "registering"]
      /\ Send(backend[n].d, Msg("register", n))
      /\ UNCHANGED <<configured, mounts, data, ask, proc, owner, lost, restarts>>
  BY DEF BackendMounted
<1>2. QED BY <1>1, BackendSends

LEMMA BackendFailedInv ==
  ASSUME TrackerAssumption, TrackerInv, NEW n \in Calls, BackendFailed(n)
  PROVE  TrackerInv'
<1>1. /\ backend[n].st = "mounting" /\ backend' = [backend EXCEPT ![n].st = "gone"]
      /\ Send(backend[n].d, Msg("fail", n))
      /\ UNCHANGED <<configured, mounts, data, ask, proc, owner, lost, restarts>>
  BY DEF BackendFailed
<1>2. QED BY <1>1, BackendSends

LEMMA UnmountInv ==
  ASSUME TrackerAssumption, TrackerInv, NEW n \in Calls, Unmount(n)
  PROVE  TrackerInv'
<1>1. /\ backend[n].st = "mounted" /\ backend' = [backend EXCEPT ![n].st = "unmounting"]
      /\ Send(backend[n].d, Msg("unregister", n))
      /\ UNCHANGED <<configured, mounts, data, ask, proc, owner, lost, restarts>>
  BY DEF Unmount
<1>2. QED BY <1>1, BackendSends

(* A process dies or leaves: its backends are gone, and gvfsd will hear    *)
(* of it last.                                                             *)
LEMMA ExitInv ==
  ASSUME TrackerAssumption, TrackerInv, NEW d \in Daemons,
         proc[d] \in {"starting", "up"}, Exit(d)
  PROVE  TrackerInv'
<1> USE DEF TrackerInv
<1> DEFINE m == Msg("gone", 0)
<1>1. /\ proc' = [proc EXCEPT ![d] = "exited"]
      /\ owner' = IF owner = d THEN NoDaemon ELSE owner
      /\ Send(d, m) /\ UNCHANGED <<configured, mounts, data, ask, lost, restarts>>
  BY DEF Exit
<1>2. /\ backend' \in [Calls -> Backend]
      /\ \A k \in Calls :
           /\ backend'[k].s = backend[k].s /\ backend'[k].d = backend[k].d
           /\ backend[k].d # d => backend'[k] = backend[k]
           /\ backend'[k].st \in {backend[k].st, "gone"}
           /\ backend[k].d = d => backend'[k].st \in {"sent", "gone"}
           /\ backend[k].st \in {"unmounting", "gone"} => backend'[k].st \in {"unmounting", "gone"}
  <2>1. backend \in [Calls -> Backend] BY DEF TypeOK
  <2>2. backend' = [k \in Calls |-> IF backend[k].d = d /\ backend[k].st # "sent"
                                    THEN [backend[k] EXCEPT !.st = "gone"] ELSE backend[k]]
    BY DEF Exit
  <2>3. \A k \in Calls :
          /\ backend[k] \in Backend /\ [backend[k] EXCEPT !.st = "gone"] \in Backend
          /\ [backend[k] EXCEPT !.st = "gone"].st = "gone"
          /\ [backend[k] EXCEPT !.st = "gone"].d = backend[k].d
          /\ [backend[k] EXCEPT !.st = "gone"].s = backend[k].s
    BY <2>1 DEF Backend
  <2>4. QED BY <2>2, <2>3
<1>3. m \in Message /\ m.t = "gone" /\ 0 \in 0 .. MaxCalls
  <2>1. 0 \in 0 .. MaxCalls BY DEF TrackerAssumption
  <2>2. QED BY <2>1, MsgType
<1>4. /\ proc \in [Daemons -> {"free", "starting", "up", "exited"}]
      /\ proc'[d] = "exited" /\ \A e \in Daemons : e # d => proc'[e] = proc[e]
  BY <1>1 DEF TypeOK
<1>5. GoneIsLast'
  BY <1>1, <1>3, SendGone
<1> HIDE DEF m
<1>6. /\ out' \in [Daemons -> Seq(Message)]
      /\ \A e \in Daemons : \A i \in 1 .. Len(out'[e]) :
           \/ i \in 1 .. Len(out[e]) /\ out'[e][i] = out[e][i]
           \/ e = d /\ out'[e][i] = m
      /\ \A e \in Daemons : \A i \in 1 .. Len(out[e]) :
           i \in 1 .. Len(out'[e]) /\ out'[e][i] = out[e][i]
      /\ \E i \in 1 .. Len(out'[d]) : out'[d][i] = m
  <2>1. /\ Len(out[d]) \in Nat /\ Len(out'[d]) = Len(out[d]) + 1
        /\ out'[d][Len(out[d]) + 1] = m
    BY <1>1, <1>3, SendFacts
  <2>2. \E i \in 1 .. Len(out'[d]) : out'[d][i] = m
    <3>1. Len(out[d]) + 1 \in 1 .. Len(out'[d]) BY <2>1
    <3>2. QED BY <2>1, <3>1
  <2>3. QED BY <1>1, <1>3, <2>2, SendFacts
<1>7. TypeOK'
  BY <1>1, <1>2, <1>4, <1>6 DEF TypeOK
<1>8. RegisteredOnce'
  BY <1>1, <1>3, SendRegistered
<1>9. BackendsPlaced'
  <2>1. ASSUME NEW k \in Calls, backend'[k].st \in Active
        PROVE  backend'[k].d \in Daemons /\ proc'[backend'[k].d] = "up"
    <3>1. backend[k].d # d BY <1>2, <2>1 DEF Active
    <3>2. QED BY <1>2, <1>4, <2>1, <3>1 DEF BackendsPlaced
  <2>2. ASSUME NEW p \in mounts'
        PROVE  backend'[p[2]].st \notin {"none", "sent"} /\ backend'[p[2]].d = p[1]
    <3>1. p \in mounts /\ p[2] \in Calls BY <1>1, <2>2 DEF TypeOK
    <3>2. QED BY <1>2, <3>1 DEF BackendsPlaced
  <2>3. ASSUME NEW x \in Specs, data'[x].st = "call"
        PROVE  /\ data'[x].call \in Calls
               /\ backend'[data'[x].call].st # "none" /\ backend'[data'[x].call].s = x
    BY <1>1, <1>2, <2>3 DEF BackendsPlaced
  <2>4. QED BY <2>1, <2>2, <2>3 DEF BackendsPlaced, Active
<1>10. MessagesPlaced'
  <2> SUFFICES ASSUME NEW e \in Daemons, NEW i \in 1 .. Len(out'[e])
               PROVE  /\ proc'[e] \in {"up", "exited"}
                      /\ out'[e][i].t \in OfBackend =>
                           /\ out'[e][i].n \in Calls
                           /\ backend'[out'[e][i].n].st \notin {"none", "sent"}
                           /\ backend'[out'[e][i].n].d = e
    BY DEF MessagesPlaced, OfBackend
  <2>1. CASE e = d /\ out'[e][i] = m
    BY <1>3, <1>4, <2>1 DEF OfBackend
  <2>2. CASE i \in 1 .. Len(out[e]) /\ out'[e][i] = out[e][i]
    <3>1. /\ proc[e] \in {"up", "exited"}
          /\ out'[e][i].t \in OfBackend =>
               /\ out'[e][i].n \in Calls
               /\ backend[out'[e][i].n].st \notin {"none", "sent"}
               /\ backend[out'[e][i].n].d = e
      BY <2>2 DEF MessagesPlaced
    <3>2. QED BY <1>2, <1>4, <3>1
  <2>3. QED BY <1>6, <2>1, <2>2
<1>11. Registering'
  <2> SUFFICES ASSUME restarts = 0, NEW e \in Daemons
               PROVE  /\ ~lost[e]
                      /\ \A i \in 1 .. Len(out'[e]) : out'[e][i].t = "register" =>
                           backend'[out'[e][i].n].st = "registering" \/ proc'[e] = "exited"
                      /\ \A i \in 1 .. Len(out'[e]) : out'[e][i].t = "unregister" =>
                           backend'[out'[e][i].n].st \in {"unmounting", "gone"}
    BY <1>1 DEF Registering
  <2>1. ~lost[e] BY DEF Registering
  <2>2. ASSUME NEW i \in 1 .. Len(out'[e]), out'[e][i].t \in {"register", "unregister"}
        PROVE  IF out'[e][i].t = "register"
               THEN backend'[out'[e][i].n].st = "registering" \/ proc'[e] = "exited"
               ELSE backend'[out'[e][i].n].st \in {"unmounting", "gone"}
    <3>1. i \in 1 .. Len(out[e]) /\ out'[e][i] = out[e][i]
      BY <1>3, <1>6, <2>2
    <3>2. out[e][i].n \in Calls /\ backend[out[e][i].n].d = e
      BY <2>2, <3>1 DEF MessagesPlaced, OfBackend
    <3>3. IF out[e][i].t = "register"
          THEN backend[out[e][i].n].st = "registering" \/ proc[e] = "exited"
          ELSE backend[out[e][i].n].st \in {"unmounting", "gone"}
      BY <2>2, <3>1 DEF Registering
    <3>4. QED BY <1>2, <1>4, <3>1, <3>2, <3>3
  <2>3. QED BY <2>1, <2>2
<1>12. /\ \A x \in Specs : Matches(x)' = Matches(x)
       /\ OneMountPerSpec'
  <2>1. \A p \in mounts : backend'[p[2]].s = backend[p[2]].s
    BY <1>2 DEF TypeOK
  <2>2. QED BY <1>1, <2>1, MatchesKept
<1>13. SeenSince'
  <2>1. \A x \in Specs : data'[x].st # "none" /\ Matches(x)' # {} => data'[x].seen
    BY <1>1, <1>12 DEF SeenSince
  <2>2. ASSUME NEW e \in Daemons, NEW i \in 1 .. Len(out'[e]),
               out'[e][i].t \in {"reply", "already"}
        PROVE  \A x \in Specs : data[x].st = "call" /\ data[x].call = out'[e][i].n => data[x].seen
    <3>1. i \in 1 .. Len(out[e]) /\ out'[e][i] = out[e][i]
      BY <1>3, <1>6, <2>2
    <3>2. QED BY <2>2, <3>1 DEF SeenSince
  <2>3. QED BY <1>1, <2>1, <2>2 DEF SeenSince
<1>14. MountsServed'
  <2> SUFFICES ASSUME restarts = 0, NEW p \in mounts
               PROVE  \/ backend'[p[2]].st \in {"mounted", "unmounting"} /\ proc'[p[1]] = "up"
                      \/ \E i \in 1 .. Len(out'[p[1]]) :
                           out'[p[1]][i] \in {Msg("unregister", p[2]), Msg("gone", 0)}
    BY <1>1 DEF MountsServed, Msg
  <2>1. p[1] \in Daemons /\ p[2] \in Calls /\ backend[p[2]].d = p[1]
    BY DEF TypeOK, BackendsPlaced
  <2>2. CASE p[1] = d BY <1>6, <2>2 DEF m
  <2>3. CASE p[1] # d
    <3>1. backend'[p[2]] = backend[p[2]] /\ proc'[p[1]] = proc[p[1]]
      BY <1>2, <1>4, <2>1, <2>3
    <3>2. CASE backend[p[2]].st \in {"mounted", "unmounting"} /\ proc[p[1]] = "up"
      BY <3>1, <3>2
    <3>3. CASE \E i \in 1 .. Len(out[p[1]]) :
                 out[p[1]][i] \in {Msg("unregister", p[2]), Msg("gone", 0)}
      BY <1>6, <2>1, <3>3
    <3>4. QED BY <3>2, <3>3 DEF MountsServed
  <2>4. QED BY <2>2, <2>3
<1>15. WaitersOwned' /\ ChildDataAlive'
  BY <1>1, <1>4 DEF WaitersOwned, Waits, ChildDataAlive
<1>16. QED
  BY <1>5, <1>7, <1>8, <1>9, <1>10, <1>11, <1>12, <1>13, <1>14, <1>15

(* The two ways in which a daemon ends.                                    *)
LEMMA CrashInv ==
  ASSUME TrackerAssumption, TrackerInv, NEW d \in Daemons, Crash(d)
  PROVE  TrackerInv'
<1>1. proc[d] \in {"starting", "up"} /\ Exit(d) BY DEF Crash
<1>2. QED BY <1>1, ExitInv

LEMMA ExitAtIdleInv ==
  ASSUME TrackerAssumption, TrackerInv, NEW d \in Daemons, ExitAtIdle(d)
  PROVE  TrackerInv'
<1>1. proc[d] \in {"starting", "up"} /\ Exit(d) BY DEF ExitAtIdle
<1>2. QED BY <1>1, ExitInv

(* daemon_handle_mount: a backend begins, and nobody knows of it yet.      *)
LEMMA HandleMountInv ==
  ASSUME TrackerAssumption, TrackerInv, NEW n \in Calls, NEW d \in Daemons, HandleMount(n, d)
  PROVE  TrackerInv'
<1> USE DEF TrackerInv
<1>1. /\ backend[n].st = "sent" /\ proc[d] = "up"
      /\ backend' = [backend EXCEPT ![n].st = "mounting", ![n].d = d]
      /\ UNCHANGED <<configured, mounts, data, ask, proc, owner, out, lost, restarts>>
  BY DEF HandleMount
<1>2. /\ backend' \in [Calls -> Backend]
      /\ backend'[n].st = "mounting" /\ backend'[n].d = d /\ backend'[n].s = backend[n].s
      /\ \A k \in Calls : k # n => backend'[k] = backend[k]
  <2>1. backend \in [Calls -> Backend] BY DEF TypeOK
  <2>2. backend' = [backend EXCEPT ![n] = [backend[n] EXCEPT !.st = "mounting", !.d = d]]
    BY <1>1, <2>1
  <2>3. QED BY <2>1, <2>2 DEF Backend
<1>3. TypeOK' BY <1>1, <1>2 DEF TypeOK
<1>4. \A p \in mounts : p[2] \in Calls /\ backend'[p[2]] = backend[p[2]]
  BY <1>1, <1>2 DEF TypeOK, BackendsPlaced
<1>5. BackendsPlaced'
  <2>1. ASSUME NEW k \in Calls, backend'[k].st \in Active
        PROVE  backend'[k].d \in Daemons /\ proc'[backend'[k].d] = "up"
    BY <1>1, <1>2, <2>1 DEF BackendsPlaced
  <2>2. \A p \in mounts' : backend'[p[2]].st \notin {"none", "sent"} /\ backend'[p[2]].d = p[1]
    BY <1>1, <1>4 DEF BackendsPlaced
  <2>3. ASSUME NEW x \in Specs, data'[x].st = "call"
        PROVE  /\ data'[x].call \in Calls
               /\ backend'[data'[x].call].st # "none" /\ backend'[data'[x].call].s = x
    BY <1>1, <1>2, <2>3 DEF BackendsPlaced
  <2>4. QED BY <2>1, <2>2, <2>3 DEF BackendsPlaced, Active
<1>6. \A e \in Daemons : \A i \in 1 .. Len(out[e]) : out[e][i].t \in OfBackend =>
         out[e][i].n \in Calls /\ backend'[out[e][i].n] = backend[out[e][i].n]
  BY <1>1, <1>2 DEF MessagesPlaced
<1>7. MessagesPlaced' /\ Registering'
  <2>1. MessagesPlaced'
    <3> SUFFICES ASSUME NEW e \in Daemons, NEW i \in 1 .. Len(out'[e])
                 PROVE  /\ proc'[e] \in {"up", "exited"}
                        /\ out'[e][i].t \in OfBackend =>
                             /\ out'[e][i].n \in Calls
                             /\ backend'[out'[e][i].n].st \notin {"none", "sent"}
                             /\ backend'[out'[e][i].n].d = e
      BY DEF MessagesPlaced, OfBackend
    <3>1. out' = out /\ proc' = proc BY <1>1
    <3>2. QED BY <1>6, <3>1 DEF MessagesPlaced
  <2>2. Registering'
    <3> SUFFICES ASSUME restarts' = 0, NEW e \in Daemons
                 PROVE  /\ ~lost'[e]
                        /\ \A i \in 1 .. Len(out'[e]) : out'[e][i].t = "register" =>
                             backend'[out'[e][i].n].st = "registering" \/ proc'[e] = "exited"
                        /\ \A i \in 1 .. Len(out'[e]) : out'[e][i].t = "unregister" =>
                             backend'[out'[e][i].n].st \in {"unmounting", "gone"}
      BY DEF Registering
    <3>1. out' = out /\ proc' = proc /\ lost' = lost /\ restarts' = restarts BY <1>1
    <3>2. \A i \in 1 .. Len(out[e]) : out[e][i].t \in {"register", "unregister"} =>
            backend'[out[e][i].n] = backend[out[e][i].n]
      BY <1>6 DEF OfBackend
    <3>3. QED BY <3>1, <3>2 DEF Registering
  <2>3. QED BY <2>1, <2>2
<1>8. GoneIsLast' /\ RegisteredOnce' /\ WaitersOwned' /\ ChildDataAlive'
  BY <1>1 DEF GoneIsLast, Msg, RegisteredOnce, WaitersOwned, Waits, ChildDataAlive
<1>9. (\A x \in Specs : Matches(x)' = Matches(x)) /\ OneMountPerSpec'
  BY <1>1, <1>4, MatchesKept
<1>10. SeenSince'
  BY <1>1, <1>9 DEF SeenSince
<1>11. MountsServed'
  BY <1>1, <1>4 DEF MountsServed, Msg
<1>12. QED BY <1>3, <1>5, <1>7, <1>8, <1>9, <1>10, <1>11

(* A daemon has its name, and has sent nothing before it calls Spawned. *)
LEMMA OnNameAcquiredInv ==
  ASSUME TrackerAssumption, TrackerInv, NEW d \in Daemons, OnNameAcquired(d)
  PROVE  TrackerInv'
<1> USE DEF TrackerInv
<1> DEFINE m == Msg("spawned", 0)
<1>1. /\ proc[d] = "starting" /\ proc' = [proc EXCEPT ![d] = "up"]
      /\ owner' = IF HasDBusName THEN d ELSE owner
      /\ Send(d, m)
      /\ UNCHANGED <<configured, mounts, data, ask, backend, lost, restarts>>
  BY DEF OnNameAcquired
<1>2. m \in Message /\ m.t = "spawned" /\ m # Msg("gone", 0)
  <2>1. 0 \in 0 .. MaxCalls BY DEF TrackerAssumption
  <2>2. QED BY <2>1, MsgType DEF Msg
<1>3. /\ proc' \in [Daemons -> {"free", "starting", "up", "exited"}]
      /\ proc'[d] = "up" /\ \A e \in Daemons : e # d => proc'[e] = proc[e]
  BY <1>1 DEF TypeOK
<1>4. GoneIsLast'
  BY <1>1, <1>2, <1>3, SendGone
<1> HIDE DEF m
<1>5. /\ out' \in [Daemons -> Seq(Message)]
      /\ \A e \in Daemons : \A i \in 1 .. Len(out'[e]) :
           \/ i \in 1 .. Len(out[e]) /\ out'[e][i] = out[e][i]
           \/ e = d /\ out'[e][i] = m
      /\ \A e \in Daemons : \A i \in 1 .. Len(out[e]) :
           i \in 1 .. Len(out'[e]) /\ out'[e][i] = out[e][i]
  BY <1>1, <1>2, SendFacts
<1>6. RegisteredOnce'
  BY <1>1, <1>2, SendRegistered
<1>7. TypeOK'
  BY <1>1, <1>3, <1>5 DEF TypeOK
<1>8. \A e \in Daemons : \A i \in 1 .. Len(out[e]) : e # d
  BY <1>1 DEF MessagesPlaced
<1>9. BackendsPlaced'
  <2>1. ASSUME NEW k \in Calls, backend'[k].st \in Active
        PROVE  backend'[k].d \in Daemons /\ proc'[backend'[k].d] = "up"
    BY <1>1, <1>3, <2>1 DEF BackendsPlaced
  <2>2. QED BY <1>1, <2>1 DEF BackendsPlaced, Active
<1>10. MessagesPlaced'
  <2> SUFFICES ASSUME NEW e \in Daemons, NEW i \in 1 .. Len(out'[e])
               PROVE  /\ proc'[e] \in {"up", "exited"}
                      /\ out'[e][i].t \in OfBackend =>
                           /\ out'[e][i].n \in Calls
                           /\ backend[out'[e][i].n].st \notin {"none", "sent"}
                           /\ backend[out'[e][i].n].d = e
    BY <1>1 DEF MessagesPlaced, OfBackend
  <2>1. CASE e = d /\ out'[e][i] = m
    BY <1>2, <1>3, <2>1 DEF OfBackend
  <2>2. CASE i \in 1 .. Len(out[e]) /\ out'[e][i] = out[e][i]
    <3>1. /\ proc[e] \in {"up", "exited"}
          /\ out'[e][i].t \in OfBackend =>
               /\ out'[e][i].n \in Calls
               /\ backend[out'[e][i].n].st \notin {"none", "sent"}
               /\ backend[out'[e][i].n].d = e
      BY <2>2 DEF MessagesPlaced
    <3>2. QED BY <1>3, <3>1
  <2>3. QED BY <1>5, <2>1, <2>2
<1>11. Registering'
  <2> SUFFICES ASSUME restarts = 0, NEW e \in Daemons
               PROVE  /\ ~lost[e]
                      /\ \A i \in 1 .. Len(out'[e]) : out'[e][i].t = "register" =>
                           backend[out'[e][i].n].st = "registering" \/ proc'[e] = "exited"
                      /\ \A i \in 1 .. Len(out'[e]) : out'[e][i].t = "unregister" =>
                           backend[out'[e][i].n].st \in {"unmounting", "gone"}
    BY <1>1 DEF Registering
  <2>1. ~lost[e] BY DEF Registering
  <2>2. ASSUME NEW i \in 1 .. Len(out'[e]), out'[e][i].t \in {"register", "unregister"}
        PROVE  IF out'[e][i].t = "register"
               THEN backend[out'[e][i].n].st = "registering" \/ proc'[e] = "exited"
               ELSE backend[out'[e][i].n].st \in {"unmounting", "gone"}
    <3>1. i \in 1 .. Len(out[e]) /\ out'[e][i] = out[e][i]
      BY <1>2, <1>5, <2>2
    <3>2. e # d BY <1>8, <3>1
    <3>3. QED BY <1>3, <2>2, <3>1, <3>2 DEF Registering
  <2>3. QED BY <2>1, <2>2
<1>12. (\A x \in Specs : Matches(x)' = Matches(x)) /\ OneMountPerSpec'
  BY <1>1, MatchesKept
<1>13. SeenSince'
  <2>1. \A x \in Specs : data'[x].st # "none" /\ Matches(x)' # {} => data'[x].seen
    BY <1>1, <1>12 DEF SeenSince
  <2>2. ASSUME NEW e \in Daemons, NEW i \in 1 .. Len(out'[e]),
               out'[e][i].t \in {"reply", "already"}
        PROVE  \A x \in Specs : data[x].st = "call" /\ data[x].call = out'[e][i].n => data[x].seen
    <3>1. i \in 1 .. Len(out[e]) /\ out'[e][i] = out[e][i]
      BY <1>2, <1>5, <2>2
    <3>2. QED BY <2>2, <3>1 DEF SeenSince
  <2>3. QED BY <1>1, <2>1, <2>2 DEF SeenSince
<1>14. MountsServed'
  <2>1. QueuesKeep BY <1>5 DEF QueuesKeep
  <2>2. \A p \in mounts : p[1] \in Daemons BY DEF TypeOK
  <2>3. QED BY <1>1, <1>3, <2>1, <2>2, ServedKept
<1>15. WaitersOwned' /\ ChildDataAlive'
  BY <1>1, <1>3 DEF WaitersOwned, Waits, ChildDataAlive
<1>16. QED
  BY <1>4, <1>6, <1>7, <1>9, <1>10, <1>11, <1>12, <1>13, <1>14, <1>15

(* A daemon that did not get its name has nothing to tell but that. *)
LEMMA OnNameLostInv ==
  ASSUME TrackerAssumption, TrackerInv, NEW d \in Daemons, OnNameLost(d)
  PROVE  TrackerInv'
<1> USE DEF TrackerInv
<1> DEFINE r == <<Msg("refused", 0), Msg("gone", 0)>>
<1>1. /\ proc[d] = "starting" /\ proc' = [proc EXCEPT ![d] = "exited"]
      /\ out' = [out EXCEPT ![d] = @ \o r]
      /\ UNCHANGED <<configured, mounts, data, ask, owner, backend, lost, restarts>>
  BY DEF OnNameLost
<1>2. /\ r \in Seq(Message) /\ Len(r) = 2 /\ r[1] = Msg("refused", 0) /\ r[2] = Msg("gone", 0)
      /\ Msg("refused", 0).t = "refused" /\ Msg("gone", 0).t = "gone"
      /\ Msg("refused", 0) # Msg("gone", 0)
  <2>1. 0 \in 0 .. MaxCalls BY DEF TrackerAssumption
  <2>2. Msg("refused", 0) \in Message /\ Msg("gone", 0) \in Message BY <2>1, MsgType
  <2>3. QED BY <2>2 DEF Msg
<1>3. /\ proc' \in [Daemons -> {"free", "starting", "up", "exited"}]
      /\ proc'[d] = "exited" /\ \A e \in Daemons : e # d => proc'[e] = proc[e]
  BY <1>1 DEF TypeOK
<1>4. \A i \in 1 .. Len(out[d]) : FALSE
  BY <1>1 DEF MessagesPlaced
<1>5. out \in [Daemons -> Seq(Message)] BY DEF TypeOK
<1> HIDE DEF r
<1>6. /\ out' \in [Daemons -> Seq(Message)] /\ Len(out'[d]) = 2
      /\ out'[d][1] = Msg("refused", 0) /\ out'[d][2] = Msg("gone", 0)
      /\ \A e \in Daemons : e # d => out'[e] = out[e]
  <2>1. /\ out[d] \o r \in Seq(Message) /\ Len(out[d]) \in Nat
        /\ Len(out[d] \o r) = Len(out[d]) + Len(r)
        /\ \A i \in 1 .. Len(r) : (out[d] \o r)[Len(out[d]) + i] = r[i]
    <3>1. out[d] \in Seq(Message) /\ r \in Seq(Message) BY <1>2, <1>5
    <3>2. QED BY <3>1
  <2>2. Len(out[d]) = 0 BY <1>4, <2>1
  <2>3. out'[d] = out[d] \o r BY <1>1, <1>5
  <2>4. /\ Len(out[d] \o r) = 2
        /\ (out[d] \o r)[1] = Msg("refused", 0) /\ (out[d] \o r)[2] = Msg("gone", 0)
    BY <1>2, <2>1, <2>2
  <2>5. QED BY <1>1, <1>5, <2>1, <2>3, <2>4
<1>7. \A i \in 1 .. Len(out'[d]) : /\ out'[d][i].t \in {"refused", "gone"}
                                   /\ out'[d][i] = Msg("gone", 0) <=> i = Len(out'[d])
  BY <1>2, <1>6
<1>8. TypeOK'
  BY <1>1, <1>3, <1>6 DEF TypeOK
<1>9. GoneIsLast'
  <2> SUFFICES ASSUME NEW e \in Daemons, NEW i \in 1 .. Len(out'[e])
               PROVE  out'[e][i] = Msg("gone", 0) <=> proc'[e] = "exited" /\ i = Len(out'[e])
    BY DEF GoneIsLast, Msg
  <2>1. CASE e = d BY <1>3, <1>7, <2>1
  <2>2. CASE e # d BY <1>3, <1>6, <2>2 DEF GoneIsLast
  <2>3. QED BY <2>1, <2>2
<1>10. RegisteredOnce'
  <2> SUFFICES ASSUME restarts = 0, NEW e \in Daemons, NEW i \in 1 .. Len(out'[e]),
                      NEW j \in 1 .. Len(out'[e]),
                      out'[e][i].t = "register", out'[e][j] = out'[e][i]
               PROVE  i = j
    BY <1>1 DEF RegisteredOnce
  <2>1. e # d BY <1>7
  <2>2. QED BY <1>6, <2>1 DEF RegisteredOnce
<1>11. BackendsPlaced'
  <2>1. ASSUME NEW k \in Calls, backend'[k].st \in Active
        PROVE  backend'[k].d \in Daemons /\ proc'[backend'[k].d] = "up"
    BY <1>1, <1>3, <2>1 DEF BackendsPlaced
  <2>2. QED BY <1>1, <2>1 DEF BackendsPlaced, Active
<1>12. MessagesPlaced'
  <2> SUFFICES ASSUME NEW e \in Daemons, NEW i \in 1 .. Len(out'[e])
               PROVE  /\ proc'[e] \in {"up", "exited"}
                      /\ out'[e][i].t \in OfBackend =>
                           /\ out'[e][i].n \in Calls
                           /\ backend[out'[e][i].n].st \notin {"none", "sent"}
                           /\ backend[out'[e][i].n].d = e
    BY <1>1 DEF MessagesPlaced, OfBackend
  <2>1. CASE e = d BY <1>3, <1>7, <2>1 DEF OfBackend
  <2>2. CASE e # d BY <1>3, <1>6, <2>2 DEF MessagesPlaced
  <2>3. QED BY <2>1, <2>2
<1>13. Registering'
  <2> SUFFICES ASSUME restarts = 0, NEW e \in Daemons
               PROVE  /\ ~lost[e]
                      /\ \A i \in 1 .. Len(out'[e]) : out'[e][i].t = "register" =>
                           backend[out'[e][i].n].st = "registering" \/ proc'[e] = "exited"
                      /\ \A i \in 1 .. Len(out'[e]) : out'[e][i].t = "unregister" =>
                           backend[out'[e][i].n].st \in {"unmounting", "gone"}
    BY <1>1 DEF Registering
  <2>1. ~lost[e] BY DEF Registering
  <2>2. CASE e = d BY <1>7, <2>1, <2>2
  <2>3. CASE e # d BY <1>3, <1>6, <2>3 DEF Registering
  <2>4. QED BY <2>2, <2>3
<1>14. (\A x \in Specs : Matches(x)' = Matches(x)) /\ OneMountPerSpec'
  BY <1>1, MatchesKept
<1>15. SeenSince'
  <2>1. \A x \in Specs : data'[x].st # "none" /\ Matches(x)' # {} => data'[x].seen
    BY <1>1, <1>14 DEF SeenSince
  <2>2. ASSUME NEW e \in Daemons, NEW i \in 1 .. Len(out'[e]),
               out'[e][i].t \in {"reply", "already"}
        PROVE  \A x \in Specs : data[x].st = "call" /\ data[x].call = out'[e][i].n => data[x].seen
    <3>1. e # d BY <1>7, <2>2
    <3>2. QED BY <1>6, <2>2, <3>1 DEF SeenSince
  <2>3. QED BY <1>1, <2>1, <2>2 DEF SeenSince
<1>16. MountsServed'
  <2>1. QueuesKeep BY <1>4, <1>6 DEF QueuesKeep
  <2>2. \A p \in mounts : p[1] \in Daemons BY DEF TypeOK
  <2>3. QED BY <1>1, <1>3, <2>1, <2>2, ServedKept
<1>17. WaitersOwned' /\ ChildDataAlive'
  BY <1>1, <1>3 DEF WaitersOwned, Waits, ChildDataAlive
<1>18. QED
  BY <1>8, <1>9, <1>10, <1>11, <1>12, <1>13, <1>14, <1>15, <1>16, <1>17

(* After a restart of gvfsd a daemon registers again what it serves. *)
LEMMA ReRegisterInv ==
  ASSUME TrackerAssumption, TrackerInv, NEW d \in Daemons, ReRegister(d)
  PROVE  TrackerInv'
<1> USE DEF TrackerInv
<1> DEFINE again == {n \in Calls : /\ backend[n].d = d
                                   /\ backend[n].st \in {"mounted", "unmounting"}}
<1>1. /\ lost[d] /\ proc[d] = "up" /\ lost' = [lost EXCEPT ![d] = FALSE]
      /\ UNCHANGED <<configured, mounts, data, ask, proc, owner, backend, restarts>>
  BY DEF ReRegister
<1>2. PICK q \in [1 .. Cardinality(again) -> again] :
        out' = [out EXCEPT ![d] = @ \o [i \in DOMAIN q |-> Msg("register", q[i])]]
  BY DEF ReRegister
<1> DEFINE r == [i \in DOMAIN q |-> Msg("register", q[i])]
<1>3. Cardinality(again) \in Nat
  <2>1. IsFiniteSet(Calls)
    <3>1. 1 \in Int /\ MaxCalls \in Int BY DEF TrackerAssumption
    <3>2. QED BY <3>1, FS_Interval DEF Calls
  <2>2. again \subseteq Calls OBVIOUS
  <2>3. IsFiniteSet(again) BY <2>1, <2>2, FS_Subset
  <2>4. QED BY <2>3, FS_CardinalityType
<1>4. \A k \in again : Msg("register", k) \in Message /\ Msg("register", k).t = "register"
                       /\ Msg("register", k).n = k
  BY MsgType DEF Calls, TrackerAssumption
<1>5. \A k \in again : k \in Calls /\ backend[k].d = d /\ backend[k].st \in {"mounted", "unmounting"}
  OBVIOUS
<1> HIDE DEF again
<1>6. /\ r \in Seq(Message)
      /\ \A i \in 1 .. Len(r) : /\ r[i].t = "register" /\ r[i].n \in again
  <2>1. DOMAIN q = 1 .. Cardinality(again) /\ \A i \in 1 .. Cardinality(again) : q[i] \in again
    BY <1>2
  <2>2. r \in [1 .. Cardinality(again) -> Message] BY <1>4, <2>1
  <2>3. r \in Seq(Message) /\ Len(r) = Cardinality(again) BY <1>3, <2>2
  <2>4. \A i \in 1 .. Cardinality(again) : r[i] = Msg("register", q[i]) BY <2>1
  <2>5. QED BY <1>4, <2>1, <2>3, <2>4
<1>7. out' = [out EXCEPT ![d] = @ \o r] BY <1>2
<1> HIDE DEF r
<1>8. /\ out' \in [Daemons -> Seq(Message)] /\ Len(out[d]) \in Nat /\ Len(r) \in Nat
      /\ Len(out'[d]) = Len(out[d]) + Len(r)
      /\ \A i \in 1 .. Len(out[d]) : out'[d][i] = out[d][i]
      /\ \A i \in 1 .. Len(r) : out'[d][Len(out[d]) + i] = r[i]
      /\ \A e \in Daemons : e # d => out'[e] = out[e]
  <2>1. out \in [Daemons -> Seq(Message)] BY DEF TypeOK
  <2>2. /\ out[d] \o r \in Seq(Message) /\ Len(out[d]) \in Nat /\ Len(r) \in Nat
        /\ Len(out[d] \o r) = Len(out[d]) + Len(r)
        /\ \A i \in 1 .. Len(out[d]) : (out[d] \o r)[i] = out[d][i]
        /\ \A i \in 1 .. Len(r) : (out[d] \o r)[Len(out[d]) + i] = r[i]
    <3>1. out[d] \in Seq(Message) /\ r \in Seq(Message) BY <1>6, <2>1
    <3>2. QED BY <3>1
  <2>3. out'[d] = out[d] \o r /\ \A e \in Daemons : e # d => out'[e] = out[e]
    BY <1>7, <2>1
  <2>4. out' \in [Daemons -> Seq(Message)] BY <1>7, <2>1, <2>2
  <2>5. QED BY <2>2, <2>3, <2>4
<1>9. /\ \A e \in Daemons : \A i \in 1 .. Len(out'[e]) :
           \/ i \in 1 .. Len(out[e]) /\ out'[e][i] = out[e][i]
           \/ e = d /\ out'[e][i].t = "register" /\ out'[e][i].n \in again
      /\ \A e \in Daemons : \A i \in 1 .. Len(out[e]) :
           i \in 1 .. Len(out'[e]) /\ out'[e][i] = out[e][i]
  <2>1. ASSUME NEW i \in 1 .. Len(out'[d]), i \notin 1 .. Len(out[d])
        PROVE  out'[d][i].t = "register" /\ out'[d][i].n \in again
    <3>1. i - Len(out[d]) \in 1 .. Len(r) /\ Len(out[d]) + (i - Len(out[d])) = i
      BY <1>8, <2>1
    <3>2. out'[d][i] = r[i - Len(out[d])] BY <1>8, <3>1
    <3>3. QED BY <1>6, <3>1, <3>2
  <2>2. \A i \in 1 .. Len(out[d]) : i \in 1 .. Len(out'[d]) BY <1>8
  <2>3. QED BY <1>8, <2>1, <2>2
<1>10. TypeOK' /\ restarts # 0
  <2>1. lost' \in [Daemons -> BOOLEAN] BY <1>1 DEF TypeOK
  <2>2. TypeOK' BY <1>1, <1>8, <2>1 DEF TypeOK
  <2>3. restarts # 0 BY <1>1 DEF Registering
  <2>4. QED BY <2>2, <2>3
<1>11. BackendsPlaced' /\ OneMountPerSpec' /\ \A x \in Specs : Matches(x)' = Matches(x)
  <2>1. BackendsPlaced' BY <1>1 DEF BackendsPlaced, Active
  <2>2. QED BY <1>1, <2>1, MatchesKept
<1>12. MessagesPlaced'
  <2> SUFFICES ASSUME NEW e \in Daemons, NEW i \in 1 .. Len(out'[e])
               PROVE  /\ proc[e] \in {"up", "exited"}
                      /\ out'[e][i].t \in OfBackend =>
                           /\ out'[e][i].n \in Calls
                           /\ backend[out'[e][i].n].st \notin {"none", "sent"}
                           /\ backend[out'[e][i].n].d = e
    BY <1>1 DEF MessagesPlaced, OfBackend
  <2>1. CASE e = d /\ out'[e][i].t = "register" /\ out'[e][i].n \in again
    BY <1>1, <1>5, <2>1
  <2>2. CASE i \in 1 .. Len(out[e]) /\ out'[e][i] = out[e][i]
    BY <2>2 DEF MessagesPlaced
  <2>3. QED BY <1>9, <2>1, <2>2
<1>13. GoneIsLast'
  <2> SUFFICES ASSUME NEW e \in Daemons, NEW i \in 1 .. Len(out'[e])
               PROVE  out'[e][i] = Msg("gone", 0) <=> proc[e] = "exited" /\ i = Len(out'[e])
    BY <1>1 DEF GoneIsLast, Msg
  <2>1. CASE e # d BY <1>8, <2>1 DEF GoneIsLast
  <2>2. CASE e = d
    <3>1. CASE i \in 1 .. Len(out[e]) /\ out'[e][i] = out[e][i]
      BY <1>1, <2>2, <3>1 DEF GoneIsLast
    <3>2. CASE out'[e][i].t = "register"
      BY <1>1, <2>2, <3>2 DEF Msg
    <3>3. QED BY <1>9, <3>1, <3>2
  <2>3. QED BY <2>1, <2>2
<1>14. RegisteredOnce' /\ Registering' /\ MountsServed'
  BY <1>1, <1>10 DEF RegisteredOnce, Registering, MountsServed
<1>15. SeenSince'
  <2>1. \A x \in Specs : data'[x].st # "none" /\ Matches(x)' # {} => data'[x].seen
    BY <1>1, <1>11 DEF SeenSince
  <2>2. ASSUME NEW e \in Daemons, NEW i \in 1 .. Len(out'[e]),
               out'[e][i].t \in {"reply", "already"}
        PROVE  \A x \in Specs : data[x].st = "call" /\ data[x].call = out'[e][i].n => data[x].seen
    <3>1. i \in 1 .. Len(out[e]) /\ out'[e][i] = out[e][i]
      BY <1>9, <2>2
    <3>2. QED BY <2>2, <3>1 DEF SeenSince
  <2>3. QED BY <1>1, <2>1, <2>2 DEF SeenSince
<1>16. WaitersOwned' /\ ChildDataAlive'
  BY <1>1 DEF WaitersOwned, Waits, ChildDataAlive
<1>17. QED
  BY <1>10, <1>11, <1>12, <1>13, <1>14, <1>15, <1>16

(* Every step keeps the invariant: one case per action. *)
LEMMA NextInv ==
  ASSUME TrackerAssumption, TrackerInv, [Next]_vars
  PROVE  TrackerInv'
<1>1. ASSUME NEW c \in Callers, NEW s \in Specs, HandleLookupMount(c, s) \/ HandleMountLocation(c, s)
      PROVE  TrackerInv'
  BY <1>1, HandleLookupMountInv, HandleMountLocationInv
<1>2. ASSUME NEW there \in BOOLEAN, ReReadMountableConfig(there)
      PROVE  TrackerInv'
  BY <1>2, ReReadMountableConfigInv
<1>3. ASSUME NEW d \in Daemons, StartUp(d)
      PROVE  TrackerInv'
  BY <1>3, OnNameAcquiredInv, OnNameLostInv DEF StartUp
<1>4. ASSUME NEW d \in Daemons, Crash(d) \/ ExitAtIdle(d) \/ PermissionDenied(d) \/ ReRegister(d)
      PROVE  TrackerInv'
  BY <1>4, CrashInv, ExitAtIdleInv, PermissionDeniedInv, ReRegisterInv
<1>5. ASSUME NEW d \in Daemons, TrackerStep(d)
      PROVE  TrackerInv'
  BY <1>5, HandleSpawnedInv, HandleRefusedInv, HandleRegisterMountInv,
     HandleUnregisterMountInv, HandleMountReplyInv, NameVanishedInv DEF TrackerStep
<1>6. ASSUME NEW n \in Calls, DaemonStep(n) \/ Unmount(n) \/ MountUndelivered(n)
      PROVE  TrackerInv'
  BY <1>6, HandleMountInv, BackendMountedInv, BackendFailedInv, UnmountInv,
     MountUndeliveredInv DEF DaemonStep
<1>7. ASSUME NEW s \in Specs, MountTimeout(s)
      PROVE  TrackerInv'
  BY <1>7, MountTimeoutInv
<1>8. CASE Restart
  BY <1>8, RestartInv
<1>9. CASE UNCHANGED vars
  BY <1>9 DEF vars, procVars, TrackerInv, TypeOK, BackendsPlaced, Active, MessagesPlaced,
     OfBackend, GoneIsLast, Msg, RegisteredOnce, Registering, SeenSince, Matches, SpecOf,
     OneMountPerSpec, WaitersOwned, Waits, ChildDataAlive, MountsServed
<1>10. QED
  BY <1>1, <1>2, <1>3, <1>4, <1>5, <1>6, <1>7, <1>8, <1>9 DEF Next

(* TrackerInv holds in every reachable state of gvfsd's mount tracker.     *)
THEOREM TrackerInvariant == Spec => []TrackerInv
<1>1. Init => TrackerInv BY TrackerConstants, InitInv
<1>2. TrackerInv /\ [Next]_vars => TrackerInv' BY TrackerConstants, NextInv
<1>3. QED BY <1>1, <1>2, PTL DEF Spec

(* The variables keep their types: whatever the daemons send, gvfsd never  *)
(* makes a queue, a table or a MountData that is not one.                  *)
THEOREM TrackerTypes == Spec => []TypeOK
<1>1. TrackerInv => TypeOK BY DEF TrackerInv
<1>2. QED BY <1>1, TrackerInvariant, PTL

(* No two registered mounts have one spec, for every number of specs,      *)
(* callers and daemons, whichever daemons race (handle_register_mount).    *)
THEOREM OneMount == Spec => []OneMountPerSpec
<1>1. TrackerInv => OneMountPerSpec BY DEF TrackerInv
<1>2. QED BY <1>1, TrackerInvariant, PTL

(* A caller without an answer is in the MountData of the spec it asked for *)
(* and in no other (mountable_mount, mount_finish), through joins, spawns, *)
(* refusals, timeouts, the loss of a daemon and a restart of gvfsd.        *)
THEOREM NobodyForgotten == Spec => []WaitersOwned
<1>1. TrackerInv => WaitersOwned BY DEF TrackerInv
<1>2. QED BY <1>1, TrackerInvariant, PTL

(* The MountData that child_watch_cb was given is still waiting when the   *)
(* process never became a daemon.                                          *)
THEOREM ChildWatchSafe == Spec => []ChildDataAlive
<1>1. TrackerInv => ChildDataAlive BY DEF TrackerInv
<1>2. QED BY <1>1, TrackerInvariant, PTL

(* Until gvfsd restarts, a registered mount has a backend behind it or the *)
(* news of its end under way (dbus_client_disconnected, handle_unregister_ *)
(* mount).                                                                 *)
THEOREM MountsHaveBackends == Spec => []MountsServed
<1>1. TrackerInv => MountsServed BY DEF TrackerInv
<1>2. QED BY <1>1, TrackerInvariant, PTL

(* A mount that failed tells nobody that it succeeded. *)
LEMMA NoSuccess ==
  ASSUME NEW a \in [Callers -> Asks], NEW cs, NEW ms, NEW c \in Callers, a[c].ans = "none"
  PROVE  Answer(a, cs, FALSE, ms)[c].ans # "ok"
BY DEF Answer, Asks

(* What mountable_mount does is no news to those who wait already. *)
LEMMA AskedIsUnanswered ==
  ASSUME TypeOK, NEW c \in Callers, NEW s \in Specs, NEW how \in {"lookup", "mount"}, ~Waits(c),
         MountableMount(s, c, Asking(c, s, how)), NEW b \in Callers, Waits(b)
  PROVE  ask'[b].ans # "ok"
<1> DEFINE a == Asking(c, s, how)
<1>1. /\ a \in [Callers -> Asks] /\ a[b].ans = "none"
  <2>1. ask \in [Callers -> Asks] BY DEF TypeOK
  <2>2. b # c /\ ask[b].ans = "none" BY DEF Waits
  <2>3. [how |-> how, s |-> s, ans |-> "none"] \in Asks BY DEF Asks
  <2>4. QED BY <2>1, <2>2, <2>3 DEF Asking
<1>2. \/ ask' = a
      \/ \E cs, ms : ask' = Answer(a, cs, FALSE, ms)
  BY DEF MountableMount, CallMount, SpawnMount, MountFinish
<1> HIDE DEF a
<1>3. QED BY <1>1, <1>2, NoSuccess

(* The answer to Mount: who learns of a success waited for the spec of the *)
(* backend, which was registered in between.                               *)
LEMMA ReplyMeansRegistered ==
  ASSUME TrackerInv, NEW d \in Daemons, HandleMountReply(d), NEW b \in Callers,
         Waits(b), ask'[b].ans = "ok"
  PROVE  data[ask[b].s].seen
<1> USE DEF TrackerInv
<1> DEFINE n == Head(out[d]).n
           s == backend[n].s
<1>1. PICK t \in {"reply", "already", "fail"} :
        /\ Got(d, t)
        /\ IF data[s].st = "call" /\ data[s].call = n
           THEN MountFinish(s, data[s], ask, DbusMountReply(s, t))
           ELSE UNCHANGED <<data, ask>>
  BY DEF HandleMountReply
<1>2. ask \in [Callers -> Asks] /\ ask[b].ans = "none" /\ ask[b].s \in Specs
  BY DEF TypeOK, Waits, Asks
<1>3. data[s].st = "call" /\ data[s].call = n /\ MountFinish(s, data[s], ask, DbusMountReply(s, t))
  BY <1>1, <1>2
<1>4. ask' = Answer(ask, data[s].callers, DbusMountReply(s, t), Matches(s))
  BY <1>3 DEF MountFinish
<1>5. b \in data[s].callers /\ DbusMountReply(s, t)
  BY <1>2, <1>4 DEF Answer, Asks
<1>6. t \in {"reply", "already"} BY <1>5 DEF DbusMountReply
<1>7. out[d] \in Seq(Message) /\ out[d] # <<>> /\ Head(out[d]).t = t
  BY <1>1 DEF TypeOK, Got
<1>8. 1 \in 1 .. Len(out[d]) /\ Head(out[d]) = out[d][1]
  BY <1>7
<1>9. out[d][1].t \in {"reply", "already"} /\ n = out[d][1].n
  BY <1>6, <1>7, <1>8
<1>10. n \in Calls /\ s \in Specs
  <2>1. n \in Calls BY <1>8, <1>9 DEF MessagesPlaced, OfBackend
  <2>2. QED BY <2>1 DEF TypeOK, Backend
<1> HIDE DEF s, n
<1>11. ask[b].s = s BY <1>3, <1>5, <1>10 DEF WaitersOwned
<1>12. QED BY <1>3, <1>8, <1>9, <1>10, <1>11 DEF SeenSince

(* No other step tells a waiting caller of a success. *)
LEMMA StepMeansRegistered ==
  ASSUME TrackerInv, [Next]_vars
  PROVE  [SuccessMeansRegistered]_vars
<1> SUFFICES ASSUME Next, NEW b \in Callers, Waits(b), ask'[b].ans = "ok"
             PROVE  data[ask[b].s].seen
  BY DEF SuccessMeansRegistered
<1>1. TypeOK /\ ask \in [Callers -> Asks] /\ ask[b].ans = "none"
  BY DEF TrackerInv, TypeOK, Waits
<1>2. ASSUME NEW cs, NEW ms, ask' = Answer(ask, cs, FALSE, ms) PROVE FALSE
  BY <1>1, <1>2, NoSuccess
<1>3. ask' # ask BY <1>1
<1>4. ASSUME NEW s \in Specs, NEW f, MountFinish(s, f, ask, FALSE) PROVE FALSE
  BY <1>2, <1>4 DEF MountFinish
<1>5. ASSUME NEW s, NEW f, NEW d, CallMount(s, f, ask, d) PROVE FALSE
  BY <1>3, <1>5 DEF CallMount
<1>6. ASSUME NEW c \in Callers, NEW s \in Specs,
             HandleLookupMount(c, s) \/ HandleMountLocation(c, s)
      PROVE  FALSE
  <2>1. PICK how \in {"lookup", "mount"}, r \in {"ok", "error"} :
          /\ ~Waits(c)
          /\ Reply(c, s, how, r) \/ MountableMount(s, c, Asking(c, s, how))
    BY <1>6 DEF HandleLookupMount, HandleMountLocation
  <2>2. CASE Reply(c, s, how, r)
    <3>1. b # c BY <2>1
    <3>2. ask' = [ask EXCEPT ![c] = [how |-> how, s |-> s, ans |-> r]] BY <2>2 DEF Reply
    <3>3. QED BY <1>1, <3>1, <3>2
  <2>3. CASE MountableMount(s, c, Asking(c, s, how))
    BY <1>1, <2>1, <2>3, AskedIsUnanswered
  <2>4. QED BY <2>1, <2>2, <2>3
<1>7. ASSUME NEW d \in Daemons, PermissionDenied(d) PROVE FALSE
  BY <1>4, <1>7 DEF PermissionDenied, ChildWatchCb
<1>8. ASSUME NEW d \in Daemons, HandleSpawned(d) PROVE FALSE
  BY <1>3, <1>5, <1>8 DEF HandleSpawned
<1>9. ASSUME NEW d \in Daemons, HandleRefused(d) PROVE FALSE
  BY <1>3, <1>4, <1>5, <1>9 DEF HandleRefused, SpawnOf
<1>10. ASSUME NEW n \in Calls, MountUndelivered(n) PROVE FALSE
  <2>1. backend[n].s \in Specs BY <1>1 DEF TypeOK, Backend
  <2>2. ask' = ask \/ MountFinish(backend[n].s, data[backend[n].s], ask, FALSE)
    BY <1>10 DEF MountUndelivered
  <2>3. QED BY <1>3, <1>4, <2>1, <2>2
<1>11. ASSUME NEW s \in Specs, MountTimeout(s) PROVE FALSE
  BY <1>4, <1>11 DEF MountTimeout
<1>12. ASSUME NEW d \in Daemons, NameVanished(d) PROVE FALSE
  <2>1. \E cs : ask' = Answer(ask, cs, FALSE, {}) BY <1>12 DEF NameVanished
  <2>2. QED BY <1>2, <2>1
<1>13. ASSUME Restart PROVE FALSE
  <2>1. \E cs : ask' = Answer(ask, cs, FALSE, {}) BY <1>13 DEF Restart
  <2>2. QED BY <1>2, <2>1
<1>14. ASSUME NEW d \in Daemons, StartUp(d) \/ Crash(d) \/ ExitAtIdle(d) \/ ReRegister(d)
       PROVE  FALSE
  BY <1>3, <1>14 DEF StartUp, OnNameAcquired, OnNameLost, Crash, ExitAtIdle, Exit, ReRegister
<1>15. ASSUME NEW n \in Calls, DaemonStep(n) \/ Unmount(n) PROVE FALSE
  BY <1>3, <1>15 DEF DaemonStep, HandleMount, BackendMounted, BackendFailed, Unmount
<1>16. ASSUME NEW d \in Daemons, HandleRegisterMount(d) \/ HandleUnregisterMount(d) PROVE FALSE
  BY <1>3, <1>16 DEF HandleRegisterMount, HandleUnregisterMount
<1>17. ASSUME NEW there \in BOOLEAN, ReReadMountableConfig(there) PROVE FALSE
  BY <1>3, <1>17 DEF ReReadMountableConfig
<1>18. PICK d \in Daemons : HandleMountReply(d)
  <2> SUFFICES ASSUME \A d \in Daemons : ~HandleMountReply(d) PROVE FALSE
    OBVIOUS
  <2>1. \A d \in Daemons : ~TrackerStep(d)
    BY <1>8, <1>9, <1>12, <1>16 DEF TrackerStep
  <2>2. \A d \in Daemons : ~(StartUp(d) \/ Crash(d) \/ ExitAtIdle(d) \/ ReRegister(d))
    BY <1>14
  <2>3. \A n \in Calls : ~(DaemonStep(n) \/ Unmount(n) \/ MountUndelivered(n))
    BY <1>10, <1>15
  <2>4. \A c \in Callers, s \in Specs : ~(HandleLookupMount(c, s) \/ HandleMountLocation(c, s))
    BY <1>6
  <2>5. /\ \A d \in Daemons : ~PermissionDenied(d)
        /\ \A s \in Specs : ~MountTimeout(s)
        /\ \A there \in BOOLEAN : ~ReReadMountableConfig(there)
    BY <1>7, <1>11, <1>17
  <2>6. QED BY <1>13, <2>1, <2>2, <2>3, <2>4, <2>5 DEF Next
<1>19. QED BY <1>18, ReplyMeansRegistered

(* A caller that was waiting is told of a success only when its spec has   *)
(* been in the list of mounts since the mount was begun: dbus_mount_reply  *)
(* treats ALREADY_MOUNTED as a success, and rightly so.                    *)
THEOREM SuccessIsEarned == Spec => [][SuccessMeansRegistered]_vars
<1>1. TrackerInv /\ [Next]_vars => [SuccessMeansRegistered]_vars
  BY StepMeansRegistered
<1>2. QED BY <1>1, TrackerInvariant, PTL DEF Spec

=============================================================================
