------------------------------ MODULE ClientCalls ------------------------------
(***************************************************************************)
(* How a client process finds the daemon of a file: the cache of mounts    *)
(* (client/gdaemonvfs.c), the peer-to-peer connections kept per thread and *)
(* for asynchronous calls (client/gvfsdaemondbus.c) and the proxies of     *)
(* client/gdaemonfile.c, which try again when a cache turns out stale.     *)
(*                                                                         *)
(* One mount spec is looked at.  Every time it is mounted it gets a new    *)
(* object (number), hosted by one of the Daemons.  A daemon that dies      *)
(* closes its connections at once, gvfsd hears of it later.                *)
(***************************************************************************)
EXTENDS Naturals, FiniteSets, TLAPS

CONSTANTS Daemons,   \* daemon processes, by unique bus name
          Threads,   \* threads that make synchronous calls
          Tasks,     \* asynchronous calls of the main thread
          MaxObjs,   \* how often the spec is mounted
          MaxRuns,   \* how many calls each thread or task makes
          Shared,    \* does a daemon outlive an unmount (it hosts other mounts)?
          Sandboxed  \* is the client without access to the socket directory?

SetsAssumption == IsFiniteSet(Daemons) /\ Threads \cap Tasks = {}
BoundsAssumption ==
  /\ MaxObjs \in Nat \ {0} /\ MaxRuns \in Nat \ {0}
  /\ Shared \in BOOLEAN /\ Sandboxed \in BOOLEAN

Callers == Threads \cup Tasks
Objs    == 1 .. MaxObjs
NoDaemon == "nobody"

VARIABLES
  life,     \* Daemons -> "new", "up" or "dead"
  made,     \* the number of objects made
  host,     \* Objs -> the daemon
  home,     \* the object the spec is mounted at, 0 if at none
  reg,      \* what gvfsd's tracker says
  cache,    \* the_vfs->mount_cache: <<o, p>> if o is p or comes before it in the list
  local,    \* Threads -> Daemons -> the thread's connection
  async,    \* Daemons -> the connection in async_map
  unseen,   \* daemons whose closed async connection was not yet dispatched
  op        \* Callers -> the call under way

vars == <<life, made, host, home, reg, cache, local, async, unseen, op>>
world == <<life, made, host, home, reg>>

Conn == {"none", "open", "closed"}
Pcs  == {"idle", "lookup", "asked", "lookup2", "asked2", "connect", "getconn",
         "newconn", "call", "done"}

TypeOK ==
  /\ life \in [Daemons -> {"new", "up", "dead"}]
  /\ made \in 0 .. MaxObjs
  /\ home \in 0 .. MaxObjs /\ reg \in 0 .. MaxObjs
  /\ cache \subseteq Objs \X Objs
  /\ local \in [Threads -> [Daemons -> Conn]]
  /\ async \in [Daemons -> Conn]
  /\ unseen \subseteq Daemons
  /\ \A c \in Callers :
       /\ op[c].pc \in Pcs
       /\ op[c].obj \in 0 .. MaxObjs /\ op[c].obj2 \in 0 .. MaxObjs
       /\ op[c].reply \in 0 .. MaxObjs + 1
       /\ op[c].result \in {"none", "ok", "notmounted", "unsupported", "failed"}

Idle == [pc |-> "idle", two |-> FALSE, obj |-> 0, obj2 |-> 0,
         reply |-> MaxObjs + 1, lost |-> FALSE, bus |-> FALSE, stable |-> FALSE,
         result |-> "none", runs |-> 0]

Init ==
  /\ life = [d \in Daemons |-> "new"]
  /\ made = 0 /\ host = [o \in Objs |-> NoDaemon]
  /\ home = 0 /\ reg = 0
  /\ cache = {}
  /\ local = [t \in Threads |-> [d \in Daemons |-> "none"]]
  /\ async = [d \in Daemons |-> "none"] /\ unseen = {}
  /\ op = [c \in Callers |-> Idle]

-----------------------------------------------------------------------------
(* Mounts come and go.  A call during which they do is not stable.         *)

Unsettled == [c \in Callers |-> [op[c] EXCEPT !.stable = FALSE]]

Mount(d) ==
  /\ home = 0 /\ reg = 0 /\ made < MaxObjs
  /\ life[d] = "new" \/ (Shared /\ life[d] = "up")
  /\ life' = [life EXCEPT ![d] = "up"]
  /\ made' = made + 1
  /\ host' = [host EXCEPT ![made + 1] = d]
  /\ home' = made + 1 /\ reg' = made + 1
  /\ op' = Unsettled
  /\ UNCHANGED <<cache, local, async, unseen>>

Closed(d) ==
  /\ local' = [t \in Threads |->
                 [local[t] EXCEPT ![d] = IF @ = "open" THEN "closed" ELSE @]]
  /\ async' = [async EXCEPT ![d] = IF @ = "open" THEN "closed" ELSE @]
  /\ unseen' = IF async[d] = "open" THEN unseen \cup {d} ELSE unseen

\* The question to a daemon that goes away may get NoReply for an answer.
Interrupted(d) ==
  [c \in Callers |->
     [op[c] EXCEPT !.stable = FALSE,
                   !.lost = @ \/ (op[c].pc = "getconn" /\ host[op[c].obj] = d)]]

\* The daemon exits or crashes: its connections close.
Die(d) ==
  /\ life[d] = "up"
  /\ life' = [life EXCEPT ![d] = "dead"]
  /\ home' = IF home # 0 /\ host[home] = d THEN 0 ELSE home
  /\ op' = Interrupted(d)
  /\ Closed(d)
  /\ UNCHANGED <<made, host, reg, cache>>

\* gvfsd notices that the name is gone.
NameVanished ==
  /\ reg # 0 /\ life[host[reg]] = "dead"
  /\ reg' = 0
  /\ op' = Unsettled
  /\ UNCHANGED <<life, made, host, home, cache, local, async, unseen>>

\* The mount is gone, and a daemon that had no other goes too.
Unmount ==
  /\ home # 0
  /\ home' = 0 /\ reg' = 0
  /\ op' = IF Shared THEN Unsettled ELSE Interrupted(host[home])
  /\ IF Shared THEN UNCHANGED <<life, local, async, unseen>>
     ELSE Closed(host[home]) /\ life' = [life EXCEPT ![host[home]] = "dead"]
  /\ UNCHANGED <<made, host>>

\* Another client unmounts: this one is not told.
OthersUnmount == Unmount /\ UNCHANGED cache

-----------------------------------------------------------------------------
(* The cache.                                                              *)

Cached  == {o \in Objs : <<o, o>> \in cache}
IsHead(o) == o \in Cached /\ \A p \in Cached : <<o, p>> \in cache

\* g_list_delete_link of those in a set, g_list_prepend
Delete(objs) == cache' = {x \in cache : x[1] \notin objs /\ x[2] \notin objs}
Prepend(o) == cache' = cache \cup ({o} \X (Cached \cup {o}))

\* _g_daemon_vfs_invalidate of every mount of a process.
Invalidate(d) == Delete({o \in Objs : host[o] = d})

\* unmount_reply: this process unmounted, or a busy daemon refused.
UnmountReply == Unmount /\ Delete({home})
UnmountRefused ==
  /\ home # 0 /\ Delete({home})
  /\ UNCHANGED <<world, local, async, unseen, op>>

\* handler_lookup_mount_reply
HandlerLookupMountReply(o) ==
  IF o \in Cached THEN UNCHANGED cache ELSE Prepend(o)

\* vfs_connection_closed, from the main loop; a thread's connection has no
\* async_dbus_id and nothing is done for it.
VfsConnectionClosed(d) ==
  /\ d \in unseen
  /\ unseen' = unseen \ {d}
  /\ Invalidate(d)
  /\ async' = [async EXCEPT ![d] = "none"]
  /\ UNCHANGED <<world, local, op>>

-----------------------------------------------------------------------------
(* A call.                                                                 *)

Set(c, r)  == op' = [op EXCEPT ![c] = r]
Goto(c, p) == Set(c, [op[c] EXCEPT !.pc = p])
End(c, r)  == Set(c, [op[c] EXCEPT !.pc = "done", !.result = r])

\* create_proxy_for_file2 and create_proxy_for_file_async; copies and moves
\* name two files.
Begin(c, two) ==
  /\ op[c].pc \in {"idle", "done"} /\ op[c].runs < MaxRuns
  /\ two => c \in Threads
  /\ Set(c, [Idle EXCEPT !.pc = "lookup", !.two = two, !.runs = op[c].runs + 1,
                         !.stable = home # 0 /\ reg = home])
  /\ UNCHANGED <<world, cache, local, async, unseen>>

\* The mount of the first file, or at place second that of the second one
Found(r, o, second) ==
  IF r.pc = second THEN [r EXCEPT !.obj2 = o, !.pc = "connect"]
  ELSE [r EXCEPT !.obj = o, !.pc = IF r.two THEN "lookup2" ELSE "connect"]

\* _g_daemon_vfs_get_mount_info_sync and _async: from the cache, or from
\* gvfsd.
GetMountInfo(c) ==
  /\ op[c].pc \in {"lookup", "lookup2"}
  /\ \/ \E o \in Objs : IsHead(o) /\ Set(c, Found(op[c], o, "lookup2"))
     \/ /\ Cached = {}
        /\ Set(c, [op[c] EXCEPT !.pc = IF @ = "lookup2" THEN "asked2" ELSE "asked",
                                 !.reply = MaxObjs + 1])
  /\ UNCHANGED <<world, cache, local, async, unseen>>

\* gvfsd answers LookupMount.
GvfsdAnswers(c) ==
  /\ op[c].pc \in {"asked", "asked2"} /\ op[c].reply = MaxObjs + 1
  /\ Set(c, [op[c] EXCEPT !.reply = reg])
  /\ UNCHANGED <<world, cache, local, async, unseen>>

GetMountInfoResponse(c) ==
  /\ op[c].pc \in {"asked", "asked2"} /\ op[c].reply # MaxObjs + 1
  /\ LET o == op[c].reply IN
       IF o = 0 THEN End(c, "notmounted") /\ UNCHANGED cache
       ELSE /\ HandlerLookupMountReply(o)
            /\ Set(c, Found(op[c], o, "asked2"))
  /\ UNCHANGED <<world, local, async, unseen>>

\* Files that seem to be on different mounts.
DifferentMounts(c) ==
  /\ op[c].pc = "connect" /\ op[c].two /\ op[c].obj # op[c].obj2
  /\ End(c, "unsupported")
  /\ UNCHANGED <<world, cache, local, async, unseen>>

Ready(c) == op[c].pc = "connect" /\ (op[c].two => op[c].obj = op[c].obj2)

\* invalidate_local_connection, and the caller tries again.
Retry(c, d) ==
  /\ Invalidate(d)
  /\ local' = IF c \in Threads THEN [local EXCEPT ![c][d] = "none"] ELSE local
  /\ Set(c, [op[c] EXCEPT !.pc = "lookup", !.lost = FALSE])

\* _g_dbus_connection_get_sync, up to the question to the daemon.
ConnectionGetSync(t) ==
  /\ Ready(t)
  /\ LET d == host[op[t].obj] IN
       CASE local[t][d] = "open" -> Goto(t, "call") /\ UNCHANGED <<cache, local>>
         [] local[t][d] = "closed" -> Retry(t, d)
         [] OTHER -> Goto(t, "getconn") /\ UNCHANGED <<cache, local>>
  /\ UNCHANGED <<world, async, unseen>>

\* _g_dbus_connection_get_for_async; the entry of async_map stays.
ConnectionGetForAsync(c) ==
  /\ Ready(c)
  /\ LET d == host[op[c].obj] IN
       CASE async[d] = "open" -> Goto(c, "call") /\ UNCHANGED <<cache, local>>
         [] async[d] = "closed" -> Retry(c, d)
         [] OTHER -> Goto(c, "getconn") /\ UNCHANGED <<cache, local>>
  /\ UNCHANGED <<world, async, unseen>>

\* The session bus instead of a connection of one's own.
FallBack(c) == Set(c, [op[c] EXCEPT !.pc = "call", !.bus = TRUE])

\* GetConnection, if the socket directory can be written; a name nobody owns
\* makes the caches stale.
GetConnection_NoInvalidate(c) ==
  /\ op[c].pc = "getconn"
  /\ LET d == host[op[c].obj] IN
       IF Sandboxed \/ life[d] # "up" THEN FallBack(c) /\ UNCHANGED <<cache, local>>
       ELSE Goto(c, "newconn") /\ UNCHANGED <<cache, local>>
  /\ UNCHANGED <<world, async, unseen>>

GetConnection(c) ==
  /\ op[c].pc = "getconn"
  /\ LET d == host[op[c].obj] IN
       \/ /\ Sandboxed \/ op[c].lost
          /\ FallBack(c) /\ UNCHANGED <<cache, local>>
       \/ ~Sandboxed /\ life[d] # "up" /\ Retry(c, d)
       \/ ~Sandboxed /\ life[d] = "up" /\ Goto(c, "newconn") /\ UNCHANGED <<cache, local>>
  /\ UNCHANGED <<world, async, unseen>>

\* The connection is made and kept in the thread's table.
NewConnectionSync(t) ==
  /\ op[t].pc = "newconn"
  /\ LET d == host[op[t].obj] IN
       IF life[d] = "up"
       THEN /\ local' = [local EXCEPT ![t][d] = "open"]
            /\ Goto(t, "call")
       ELSE FallBack(t) /\ UNCHANGED local
  /\ UNCHANGED <<world, cache, async, unseen>>

\* async_got_private_connection_cb: one that was made in parallel is used
\* instead.
GotPrivateConnection(c) ==
  /\ op[c].pc = "newconn"
  /\ LET d == host[op[c].obj] IN
       IF life[d] = "up"
       THEN /\ async' = [async EXCEPT ![d] = IF @ = "none" THEN "open" ELSE @]
            /\ Goto(c, "call")
       ELSE FallBack(c) /\ UNCHANGED async
  /\ UNCHANGED <<world, cache, local, unseen>>

\* The call itself, on the connection or through the bus.
Call(c) ==
  /\ op[c].pc = "call"
  /\ End(c, IF home = op[c].obj THEN "ok" ELSE "failed")
  /\ UNCHANGED <<world, cache, local, async, unseen>>

Step(c) ==
  \/ GetMountInfo(c)
  \/ GvfsdAnswers(c)
  \/ GetMountInfoResponse(c)
  \/ DifferentMounts(c)
  \/ c \in Threads /\ ConnectionGetSync(c)
  \/ c \in Tasks /\ ConnectionGetForAsync(c)
  \/ GetConnection(c)
  \/ c \in Threads /\ NewConnectionSync(c)
  \/ c \in Tasks /\ GotPrivateConnection(c)
  \/ Call(c)

Next ==
  \/ \E d \in Daemons : Mount(d)
  \/ \E d \in Daemons : Die(d)
  \/ NameVanished
  \/ OthersUnmount
  \/ UnmountReply \/ UnmountRefused
  \/ \E d \in Daemons : VfsConnectionClosed(d)
  \/ \E c \in Callers, two \in BOOLEAN : Begin(c, two)
  \/ \E c \in Callers : Step(c)

Spec == Init /\ [][Next]_vars

-----------------------------------------------------------------------------
(* Properties                                                              *)

\* A call on a mount that is there and known to gvfsd from the beginning of
\* the call to its end succeeds, whatever the caches held before.
StableMountWorks ==
  \A c \in Callers : op[c].pc = "done" /\ op[c].stable =>
    op[c].result = "ok" \/ (op[c].two /\ op[c].result = "unsupported")

\* async_map holds a connection only to a daemon that lives or whose end the
\* main loop is still to learn of.
AsyncMapFresh ==
  \A d \in Daemons : async[d] # "none" => life[d] = "up" \/ d \in unseen

\* A call on a mount that is there finds it, whatever the caches held before;
\* no connection to a dead daemon is kept for good.
MountsAreReached == StableMountWorks /\ AsyncMapFresh

-----------------------------------------------------------------------------
(* What holds between the steps.                                           *)

Assumptions == SetsAssumption /\ BoundsAssumption

(* A daemon that has one mount only, and a client that can reach its       *)
(* socket: only then a daemon that runs has the mount a cache says it has. *)
OwnDaemons == Assumptions /\ ~Shared /\ ~Sandboxed

CallRec ==
  [pc : Pcs, two : BOOLEAN, obj : Nat, obj2 : Nat, reply : Nat,
   lost : BOOLEAN, bus : BOOLEAN, stable : BOOLEAN,
   result : {"none", "ok", "notmounted", "unsupported", "failed"}, runs : Nat]

Made == 1 .. made

(* A call has been told of mounts that were made. *)
CallKnows(r) ==
  /\ r.obj \in 0 .. made /\ r.obj2 \in 0 .. made
  /\ r.reply \in 0 .. made \/ r.reply = MaxObjs + 1
  /\ r.pc \in {"lookup2", "asked2", "connect", "getconn", "newconn", "call"} => r.obj # 0

(* The mount is in a daemon that runs, and nobody knows of others. *)
WorldInv ==
  /\ life \in [Daemons -> {"new", "up", "dead"}]
  /\ made \in 0 .. MaxObjs /\ home \in 0 .. made /\ reg \in 0 .. made
  /\ DOMAIN host = Objs
  /\ \A o \in Made : host[o] \in Daemons /\ life[host[o]] # "new"
  /\ home # 0 => life[host[home]] = "up"
  /\ cache \subseteq Made \X Made

(* A connection that is kept is open to a daemon that runs; the end of one *)
(* in async_map is known to the main loop or waits for it.                 *)
ConnsInv ==
  /\ local \in [Threads -> [Daemons -> Conn]]
  /\ async \in [Daemons -> Conn] /\ unseen \subseteq Daemons
  /\ \A t \in Threads, d \in Daemons : local[t][d] = "open" => life[d] = "up"
  /\ \A d \in Daemons : async[d] = "open" => life[d] = "up"
  /\ \A d \in Daemons : async[d] = "closed" => d \in unseen

OpsTyped == op \in [Callers -> CallRec]

ClientInv ==
  /\ WorldInv /\ ConnsInv /\ OpsTyped
  /\ \A c \in Callers : CallKnows(op[c])

(* While the mount stays, what a call finds out is true of it. *)
CallOnTrack(r) ==
  r.stable =>
    /\ home # 0 /\ reg = home /\ ~r.lost
    /\ r.pc \in {"asked", "asked2"} => r.reply = MaxObjs + 1 \/ r.reply = home
    /\ r.pc = "newconn" => life[host[r.obj]] = "up"
    /\ r.pc = "call" => r.obj = home
    /\ r.pc = "done" => r.result = "ok" \/ (r.two /\ r.result = "unsupported")

OneMountEach == \A o \in Made : life[host[o]] = "up" => o = home

TrackInv ==
  /\ OneMountEach
  /\ \A c \in Callers : CallOnTrack(op[c])

-----------------------------------------------------------------------------
(* What a call may be replaced by                                          *)

(* One call goes on and the others stay. *)
LEMMA SetOps ==
  ASSUME OpsTyped, \A c \in Callers : CallKnows(op[c]),
         NEW c \in Callers, NEW r \in CallRec, CallKnows(r), Set(c, r), made' = made
  PROVE  OpsTyped' /\ \A b \in Callers : CallKnows(op[b])'
<1>1. op' = [op EXCEPT ![c] = r]
  BY DEF Set
<1>2. OpsTyped' /\ \A b \in Callers : op'[b] = IF b = c THEN r ELSE op[b]
  BY <1>1 DEF OpsTyped
<1>3. ASSUME NEW b \in Callers PROVE CallKnows(op[b])'
  BY <1>2 DEF CallKnows
<1> QED
  BY <1>2, <1>3

(* The same, for what is true while the mount stays *)
LEMMA SetTracks ==
  ASSUME OpsTyped, \A c \in Callers : CallOnTrack(op[c]),
         NEW c \in Callers, NEW r \in CallRec, CallOnTrack(r), Set(c, r), UNCHANGED world
  PROVE  \A b \in Callers : CallOnTrack(op[b])'
<1>1. \A b \in Callers : op'[b] = IF b = c THEN r ELSE op[b]
  BY DEF Set, OpsTyped
<1>2. ASSUME NEW b \in Callers PROVE CallOnTrack(op[b])'
  BY <1>1 DEF CallOnTrack, world
<1> QED
  BY <1>2

(* Mounts come and go: no call is stable any more. *)
LEMMA UnsettledOps ==
  ASSUME OpsTyped, \A c \in Callers : CallKnows(op[c]),
         op' = Unsettled \/ \E d \in Daemons : op' = Interrupted(d),
         made \in Nat, made' \in Nat, made <= made'
  PROVE  /\ OpsTyped'
         /\ \A c \in Callers : CallKnows(op[c])' /\ ~op'[c].stable
<1>1. ASSUME NEW c \in Callers
      PROVE  /\ op'[c] \in CallRec /\ ~op'[c].stable /\ op'[c].pc = op[c].pc
             /\ op'[c].obj = op[c].obj /\ op'[c].obj2 = op[c].obj2 /\ op'[c].reply = op[c].reply
  <2> DEFINE r == op[c]
  <2>1. r \in CallRec
    BY DEF OpsTyped
  <2>2. op'[c] = [r EXCEPT !.stable = FALSE]
        \/ \E l \in BOOLEAN : op'[c] = [r EXCEPT !.stable = FALSE, !.lost = l]
    <3>1. CASE op' = Unsettled
      BY <3>1 DEF Unsettled
    <3>2. ASSUME NEW d \in Daemons, op' = Interrupted(d)
          PROVE  \E l \in BOOLEAN : op'[c] = [r EXCEPT !.stable = FALSE, !.lost = l]
      <4>1. (r.lost \/ (r.pc = "getconn" /\ host[r.obj] = d)) \in BOOLEAN
        OBVIOUS
      <4>2. op'[c] = [r EXCEPT !.stable = FALSE,
                               !.lost = r.lost \/ (r.pc = "getconn" /\ host[r.obj] = d)]
        BY <3>2 DEF Interrupted
      <4> QED
        BY <4>1, <4>2
    <3> QED
      BY <3>1, <3>2
  <2> HIDE DEF r
  <2>3. /\ op'[c] \in CallRec /\ ~op'[c].stable /\ op'[c].pc = r.pc
        /\ op'[c].obj = r.obj /\ op'[c].obj2 = r.obj2 /\ op'[c].reply = r.reply
    BY <2>1, <2>2 DEF CallRec
  <2> QED
    BY <2>3 DEF r
<1>2. DOMAIN op' = Callers /\ \E f : op' = [c \in Callers |-> f[c]]
  BY DEF Unsettled, Interrupted
<1>3. OpsTyped'
  BY <1>1, <1>2 DEF OpsTyped
<1>4. ASSUME NEW c \in Callers PROVE CallKnows(op[c])'
  <2>1. CallKnows(op[c]) /\ 0 .. made \subseteq 0 .. made'
    OBVIOUS
  <2> QED
    BY <1>1, <2>1 DEF CallKnows
<1> QED
  BY <1>1, <1>3, <1>4

(* The first state *)
LEMMA ClientInit ==
  ASSUME Assumptions, Init
  PROVE  ClientInv /\ TrackInv
<1> USE DEF Assumptions, SetsAssumption, BoundsAssumption
<1>1. WorldInv /\ ConnsInv
  BY DEF Init, WorldInv, ConnsInv, Conn, Made
<1>2. Idle \in CallRec /\ CallKnows(Idle) /\ CallOnTrack(Idle)
  BY DEF Init, Idle, CallRec, Pcs, CallKnows, CallOnTrack
<1>3. OpsTyped /\ \A c \in Callers : op[c] = Idle
  BY <1>2 DEF Init, OpsTyped
<1>4. OneMountEach
  BY DEF Init, OneMountEach, Made
<1> QED
  BY <1>1, <1>2, <1>3, <1>4 DEF ClientInv, TrackInv

(* The connections to a daemon that goes away close. *)
LEMMA ClosedKeeps ==
  ASSUME ConnsInv, life \in [Daemons -> {"new", "up", "dead"}],
         NEW d \in Daemons, Closed(d), life' = [life EXCEPT ![d] = "dead"]
  PROVE  ConnsInv'
<1>1. \A e \in Daemons : e # d => life'[e] = life[e]
  OBVIOUS
<1>2. local' \in [Threads -> [Daemons -> Conn]]
  BY DEF Closed, ConnsInv, Conn
<1>3. \A t \in Threads, e \in Daemons :
        local'[t][e] = IF e = d /\ local[t][e] = "open" THEN "closed" ELSE local[t][e]
  BY DEF Closed, ConnsInv
<1>4. async' \in [Daemons -> Conn] /\ unseen' \subseteq Daemons /\ unseen \subseteq unseen'
  BY DEF Closed, ConnsInv, Conn
<1>5. \A e \in Daemons :
        async'[e] = IF e = d /\ async[e] = "open" THEN "closed" ELSE async[e]
  BY DEF Closed, ConnsInv
<1>6. \A e \in Daemons : async'[e] = "closed" => e \in unseen'
  BY <1>4, <1>5 DEF Closed, ConnsInv
<1>7. \A t \in Threads, e \in Daemons : local'[t][e] = "open" => life'[e] = "up"
  BY <1>1, <1>3 DEF ConnsInv
<1>8. \A e \in Daemons : async'[e] = "open" => life'[e] = "up"
  BY <1>1, <1>5 DEF ConnsInv
<1> QED
  BY <1>2, <1>4, <1>6, <1>7, <1>8 DEF ConnsInv

(* A daemon mounts the spec. *)
LEMMA MountKeeps ==
  ASSUME Assumptions, ClientInv, NEW d \in Daemons, Mount(d)
  PROVE  ClientInv' /\ (OwnDaemons /\ TrackInv => TrackInv')
<1> USE DEF Assumptions, BoundsAssumption
<1>0. /\ home = 0 /\ made < MaxObjs /\ made \in Nat
      /\ life' = [life EXCEPT ![d] = "up"] /\ made' = made + 1
      /\ host' = [host EXCEPT ![made + 1] = d] /\ home' = made + 1 /\ reg' = made + 1
      /\ op' = Unsettled /\ UNCHANGED <<cache, local, async, unseen>>
  BY DEF Mount, ClientInv, WorldInv
<1>1. /\ OpsTyped'
      /\ \A c \in Callers : CallKnows(op[c])' /\ ~op'[c].stable
  BY <1>0, UnsettledOps DEF ClientInv
<1>2. \A o \in Made' : IF o = made + 1 THEN host'[o] = d ELSE o \in Made /\ host'[o] = host[o]
  BY <1>0 DEF ClientInv, WorldInv, Made, Objs
<1>3. \A e \in Daemons : life'[e] = IF e = d THEN "up" ELSE life[e]
  BY <1>0 DEF ClientInv, WorldInv
<1>4. WorldInv'
  <2>1. life' \in [Daemons -> {"new", "up", "dead"}] /\ made' \in 0 .. MaxObjs
        /\ home' \in 0 .. made' /\ reg' \in 0 .. made' /\ DOMAIN host' = Objs
    BY <1>0 DEF ClientInv, WorldInv
  <2>2. \A o \in Made' : host'[o] \in Daemons /\ life'[host'[o]] # "new"
    BY <1>2, <1>3 DEF ClientInv, WorldInv
  <2>3. home' \in Made' /\ host'[home'] = d
    BY <1>0, <1>2 DEF Made
  <2>4. Made \subseteq Made'
    BY <1>0 DEF Made
  <2>5. cache' \subseteq Made' \X Made'
    BY <2>4, <1>0 DEF ClientInv, WorldInv
  <2>6. life'[host'[home']] = "up"
    BY <2>3, <1>3
  <2> QED
    BY <2>1, <2>2, <2>5, <2>6 DEF WorldInv
<1>5. ConnsInv'
  BY <1>0, <1>3 DEF ClientInv, ConnsInv
<1>6. OwnDaemons /\ TrackInv => OneMountEach'
  <2>1. OwnDaemons => life[d] = "new"
    BY DEF Mount, OwnDaemons
  <2>2. OneMountEach => \A o \in Made : life[host[o]] # "up"
    BY <1>0 DEF OneMountEach, Made
  <2> QED
    BY <2>1, <2>2, <1>0, <1>2, <1>3 DEF OneMountEach, TrackInv, ClientInv, WorldInv
<1> QED
  BY <1>1, <1>4, <1>5, <1>6 DEF ClientInv, TrackInv, CallOnTrack

(* A daemon dies. *)
LEMMA DieKeeps ==
  ASSUME Assumptions, ClientInv, NEW d \in Daemons, Die(d)
  PROVE  ClientInv' /\ (TrackInv => TrackInv')
<1> USE DEF Assumptions, BoundsAssumption
<1>0. /\ life[d] = "up" /\ life' = [life EXCEPT ![d] = "dead"]
      /\ home' = IF home # 0 /\ host[home] = d THEN 0 ELSE home
      /\ op' = Interrupted(d) /\ Closed(d) /\ UNCHANGED <<made, host, reg, cache>>
      /\ made \in Nat
  BY DEF Die, ClientInv, WorldInv
<1>1. /\ OpsTyped'
      /\ \A c \in Callers : CallKnows(op[c])' /\ ~op'[c].stable
  BY <1>0, UnsettledOps DEF ClientInv
<1>2. \A e \in Daemons : life'[e] = IF e = d THEN "dead" ELSE life[e]
  BY <1>0 DEF ClientInv, WorldInv
<1>3. WorldInv'
  <2>1. life' \in [Daemons -> {"new", "up", "dead"}] /\ home' \in 0 .. made
    BY <1>0 DEF ClientInv, WorldInv
  <2>2. \A o \in Made : host[o] \in Daemons /\ life'[host[o]] # "new"
    BY <1>2 DEF ClientInv, WorldInv
  <2>3. home' # 0 => life'[host[home']] = "up"
    <3>1. home # 0 => host[home] \in Daemons
      BY DEF ClientInv, WorldInv, Made
    <3> QED
      BY <3>1, <1>0, <1>2 DEF ClientInv, WorldInv
  <2> QED
    BY <2>1, <2>2, <2>3, <1>0 DEF ClientInv, WorldInv, Made
<1>4. ConnsInv'
  BY <1>0, ClosedKeeps DEF ClientInv, WorldInv
<1>5. TrackInv => OneMountEach'
  BY <1>0, <1>2 DEF TrackInv, OneMountEach, ClientInv, WorldInv, Made
<1> QED
  BY <1>1, <1>3, <1>4, <1>5 DEF ClientInv, TrackInv, CallOnTrack

(* gvfsd notices that the daemon is gone. *)
LEMMA ForgottenKeeps ==
  ASSUME Assumptions, ClientInv, NameVanished
  PROVE  ClientInv' /\ (OwnDaemons /\ TrackInv => TrackInv')
<1> USE DEF Assumptions, BoundsAssumption
<1>0. /\ reg' = 0 /\ op' = Unsettled /\ made \in Nat
      /\ UNCHANGED <<life, made, host, home, cache, local, async, unseen>>
  BY DEF NameVanished, ClientInv, WorldInv
<1>1. /\ OpsTyped'
      /\ \A c \in Callers : CallKnows(op[c])' /\ ~op'[c].stable
  BY <1>0, UnsettledOps DEF ClientInv
<1>2. WorldInv' /\ ConnsInv'
  BY <1>0 DEF ClientInv, WorldInv, ConnsInv, Made
<1>3. OwnDaemons /\ TrackInv => OneMountEach'
  BY <1>0 DEF TrackInv, OneMountEach, Made
<1> QED
  BY <1>1, <1>2, <1>3 DEF ClientInv, TrackInv, CallOnTrack

(* What is left of the cache are mounts that were made. *)
LEMMA DeleteKeeps ==
  ASSUME cache \subseteq Made \X Made, NEW objs, Delete(objs)
  PROVE  cache' \subseteq Made \X Made
BY DEF Delete

(* This process unmounts, or another one. *)
LEMMA UnmountKeeps ==
  ASSUME Assumptions, ClientInv, OthersUnmount \/ UnmountReply
  PROVE  ClientInv' /\ (OwnDaemons /\ TrackInv => TrackInv')
<1> USE DEF Assumptions, BoundsAssumption
<1> DEFINE d == host[home]
<1>0. /\ home # 0 /\ home \in Made /\ home' = 0 /\ reg' = 0 /\ made \in Nat /\ d \in Daemons
      /\ UNCHANGED cache \/ Delete({home})
      /\ UNCHANGED <<made, host>>
      /\ op' = Unsettled \/ op' = Interrupted(d)
      /\ IF Shared THEN UNCHANGED <<life, local, async, unseen>>
         ELSE Closed(d) /\ life' = [life EXCEPT ![d] = "dead"]
  BY DEF OthersUnmount, UnmountReply, Unmount, ClientInv, WorldInv, Made
<1> HIDE DEF d
<1>1. /\ OpsTyped'
      /\ \A c \in Callers : CallKnows(op[c])' /\ ~op'[c].stable
  BY <1>0, UnsettledOps DEF ClientInv
<1>2. cache' \subseteq Made \X Made
  BY <1>0, DeleteKeeps DEF ClientInv, WorldInv
<1>3. CASE Shared
  <2>1. WorldInv' /\ ConnsInv'
    BY <1>0, <1>2, <1>3 DEF ClientInv, WorldInv, ConnsInv, Made
  <2> QED
    BY <2>1, <1>1, <1>3 DEF ClientInv, OwnDaemons
<1>4. CASE ~Shared
  <2>1. \A e \in Daemons : life'[e] = IF e = d THEN "dead" ELSE life[e]
    BY <1>0, <1>4 DEF ClientInv, WorldInv
  <2>2. ConnsInv'
    BY <1>0, <1>4, ClosedKeeps DEF ClientInv, WorldInv
  <2>3. life' \in [Daemons -> {"new", "up", "dead"}]
    BY <1>0, <1>4 DEF ClientInv, WorldInv
  <2>4. \A o \in Made : host[o] \in Daemons /\ life'[host[o]] # "new"
    BY <2>1 DEF ClientInv, WorldInv
  <2>5. WorldInv'
    BY <2>3, <2>4, <1>0, <1>2 DEF ClientInv, WorldInv, Made
  <2>6. TrackInv => OneMountEach'
    <3>1. Made' = Made /\ host' = host
      BY <1>0 DEF Made
    <3>2. ASSUME OneMountEach, NEW o \in Made, life'[host[o]] = "up" PROVE FALSE
      <4>1. host[o] # d /\ life[host[o]] = "up"
        BY <2>1, <3>2 DEF ClientInv, WorldInv
      <4> QED
        BY <4>1, <3>2 DEF OneMountEach, d
    <3> QED
      BY <3>1, <3>2 DEF TrackInv, OneMountEach
  <2> QED
    BY <2>2, <2>5, <2>6, <1>1 DEF ClientInv, TrackInv, CallOnTrack
<1> QED
  BY <1>3, <1>4

(* An unmount that is refused empties the cache all the same. *)
LEMMA RefusedKeeps ==
  ASSUME Assumptions, ClientInv, UnmountRefused
  PROVE  ClientInv' /\ (TrackInv => TrackInv')
<1>0. /\ UNCHANGED <<life, made, host, home, reg, local, async, unseen, op>>
      /\ cache' \subseteq Made \X Made
  BY DeleteKeeps DEF UnmountRefused, world, ClientInv, WorldInv
<1>1. WorldInv' /\ ConnsInv'
  BY <1>0 DEF ClientInv, WorldInv, ConnsInv, Made
<1>2. OpsTyped' /\ \A c \in Callers : CallKnows(op[c])'
  BY <1>0 DEF ClientInv, OpsTyped, CallKnows
<1>3. TrackInv => TrackInv'
  BY <1>0 DEF TrackInv, OneMountEach, CallOnTrack, Made
<1> QED
  BY <1>1, <1>2, <1>3 DEF ClientInv

(* The main loop learns that a connection closed. *)
LEMMA VfsConnectionClosedKeeps ==
  ASSUME Assumptions, ClientInv, NEW d \in Daemons, VfsConnectionClosed(d)
  PROVE  ClientInv' /\ (TrackInv => TrackInv')
<1>0. /\ unseen' = unseen \ {d} /\ async' = [async EXCEPT ![d] = "none"]
      /\ UNCHANGED <<life, made, host, home, reg, local, op>>
      /\ cache' \subseteq Made \X Made
  BY DeleteKeeps DEF VfsConnectionClosed, world, Invalidate, ClientInv, WorldInv
<1>1. WorldInv' /\ ConnsInv'
  BY <1>0 DEF ClientInv, WorldInv, ConnsInv, Conn, Made
<1>2. OpsTyped' /\ \A c \in Callers : CallKnows(op[c])'
  BY <1>0 DEF ClientInv, OpsTyped, CallKnows
<1>3. TrackInv => TrackInv'
  BY <1>0 DEF TrackInv, OneMountEach, CallOnTrack, Made
<1> QED
  BY <1>1, <1>2, <1>3 DEF ClientInv

-----------------------------------------------------------------------------
(* The steps of a call                                                     *)

(* A step that leaves the daemons alone keeps the invariants if they hold  *)
(* of what becomes of its call, of the connections and of the cache.       *)
LEMMA CallStep ==
  ASSUME Assumptions, ClientInv, NEW c \in Callers, NEW r, Set(c, r), UNCHANGED world,
         r \in CallRec, CallKnows(r), ConnsInv', cache' \subseteq Made \X Made
  PROVE  ClientInv' /\ (TrackInv /\ CallOnTrack(r) => TrackInv')
<1>1. OpsTyped' /\ \A b \in Callers : CallKnows(op[b])'
  BY SetOps DEF ClientInv, world
<1>2. WorldInv'
  BY DEF ClientInv, WorldInv, Made, world
<1>3. OneMountEach => OneMountEach'
  BY DEF OneMountEach, Made, world
<1>4. TrackInv /\ CallOnTrack(r) => \A b \in Callers : CallOnTrack(op[b])'
  BY SetTracks DEF TrackInv, ClientInv
<1> QED
  BY <1>1, <1>2, <1>3, <1>4 DEF ClientInv, TrackInv

(* Connections and cache stay. *)
LEMMA ConnsKept ==
  ASSUME ClientInv, UNCHANGED <<world, local, async, unseen>>
  PROVE  ConnsInv'
BY DEF ClientInv, ConnsInv, world

(* A call moves on, or ends. *)
LEMMA MovedOn ==
  ASSUME NEW r \in CallRec, CallKnows(r), NEW p \in Pcs, r.obj # 0 \/ p \in {"lookup", "asked", "done"}
  PROVE  [r EXCEPT !.pc = p] \in CallRec /\ CallKnows([r EXCEPT !.pc = p])
BY DEF CallRec, CallKnows

(* The end of a call *)
LEMMA Ended ==
  ASSUME NEW r \in CallRec, CallKnows(r),
         NEW x \in {"ok", "notmounted", "unsupported", "failed"}
  PROVE  /\ [r EXCEPT !.pc = "done", !.result = x] \in CallRec
         /\ CallKnows([r EXCEPT !.pc = "done", !.result = x])
         /\ CallOnTrack(r) /\ (r.stable => x = "ok" \/ (r.two /\ x = "unsupported"))
              => CallOnTrack([r EXCEPT !.pc = "done", !.result = x])
BY DEF CallRec, CallKnows, CallOnTrack, Pcs

(* A call begins. *)
LEMMA BeginKeeps ==
  ASSUME Assumptions, ClientInv, NEW c \in Callers, NEW two \in BOOLEAN, Begin(c, two)
  PROVE  ClientInv' /\ (TrackInv => TrackInv')
<1> USE DEF Assumptions, BoundsAssumption
<1> DEFINE k == op[c].runs + 1
           s == home # 0 /\ reg = home
           r == [Idle EXCEPT !.pc = "lookup", !.two = two, !.runs = k, !.stable = s]
<1>1. k \in Nat /\ s \in BOOLEAN
  BY DEF ClientInv, OpsTyped, CallRec
<1>2. Set(c, r) /\ UNCHANGED <<world, cache, local, async, unseen>>
  BY DEF Begin
<1>3. made \in Nat /\ MaxObjs \in Nat
  BY DEF ClientInv, WorldInv
<1>4. /\ Idle \in CallRec /\ ~Idle.lost /\ Idle.obj = 0 /\ Idle.obj2 = 0
      /\ Idle.reply = MaxObjs + 1
  BY <1>3 DEF Idle, CallRec, Pcs
<1>5. /\ r \in CallRec /\ ~r.lost /\ r.pc = "lookup" /\ r.obj = 0 /\ r.obj2 = 0
      /\ r.reply = MaxObjs + 1
      /\ r.stable => home # 0 /\ reg = home
  <2> HIDE DEF k, s
  <2>1. /\ r \in CallRec /\ r.lost = Idle.lost /\ r.pc = "lookup" /\ r.obj = Idle.obj
        /\ r.obj2 = Idle.obj2 /\ r.reply = Idle.reply /\ r.stable = s
    BY <1>1, <1>4 DEF CallRec, Pcs
  <2> HIDE DEF r
  <2> QED
    BY <1>4, <2>1 DEF s
<1>6. CallKnows(r) /\ CallOnTrack(r)
  <2> HIDE DEF r
  <2> QED
    BY <1>3, <1>5 DEF CallKnows, CallOnTrack
<1>7. ConnsInv' /\ cache' \subseteq Made \X Made
  BY <1>2, ConnsKept DEF ClientInv, WorldInv
<1> HIDE DEF r
<1> QED
  BY <1>2, <1>5, <1>6, <1>7, CallStep

(* The cache or gvfsd tells of a mount. *)
LEMMA FoundKeeps ==
  ASSUME NEW r \in CallRec, CallKnows(r), NEW o \in Made, made \in Nat,
         NEW q, q \in {"lookup2", "asked2"}, r.pc \in {"lookup", "asked", q}
  PROVE  /\ Found(r, o, q) \in CallRec /\ CallKnows(Found(r, o, q))
         /\ CallOnTrack(r) => CallOnTrack(Found(r, o, q))
<1>1. o \in Nat /\ o # 0 /\ o \in 0 .. made
  BY DEF Made
<1>2. CASE r.pc = q
  <2> DEFINE n == [r EXCEPT !.obj2 = o, !.pc = "connect"]
  <2>1. Found(r, o, q) = n
    BY <1>2 DEF Found
  <2>2. n \in CallRec /\ n.pc = "connect" /\ n.obj2 = o /\ n.obj = r.obj /\ n.reply = r.reply
        /\ n.stable = r.stable /\ n.lost = r.lost
    BY <1>1 DEF CallRec, Pcs
  <2>3. r.obj # 0
    BY <1>2 DEF CallKnows
  <2> HIDE DEF n
  <2> QED
    BY <1>1, <2>1, <2>2, <2>3 DEF CallKnows, CallOnTrack
<1>3. CASE r.pc # q
  <2> DEFINE p == IF r.two THEN "lookup2" ELSE "connect"
             n == [r EXCEPT !.obj = o, !.pc = p]
  <2>0. p \in {"lookup2", "connect"}
    OBVIOUS
  <2>1. Found(r, o, q) = n
    BY <1>3 DEF Found
  <2> HIDE DEF p
  <2>2. n \in CallRec /\ n.pc = p /\ n.obj2 = r.obj2 /\ n.obj = o /\ n.reply = r.reply
        /\ n.stable = r.stable /\ n.lost = r.lost
    BY <1>1, <2>0 DEF CallRec, Pcs
  <2> HIDE DEF n
  <2> QED
    BY <1>1, <2>0, <2>1, <2>2 DEF CallKnows, CallOnTrack
<1> QED
  BY <1>2, <1>3

(* What holds of the call that takes a step *)
LEMMA OfCall ==
  ASSUME ClientInv, NEW c \in Callers
  PROVE  op[c] \in CallRec /\ CallKnows(op[c]) /\ (TrackInv => CallOnTrack(op[c]))
BY DEF ClientInv, OpsTyped, TrackInv

(* The mount is looked up in the cache, or gvfsd is asked. *)
LEMMA GetMountInfoKeeps ==
  ASSUME Assumptions, ClientInv, NEW c \in Callers, GetMountInfo(c)
  PROVE  ClientInv' /\ (TrackInv => TrackInv')
<1> USE DEF Assumptions, BoundsAssumption
<1> DEFINE r == op[c]
<1>1. r \in CallRec /\ CallKnows(r) /\ (TrackInv => CallOnTrack(r)) /\ made \in Nat
  BY OfCall DEF ClientInv, WorldInv
<1>2. /\ r.pc \in {"lookup", "lookup2"} /\ UNCHANGED <<world, cache, local, async, unseen>>
      /\ \/ \E o \in Objs : IsHead(o) /\ Set(c, Found(r, o, "lookup2"))
         \/ Set(c, [r EXCEPT !.pc = IF @ = "lookup2" THEN "asked2" ELSE "asked",
                             !.reply = MaxObjs + 1])
  BY DEF GetMountInfo
<1> HIDE DEF r
<1>3. ConnsInv' /\ cache' \subseteq Made \X Made
  BY <1>2, ConnsKept DEF ClientInv, WorldInv
<1>4. ASSUME NEW o \in Objs, IsHead(o), Set(c, Found(r, o, "lookup2"))
      PROVE  ClientInv' /\ (TrackInv => TrackInv')
  <2>1. o \in Made
    BY <1>4 DEF IsHead, Cached, ClientInv, WorldInv
  <2>2. /\ Found(r, o, "lookup2") \in CallRec /\ CallKnows(Found(r, o, "lookup2"))
        /\ CallOnTrack(r) => CallOnTrack(Found(r, o, "lookup2"))
    BY <2>1, <1>1, <1>2, FoundKeeps
  <2> QED
    BY <2>2, <1>1, <1>2, <1>3, <1>4, CallStep
<1>5. CASE Set(c, [r EXCEPT !.pc = IF @ = "lookup2" THEN "asked2" ELSE "asked",
                            !.reply = MaxObjs + 1])
  <2> DEFINE p == IF r.pc = "lookup2" THEN "asked2" ELSE "asked"
             n == [r EXCEPT !.pc = p, !.reply = MaxObjs + 1]
  <2>1. Set(c, n)
    BY <1>5, <1>1 DEF CallRec
  <2>2. p \in {"asked", "asked2"} /\ (p = "asked2" => r.obj # 0)
    BY <1>1 DEF CallKnows
  <2>0. MaxObjs + 1 \in Nat
    OBVIOUS
  <2> HIDE DEF p
  <2>3. n \in CallRec /\ n.pc = p /\ n.obj = r.obj /\ n.obj2 = r.obj2 /\ n.reply = MaxObjs + 1
        /\ n.stable = r.stable /\ n.lost = r.lost
    BY <1>1, <2>0, <2>2 DEF CallRec, Pcs
  <2> HIDE DEF n
  <2>4. CallKnows(n) /\ (CallOnTrack(r) => CallOnTrack(n))
    BY <1>1, <2>2, <2>3 DEF CallKnows, CallOnTrack
  <2> QED
    BY <2>1, <2>3, <2>4, <1>1, <1>2, <1>3, CallStep
<1> QED
  BY <1>2, <1>4, <1>5

(* gvfsd answers with the mount that is registered. *)
LEMMA GvfsdAnswersKeeps ==
  ASSUME Assumptions, ClientInv, NEW c \in Callers, GvfsdAnswers(c)
  PROVE  ClientInv' /\ (TrackInv => TrackInv')
<1> DEFINE r == op[c]
           n == [r EXCEPT !.reply = reg]
<1>1. r \in CallRec /\ CallKnows(r) /\ (TrackInv => CallOnTrack(r)) /\ reg \in 0 .. made /\ made \in Nat
  BY OfCall DEF ClientInv, WorldInv
<1>2. /\ r.pc \in {"asked", "asked2"} /\ UNCHANGED <<world, cache, local, async, unseen>>
      /\ Set(c, n)
  BY DEF GvfsdAnswers
<1> HIDE DEF r
<1>3. n \in CallRec /\ n.pc = r.pc /\ n.obj = r.obj /\ n.obj2 = r.obj2 /\ n.reply = reg
      /\ n.stable = r.stable /\ n.lost = r.lost
  BY <1>1, <1>2 DEF CallRec
<1> HIDE DEF n
<1>4. CallKnows(n) /\ (CallOnTrack(r) => CallOnTrack(n))
  BY <1>1, <1>2, <1>3 DEF CallKnows, CallOnTrack
<1>5. ConnsInv' /\ cache' \subseteq Made \X Made
  BY <1>2, ConnsKept DEF ClientInv, WorldInv
<1> QED
  BY <1>1, <1>2, <1>3, <1>4, <1>5, CallStep

(* The answer is put into the cache. *)
LEMMA GetMountInfoResponseKeeps ==
  ASSUME Assumptions, ClientInv, NEW c \in Callers, GetMountInfoResponse(c)
  PROVE  ClientInv' /\ (TrackInv => TrackInv')
<1> USE DEF Assumptions, BoundsAssumption
<1> DEFINE r == op[c]
<1>1. r \in CallRec /\ CallKnows(r) /\ (TrackInv => CallOnTrack(r)) /\ made \in Nat
  BY OfCall DEF ClientInv, WorldInv
<1>2. /\ r.pc \in {"asked", "asked2"} /\ r.reply # MaxObjs + 1
      /\ UNCHANGED <<world, local, async, unseen>>
      /\ IF r.reply = 0 THEN End(c, "notmounted") /\ UNCHANGED cache
         ELSE HandlerLookupMountReply(r.reply) /\ Set(c, Found(r, r.reply, "asked2"))
  BY DEF GetMountInfoResponse
<1>3. End(c, "notmounted") <=> Set(c, [r EXCEPT !.pc = "done", !.result = "notmounted"])
  BY DEF End
<1> HIDE DEF r
<1>4. ConnsInv'
  BY <1>2, ConnsKept
<1>5. CASE r.reply = 0
  <2>1. CallOnTrack(r) => ~r.stable
    BY <1>2, <1>5 DEF CallOnTrack, Assumptions, BoundsAssumption
  <2>2. cache' \subseteq Made \X Made
    BY <1>2, <1>5 DEF ClientInv, WorldInv
  <2> QED
    BY <2>1, <2>2, <1>1, <1>2, <1>3, <1>4, <1>5, Ended, CallStep
<1>6. CASE r.reply # 0
  <2> DEFINE o == r.reply
  <2>1. o \in Made
    BY <1>1, <1>2, <1>6 DEF CallKnows, Made
  <2>2. cache' \subseteq Made \X Made
    <3>1. Cached \subseteq Made
      BY DEF Cached, ClientInv, WorldInv
    <3>2. cache' = cache \/ cache' = cache \cup ({o} \X (Cached \cup {o}))
      BY <1>2, <1>6 DEF HandlerLookupMountReply, Prepend
    <3> QED
      BY <2>1, <3>1, <3>2 DEF ClientInv, WorldInv
  <2>3. /\ Found(r, o, "asked2") \in CallRec /\ CallKnows(Found(r, o, "asked2"))
        /\ CallOnTrack(r) => CallOnTrack(Found(r, o, "asked2"))
    BY <2>1, <1>1, <1>2, FoundKeeps
  <2> QED
    BY <2>2, <2>3, <1>1, <1>2, <1>4, <1>6, CallStep
<1> QED
  BY <1>5, <1>6

(* Two files on two mounts *)
LEMMA DifferentMountsKeeps ==
  ASSUME Assumptions, ClientInv, NEW c \in Callers, DifferentMounts(c)
  PROVE  ClientInv' /\ (TrackInv => TrackInv')
<1> DEFINE r == op[c]
<1>1. r \in CallRec /\ CallKnows(r) /\ (TrackInv => CallOnTrack(r))
  BY OfCall
<1>2. r.two /\ UNCHANGED <<world, cache, local, async, unseen>>
      /\ Set(c, [r EXCEPT !.pc = "done", !.result = "unsupported"])
  BY DEF DifferentMounts, End
<1> HIDE DEF r
<1>3. ConnsInv' /\ cache' \subseteq Made \X Made
  BY <1>2, ConnsKept DEF ClientInv, WorldInv
<1> QED
  BY <1>1, <1>2, <1>3, Ended, CallStep

(* The call itself *)
LEMMA CallKeeps ==
  ASSUME Assumptions, ClientInv, NEW c \in Callers, Call(c)
  PROVE  ClientInv' /\ (TrackInv => TrackInv')
<1> DEFINE r == op[c]
           x == IF home = r.obj THEN "ok" ELSE "failed"
<1>1. r \in CallRec /\ CallKnows(r) /\ (TrackInv => CallOnTrack(r))
  BY OfCall
<1>2. r.pc = "call" /\ UNCHANGED <<world, cache, local, async, unseen>>
      /\ Set(c, [r EXCEPT !.pc = "done", !.result = x])
  BY DEF Call, End
<1> HIDE DEF r
<1>3. x \in {"ok", "notmounted", "unsupported", "failed"}
      /\ (CallOnTrack(r) /\ r.stable => x = "ok")
  BY <1>2 DEF CallOnTrack
<1> HIDE DEF x
<1>4. ConnsInv' /\ cache' \subseteq Made \X Made
  BY <1>2, ConnsKept DEF ClientInv, WorldInv
<1> QED
  BY <1>1, <1>2, <1>3, <1>4, Ended, CallStep

(* The caches turn out stale: they are cleared and the call looks again. *)
LEMMA RetryKeeps ==
  ASSUME Assumptions, ClientInv, NEW c \in Callers, NEW d \in Daemons, Retry(c, d),
         UNCHANGED <<world, async, unseen>>
  PROVE  ClientInv' /\ (TrackInv => TrackInv')
<1> DEFINE r == op[c]
           n == [r EXCEPT !.pc = "lookup", !.lost = FALSE]
<1>1. r \in CallRec /\ CallKnows(r) /\ (TrackInv => CallOnTrack(r))
  BY OfCall
<1>2. Set(c, n) /\ local' = IF c \in Threads THEN [local EXCEPT ![c][d] = "none"] ELSE local
  BY DEF Retry
<1>3. cache' \subseteq Made \X Made
  BY DeleteKeeps DEF Retry, Invalidate, ClientInv, WorldInv
<1>4. ConnsInv'
  <2>1. local' \in [Threads -> [Daemons -> Conn]]
    BY <1>2 DEF ClientInv, ConnsInv, Conn
  <2>2. \A t \in Threads, e \in Daemons : local'[t][e] \in {local[t][e], "none"}
    BY <1>2 DEF ClientInv, ConnsInv
  <2>3. \A t \in Threads, e \in Daemons : local'[t][e] = "open" => life[e] = "up"
    BY <2>2 DEF ClientInv, ConnsInv
  <2> QED
    BY <2>1, <2>3 DEF ClientInv, ConnsInv, world
<1> HIDE DEF r
<1>5. n \in CallRec /\ n.pc = "lookup" /\ n.obj = r.obj /\ n.obj2 = r.obj2 /\ n.reply = r.reply
      /\ n.stable = r.stable /\ ~n.lost
  BY <1>1 DEF CallRec, Pcs
<1> HIDE DEF n
<1>6. CallKnows(n) /\ (CallOnTrack(r) => CallOnTrack(n))
  BY <1>1, <1>5 DEF CallKnows, CallOnTrack
<1> QED
  BY <1>1, <1>2, <1>3, <1>4, <1>5, <1>6, CallStep

(* A call takes its next step to the daemon, and may be on its way with a  *)
(* new connection.                                                         *)
LEMMA AdvanceKeeps ==
  ASSUME Assumptions, ClientInv, NEW c \in Callers, NEW p \in {"getconn", "newconn", "call"},
         Goto(c, p), UNCHANGED <<world, cache>>, ConnsInv', op[c].obj # 0
  PROVE  /\ ClientInv'
         /\ TrackInv
            /\ (p = "newconn" /\ op[c].stable => life[host[op[c].obj]] = "up")
            /\ (p = "call" /\ op[c].stable => op[c].obj = home)
              => TrackInv'
<1> DEFINE r == op[c]
           n == [r EXCEPT !.pc = p]
<1>1. r \in CallRec /\ CallKnows(r) /\ (TrackInv => CallOnTrack(r))
  BY OfCall
<1>2. Set(c, n)
  BY DEF Goto
<1>3. r.obj # 0
  OBVIOUS
<1>4. cache' \subseteq Made \X Made
  BY DEF ClientInv, WorldInv
<1> HIDE DEF r
<1>5. n \in CallRec /\ CallKnows(n) /\ n.pc = p /\ n.obj = r.obj /\ n.stable = r.stable
      /\ n.lost = r.lost
  BY <1>1, <1>3 DEF CallRec, CallKnows, Pcs
<1> HIDE DEF n
<1>6. CallOnTrack(r) /\ (p = "newconn" /\ r.stable => life[host[r.obj]] = "up")
      /\ (p = "call" /\ r.stable => r.obj = home) => CallOnTrack(n)
  BY <1>5 DEF CallOnTrack
<1> QED
  BY <1>1, <1>2, <1>4, <1>5, <1>6, CallStep DEF r

(* The session bus is used: only a call on a mount that went away.         *)
LEMMA FallBackKeeps ==
  ASSUME Assumptions, ClientInv, NEW c \in Callers, FallBack(c), UNCHANGED <<world, cache>>,
         ConnsInv', op[c].obj # 0
  PROVE  ClientInv' /\ (TrackInv /\ ~op[c].stable => TrackInv')
<1> DEFINE r == op[c]
           n == [r EXCEPT !.pc = "call", !.bus = TRUE]
<1>1. r \in CallRec /\ CallKnows(r)
  BY OfCall
<1>2. Set(c, n)
  BY DEF FallBack
<1>3. r.obj # 0
  OBVIOUS
<1>4. cache' \subseteq Made \X Made
  BY DEF ClientInv, WorldInv
<1> HIDE DEF r
<1>5. n \in CallRec /\ CallKnows(n) /\ n.stable = r.stable
  BY <1>1, <1>3 DEF CallRec, CallKnows, Pcs
<1> HIDE DEF n
<1>6. ~r.stable => CallOnTrack(n)
  BY <1>5 DEF CallOnTrack
<1> QED
  BY <1>2, <1>4, <1>5, <1>6, CallStep DEF r

(* The object of a call that connects was made, in a daemon. *)
LEMMA HostOfCall ==
  ASSUME Assumptions, ClientInv, NEW c \in Callers, op[c].pc \in {"connect", "getconn", "newconn"}
  PROVE  /\ op[c].obj # 0 /\ op[c].obj \in Made /\ host[op[c].obj] \in Daemons
         /\ OneMountEach /\ life[host[op[c].obj]] = "up" => op[c].obj = home
<1>1. op[c].obj \in 0 .. made /\ op[c].obj # 0 /\ made \in Nat
  BY OfCall DEF CallKnows, ClientInv, WorldInv
<1> QED
  BY <1>1 DEF Made, ClientInv, WorldInv, OneMountEach

(* A connection that is kept is used if it is open; one that closed means  *)
(* that the caches are stale.                                              *)
LEMMA ConnectionGetKeeps ==
  ASSUME Assumptions, ClientInv, NEW c \in Callers,
         \/ c \in Threads /\ ConnectionGetSync(c)
         \/ c \in Tasks /\ ConnectionGetForAsync(c)
  PROVE  ClientInv' /\ (TrackInv => TrackInv')
<1> DEFINE d == host[op[c].obj]
           k == IF c \in Threads THEN local[c][d] ELSE async[d]
<1>1. op[c].pc = "connect" /\ UNCHANGED <<world, async, unseen>>
  BY DEF ConnectionGetSync, ConnectionGetForAsync, Ready
<1>2. op[c].obj # 0 /\ d \in Daemons /\ (TrackInv /\ life[d] = "up" => op[c].obj = home)
  BY <1>1, HostOfCall DEF TrackInv
<1>3. k = "open" => life[d] = "up"
  BY <1>2 DEF ClientInv, ConnsInv, Callers
<1>4. \/ k = "open" /\ Goto(c, "call") /\ UNCHANGED <<cache, local>>
      \/ Retry(c, d)
      \/ Goto(c, "getconn") /\ UNCHANGED <<cache, local>>
  <2>1. c \in Threads /\ c \in Tasks => FALSE
    BY DEF Assumptions, SetsAssumption
  <2>2. CASE c \in Threads /\ ConnectionGetSync(c)
    BY <2>2 DEF ConnectionGetSync
  <2>3. CASE c \in Tasks /\ ConnectionGetForAsync(c)
    BY <2>1, <2>3 DEF ConnectionGetForAsync
  <2> QED
    BY <2>2, <2>3
<1> HIDE DEF d, k
<1>5. CASE Retry(c, d)
  BY <1>1, <1>2, <1>5, RetryKeeps
<1>6. CASE k = "open" /\ Goto(c, "call") /\ UNCHANGED <<cache, local>>
  <2>1. ConnsInv'
    BY <1>1, <1>6, ConnsKept
  <2> QED
    BY <2>1, <1>1, <1>2, <1>3, <1>6, AdvanceKeeps
<1>7. CASE Goto(c, "getconn") /\ UNCHANGED <<cache, local>>
  <2>1. ConnsInv'
    BY <1>1, <1>7, ConnsKept
  <2> QED
    BY <2>1, <1>1, <1>2, <1>7, AdvanceKeeps
<1> QED
  BY <1>4, <1>5, <1>6, <1>7

(* The daemon is asked for a connection. *)
LEMMA GetConnectionKeeps ==
  ASSUME Assumptions, ClientInv, NEW c \in Callers, GetConnection(c)
  PROVE  ClientInv' /\ (OwnDaemons /\ TrackInv => TrackInv')
<1> DEFINE d == host[op[c].obj]
<1>1. /\ op[c].pc = "getconn" /\ UNCHANGED <<world, async, unseen>>
      /\ \/ (Sandboxed \/ op[c].lost) /\ FallBack(c) /\ UNCHANGED <<cache, local>>
         \/ Retry(c, d)
         \/ life[d] = "up" /\ Goto(c, "newconn") /\ UNCHANGED <<cache, local>>
  BY DEF GetConnection
<1>2. op[c].obj # 0 /\ d \in Daemons
  BY <1>1, HostOfCall
<1>3. CASE (Sandboxed \/ op[c].lost) /\ FallBack(c) /\ UNCHANGED <<cache, local>>
  <2>1. OwnDaemons /\ TrackInv => ~op[c].stable
    BY <1>3, OfCall DEF OwnDaemons, CallOnTrack
  <2>2. ConnsInv'
    BY <1>1, <1>3, ConnsKept
  <2> QED
    BY <2>1, <2>2, <1>1, <1>2, <1>3, FallBackKeeps
<1>4. CASE Retry(c, d)
  BY <1>1, <1>2, <1>4, RetryKeeps
<1>5. CASE life[d] = "up" /\ Goto(c, "newconn") /\ UNCHANGED <<cache, local>>
  <2>1. ConnsInv'
    BY <1>1, <1>5, ConnsKept
  <2> QED
    BY <2>1, <1>1, <1>2, <1>5, AdvanceKeeps
<1> QED
  BY <1>1, <1>3, <1>4, <1>5

(* The new connection is kept, unless the daemon is gone by now. *)
LEMMA NewConnectionKeeps ==
  ASSUME Assumptions, ClientInv, NEW c \in Callers,
         \/ c \in Threads /\ NewConnectionSync(c)
         \/ c \in Tasks /\ GotPrivateConnection(c)
  PROVE  ClientInv' /\ (TrackInv => TrackInv')
<1> DEFINE d == host[op[c].obj]
<1>1. op[c].pc = "newconn" /\ UNCHANGED <<world, cache, unseen>>
  BY DEF NewConnectionSync, GotPrivateConnection
<1>2. op[c].obj # 0 /\ d \in Daemons /\ (TrackInv /\ life[d] = "up" => op[c].obj = home)
  BY <1>1, HostOfCall DEF TrackInv
<1>3. \/ life[d] # "up" /\ FallBack(c) /\ UNCHANGED <<local, async>>
      \/ life[d] = "up" /\ Goto(c, "call") /\ c \in Threads
           /\ local' = [local EXCEPT ![c][d] = "open"] /\ UNCHANGED async
      \/ life[d] = "up" /\ Goto(c, "call") /\ UNCHANGED local
           /\ async' = [async EXCEPT ![d] = IF @ = "none" THEN "open" ELSE @]
  BY DEF NewConnectionSync, GotPrivateConnection
<1>4. CASE life[d] # "up" /\ FallBack(c) /\ UNCHANGED <<local, async>>
  <2>1. TrackInv => ~op[c].stable
    BY <1>1, <1>4, OfCall DEF CallOnTrack
  <2>2. ConnsInv'
    BY <1>1, <1>4, ConnsKept
  <2> QED
    BY <2>1, <2>2, <1>1, <1>2, <1>4, FallBackKeeps
<1>5. CASE life[d] = "up" /\ Goto(c, "call") /\ c \in Threads
           /\ local' = [local EXCEPT ![c][d] = "open"] /\ UNCHANGED async
  <2> HIDE DEF d
  <2>1. local' \in [Threads -> [Daemons -> Conn]]
    BY <1>2, <1>5 DEF ClientInv, ConnsInv, Conn
  <2>2. \A t \in Threads, e \in Daemons : local'[t][e] = local[t][e] \/ e = d
    BY <1>2, <1>5 DEF ClientInv, ConnsInv
  <2>3. \A t \in Threads, e \in Daemons : local'[t][e] = "open" => life[e] = "up"
    BY <2>2, <1>5 DEF ClientInv, ConnsInv
  <2>4. ConnsInv'
    BY <2>1, <2>3, <1>1, <1>5 DEF ClientInv, ConnsInv, world
  <2> QED
    BY <2>4, <1>1, <1>2, <1>5, AdvanceKeeps
<1>6. CASE life[d] = "up" /\ Goto(c, "call") /\ UNCHANGED local
           /\ async' = [async EXCEPT ![d] = IF @ = "none" THEN "open" ELSE @]
  <2> HIDE DEF d
  <2>1. async' \in [Daemons -> Conn]
    BY <1>2, <1>6 DEF ClientInv, ConnsInv, Conn
  <2>2. \A e \in Daemons : async'[e] = async[e] \/ (e = d /\ async'[e] = "open")
    BY <1>2, <1>6 DEF ClientInv, ConnsInv
  <2>3. ConnsInv'
    BY <2>1, <2>2, <1>1, <1>6 DEF ClientInv, ConnsInv, world
  <2> QED
    BY <2>3, <1>1, <1>2, <1>6, AdvanceKeeps
<1> QED
  BY <1>3, <1>4, <1>5, <1>6

-----------------------------------------------------------------------------
(* The theorems                                                            *)

(* Every step of a call *)
LEMMA StepKeeps ==
  ASSUME Assumptions, ClientInv, NEW c \in Callers, Step(c)
  PROVE  ClientInv' /\ (OwnDaemons /\ TrackInv => TrackInv')
BY GetMountInfoKeeps, GvfsdAnswersKeeps, GetMountInfoResponseKeeps, DifferentMountsKeeps,
   ConnectionGetKeeps, GetConnectionKeeps, NewConnectionKeeps, CallKeeps DEF Step

(* Every step of the client and of the daemons *)
LEMMA NextKeeps ==
  ASSUME Assumptions, ClientInv, [Next]_vars
  PROVE  ClientInv' /\ (OwnDaemons /\ TrackInv => TrackInv')
<1>1. CASE UNCHANGED vars
  <2>1. UNCHANGED <<life, made, host, home, reg, cache, local, async, unseen, op>>
    BY <1>1 DEF vars
  <2>2. WorldInv' /\ ConnsInv' /\ OpsTyped'
    BY <2>1 DEF ClientInv, WorldInv, ConnsInv, OpsTyped, Made
  <2>3. \A c \in Callers : CallKnows(op[c])'
    BY <2>1 DEF ClientInv, CallKnows
  <2>4. TrackInv => TrackInv'
    BY <2>1 DEF TrackInv, OneMountEach, CallOnTrack, Made
  <2> QED
    BY <2>2, <2>3, <2>4 DEF ClientInv
<1>2. ASSUME NEW d \in Daemons, Mount(d) \/ Die(d) \/ VfsConnectionClosed(d)
      PROVE  ClientInv' /\ (OwnDaemons /\ TrackInv => TrackInv')
  BY <1>2, MountKeeps, DieKeeps, VfsConnectionClosedKeeps
<1>3. CASE NameVanished \/ OthersUnmount \/ UnmountReply \/ UnmountRefused
  BY <1>3, ForgottenKeeps, UnmountKeeps, RefusedKeeps
<1>4. ASSUME NEW c \in Callers, Step(c) \/ \E two \in BOOLEAN : Begin(c, two)
      PROVE  ClientInv' /\ (OwnDaemons /\ TrackInv => TrackInv')
  BY <1>4, StepKeeps, BeginKeeps
<1> QED
  BY <1>1, <1>2, <1>3, <1>4 DEF Next

(* The invariant of the caches, connections and calls holds, for daemons   *)
(* that share mounts and sandboxed clients too.                            *)
THEOREM ClientInvariant == Assumptions => (Spec => []ClientInv)
<1> SUFFICES ASSUME Assumptions PROVE Spec => []ClientInv
  OBVIOUS
<1>1. Init => ClientInv
  BY ClientInit
<1>2. ClientInv /\ [Next]_vars => ClientInv'
  BY NextKeeps
<1> QED
  BY <1>1, <1>2, PTL DEF Spec

(* Every variable keeps its type; the caches and calls name mounts that    *)
(* were made.                                                              *)
THEOREM ClientTypes == Assumptions => (Spec => []TypeOK)
<1> SUFFICES ASSUME Assumptions PROVE Spec => []TypeOK
  OBVIOUS
<1>1. ClientInv => TypeOK
  <2> SUFFICES ASSUME ClientInv PROVE TypeOK
    OBVIOUS
  <2> USE DEF Assumptions, BoundsAssumption
  <2>1. 0 .. made \subseteq 0 .. MaxObjs /\ Made \subseteq Objs
    BY DEF ClientInv, WorldInv, Made, Objs
  <2>2. ASSUME NEW c \in Callers
        PROVE  /\ op[c].pc \in Pcs
               /\ op[c].obj \in 0 .. MaxObjs /\ op[c].obj2 \in 0 .. MaxObjs
               /\ op[c].reply \in 0 .. MaxObjs + 1
               /\ op[c].result \in {"none", "ok", "notmounted", "unsupported", "failed"}
    <3>1. op[c] \in CallRec /\ CallKnows(op[c])
      BY OfCall
    <3> QED
      BY <2>1, <3>1 DEF CallRec, CallKnows
  <2>3. cache \subseteq Objs \X Objs
    BY <2>1 DEF ClientInv, WorldInv
  <2> QED
    BY <2>1, <2>2, <2>3 DEF ClientInv, WorldInv, ConnsInv, TypeOK
<1> QED
  BY <1>1, ClientInvariant, PTL

(* async_map holds no connection to a daemon that is gone, unless the main *)
(* loop still has to learn of its end (gvfsdaemondbus.c:74).               *)
THEOREM AsyncFresh == Assumptions => (Spec => []AsyncMapFresh)
<1> SUFFICES ASSUME Assumptions PROVE Spec => []AsyncMapFresh
  OBVIOUS
<1>1. ClientInv => AsyncMapFresh
  BY DEF ClientInv, ConnsInv, AsyncMapFresh, Conn
<1> QED
  BY <1>1, ClientInvariant, PTL

(* A call on a mount that stays from its beginning to its end succeeds,    *)
(* whatever daemons died before and whatever the caches still say of them: *)
(* create_proxy_for_file tries again until it has no stale entry left.     *)
THEOREM StableCallsWork == OwnDaemons => (Spec => []StableMountWorks)
<1> SUFFICES ASSUME OwnDaemons PROVE Spec => []StableMountWorks
  OBVIOUS
<1>0. Assumptions
  BY DEF OwnDaemons
<1>1. Init => TrackInv
  BY <1>0, ClientInit
<1>2. ClientInv /\ TrackInv /\ [Next]_vars => TrackInv'
  BY <1>0, NextKeeps
<1>3. TrackInv => StableMountWorks
  BY DEF TrackInv, CallOnTrack, StableMountWorks
<1>4. Spec => []ClientInv
  BY <1>0, ClientInvariant
<1> QED
  BY <1>1, <1>2, <1>3, <1>4, PTL DEF Spec

(* Both promises of the caches of client/gdaemonvfs.c and                  *)
(* client/gvfsdaemondbus.c, for daemons of one mount each.                 *)
THEOREM MountsReached == OwnDaemons => (Spec => []MountsAreReached)
<1> SUFFICES ASSUME OwnDaemons PROVE Spec => []MountsAreReached
  OBVIOUS
<1>1. StableMountWorks /\ AsyncMapFresh => MountsAreReached
  BY DEF MountsAreReached
<1>2. Spec => []AsyncMapFresh
  BY AsyncFresh DEF OwnDaemons
<1> QED
  BY <1>1, <1>2, StableCallsWork, PTL

===============================================================================
