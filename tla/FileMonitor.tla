------------------------------ MODULE FileMonitor ------------------------------
(***************************************************************************)
(* A monitored directory: the daemon's GVfsMonitor                         *)
(* (daemon/gvfsmonitor.c, daemon/gvfsjobcreatemonitor.c) and the           *)
(* GDaemonFileMonitors that one thread of a client makes                   *)
(* (client/gdaemonfilemonitor.c).  CreateDirectoryMonitor, Subscribe and   *)
(* the thread's synchronous calls share the thread's D-Bus connection      *)
(* (_g_dbus_connection_get_sync), which keeps the order of messages in     *)
(* each direction.  Asynchronous calls (_g_dbus_connection_get_for_async)  *)
(* and those of other threads have connections of their own: a listing on  *)
(* one of them is in no order with Subscribe, although the comment in      *)
(* g_daemon_file_monitor_new says that any i/o comes after it.             *)
(* The backend keeps no reference to the monitor: it lives while somebody  *)
(* else does.  When it is gone the next client gets a new one under a new  *)
(* object path, its generation.                                            *)
(***************************************************************************)
EXTENDS Naturals, Sequences, FiniteSets, FiniteSetTheorems, TLAPS, TLC

CONSTANTS Clients,     \* the client's monitors
          MaxEvents,   \* how many changes happen in the directory
          MaxGens,     \* how many GVfsMonitors are made
          Prompt       \* does Subscribe arrive within five seconds of the reply?

ClientsAssumption == IsFiniteSet(Clients)
BoundsAssumption ==
  MaxEvents \in Nat /\ MaxGens \in Nat \ {0} /\ Prompt \in BOOLEAN

VARIABLES
  gen,      \* the generation of the last GVfsMonitor made (path_counter)
  refs,     \* its reference count; 0: finalized
  subs,     \* its subscribers, a set of clients
  timers,   \* the clients whose five seconds run
  emits,    \* Changed calls whose proxy is being made, in order
  calls,    \* Changed calls that are not finished: <<client, event>>
  backend,  \* is the backend alive?
  active,   \* is the monitor counted as activity of the backend?
  now,      \* the number of changes so far
  open,     \* is the thread's connection open?
  up, down, \* messages to the daemon and to the client
  file,     \* Clients -> the client's GDaemonFileMonitor
  bad       \* a finalized monitor was used

vars == <<gen, refs, subs, timers, emits, calls, backend, active, now, open,
          up, down, file, bad>>

NoFile == [st |-> "none", gen |-> 0, proxy |-> FALSE, cancelled |-> FALSE,
           got |-> << >>, listed |-> MaxEvents + 1, asked |-> "no"]

TypeOK ==
  /\ gen \in 0 .. MaxGens
  /\ refs \in Nat /\ calls \subseteq Clients \X (1 .. MaxEvents)
  /\ subs \subseteq Clients /\ timers \subseteq Clients
  /\ backend \in BOOLEAN /\ active \in BOOLEAN /\ open \in BOOLEAN
  /\ now \in 0 .. MaxEvents
  /\ bad \in BOOLEAN
  /\ \A c \in Clients :
       /\ file[c].st \in {"none", "creating", "subscribing", "ready", "deaf"}
       /\ file[c].gen \in 0 .. MaxGens
       /\ file[c].listed \in 0 .. MaxEvents + 1

Init ==
  /\ gen = 0 /\ refs = 0 /\ subs = {} /\ timers = {}
  /\ emits = << >> /\ calls = {}
  /\ backend = TRUE /\ active = FALSE
  /\ now = 0 /\ open = TRUE
  /\ up = << >> /\ down = << >>
  /\ file = [c \in Clients |-> NoFile]
  /\ bad = FALSE

\* n: the monitor's generation, or the event that is told.
Msg(m, c, n) == [m |-> m, c |-> c, n |-> n]
\* What is in a queue
In(q) == {q[i] : i \in DOMAIN q}

Send(m, c)   == up' = Append(up, Msg(m, c, file[c].gen))

\* g_vfs_monitor_finalize when the last reference goes.
Unref(n) ==
  /\ refs' = refs - n
  /\ active' = (active /\ refs > n)

-----------------------------------------------------------------------------
(* The client.                                                             *)

\* g_file_monitor_directory: the call blocks its thread until the reply.
MonitorDir(c) ==
  /\ open
  /\ file[c].st = "none"
  /\ file' = [file EXCEPT ![c].st = "creating"]
  /\ Send("Create", c)
  /\ UNCHANGED <<gen, refs, subs, timers, emits, calls, backend, active, now,
                 open, down, bad>>

\* g_daemon_file_monitor_new: the object is exported and Subscribe sent; the
\* monitor is returned without waiting.  Without a connection it is returned
\* all the same.
New(c, g, connected) ==
  IF connected
  THEN /\ file' = [file EXCEPT ![c].st = "subscribing", ![c].gen = g]
       /\ up' = Append(up, Msg("Subscribe", c, g))
  ELSE /\ file' = [file EXCEPT ![c].st = "deaf"]
       /\ UNCHANGED up

\* The thread lists the directory with synchronous calls, through the connection
\* of its monitors.
ListDir(c) ==
  /\ open
  /\ file[c].st \in {"subscribing", "ready"} /\ file[c].asked = "no"
  /\ file' = [file EXCEPT ![c].asked = "yes"]
  /\ Send("List", c)
  /\ UNCHANGED <<gen, refs, subs, timers, emits, calls, backend, active, now,
                 open, down, bad>>

\* subscribe_cb: the proxy is kept whether the call failed or not; a monitor
\* cancelled meanwhile unsubscribes.
SubscribeCb(c) ==
  IF file[c].cancelled
  THEN /\ Send("Unsubscribe", c)
       /\ file' = [file EXCEPT ![c].st = "ready"]
  ELSE /\ file' = [file EXCEPT ![c].st = "ready", ![c].proxy = TRUE]
       /\ UNCHANGED up

\* handle_changed: the event goes to the application unless cancelled, and
\* the call is completed.
HandleChanged(c, n) ==
  /\ file' = [file EXCEPT ![c].got = IF file[c].cancelled THEN @
                                     ELSE Append(@, n)]
  /\ up' = Append(up, Msg("ChangedDone", c, n))

ClientReceives ==
  /\ open /\ down # << >>
  /\ down' = Tail(down)
  /\ LET m == Head(down) IN
       \/ m.m = "Created" /\ \E ok \in BOOLEAN : New(m.c, m.n, ok)
       \/ /\ m.m = "Failed"
          /\ file' = [file EXCEPT ![m.c].st = "deaf"]
          /\ UNCHANGED up
       \/ m.m = "Subscribed" /\ SubscribeCb(m.c)
       \/ m.m = "Changed" /\ HandleChanged(m.c, m.n)
  /\ UNCHANGED <<gen, refs, subs, timers, emits, calls, backend, active, now,
                 open, bad>>

\* g_daemon_file_monitor_cancel: unsubscribes if the proxy is there.
Cancel(c) ==
  /\ file[c].st \in {"subscribing", "ready"} /\ ~file[c].cancelled
  /\ file' = [file EXCEPT ![c].cancelled = TRUE]
  /\ IF file[c].proxy /\ open THEN Send("Unsubscribe", c) ELSE UNCHANGED up
  /\ UNCHANGED <<gen, refs, subs, timers, emits, calls, backend, active, now,
                 open, down, bad>>

-----------------------------------------------------------------------------
(* The daemon.                                                             *)

\* The job's reply: the monitor (a new one if there is none) is kept for
\* five seconds more, so that the client can subscribe.
CreateReply(c) ==
  /\ IF refs = 0 THEN gen' = gen + 1 /\ active' = TRUE
     ELSE UNCHANGED <<gen, active>>
  /\ refs' = refs + 1
  /\ timers' = timers \cup {c}
  /\ down' = Append(down, Msg("Created", c, gen'))

\* create_monitor_new_handle, and the job that runs: a backend that is gone
\* or blocked refuses.
CreateMonitor(c) ==
  IF backend /\ (refs > 0 \/ gen < MaxGens)
  THEN /\ CreateReply(c)
       /\ UNCHANGED <<subs, calls, file>>
  ELSE /\ down' = Append(down, Msg("Failed", c, 0))
       /\ UNCHANGED <<gen, refs, active, timers, subs, calls, file>>

\* handle_subscribe; the object path of a finalized monitor is not there.
HandleSubscribe(c, g) ==
  /\ IF g = gen /\ refs > 0
     THEN subs' = subs \cup {c} /\ refs' = refs + 1
     ELSE UNCHANGED <<subs, refs>>
  /\ file' = IF file[c].asked = "early" THEN [file EXCEPT ![c].asked = "yes", ![c].listed = now]
             ELSE file
  /\ down' = Append(down, Msg("Subscribed", c, 0))
  /\ UNCHANGED <<gen, active, timers, calls>>

\* unsubscribe, with the subscribers' lock held by the caller.
Unsubscribe(cs) ==
  /\ subs' = subs \ cs
  /\ Unref(Cardinality(subs \cap cs))

HandleUnsubscribe(c, g) ==
  /\ IF g = gen /\ refs > 0 THEN Unsubscribe({c})
     ELSE UNCHANGED <<subs, refs, active>>
  /\ UNCHANGED <<gen, timers, calls, down, file>>

\* changed_cb frees the event's data and its reference.
ChangedCb(c, n) ==
  /\ calls' = calls \ {<<c, n>>}
  /\ Unref(1)
  /\ UNCHANGED <<gen, subs, timers, down, file>>

DaemonReceives ==
  /\ open /\ up # << >>
  /\ up' = Tail(up)
  /\ LET m == Head(up) IN
       \/ m.m = "Create" /\ CreateMonitor(m.c)
       \/ m.m = "Subscribe" /\ HandleSubscribe(m.c, m.n)
       \/ m.m = "Unsubscribe" /\ HandleUnsubscribe(m.c, m.n)
       \/ m.m = "ChangedDone" /\ ChangedCb(m.c, m.n)
       \/ /\ m.m = "List"
          /\ file' = [file EXCEPT ![m.c].listed = now]
          /\ UNCHANGED <<gen, refs, active, timers, subs, calls, down>>
  /\ UNCHANGED <<emits, backend, now, open, bad>>

\* The directory is listed over another connection: asynchronously, or by another
\* thread that was given the monitor.  Nothing else waits for it, so that asking and
\* listing are one step, at any time.  Begun before Subscribe was answered it may come
\* before it; then the changes in between are told by nobody, and listed is the moment
\* of the subscription.
ListElsewhere(c) ==
  /\ open
  /\ file[c].st \in {"subscribing", "ready"} /\ file[c].asked = "no"
  /\ file' = IF file[c].st = "ready" \/ c \in subs
             THEN [file EXCEPT ![c].asked = "yes", ![c].listed = now]
             ELSE [file EXCEPT ![c].asked = "early"]
  /\ UNCHANGED <<gen, refs, subs, timers, emits, calls, backend, active, now,
                 open, up, down, bad>>

\* A Subscribe of the client is still to come.
Expected(c) ==
  /\ open
  /\ \/ \E m \in In(up) : m.m = "Subscribe" /\ m.c = c
     \/ \E m \in In(down) : m.m = "Created" /\ m.c = c

\* unref_monitor_timeout
UnrefMonitorTimeout(c) ==
  /\ c \in timers
  /\ Prompt => ~Expected(c)
  /\ timers' = timers \ {c}
  /\ Unref(1)
  /\ UNCHANGED <<gen, subs, emits, calls, backend, now, open, up, down, file,
                 bad>>

\* The lists with every element of a set once.
Orders(set) ==
  {s \in [1 .. Cardinality(set) -> set] :
     /\ \A i, j \in DOMAIN s : i # j => s[i] # s[j]
     /\ \A x \in set : \E i \in DOMAIN s : s[i] = x}

EmitEvent_Coalesced ==
  /\ backend /\ now < MaxEvents
  /\ now' = now + 1
  /\ IF refs = 0 THEN UNCHANGED <<emits, refs>>
     ELSE /\ \E s \in Orders(subs) : emits' = [i \in DOMAIN s |-> Msg("Changed", s[i], now + 1)]
          /\ refs' = refs + Cardinality(subs)
  /\ UNCHANGED <<gen, subs, timers, calls, backend, active, open, up, down,
                 file, bad>>

\* The directory changes; g_vfs_monitor_emit_event starts a proxy for every
\* subscriber, each with a reference to the monitor.
EmitEvent ==
  /\ backend /\ now < MaxEvents
  /\ now' = now + 1
  /\ IF refs = 0 THEN UNCHANGED <<emits, refs>>
     ELSE /\ \E s \in Orders(subs) : emits' = emits \o [i \in DOMAIN s |-> Msg("Changed", s[i], now + 1)]
          /\ refs' = refs + Cardinality(subs)
  /\ UNCHANGED <<gen, subs, timers, calls, backend, active, open, up, down,
                 file, bad>>

GotProxyCb_Unref ==
  /\ emits # << >>
  /\ emits' = Tail(emits)
  /\ LET e == Head(emits) IN
       IF open
       THEN /\ down' = Append(down, e)
            /\ calls' = calls \cup {<<e.c, e.n>>}
            /\ Unref(1)
       ELSE Unref(1) /\ UNCHANGED <<down, calls>>
  /\ bad' = (bad \/ refs = 0)
  /\ UNCHANGED <<gen, subs, timers, backend, now, open, up, file>>

\* got_proxy_cb: the call is made with the monitor's mount spec.
GotProxyCb ==
  /\ emits # << >>
  /\ emits' = Tail(emits)
  /\ LET e == Head(emits) IN
       IF open
       THEN /\ down' = Append(down, e)
            /\ calls' = calls \cup {<<e.c, e.n>>}
            /\ UNCHANGED <<refs, active>>
       ELSE Unref(1) /\ UNCHANGED <<down, calls>>
  /\ bad' = (bad \/ refs = 0)
  /\ UNCHANGED <<gen, subs, timers, backend, now, open, up, file>>

\* backend_died: everybody is unsubscribed under an extra reference; the
\* activity is nobody's any more.
BackendDied ==
  /\ backend
  /\ backend' = FALSE
  /\ subs' = {} /\ refs' = refs - Cardinality(subs)
  /\ active' = FALSE
  /\ UNCHANGED <<gen, timers, emits, calls, now, open, up, down, file, bad>>

\* The client leaves: subscriber_connection_closed for each of its
\* subscribers, and its open calls fail.
ConnectionClosed ==
  /\ open
  /\ open' = FALSE
  /\ up' = << >> /\ down' = << >>
  /\ subs' = {}
  /\ Unref(Cardinality(subs) + Cardinality(calls))
  /\ calls' = {}
  /\ UNCHANGED <<gen, timers, emits, backend, now, file, bad>>

Next ==
  \/ \E c \in Clients : MonitorDir(c)
  \/ \E c \in Clients : ListDir(c) \/ ListElsewhere(c)
  \/ \E c \in Clients : Cancel(c)
  \/ ClientReceives
  \/ DaemonReceives
  \/ \E c \in Clients : UnrefMonitorTimeout(c)
  \/ EmitEvent
  \/ GotProxyCb
  \/ BackendDied
  \/ ConnectionClosed

Spec == Init /\ [][Next]_vars

\* The clients are interchangeable, which a run may use.
ClientSymmetry == Permutations(Clients)

-----------------------------------------------------------------------------
(* Properties                                                              *)

\* A reference for each subscriber, each running timer and each event under
\* way, and none besides: the monitor neither goes while one of them uses it
\* nor stays when none does.
RefsExact ==
  refs = Cardinality(subs) + Cardinality(timers) + Len(emits) + Cardinality(calls)

\* The backend counts a monitor as activity exactly while it lives.
ActivityExact == active = (backend /\ refs > 0)

\* A finalized monitor is never used.
NoUseAfterFree == ~bad

\* Events under way to client c
UnderWay(c) ==
  {m.n : m \in {x \in In(down) \cup In(emits) : x.m = "Changed" /\ x.c = c}}

\* No change made after the listing of a monitored directory is missed, when the
\* listing shares the monitor's connection ("any i/o we do to the mount such as
\* listing a directory will happen after the mount receives the subscribe message")
\* or is begun when Subscribe has been answered.  One begun earlier on another
\* connection misses none made after both the listing and the subscription.
ListedThenTold ==
  \A c \in Clients :
    open /\ backend /\ ~file[c].cancelled =>
      \A n \in file[c].listed + 1 .. now :
        n \in UnderWay(c) \/ \E i \in DOMAIN file[c].got : file[c].got[i] = n

\* Every client sees the changes in their order, each once, without a gap.
EventsInOrder ==
  \A c \in Clients : \A i \in 1 .. Len(file[c].got) - 1 :
    file[c].got[i + 1] = file[c].got[i] + 1

\* "Non-null if we're subscribed": a client with a proxy is a subscriber.
ProxyMeansSubscribed ==
  \A c \in Clients :
    file[c].proxy /\ ~file[c].cancelled /\ open /\ backend => c \in subs

\* A GVfsMonitor is accounted for: what its references are, that it counts as
\* activity as long as it lives, and that it is not used any longer.
CountInv == RefsExact /\ ActivityExact /\ NoUseAfterFree

\* A monitor that believes itself subscribed is; it repeats and reorders no change, and
\* misses none made after its listing, or, when that went another way, after both the
\* listing and the subscription.
ChangesReachMonitors == ListedThenTold /\ EventsInOrder /\ ProxyMeansSubscribed

-----------------------------------------------------------------------------
(* What holds between the steps.                                           *)

Assumptions == ClientsAssumption /\ BoundsAssumption

(* The client subscribes within the five seconds: otherwise the monitor    *)
(* may be gone when Subscribe comes, and nobody tells the client.          *)
PromptClients == Assumptions /\ Prompt

FileRec ==
  [st : {"none", "creating", "subscribing", "ready", "deaf"}, gen : Nat,
   proxy : BOOLEAN, cancelled : BOOLEAN, got : Seq(Nat), listed : Nat, asked : {"no", "yes", "early"}]

UpMsg == [m : {"Create", "Subscribe", "Unsubscribe", "List", "ChangedDone"},
          c : Clients, n : Nat]
DownMsg == [m : {"Created", "Failed", "Subscribed", "Changed"}, c : Clients, n : Nat]
Emission == [m : {"Changed"}, c : Clients, n : Nat]

TypesInv ==
  /\ gen \in 0 .. MaxGens /\ refs \in Nat
  /\ subs \subseteq Clients /\ timers \subseteq Clients
  /\ backend \in BOOLEAN /\ active \in BOOLEAN /\ open \in BOOLEAN
  /\ now \in 0 .. MaxEvents
  /\ calls \subseteq Clients \X (1 .. now) /\ IsFiniteSet(calls)
  /\ emits \in Seq(Emission) /\ up \in Seq(UpMsg) /\ down \in Seq(DownMsg)
  /\ file \in [Clients -> FileRec]
  /\ ~open => up = <<>> /\ down = <<>> /\ calls = {} /\ subs = {}

(* Two messages of one client, a ahead of b, where one client asks one     *)
(* thing of the monitor after the other and events come in their order.    *)
Handshake == {"Create", "Created", "Failed", "Subscribe", "Subscribed"}

Compatible(a, b) ==
  a.c = b.c =>
    /\ ~(a.m \in Handshake /\ b.m \in Handshake)
    /\ ~(a.m = "List" /\ b.m = "Subscribe")
    /\ ~(a.m = "Subscribe" /\ b.m = "Changed")
    /\ a.m = "Changed" /\ b.m = "Changed" => a.n < b.n
    /\ a.m = "ChangedDone" /\ b.m \in {"ChangedDone", "Changed"} => a.n # b.n

Ordered(q) == \A i, j \in DOMAIN q : i < j => Compatible(q[i], q[j])
Ahead(q, r) == \A a \in In(q), b \in In(r) : Compatible(a, b)

QueuesInv ==
  /\ Ordered(up) /\ Ordered(down) /\ Ordered(emits)
  /\ Ahead(up, down) /\ Ahead(up, emits) /\ Ahead(down, emits)

(* What a message under way says of its client and of the monitor. *)
Listening(c) == file[c].st \in {"subscribing", "ready"}
After(n, c) == \A k \in 1 .. Len(file[c].got) : file[c].got[k] < n

UpTrue(m) ==
  /\ m.m = "Create" => file[m.c].st = "creating" /\ m.c \notin timers
  /\ m.m = "Subscribe" =>
       /\ file[m.c].st = "subscribing" /\ m.c \notin subs
       /\ file[m.c].got = <<>> /\ file[m.c].listed = MaxEvents + 1
       /\ Prompt => m.c \in timers /\ m.n = gen
  /\ m.m = "Unsubscribe" => file[m.c].cancelled
  /\ m.m = "List" => Listening(m.c)
  /\ m.m = "ChangedDone" => <<m.c, m.n>> \in calls

DownTrue(m) ==
  /\ m.m = "Created" =>
       /\ file[m.c].st = "creating" /\ m.n <= gen
       /\ Prompt => m.c \in timers /\ m.n = gen
  /\ m.m = "Failed" => file[m.c].st = "creating"
  /\ m.m = "Subscribed" => file[m.c].st = "subscribing"
  /\ m.m = "Changed" => Listening(m.c) /\ <<m.c, m.n>> \in calls /\ After(m.n, m.c)

EmitTrue(m) ==
  Listening(m.c) /\ m.n \in 1 .. now /\ <<m.c, m.n>> \notin calls /\ After(m.n, m.c)

MessagesInv ==
  /\ \A m \in In(up) : UpTrue(m)
  /\ \A m \in In(down) : DownTrue(m)
  /\ \A m \in In(emits) : EmitTrue(m)

(* What a client that is not yet listening can not have, and the order of  *)
(* what it was told.                                                       *)
FileTrue(c, f) ==
  /\ f.gen <= gen
  /\ f.st = "none" => c \notin timers
  /\ f.st \in {"none", "creating", "deaf"} =>
       /\ c \notin subs /\ f.got = <<>> /\ f.listed = MaxEvents + 1 /\ ~f.cancelled
  /\ f.proxy => f.st = "ready"
  /\ f.listed \in 0 .. MaxEvents + 1
  /\ \A i \in 1 .. Len(f.got) : f.got[i] \in 1 .. now
  /\ \A i, j \in 1 .. Len(f.got) : i < j => f.got[i] < f.got[j]
  /\ \A i \in 1 .. Len(f.got) - 1 : f.got[i + 1] = f.got[i] + 1

FilesInv == \A c \in Clients : FileTrue(c, file[c])

(* The events client c was told or is about to be told have no gap, and    *)
(* while it is subscribed they reach up to now.                            *)
Told(c) == {file[c].got[i] : i \in 1 .. Len(file[c].got)}
Seen(c) == Told(c) \cup UnderWay(c)

SeenInv ==
  \A c \in Clients : open /\ ~file[c].cancelled =>
    /\ \A a, b \in Seen(c), n \in Nat : a <= n /\ n <= b => n \in Seen(c)
    /\ backend /\ Seen(c) # {} => c \in subs /\ now \in Seen(c)

MonitorInv == TypesInv /\ CountInv /\ QueuesInv /\ MessagesInv /\ FilesInv /\ SeenInv

(* With prompt clients: who listens is a subscriber or is about to be one. *)
ToSubscribe(c) == \E m \in In(up) : m.m = "Subscribe" /\ m.c = c

SubscribedInv ==
  \A c \in Clients : open /\ backend /\ ~file[c].cancelled /\ Listening(c) =>
    c \in subs \/ ToSubscribe(c)

PromptInv == MonitorInv /\ SubscribedInv /\ ListedThenTold

-----------------------------------------------------------------------------
(* Queues                                                                  *)

(* What is in a queue has the type of its elements. *)
LEMMA InTypes ==
  ASSUME NEW S, NEW q \in Seq(S)
  PROVE  In(q) \subseteq S /\ (q = <<>> => In(q) = {})
  BY DEF In

(* What is put at the end of a queue joins what is in it. *)
LEMMA Put ==
  ASSUME NEW S, NEW q \in Seq(S), NEW m \in S
  PROVE  /\ Append(q, m) \in Seq(S) /\ Len(Append(q, m)) = Len(q) + 1 /\ Len(q) \in Nat
         /\ In(Append(q, m)) = In(q) \cup {m}
         /\ Ordered(q) /\ (\A a \in In(q) : Compatible(a, m)) => Ordered(Append(q, m))
<1> DEFINE t == Append(q, m)
<1>1. /\ t \in Seq(S) /\ Len(t) = Len(q) + 1 /\ Len(q) \in Nat
      /\ DOMAIN t = 1 .. Len(q) + 1 /\ DOMAIN q = 1 .. Len(q)
  OBVIOUS
<1>2. /\ \A i \in DOMAIN q : i \in DOMAIN t /\ t[i] = q[i]
      /\ t[Len(q) + 1] = m /\ Len(q) + 1 \in DOMAIN t
      /\ \A i \in DOMAIN t : i \in DOMAIN q \/ i = Len(q) + 1
  BY <1>1
<1>3. \A i, j \in DOMAIN t : i < j => i \in DOMAIN q
  BY <1>1
<1> HIDE DEF t
<1>4. In(t) = In(q) \cup {m}
  BY <1>2 DEF In
<1>5. ASSUME Ordered(q), \A a \in In(q) : Compatible(a, m) PROVE Ordered(t)
  BY <1>2, <1>3, <1>5 DEF Ordered, In
<1> QED
  BY <1>1, <1>4, <1>5 DEF t

(* What is taken from the front of a queue was ahead of the rest. *)
LEMMA Take ==
  ASSUME NEW S, NEW q \in Seq(S), q # <<>>
  PROVE  /\ Tail(q) \in Seq(S) /\ Len(q) \in Nat \ {0} /\ Len(Tail(q)) = Len(q) - 1
         /\ Head(q) \in S /\ In(q) = {Head(q)} \cup In(Tail(q)) /\ In(Tail(q)) \subseteq S
         /\ Ordered(q) => Ordered(Tail(q)) /\ \A b \in In(Tail(q)) : Compatible(Head(q), b)
<1> DEFINE t == Tail(q)
<1>1. /\ t \in Seq(S) /\ Len(q) \in Nat \ {0} /\ Len(t) = Len(q) - 1
      /\ DOMAIN t = 1 .. Len(q) - 1 /\ DOMAIN q = 1 .. Len(q)
      /\ Head(q) = q[1] /\ 1 \in DOMAIN q /\ Head(q) \in S
  OBVIOUS
<1>2. \A i \in DOMAIN t : t[i] = q[i + 1] /\ i + 1 \in DOMAIN q /\ 1 < i + 1
  BY <1>1
<1>3. \A i \in DOMAIN q : i = 1 \/ (i - 1 \in DOMAIN t /\ t[i - 1] = q[i])
  BY <1>1
<1>4. \A i, j \in DOMAIN t : i < j => i + 1 < j + 1
  BY <1>1
<1> HIDE DEF t
<1>5. In(q) = {Head(q)} \cup In(t)
  <2>1. ASSUME NEW x \in In(q) PROVE x \in {Head(q)} \cup In(t)
    BY <1>1, <1>3 DEF In
  <2>2. ASSUME NEW x \in In(t) PROVE x \in In(q)
    BY <1>2 DEF In
  <2>3. Head(q) \in In(q)
    BY <1>1 DEF In
  <2> QED
    BY <2>1, <2>2, <2>3
<1>6. ASSUME Ordered(q) PROVE Ordered(t) /\ \A b \in In(t) : Compatible(Head(q), b)
  <2>1. Ordered(t)
    BY <1>2, <1>4, <1>6 DEF Ordered
  <2>2. ASSUME NEW i \in DOMAIN t PROVE Compatible(Head(q), t[i])
    BY <1>1, <1>2, <1>6 DEF Ordered
  <2> QED
    BY <2>1, <2>2 DEF In
<1>7. In(t) \subseteq S
  BY <1>1, InTypes
<1> QED
  BY <1>1, <1>5, <1>6, <1>7 DEF t

(* What is in the queues, typed. *)
LEMMA Typed ==
  ASSUME TypesInv
  PROVE  /\ \A m \in In(up) : m \in UpMsg /\ m.m \notin {"Created", "Failed", "Subscribed", "Changed"}
         /\ \A m \in In(down) : m \in DownMsg
         /\ \A m \in In(emits) : m \in Emission /\ m.m = "Changed"
         /\ (up = <<>> => In(up) = {}) /\ (down = <<>> => In(down) = {})
         /\ \A c \in Clients : file[c] \in FileRec
<1>1. In(up) \subseteq UpMsg /\ (up = <<>> => In(up) = {})
  BY InTypes DEF TypesInv
<1>2. In(down) \subseteq DownMsg /\ (down = <<>> => In(down) = {})
  BY InTypes DEF TypesInv
<1>3. In(emits) \subseteq Emission
  BY InTypes DEF TypesInv
<1>4. file \in [Clients -> FileRec]
  BY DEF TypesInv
<1> QED
  BY <1>1, <1>2, <1>3, <1>4 DEF UpMsg, DownMsg, Emission

-----------------------------------------------------------------------------
(* What most steps leave alone                                             *)

(* What is seen of the events by a client stays the same, whatever else is *)
(* sent.                                                                   *)
LEMMA SeenKept ==
  ASSUME TypesInv, NEW c, file'[c].got = file[c].got, emits' = emits,
         \/ down' = down
         \/ \E m \in DownMsg : m.m # "Changed" /\ down' = Append(down, m)
         \/ down # <<>> /\ down' = Tail(down) /\ (Head(down).m # "Changed" \/ Head(down).c # c)
  PROVE  Seen(c)' = Seen(c)
<1> DEFINE E(x) == x.m = "Changed" /\ x.c = c
<1>1. down \in Seq(DownMsg)
  BY DEF TypesInv
<1>2. \A x : E(x) => (x \in In(down') <=> x \in In(down))
  <2>1. CASE down' = down
    BY <2>1
  <2>2. CASE \E m \in DownMsg : m.m # "Changed" /\ down' = Append(down, m)
    <3> PICK m \in DownMsg : m.m # "Changed" /\ down' = Append(down, m)
      BY <2>2
    <3>1. In(down') = In(down) \cup {m}
      BY <1>1, Put
    <3> QED
      BY <3>1
  <2>3. CASE down # <<>> /\ down' = Tail(down) /\ (Head(down).m # "Changed" \/ Head(down).c # c)
    <3>1. In(down) = {Head(down)} \cup In(Tail(down))
      BY <1>1, <2>3, Take
    <3> QED
      BY <2>3, <3>1
  <2> QED
    BY <2>1, <2>2, <2>3
<1>3. {x \in In(down') \cup In(emits') : E(x)} = {x \in In(down) \cup In(emits) : E(x)}
  BY <1>2
<1>4. UnderWay(c)' = UnderWay(c)
  BY <1>3 DEF UnderWay, In
<1> QED
  BY <1>4 DEF Seen, Told

(* Who sees the same as before and is still to be told is told in order.   *)
LEMMA SeenInvKept ==
  ASSUME SeenInv, UNCHANGED <<backend, subs, now>>,
         \A b \in Clients : open' /\ ~file'[b].cancelled =>
           open /\ ~file[b].cancelled /\ Seen(b)' = Seen(b)
  PROVE  SeenInv'
  BY DEF SeenInv

(* A step that concerns client c only *)
OnlyOf(c) ==
  /\ now' = now
  /\ gen' = gen \/ (gen' = gen + 1 /\ timers = {})
  /\ \A b \in Clients : b # c =>
       /\ file'[b] = file[b]
       /\ b \in timers' <=> b \in timers
       /\ b \in subs' <=> b \in subs
       /\ \A n : <<b, n>> \in calls' <=> <<b, n>> \in calls

(* leaves true what the messages of the others say. *)
LEMMA OthersMessages ==
  ASSUME TypesInv, MessagesInv, NEW c \in Clients, OnlyOf(c),
         \A x \in In(up') : x \in In(up) \/ x.c = c,
         \A x \in In(down') : x \in In(down) \/ x.c = c,
         \A x \in In(emits') : x \in In(emits) \/ x.c = c,
         \A x \in In(up') : x.c = c => UpTrue(x)',
         \A x \in In(down') : x.c = c => DownTrue(x)',
         \A x \in In(emits') : x.c = c => EmitTrue(x)'
  PROVE  MessagesInv'
<1>1. ASSUME NEW x \in In(up'), x.c # c PROVE UpTrue(x)'
  <2>1. x \in In(up) /\ x.c \in Clients
    BY <1>1, Typed DEF UpMsg
  <2> QED
    BY <1>1, <2>1 DEF MessagesInv, UpTrue, OnlyOf, Listening
<1>2. ASSUME NEW x \in In(down'), x.c # c PROVE DownTrue(x)'
  <2>1. x \in In(down) /\ x.c \in Clients /\ x.n \in Nat /\ gen \in Nat
    BY <1>2, Typed DEF DownMsg, TypesInv
  <2> QED
    BY <1>2, <2>1 DEF MessagesInv, DownTrue, OnlyOf, Listening, After
<1>3. ASSUME NEW x \in In(emits'), x.c # c PROVE EmitTrue(x)'
  <2>1. x \in In(emits) /\ x.c \in Clients
    BY <1>3, Typed DEF Emission
  <2> QED
    BY <1>3, <2>1 DEF MessagesInv, EmitTrue, OnlyOf, Listening, After
<1>4. \A x \in In(up') : UpTrue(x)'
  BY <1>1
<1>5. \A x \in In(down') : DownTrue(x)'
  BY <1>2
<1>6. \A x \in In(emits') : EmitTrue(x)'
  BY <1>3
<1> QED
  BY <1>4, <1>5, <1>6 DEF MessagesInv, In

(* and their records. *)
LEMMA OthersFiles ==
  ASSUME TypesInv, FilesInv, NEW c \in Clients, OnlyOf(c), FileTrue(c, file[c])'
  PROVE  FilesInv'
<1>1. ASSUME NEW b \in Clients PROVE FileTrue(b, file[b])'
  <2>1. CASE b = c
    BY <2>1
  <2>2. CASE b # c
    <3> DEFINE f == file[b]
    <3>1. /\ file'[b] = f /\ now' = now /\ gen \in Nat /\ f.gen \in Nat
          /\ gen' \in {gen, gen + 1}
          /\ (b \in timers' <=> b \in timers) /\ (b \in subs' <=> b \in subs)
      BY <2>2, Typed DEF OnlyOf, TypesInv, FileRec
    <3>2. FileTrue(b, f)
      BY DEF FilesInv
    <3> HIDE DEF f
    <3> QED
      BY <3>1, <3>2 DEF FileTrue
  <2> QED
    BY <2>1, <2>2
<1> QED
  BY <1>1 DEF FilesInv

(* One client's record changes. *)
LEMMA FileSet ==
  ASSUME TypesInv, NEW c \in Clients, NEW r \in FileRec, file' = [file EXCEPT ![c] = r]
  PROVE  /\ file' \in [Clients -> FileRec] /\ file'[c] = r
         /\ \A b \in Clients : b # c => file'[b] = file[b]
  BY DEF TypesInv

-----------------------------------------------------------------------------
(* The client                                                              *)

(* The daemon's part of the invariant does not look at the client. *)
LEMMA DaemonKept ==
  ASSUME MonitorInv,
         UNCHANGED <<gen, refs, subs, timers, emits, calls, backend, active, now, open, bad>>,
         file' \in [Clients -> FileRec], up' \in Seq(UpMsg), down' \in Seq(DownMsg),
         open \/ (up' = up /\ down' = down)
  PROVE  TypesInv' /\ CountInv'
  BY DEF MonitorInv, TypesInv, CountInv, RefsExact, ActivityExact, NoUseAfterFree

(* The call CreateMonitor is sent once. *)
LEMMA MonitorDirInv ==
  ASSUME MonitorInv, NEW c \in Clients, MonitorDir(c)
  PROVE  MonitorInv'
<1> DEFINE m == Msg("Create", c, file[c].gen)
<1>0. /\ TypesInv /\ CountInv /\ QueuesInv /\ MessagesInv /\ FilesInv /\ SeenInv
      /\ file[c] \in FileRec /\ up \in Seq(UpMsg)
  BY DEF MonitorInv, TypesInv
<1>1. /\ m \in UpMsg /\ m.m = "Create" /\ m.c = c
      /\ up' = Append(up, m) /\ UNCHANGED <<down, emits, open, subs, timers, calls, now, gen, backend>>
      /\ open /\ file[c].st = "none"
  BY <1>0 DEF MonitorDir, Send, Msg, UpMsg, FileRec
<1> HIDE DEF m
<1> DEFINE r == [file[c] EXCEPT !.st = "creating"]
<1>r. /\ r \in FileRec /\ r.st = "creating" /\ r.gen = file[c].gen /\ r.got = file[c].got
      /\ r.listed = file[c].listed /\ r.proxy = file[c].proxy
      /\ r.cancelled = file[c].cancelled /\ file' = [file EXCEPT ![c] = r]
  BY <1>0 DEF FileRec, MonitorDir
<1> HIDE DEF r
<1>2. /\ file' \in [Clients -> FileRec] /\ file'[c] = r
      /\ \A b \in Clients : b # c => file'[b] = file[b]
  BY <1>0, <1>r, FileSet
<1>3. /\ up' \in Seq(UpMsg) /\ In(up') = In(up) \cup {m}
      /\ Ordered(up) /\ (\A a \in In(up) : Compatible(a, m)) => Ordered(up')
  BY <1>0, <1>1, Put
<1>4. TypesInv' /\ CountInv'
  BY <1>1, <1>2, <1>3, DaemonKept DEF MonitorDir, TypesInv, MonitorInv
<1>5. QueuesInv'
  <2>1. \A a \in In(up) : Compatible(a, m)
    BY <1>0, <1>1, Typed DEF MessagesInv, UpTrue, Compatible, Handshake, Listening
  <2>2. \A b \in In(down) : Compatible(m, b)
    BY <1>0, <1>1, Typed DEF MessagesInv, DownTrue, Compatible, Handshake, Listening, DownMsg
  <2>3. \A b \in In(emits) : Compatible(m, b)
    BY <1>0, <1>1, Typed DEF Compatible, Handshake
  <2> QED
    BY <1>0, <1>1, <1>3, <2>1, <2>2, <2>3 DEF QueuesInv, Ahead
<1>o. OnlyOf(c)
  BY <1>1, <1>2 DEF OnlyOf
<1>6. MessagesInv'
  <2>1. ASSUME NEW x \in In(up'), x.c = c PROVE UpTrue(x)'
    <3>1. CASE x = m
      BY <1>0, <1>1, <1>2, <1>r, <3>1 DEF UpTrue, FilesInv, FileTrue
    <3>2. CASE x \in In(up)
      BY <1>0, <1>1, <1>2, <1>r, <2>1, <3>2 DEF MessagesInv, UpTrue, Listening
    <3> QED
      BY <1>3, <3>1, <3>2
  <2>2. ASSUME NEW x \in In(down'), x.c = c PROVE DownTrue(x)'
    BY <1>0, <1>1, <1>2, <1>r, <2>2 DEF MessagesInv, DownTrue, Listening
  <2>3. ASSUME NEW x \in In(emits'), x.c = c PROVE EmitTrue(x)'
    BY <1>0, <1>1, <1>2, <1>r, <2>3 DEF MessagesInv, EmitTrue, Listening
  <2> QED
    BY <1>0, <1>1, <1>3, <1>o, <2>1, <2>2, <2>3, OthersMessages
<1>7. FilesInv'
  <2>1. FileTrue(c, file[c])'
    BY <1>0, <1>1, <1>2, <1>r DEF FilesInv, FileTrue
  <2> QED
    BY <1>0, <1>o, <2>1, OthersFiles
<1>8. SeenInv'
  <2>1. \A b \in Clients : Seen(b)' = Seen(b) /\ file'[b].cancelled = file[b].cancelled
    BY <1>0, <1>1, <1>2, <1>r, SeenKept
  <2> QED
    BY <1>0, <1>1, <2>1, SeenInvKept
<1> QED
  BY <1>4, <1>5, <1>6, <1>7, <1>8 DEF MonitorInv

(* A listing is asked for on the connection of the subscription. *)
LEMMA ListDirInv ==
  ASSUME MonitorInv, NEW c \in Clients, ListDir(c)
  PROVE  MonitorInv'
<1> DEFINE m == Msg("List", c, file[c].gen)
           r == [file[c] EXCEPT !.asked = "yes"]
<1>0. /\ TypesInv /\ CountInv /\ QueuesInv /\ MessagesInv /\ FilesInv /\ SeenInv
      /\ file[c] \in FileRec /\ up \in Seq(UpMsg)
  BY DEF MonitorInv, TypesInv
<1>1. /\ m \in UpMsg /\ m.m = "List" /\ m.c = c
      /\ up' = Append(up, m)
      /\ UNCHANGED <<gen, refs, subs, timers, emits, calls, backend, active, now, open, down, bad>>
      /\ open /\ Listening(c)
  BY <1>0 DEF ListDir, Send, Msg, UpMsg, FileRec, Listening
<1>r. /\ r \in FileRec /\ r.st = file[c].st /\ r.gen = file[c].gen /\ r.got = file[c].got
      /\ r.listed = file[c].listed /\ r.proxy = file[c].proxy
      /\ r.cancelled = file[c].cancelled /\ file' = [file EXCEPT ![c] = r]
  BY <1>0 DEF FileRec, ListDir
<1> HIDE DEF m, r
<1>2. /\ file' \in [Clients -> FileRec] /\ file'[c] = r
      /\ \A b \in Clients : b # c => file'[b] = file[b]
  BY <1>0, <1>r, FileSet
<1>3. /\ up' \in Seq(UpMsg) /\ In(up') = In(up) \cup {m}
      /\ Ordered(up) /\ (\A a \in In(up) : Compatible(a, m)) => Ordered(up')
  BY <1>0, <1>1, Put
<1>4. TypesInv' /\ CountInv'
  BY <1>0, <1>1, <1>2, <1>3, DaemonKept DEF TypesInv
<1>5. QueuesInv'
  <2>1. \A a : Compatible(a, m) /\ (a.m # "Subscribe" => Compatible(m, a))
    BY <1>1 DEF Compatible, Handshake
  <2>2. \A b \in In(down) \cup In(emits) : b.m # "Subscribe"
    BY <1>0, Typed DEF DownMsg
  <2> QED
    BY <1>0, <1>1, <1>3, <2>1, <2>2 DEF QueuesInv, Ahead
<1>o. OnlyOf(c)
  BY <1>1, <1>2 DEF OnlyOf
<1>6. MessagesInv'
  <2>1. ASSUME NEW x \in In(up'), x.c = c PROVE UpTrue(x)'
    <3>1. CASE x = m
      BY <1>0, <1>1, <1>2, <1>r, <3>1 DEF UpTrue, Listening
    <3>2. CASE x \in In(up)
      BY <1>0, <1>1, <1>2, <1>r, <2>1, <3>2 DEF MessagesInv, UpTrue, Listening
    <3> QED
      BY <1>3, <3>1, <3>2
  <2>2. ASSUME NEW x \in In(down'), x.c = c PROVE DownTrue(x)'
    BY <1>0, <1>1, <1>2, <1>r, <2>2 DEF MessagesInv, DownTrue, Listening, After
  <2>3. ASSUME NEW x \in In(emits'), x.c = c PROVE EmitTrue(x)'
    BY <1>0, <1>1, <1>2, <1>r, <2>3 DEF MessagesInv, EmitTrue, Listening, After
  <2> QED
    BY <1>0, <1>1, <1>3, <1>o, <2>1, <2>2, <2>3, OthersMessages
<1>7. FilesInv'
  <2>1. FileTrue(c, file[c])'
    BY <1>0, <1>1, <1>2, <1>r DEF FilesInv, FileTrue
  <2> QED
    BY <1>0, <1>o, <2>1, OthersFiles
<1>8. SeenInv'
  <2>1. \A b \in Clients : Seen(b)' = Seen(b) /\ file'[b].cancelled = file[b].cancelled
    BY <1>0, <1>1, <1>2, <1>r, SeenKept
  <2> QED
    BY <1>0, <1>1, <2>1, SeenInvKept
<1> QED
  BY <1>4, <1>5, <1>6, <1>7, <1>8 DEF MonitorInv

(* The directory is listed over another connection. *)
LEMMA ListElsewhereInv ==
  ASSUME Assumptions, MonitorInv, NEW c \in Clients, ListElsewhere(c)
  PROVE  MonitorInv'
<1> DEFINE r == IF file[c].st = "ready" \/ c \in subs
                THEN [file[c] EXCEPT !.asked = "yes", !.listed = now]
                ELSE [file[c] EXCEPT !.asked = "early"]
<1>0. /\ TypesInv /\ CountInv /\ QueuesInv /\ MessagesInv /\ FilesInv /\ SeenInv
      /\ file[c] \in FileRec /\ up \in Seq(UpMsg) /\ down \in Seq(DownMsg)
      /\ now \in 0 .. MaxEvents + 1
  BY DEF MonitorInv, TypesInv, Assumptions, BoundsAssumption
<1>1. /\ UNCHANGED <<gen, refs, subs, timers, emits, calls, backend, active, now, open, up, down, bad>>
      /\ open /\ Listening(c)
  BY DEF ListElsewhere, Listening
<1>r. /\ r \in FileRec /\ r.st = file[c].st /\ r.gen = file[c].gen /\ r.got = file[c].got
      /\ r.listed = file[c].listed \/ (r.listed = now /\ (file[c].st = "ready" \/ c \in subs))
      /\ r.proxy = file[c].proxy /\ r.cancelled = file[c].cancelled
      /\ file' = [file EXCEPT ![c] = r]
  <2>1. CASE file[c].st = "ready" \/ c \in subs
    <3>1. r = [file[c] EXCEPT !.asked = "yes", !.listed = now]
      BY <2>1
    <3>2. file' = [file EXCEPT ![c].asked = "yes", ![c].listed = now]
      BY <2>1 DEF ListElsewhere
    <3> HIDE DEF r
    <3>3. now \in Nat
      BY <1>0
    <3>4. file' = [file EXCEPT ![c] = r]
      BY <1>0, <3>1, <3>2 DEF TypesInv
    <3> QED
      BY <1>0, <2>1, <3>1, <3>3, <3>4 DEF FileRec
  <2>2. CASE ~(file[c].st = "ready" \/ c \in subs)
    <3>1. r = [file[c] EXCEPT !.asked = "early"]
      BY <2>2
    <3>2. file' = [file EXCEPT ![c].asked = "early"]
      BY <2>2 DEF ListElsewhere
    <3> HIDE DEF r
    <3>3. file' = [file EXCEPT ![c] = r]
      BY <1>0, <3>1, <3>2 DEF TypesInv
    <3> QED
      BY <1>0, <3>1, <3>3 DEF FileRec
  <2> QED
    BY <2>1, <2>2
<1> HIDE DEF r
<1>2. /\ file' \in [Clients -> FileRec] /\ file'[c] = r
      /\ \A b \in Clients : b # c => file'[b] = file[b]
  BY <1>0, <1>r, FileSet
<1>4. TypesInv' /\ CountInv'
  BY <1>0, <1>1, <1>2, DaemonKept
<1>5. QueuesInv'
  BY <1>0, <1>1 DEF QueuesInv, Ordered, Ahead, In
<1>o. OnlyOf(c)
  BY <1>1, <1>2 DEF OnlyOf
<1>6. MessagesInv'
  <2>0. In(up') = In(up) /\ In(down') = In(down) /\ In(emits') = In(emits)
    BY <1>1
  <2>1. ASSUME NEW x \in In(up'), x.c = c PROVE UpTrue(x)'
    <3>1. UpTrue(x)
      BY <1>0, <2>0 DEF MessagesInv
    <3> QED
      BY <1>1, <1>2, <1>r, <2>1, <3>1 DEF UpTrue, Listening
  <2>2. ASSUME NEW x \in In(down'), x.c = c PROVE DownTrue(x)'
    BY <1>0, <1>1, <1>2, <1>r, <2>0, <2>2 DEF MessagesInv, DownTrue, Listening, After
  <2>3. ASSUME NEW x \in In(emits'), x.c = c PROVE EmitTrue(x)'
    BY <1>0, <1>1, <1>2, <1>r, <2>0, <2>3 DEF MessagesInv, EmitTrue, Listening, After
  <2> QED
    BY <1>0, <1>o, <2>0, <2>1, <2>2, <2>3, OthersMessages
<1>7. FilesInv'
  <2>1. FileTrue(c, file[c]) /\ file[c].st \notin {"none", "creating", "deaf"}
    BY <1>0, <1>1 DEF FilesInv, Listening
  <2>2. FileTrue(c, file[c])'
    BY <1>0, <1>1, <1>2, <1>r, <2>1 DEF FileTrue
  <2> QED
    BY <1>0, <1>o, <2>2, OthersFiles
<1>8. SeenInv'
  <2>1. \A b \in Clients : Seen(b)' = Seen(b) /\ file'[b].cancelled = file[b].cancelled
    BY <1>0, <1>1, <1>2, <1>r, SeenKept
  <2> QED
    BY <1>0, <1>1, <2>1, SeenInvKept
<1> QED
  BY <1>4, <1>5, <1>6, <1>7, <1>8 DEF MonitorInv

(* A monitor is cancelled. *)
LEMMA CancelInv ==
  ASSUME MonitorInv, NEW c \in Clients, Cancel(c)
  PROVE  MonitorInv'
<1> DEFINE m == Msg("Unsubscribe", c, file[c].gen)
           r == [file[c] EXCEPT !.cancelled = TRUE]
<1>0. /\ TypesInv /\ CountInv /\ QueuesInv /\ MessagesInv /\ FilesInv /\ SeenInv
      /\ file[c] \in FileRec /\ up \in Seq(UpMsg)
  BY DEF MonitorInv, TypesInv
<1>1. /\ m \in UpMsg /\ m.m = "Unsubscribe" /\ m.c = c
      /\ (open /\ up' = Append(up, m)) \/ up' = up
      /\ UNCHANGED <<gen, refs, subs, timers, emits, calls, backend, active, now, open, down, bad>>
      /\ Listening(c)
  BY <1>0 DEF Cancel, Send, Msg, UpMsg, FileRec, Listening
<1>r. /\ r \in FileRec /\ r.st = file[c].st /\ r.gen = file[c].gen /\ r.got = file[c].got
      /\ r.listed = file[c].listed /\ r.proxy = file[c].proxy
      /\ r.cancelled = TRUE /\ r.cancelled /\ file' = [file EXCEPT ![c] = r]
  BY <1>0 DEF FileRec, Cancel
<1> HIDE DEF m, r
<1>2. /\ file' \in [Clients -> FileRec] /\ file'[c] = r
      /\ \A b \in Clients : b # c => file'[b] = file[b]
  BY <1>0, <1>r, FileSet
<1>3. /\ up' \in Seq(UpMsg) /\ In(up') \subseteq In(up) \cup {m}
      /\ Ordered(up) /\ (\A a \in In(up) : Compatible(a, m)) => Ordered(up')
  <2>1. CASE up' = up
    BY <1>0, <2>1
  <2>2. CASE up' = Append(up, m)
    BY <1>0, <1>1, <2>2, Put
  <2> QED
    BY <1>1, <2>1, <2>2
<1>4. TypesInv' /\ CountInv'
  BY <1>0, <1>1, <1>2, <1>3, DaemonKept DEF TypesInv
<1>5. QueuesInv'
  <2>1. \A a : Compatible(a, m) /\ Compatible(m, a)
    BY <1>1 DEF Compatible, Handshake
  <2> QED
    BY <1>0, <1>1, <1>3, <2>1 DEF QueuesInv, Ahead
<1>o. OnlyOf(c)
  BY <1>1, <1>2 DEF OnlyOf
<1>6. MessagesInv'
  <2>1. ASSUME NEW x \in In(up'), x.c = c PROVE UpTrue(x)'
    <3>1. CASE x = m
      BY <1>0, <1>1, <1>2, <1>r, <3>1 DEF UpTrue
    <3>2. CASE x \in In(up)
      BY <1>0, <1>1, <1>2, <1>r, <2>1, <3>2 DEF MessagesInv, UpTrue, Listening
    <3> QED
      BY <1>3, <3>1, <3>2
  <2>2. ASSUME NEW x \in In(down'), x.c = c PROVE DownTrue(x)'
    BY <1>0, <1>1, <1>2, <1>r, <2>2 DEF MessagesInv, DownTrue, Listening, After
  <2>3. ASSUME NEW x \in In(emits'), x.c = c PROVE EmitTrue(x)'
    BY <1>0, <1>1, <1>2, <1>r, <2>3 DEF MessagesInv, EmitTrue, Listening, After
  <2> QED
    BY <1>0, <1>1, <1>3, <1>o, <2>1, <2>2, <2>3, OthersMessages
<1>7. FilesInv'
  <2>1. FileTrue(c, file[c])'
    <3>1. FileTrue(c, file[c]) /\ file[c].st \notin {"none", "creating", "deaf"}
      BY <1>0, <1>1 DEF FilesInv, Listening
    <3> QED
      BY <1>1, <1>2, <1>r, <3>1 DEF FileTrue
  <2> QED
    BY <1>0, <1>o, <2>1, OthersFiles
<1>8. SeenInv'
  <2>1. \A b \in Clients : Seen(b)' = Seen(b) /\ (file[b].cancelled => file'[b].cancelled)
    BY <1>0, <1>1, <1>2, <1>r, SeenKept
  <2>2. \A b \in Clients : file[b].cancelled \in BOOLEAN
    BY <1>0, Typed DEF FileRec
  <2> QED
    BY <1>0, <1>1, <2>1, <2>2, SeenInvKept
<1> QED
  BY <1>4, <1>5, <1>6, <1>7, <1>8 DEF MonitorInv

(* The client takes a message; the others are behind it. *)
TakenDown ==
  /\ open /\ down # <<>> /\ down' = Tail(down)
  /\ UNCHANGED <<gen, refs, subs, timers, emits, calls, backend, active, now, open, bad>>

(* What the message says is true, and the rest is behind it. *)
LEMMA TakenDownFacts ==
  ASSUME MonitorInv, TakenDown
  PROVE  /\ TypesInv /\ CountInv /\ QueuesInv /\ MessagesInv /\ FilesInv /\ SeenInv
         /\ up \in Seq(UpMsg) /\ down' \in Seq(DownMsg)
         /\ Head(down) \in DownMsg /\ Head(down) \in In(down) /\ In(down') \subseteq In(down)
         /\ Head(down).c \in Clients /\ file[Head(down).c] \in FileRec /\ DownTrue(Head(down))
         /\ Ordered(down') /\ \A b \in In(down') : Compatible(Head(down), b)
<1>1. /\ TypesInv /\ CountInv /\ QueuesInv /\ MessagesInv /\ FilesInv /\ SeenInv
      /\ up \in Seq(UpMsg) /\ down \in Seq(DownMsg)
  BY DEF MonitorInv, TypesInv
<1>2. /\ down' \in Seq(DownMsg) /\ Head(down) \in DownMsg /\ In(down) = {Head(down)} \cup In(down')
      /\ Ordered(down') /\ \A b \in In(down') : Compatible(Head(down), b)
  BY <1>1, Take DEF TakenDown, QueuesInv
<1>3. Head(down) \in In(down) /\ In(down') \subseteq In(down)
  BY <1>2
<1>4. Head(down).c \in Clients
  BY <1>2 DEF DownMsg
<1>5. file[Head(down).c] \in FileRec /\ DownTrue(Head(down))
  BY <1>1, <1>3, <1>4, Typed DEF MessagesInv
<1> QED
  BY <1>1, <1>2, <1>3, <1>4, <1>5

(* The monitor is made and Subscribe is sent, or it is returned deaf. *)
LEMMA NewInv ==
  ASSUME MonitorInv, TakenDown, NEW c \in Clients, NEW g \in Nat, NEW ok \in BOOLEAN,
         Head(down).m = "Created", Head(down).c = c, Head(down).n = g, New(c, g, ok)
  PROVE  MonitorInv'
<1> DEFINE m == Msg("Subscribe", c, g)
           r == IF ok THEN [file[c] EXCEPT !.st = "subscribing", !.gen = g]
                      ELSE [file[c] EXCEPT !.st = "deaf"]
<1>0. /\ TypesInv /\ CountInv /\ QueuesInv /\ MessagesInv /\ FilesInv /\ SeenInv
      /\ up \in Seq(UpMsg) /\ down' \in Seq(DownMsg)
      /\ Head(down) \in In(down) /\ In(down') \subseteq In(down)
      /\ file[c] \in FileRec /\ DownTrue(Head(down))
      /\ Ordered(down') /\ \A b \in In(down') : Compatible(Head(down), b)
  BY TakenDownFacts
<1>1. /\ m \in UpMsg /\ m.m = "Subscribe" /\ m.c = c /\ m.n = g
      /\ (ok /\ up' = Append(up, m)) \/ (~ok /\ up' = up)
      /\ UNCHANGED <<gen, refs, subs, timers, emits, calls, backend, active, now, open, bad>>
      /\ open
  BY <1>0 DEF New, Msg, UpMsg, TakenDown
<1>r. /\ r \in FileRec /\ r.st = IF ok THEN "subscribing" ELSE "deaf"
      /\ r.gen = IF ok THEN g ELSE file[c].gen
      /\ r.got = file[c].got /\ r.listed = file[c].listed /\ r.proxy = file[c].proxy
      /\ r.cancelled = file[c].cancelled /\ file' = [file EXCEPT ![c] = r]
  BY <1>0, <1>1 DEF FileRec, New
<1>s. /\ file[c].st = "creating" /\ g <= gen /\ c \notin subs /\ file[c].got = <<>>
      /\ file[c].listed = MaxEvents + 1 /\ ~file[c].cancelled
      /\ Prompt => c \in timers /\ g = gen
  BY <1>0 DEF DownTrue, FilesInv, FileTrue
<1> HIDE DEF m, r
<1>2. /\ file' \in [Clients -> FileRec] /\ file'[c] = r
      /\ \A b \in Clients : b # c => file'[b] = file[b]
  BY <1>0, <1>r, FileSet
<1>3. /\ up' \in Seq(UpMsg) /\ In(up') = In(up) \cup (IF ok THEN {m} ELSE {})
      /\ Ordered(up) /\ (ok => \A a \in In(up) : Compatible(a, m)) => Ordered(up')
  <2>1. CASE ~ok
    BY <1>0, <1>1, <2>1
  <2>2. CASE ok
    <3>1. /\ up' = Append(up, m) /\ Append(up, m) \in Seq(UpMsg)
          /\ In(Append(up, m)) = In(up) \cup {m}
          /\ Ordered(up) /\ (\A a \in In(up) : Compatible(a, m)) => Ordered(Append(up, m))
      BY <1>0, <1>1, <2>2, Put
    <3> QED
      BY <2>2, <3>1
  <2> QED
    BY <2>1, <2>2
<1>4. TypesInv' /\ CountInv'
  BY <1>0, <1>1, <1>2, <1>3, DaemonKept
(* Nothing else is under way for the client that is told of its monitor.   *)
<1>q. /\ \A x \in In(up) : x.c = c => x.m \in {"Unsubscribe", "ChangedDone"}
      /\ \A x \in In(down') \cup In(emits) : x.c # c
  <2>1. ASSUME NEW x \in In(up), x.c = c PROVE x.m \in {"Unsubscribe", "ChangedDone"}
    <3>1. Compatible(x, Head(down)) /\ UpTrue(x) /\ x \in UpMsg
      BY <1>0, Typed DEF QueuesInv, Ahead, MessagesInv
    <3> QED
      BY <1>s, <2>1, <3>1 DEF Compatible, Handshake, UpTrue, UpMsg, Listening
  <2>2. ASSUME NEW x \in In(down'), x.c = c PROVE FALSE
    <3>1. Compatible(Head(down), x) /\ DownTrue(x) /\ x \in DownMsg
      BY <1>0, Typed DEF MessagesInv
    <3> QED
      BY <1>s, <2>2, <3>1 DEF Compatible, Handshake, DownTrue, DownMsg, Listening
  <2>3. ASSUME NEW x \in In(emits), x.c = c PROVE FALSE
    BY <1>0, <1>s, <2>3 DEF MessagesInv, EmitTrue, Listening
  <2> QED
    BY <2>1, <2>2, <2>3
<1>5. QueuesInv'
  <2>1. \A a \in In(up) : Compatible(a, m)
    BY <1>1, <1>q DEF Compatible, Handshake
  <2>2. \A b \in In(down') \cup In(emits) : Compatible(m, b)
    BY <1>1, <1>q DEF Compatible
  <2>3. /\ Ordered(up) /\ Ordered(emits) /\ Ahead(up, emits)
        /\ Ahead(up, down') /\ Ahead(down', emits)
    BY <1>0 DEF QueuesInv, Ahead
  <2>4. Ordered(up') /\ Ahead(up', emits) /\ Ahead(up', down')
    BY <1>3, <2>1, <2>2, <2>3 DEF Ahead
  <2> QED
    BY <1>0, <1>1, <2>3, <2>4 DEF QueuesInv
<1>o. OnlyOf(c)
  BY <1>1, <1>2 DEF OnlyOf
<1>6. MessagesInv'
  <2>1. ASSUME NEW x \in In(up'), x.c = c PROVE UpTrue(x)'
    <3>1. CASE x = m /\ ok
      BY <1>0, <1>1, <1>2, <1>r, <1>s, <3>1 DEF UpTrue
    <3>2. CASE x \in In(up)
      BY <1>0, <1>1, <1>2, <1>r, <1>q, <2>1, <3>2 DEF MessagesInv, UpTrue
    <3> QED
      BY <1>3, <3>1, <3>2
  <2>2. \A x \in In(down') : x.c # c
    BY <1>q
  <2>3. \A x \in In(emits') : x.c # c
    BY <1>1, <1>q
  <2>4. \A x \in In(up') : x \in In(up) \/ x.c = c
    BY <1>1, <1>3
  <2> QED
    BY <1>0, <1>1, <1>o, <2>1, <2>2, <2>3, <2>4, OthersMessages
<1>7. FilesInv'
  <2>1. FileTrue(c, file[c])'
    BY <1>0, <1>1, <1>2, <1>r, <1>s DEF FilesInv, FileTrue
  <2> QED
    BY <1>0, <1>o, <2>1, OthersFiles
<1>8. SeenInv'
  <2>1. \A b \in Clients : Seen(b)' = Seen(b) /\ file'[b].cancelled = file[b].cancelled
    BY <1>0, <1>1, <1>2, <1>r, SeenKept DEF TakenDown
  <2> QED
    BY <1>0, <1>1, <2>1, SeenInvKept
<1> QED
  BY <1>4, <1>5, <1>6, <1>7, <1>8 DEF MonitorInv

(* The daemon refuses. *)
LEMMA RefusedInv ==
  ASSUME MonitorInv, TakenDown, NEW c \in Clients,
         Head(down).m = "Failed", Head(down).c = c,
         file' = [file EXCEPT ![c].st = "deaf"], up' = up
  PROVE  MonitorInv'
<1> DEFINE r == [file[c] EXCEPT !.st = "deaf"]
<1>0. /\ TypesInv /\ CountInv /\ QueuesInv /\ MessagesInv /\ FilesInv /\ SeenInv
      /\ up \in Seq(UpMsg) /\ down' \in Seq(DownMsg)
      /\ Head(down) \in In(down) /\ In(down') \subseteq In(down)
      /\ file[c] \in FileRec /\ DownTrue(Head(down))
      /\ Ordered(down') /\ \A b \in In(down') : Compatible(Head(down), b)
  BY TakenDownFacts
<1>1. /\ UNCHANGED <<gen, refs, subs, timers, emits, calls, backend, active, now, open, bad>>
      /\ open
  BY DEF TakenDown
<1>r. /\ r \in FileRec /\ r.st = "deaf" /\ r.gen = file[c].gen
      /\ r.got = file[c].got /\ r.listed = file[c].listed /\ r.proxy = file[c].proxy
      /\ r.cancelled = file[c].cancelled /\ file' = [file EXCEPT ![c] = r]
  BY <1>0 DEF FileRec
<1>s. file[c].st = "creating"
  BY <1>0 DEF DownTrue
<1> HIDE DEF r
<1>2. /\ file' \in [Clients -> FileRec] /\ file'[c] = r
      /\ \A b \in Clients : b # c => file'[b] = file[b]
  BY <1>0, <1>r, FileSet
<1>4. TypesInv' /\ CountInv'
  BY <1>0, <1>1, <1>2, DaemonKept
<1>q. /\ \A x \in In(up) : x.c = c => x.m \in {"Unsubscribe", "ChangedDone"}
      /\ \A x \in In(down') \cup In(emits) : x.c # c
  <2>1. ASSUME NEW x \in In(up), x.c = c PROVE x.m \in {"Unsubscribe", "ChangedDone"}
    <3>1. Compatible(x, Head(down)) /\ UpTrue(x) /\ x \in UpMsg
      BY <1>0, Typed DEF QueuesInv, Ahead, MessagesInv
    <3> QED
      BY <1>s, <2>1, <3>1 DEF Compatible, Handshake, UpTrue, UpMsg, Listening
  <2>2. ASSUME NEW x \in In(down'), x.c = c PROVE FALSE
    <3>1. Compatible(Head(down), x) /\ DownTrue(x) /\ x \in DownMsg
      BY <1>0, Typed DEF MessagesInv
    <3> QED
      BY <1>s, <2>2, <3>1 DEF Compatible, Handshake, DownTrue, DownMsg, Listening
  <2>3. ASSUME NEW x \in In(emits), x.c = c PROVE FALSE
    BY <1>0, <1>s, <2>3 DEF MessagesInv, EmitTrue, Listening
  <2> QED
    BY <2>1, <2>2, <2>3
<1>5. QueuesInv'
  BY <1>0, <1>1 DEF QueuesInv, Ahead
<1>o. OnlyOf(c)
  BY <1>1, <1>2 DEF OnlyOf
<1>6. MessagesInv'
  <2>1. ASSUME NEW x \in In(up'), x.c = c PROVE UpTrue(x)'
    BY <1>0, <1>1, <1>2, <1>r, <1>q, <2>1 DEF MessagesInv, UpTrue
  <2>2. \A x \in In(down') \cup In(emits') : x.c # c
    BY <1>1, <1>q
  <2> QED
    BY <1>0, <1>1, <1>o, <2>1, <2>2, OthersMessages
<1>7. FilesInv'
  <2>1. FileTrue(c, file[c])'
    BY <1>0, <1>1, <1>2, <1>r, <1>s DEF FilesInv, FileTrue
  <2> QED
    BY <1>0, <1>o, <2>1, OthersFiles
<1>8. SeenInv'
  <2>1. \A b \in Clients : Seen(b)' = Seen(b) /\ file'[b].cancelled = file[b].cancelled
    BY <1>0, <1>1, <1>2, <1>r, SeenKept DEF TakenDown
  <2> QED
    BY <1>0, <1>1, <2>1, SeenInvKept
<1> QED
  BY <1>4, <1>5, <1>6, <1>7, <1>8 DEF MonitorInv

(* The subscription is confirmed; a cancelled monitor takes it back. *)
LEMMA SubscribeCbInv ==
  ASSUME MonitorInv, TakenDown, NEW c \in Clients,
         Head(down).m = "Subscribed", Head(down).c = c, SubscribeCb(c)
  PROVE  MonitorInv'
<1> DEFINE m == Msg("Unsubscribe", c, file[c].gen)
           r == IF file[c].cancelled THEN [file[c] EXCEPT !.st = "ready"]
                ELSE [file[c] EXCEPT !.st = "ready", !.proxy = TRUE]
<1>0. /\ TypesInv /\ CountInv /\ QueuesInv /\ MessagesInv /\ FilesInv /\ SeenInv
      /\ up \in Seq(UpMsg) /\ down' \in Seq(DownMsg)
      /\ Head(down) \in In(down) /\ In(down') \subseteq In(down)
      /\ file[c] \in FileRec /\ DownTrue(Head(down))
      /\ Ordered(down') /\ \A b \in In(down') : Compatible(Head(down), b)
  BY TakenDownFacts
<1>1. /\ m \in UpMsg /\ m.m = "Unsubscribe" /\ m.c = c
      /\ up' = up \/ (file[c].cancelled /\ up' = Append(up, m))
      /\ UNCHANGED <<gen, refs, subs, timers, emits, calls, backend, active, now, open, bad>>
      /\ open
  BY <1>0 DEF SubscribeCb, Send, Msg, UpMsg, FileRec, TakenDown
<1>r. /\ r \in FileRec /\ r.st = "ready" /\ r.gen = file[c].gen
      /\ r.got = file[c].got /\ r.listed = file[c].listed
      /\ r.cancelled = file[c].cancelled /\ file' = [file EXCEPT ![c] = r]
  BY <1>0 DEF FileRec, SubscribeCb
<1>s. file[c].st = "subscribing"
  BY <1>0 DEF DownTrue
<1> HIDE DEF m, r
<1>2. /\ file' \in [Clients -> FileRec] /\ file'[c] = r
      /\ \A b \in Clients : b # c => file'[b] = file[b]
  BY <1>0, <1>r, FileSet
<1>3. /\ up' \in Seq(UpMsg) /\ In(up') \subseteq In(up) \cup {m}
      /\ m \in In(up') => m \in In(up) \/ file[c].cancelled
      /\ Ordered(up) /\ (\A a \in In(up) : Compatible(a, m)) => Ordered(up')
  <2>1. CASE up' = up
    BY <1>0, <2>1
  <2>2. CASE file[c].cancelled /\ up' = Append(up, m)
    BY <1>0, <1>1, <2>2, Put
  <2> QED
    BY <1>1, <2>1, <2>2
<1>4. TypesInv' /\ CountInv'
  BY <1>0, <1>1, <1>2, <1>3, DaemonKept
<1>5. QueuesInv'
  <2>1. \A a : Compatible(a, m) /\ Compatible(m, a)
    BY <1>1 DEF Compatible, Handshake
  <2> QED
    BY <1>0, <1>1, <1>3, <2>1 DEF QueuesInv, Ahead
<1>o. OnlyOf(c)
  BY <1>1, <1>2 DEF OnlyOf
<1>6. MessagesInv'
  <2>1. ASSUME NEW x \in In(up'), x.c = c PROVE UpTrue(x)'
    <3>1. CASE x \in In(up)
      <4>1. Compatible(x, Head(down)) /\ UpTrue(x) /\ x \in UpMsg
        BY <1>0, <3>1, Typed DEF QueuesInv, Ahead, MessagesInv
      <4>2. x.m \notin {"Create", "Subscribe"}
        BY <2>1, <4>1 DEF Compatible, Handshake
      <4> QED
        BY <1>1, <1>2, <1>r, <2>1, <4>1, <4>2 DEF UpTrue, Listening
    <3>2. CASE x = m /\ file[c].cancelled
      BY <1>1, <1>2, <1>r, <3>2 DEF UpTrue
    <3> QED
      BY <1>3, <2>1, <3>1, <3>2
  <2>2. ASSUME NEW x \in In(down'), x.c = c PROVE DownTrue(x)'
    <3>1. Compatible(Head(down), x) /\ DownTrue(x) /\ x \in DownMsg
      BY <1>0, <2>2, Typed DEF MessagesInv
    <3>2. x.m = "Changed"
      BY <2>2, <3>1 DEF Compatible, Handshake, DownMsg
    <3> QED
      BY <1>1, <1>2, <1>r, <2>2, <3>1, <3>2 DEF DownTrue, Listening, After
  <2>3. ASSUME NEW x \in In(emits'), x.c = c PROVE EmitTrue(x)'
    BY <1>0, <1>1, <1>2, <1>r, <2>3 DEF MessagesInv, EmitTrue, Listening, After
  <2> QED
    BY <1>0, <1>1, <1>3, <1>o, <2>1, <2>2, <2>3, OthersMessages
<1>7. FilesInv'
  <2>1. FileTrue(c, file[c])'
    <3>1. FileTrue(c, file[c])
      BY <1>0 DEF FilesInv
    <3> QED
      BY <1>1, <1>2, <1>r, <3>1 DEF FileTrue
  <2> QED
    BY <1>0, <1>o, <2>1, OthersFiles
<1>8. SeenInv'
  <2>1. \A b \in Clients : Seen(b)' = Seen(b) /\ file'[b].cancelled = file[b].cancelled
    BY <1>0, <1>1, <1>2, <1>r, SeenKept DEF TakenDown
  <2> QED
    BY <1>0, <1>1, <2>1, SeenInvKept
<1> QED
  BY <1>4, <1>5, <1>6, <1>7, <1>8 DEF MonitorInv

(* An event that is told moves from those under way to those told. *)
LEMMA ToldNext ==
  ASSUME MonitorInv, TakenDown, NEW c \in Clients, NEW n \in Nat, emits' = emits,
         Head(down).m = "Changed", Head(down).c = c, Head(down).n = n,
         file'[c].got = Append(file[c].got, n), ~file[c].cancelled
  PROVE  /\ Seen(c)' = Seen(c)
         /\ file[c].got # <<>> =>
              n = file[c].got[Len(file[c].got)] + 1
<1> DEFINE s == file[c].got
           E(x) == x.m = "Changed" /\ x.c = c
<1>0. /\ TypesInv /\ QueuesInv /\ MessagesInv /\ FilesInv /\ SeenInv
      /\ down \in Seq(DownMsg) /\ file[c] \in FileRec
      /\ Head(down) \in In(down) /\ In(down') \subseteq In(down) /\ DownTrue(Head(down))
      /\ \A b \in In(down') : Compatible(Head(down), b)
      /\ open /\ emits' = emits /\ down' = Tail(down) /\ down # <<>>
  BY TakenDownFacts DEF MonitorInv, TypesInv, TakenDown
<1>1. s \in Seq(Nat) /\ s' = Append(s, n) /\ Len(s) \in Nat
  BY <1>0 DEF FileRec
<1>2. /\ Len(s') = Len(s) + 1 /\ s'[Len(s) + 1] = n
      /\ \A i \in 1 .. Len(s) : s'[i] = s[i] /\ i \in 1 .. Len(s) + 1
      /\ \A i \in 1 .. Len(s) + 1 : i \in 1 .. Len(s) \/ i = Len(s) + 1
      /\ Len(s) + 1 \in 1 .. Len(s) + 1
  BY <1>1
<1>3. Told(c)' = Told(c) \cup {n}
  <2> HIDE DEF s
  <2>1. Told(c) = {s[i] : i \in 1 .. Len(s)} /\ Told(c)' = {s'[i] : i \in 1 .. Len(s')}
    BY DEF Told, s
  <2>2. ASSUME NEW x \in Told(c) PROVE x \in Told(c)'
    BY <1>2, <2>1
  <2>3. ASSUME NEW x \in Told(c)' PROVE x \in Told(c) \cup {n}
    <3> PICK i \in 1 .. Len(s') : x = s'[i]
      BY <2>1
    <3> QED
      BY <1>2, <2>1
  <2>4. n \in Told(c)'
    BY <1>2, <2>1
  <2> QED
    BY <2>2, <2>3, <2>4
<1>4. In(down) = {Head(down)} \cup In(down')
  BY <1>0, Take
<1>5. UnderWay(c) = UnderWay(c)' \cup {n}
  <2>1. UnderWay(c) = {x.n : x \in {y \in In(down) \cup In(emits) : E(y)}}
    BY DEF UnderWay
  <2>2. UnderWay(c)' = {x.n : x \in {y \in In(down') \cup In(emits) : E(y)}}
    BY <1>0 DEF UnderWay, In
  <2>3. ASSUME NEW k PROVE k \in UnderWay(c) <=> \E x \in In(down) \cup In(emits) : E(x) /\ x.n = k
    BY <2>1
  <2>4. ASSUME NEW k PROVE k \in UnderWay(c)' <=> \E x \in In(down') \cup In(emits) : E(x) /\ x.n = k
    BY <2>2
  <2> QED
    BY <1>4, <2>3, <2>4
<1>6. Seen(c)' = Seen(c)
  BY <1>3, <1>5 DEF Seen
<1>7. ASSUME s # <<>> PROVE n = s[Len(s)] + 1
  <2> DEFINE l == s[Len(s)]
  <2>0. Len(s) \in 1 .. Len(s) /\ l \in Nat
    BY <1>1, <1>7
  <2>1. l \in Told(c) /\ n \in UnderWay(c)
    BY <1>5, <2>0 DEF Told
  <2>2. l < n
    BY <1>0, <2>0 DEF DownTrue, After
  <2>3. l + 1 \in Seen(c)
    <3>1. l \in Seen(c) /\ n \in Seen(c)
      BY <2>1 DEF Seen
    <3>2. l + 1 \in Nat /\ l <= l + 1 /\ l + 1 <= n
      BY <2>0, <2>2
    <3> HIDE DEF l
    <3> QED
      BY <1>0, <3>1, <3>2 DEF SeenInv
  <2>4. l + 1 \notin Told(c)
    <3> SUFFICES ASSUME NEW i \in 1 .. Len(s), s[i] = l + 1 PROVE FALSE
      BY DEF Told
    <3>1. FileTrue(c, file[c])
      BY <1>0 DEF FilesInv
    <3>2. i = Len(s) \/ i < Len(s)
      BY <1>1
    <3>3. i < Len(s) => s[i] < l
      BY <2>0, <3>1 DEF FileTrue
    <3> QED
      BY <2>0, <3>2, <3>3
  <2>5. \A k \in UnderWay(c)' : n < k
    <3> SUFFICES ASSUME NEW x \in In(down') \cup In(emits), E(x) PROVE n < x.n
      BY <1>0 DEF UnderWay, In
    <3>1. Compatible(Head(down), x)
      BY <1>0 DEF QueuesInv, Ahead
    <3> QED
      BY <3>1 DEF Compatible
  <2>6. l + 1 = n \/ l + 1 \in UnderWay(c)'
    BY <1>5, <2>3, <2>4 DEF Seen
  <2> QED
    BY <2>0, <2>2, <2>5, <2>6
<1> QED
  BY <1>6, <1>7

(* An event is told, and the call is confirmed. *)
LEMMA HandleChangedInv ==
  ASSUME MonitorInv, TakenDown, NEW c \in Clients, NEW n \in Nat,
         Head(down).m = "Changed", Head(down).c = c, Head(down).n = n,
         HandleChanged(c, n)
  PROVE  MonitorInv'
<1> DEFINE m == Msg("ChangedDone", c, n)
           s == file[c].got
           r == [file[c] EXCEPT !.got = IF file[c].cancelled THEN @ ELSE Append(@, n)]
<1>0. /\ TypesInv /\ CountInv /\ QueuesInv /\ MessagesInv /\ FilesInv /\ SeenInv
      /\ up \in Seq(UpMsg) /\ down' \in Seq(DownMsg)
      /\ Head(down) \in In(down) /\ In(down') \subseteq In(down)
      /\ file[c] \in FileRec /\ DownTrue(Head(down))
      /\ Ordered(down') /\ \A b \in In(down') : Compatible(Head(down), b)
  BY TakenDownFacts
<1>1. /\ m \in UpMsg /\ m.m = "ChangedDone" /\ m.c = c /\ m.n = n
      /\ up' = Append(up, m)
      /\ UNCHANGED <<gen, refs, subs, timers, emits, calls, backend, active, now, open, bad>>
      /\ open
  BY <1>0 DEF HandleChanged, Msg, UpMsg, TakenDown
<1>r. /\ r \in FileRec /\ r.st = file[c].st /\ r.gen = file[c].gen
      /\ r.got = IF file[c].cancelled THEN s ELSE Append(s, n)
      /\ r.listed = file[c].listed /\ r.proxy = file[c].proxy
      /\ r.cancelled = file[c].cancelled /\ file' = [file EXCEPT ![c] = r]
  <2>1. s \in Seq(Nat) /\ Append(s, n) \in Seq(Nat)
    BY <1>0 DEF FileRec
  <2>2. file[c].cancelled => r = file[c]
    BY <1>0 DEF FileRec
  <2>3. ~file[c].cancelled => r = [file[c] EXCEPT !.got = Append(s, n)]
    OBVIOUS
  <2>4. file' = [file EXCEPT ![c] = r]
    BY DEF HandleChanged
  <2> HIDE DEF r
  <2>5. CASE file[c].cancelled
    BY <1>0, <2>2, <2>4, <2>5
  <2>6. CASE ~file[c].cancelled
    BY <1>0, <2>1, <2>3, <2>4, <2>6 DEF FileRec
  <2> QED
    BY <1>0, <2>5, <2>6 DEF FileRec
<1>s. /\ Listening(c) /\ <<c, n>> \in calls /\ After(n, c) /\ n \in 1 .. now
  BY <1>0 DEF DownTrue, TypesInv
<1> HIDE DEF m, r
<1>2. /\ file' \in [Clients -> FileRec] /\ file'[c] = r
      /\ \A b \in Clients : b # c => file'[b] = file[b]
  BY <1>0, <1>r, FileSet
<1>3. /\ up' \in Seq(UpMsg) /\ In(up') = In(up) \cup {m}
      /\ Ordered(up) /\ (\A a \in In(up) : Compatible(a, m)) => Ordered(up')
  BY <1>0, <1>1, Put
<1>4. TypesInv' /\ CountInv'
  BY <1>0, <1>1, <1>2, <1>3, DaemonKept
<1>5. QueuesInv'
  <2>1. ASSUME NEW a \in In(up) PROVE Compatible(a, m)
    <3>1. Compatible(a, Head(down)) /\ a \in UpMsg
      BY <1>0, Typed DEF QueuesInv, Ahead
    <3> QED
      BY <1>1, <3>1 DEF Compatible, Handshake
  <2>2. ASSUME NEW b \in In(down') \cup In(emits) PROVE Compatible(m, b)
    <3>1. Compatible(Head(down), b) /\ b.m # "ChangedDone"
      BY <1>0, Typed DEF QueuesInv, Ahead, DownMsg
    <3> QED
      BY <1>1, <3>1 DEF Compatible, Handshake
  <2>3. /\ Ordered(up) /\ Ordered(emits) /\ Ahead(up, emits)
        /\ Ahead(up, down') /\ Ahead(down', emits)
    BY <1>0 DEF QueuesInv, Ahead
  <2>4. Ordered(up') /\ Ahead(up', emits) /\ Ahead(up', down')
    BY <1>3, <2>1, <2>2, <2>3 DEF Ahead
  <2> QED
    BY <1>0, <1>1, <2>3, <2>4 DEF QueuesInv
<1>o. OnlyOf(c)
  BY <1>1, <1>2 DEF OnlyOf
<1>g. ~file[c].cancelled =>
        /\ s \in Seq(Nat) /\ Len(s) \in Nat /\ Len(r.got) = Len(s) + 1
        /\ \A i \in 1 .. Len(s) : r.got[i] = s[i] /\ s[i] < n
        /\ r.got[Len(s) + 1] = n
  BY <1>0, <1>r, <1>s DEF FileRec, After
<1>a. ASSUME NEW k \in Nat, After(k, c), n < k PROVE After(k, c)'
  <2>1. CASE file[c].cancelled
    BY <1>2, <1>r, <1>a, <2>1 DEF After
  <2>2. CASE ~file[c].cancelled
    <3>1. \A i \in 1 .. Len(s) + 1 : i \in 1 .. Len(s) \/ i = Len(s) + 1
      BY <1>g, <2>2
    <3> QED
      BY <1>2, <1>g, <1>a, <2>2, <3>1 DEF After
  <2> QED
    BY <1>0, <2>1, <2>2 DEF FileRec
<1>6. MessagesInv'
  <2>1. ASSUME NEW x \in In(up'), x.c = c PROVE UpTrue(x)'
    <3>1. CASE x \in In(up)
      <4>1. Compatible(x, Head(down)) /\ UpTrue(x) /\ x \in UpMsg
        BY <1>0, <3>1, Typed DEF QueuesInv, Ahead, MessagesInv
      <4>2. x.m # "Subscribe"
        BY <2>1, <4>1 DEF Compatible
      <4> QED
        BY <1>1, <1>2, <1>r, <2>1, <4>1, <4>2 DEF UpTrue, Listening
    <3>2. CASE x = m
      BY <1>1, <1>s, <3>2 DEF UpTrue
    <3> QED
      BY <1>3, <2>1, <3>1, <3>2
  <2>2. ASSUME NEW x \in In(down'), x.c = c PROVE DownTrue(x)'
    <3>1. Compatible(Head(down), x) /\ DownTrue(x) /\ x \in DownMsg
      BY <1>0, <2>2, Typed DEF MessagesInv
    <3>2. x.m = "Changed" => After(x.n, c)'
      BY <1>a, <2>2, <3>1 DEF Compatible, DownTrue, DownMsg
    <3> QED
      BY <1>1, <1>2, <1>r, <2>2, <3>1, <3>2 DEF DownTrue, Listening
  <2>3. ASSUME NEW x \in In(emits'), x.c = c PROVE EmitTrue(x)'
    <3>1. Compatible(Head(down), x) /\ EmitTrue(x) /\ x \in Emission /\ x.m = "Changed"
      BY <1>0, <1>1, <2>3, Typed DEF MessagesInv, QueuesInv, Ahead
    <3>2. After(x.n, c)'
      BY <1>a, <2>3, <3>1 DEF Compatible, EmitTrue, Emission
    <3> QED
      BY <1>1, <1>2, <1>r, <2>3, <3>1, <3>2 DEF EmitTrue, Listening
  <2> QED
    BY <1>0, <1>1, <1>3, <1>o, <2>1, <2>2, <2>3, OthersMessages
<1>t. ~file[c].cancelled =>
        Seen(c)' = Seen(c) /\ (s # <<>> => n = s[Len(s)] + 1)
  BY <1>1, <1>2, <1>r, ToldNext
<1>7. FilesInv'
  <2>0. FileTrue(c, file[c]) /\ file[c].st \notin {"none", "creating", "deaf"}
    BY <1>0, <1>s DEF FilesInv, Listening
  <2>1. FileTrue(c, file[c])'
    <3>1. CASE file[c].cancelled
      BY <1>1, <1>2, <1>r, <2>0, <3>1 DEF FileTrue
    <3>2. CASE ~file[c].cancelled
      <4>1. \A i \in 1 .. Len(r.got) : i \in 1 .. Len(s) \/ i = Len(s) + 1
        BY <1>g, <3>2
      <4>2. \A i \in 1 .. Len(r.got) : r.got[i] \in 1 .. now
        BY <1>g, <1>s, <2>0, <3>2, <4>1 DEF FileTrue
      <4>3. ASSUME NEW i \in 1 .. Len(r.got), NEW j \in 1 .. Len(r.got), i < j
            PROVE  r.got[i] < r.got[j]
        <5>1. i \in 1 .. Len(s)
          BY <1>g, <3>2, <4>3
        <5> QED
          BY <1>g, <2>0, <3>2, <4>1, <4>3, <5>1 DEF FileTrue
      <4>4. ASSUME NEW i \in 1 .. Len(r.got) - 1 PROVE r.got[i + 1] = r.got[i] + 1
        <5>1. i \in 1 .. Len(s) /\ s # <<>>
          BY <1>g, <3>2
        <5>2. CASE i = Len(s)
          BY <1>g, <1>t, <3>2, <5>1, <5>2
        <5>3. CASE i # Len(s)
          <6>1. i \in 1 .. Len(s) - 1 /\ i + 1 \in 1 .. Len(s)
            BY <1>g, <3>2, <5>1, <5>3
          <6>2. s[i + 1] = s[i] + 1
            BY <2>0, <6>1 DEF FileTrue
          <6> QED
            BY <1>g, <3>2, <5>1, <6>1, <6>2
        <5> QED
          BY <5>2, <5>3
      <4> QED
        BY <1>1, <1>2, <1>r, <2>0, <4>2, <4>3, <4>4 DEF FileTrue
    <3> QED
      BY <1>0, <3>1, <3>2 DEF FileRec
  <2> QED
    BY <1>0, <1>o, <2>1, OthersFiles
<1>8. SeenInv'
  <2>1. ASSUME NEW b \in Clients, b # c PROVE Seen(b)' = Seen(b)
    BY <1>0, <1>1, <1>2, <2>1, SeenKept DEF TakenDown
  <2> QED
    BY <1>0, <1>1, <1>2, <1>r, <1>t, <2>1, SeenInvKept
<1> QED
  BY <1>4, <1>5, <1>6, <1>7, <1>8 DEF MonitorInv

(* Every message to the client. *)
LEMMA ClientReceivesInv ==
  ASSUME MonitorInv, ClientReceives
  PROVE  MonitorInv'
<1>1. TakenDown
  BY DEF ClientReceives, TakenDown
<1>2. PICK c \in Clients, n \in Nat : Head(down).c = c /\ Head(down).n = n
  BY <1>1, TakenDownFacts DEF DownMsg
<1>3. CASE Head(down).m = "Created" /\ \E ok \in BOOLEAN : New(c, n, ok)
  BY <1>1, <1>2, <1>3, NewInv
<1>4. CASE Head(down).m = "Failed" /\ file' = [file EXCEPT ![c].st = "deaf"] /\ up' = up
  BY <1>1, <1>2, <1>4, RefusedInv
<1>5. CASE Head(down).m = "Subscribed" /\ SubscribeCb(c)
  BY <1>1, <1>2, <1>5, SubscribeCbInv
<1>6. CASE Head(down).m = "Changed" /\ HandleChanged(c, n)
  BY <1>1, <1>2, <1>6, HandleChangedInv
<1> QED
  BY <1>2, <1>3, <1>4, <1>5, <1>6 DEF ClientReceives

-----------------------------------------------------------------------------
(* The daemon                                                              *)

(* The sets that are counted are finite. *)
LEMMA Sizes ==
  ASSUME Assumptions, TypesInv
  PROVE  /\ IsFiniteSet(subs) /\ IsFiniteSet(timers) /\ IsFiniteSet(calls)
         /\ Cardinality(subs) \in Nat /\ (Cardinality(subs) = 0 <=> subs = {})
         /\ Cardinality(timers) \in Nat /\ (Cardinality(timers) = 0 <=> timers = {})
         /\ Cardinality(calls) \in Nat /\ (Cardinality(calls) = 0 <=> calls = {})
         /\ Len(emits) \in Nat /\ (Len(emits) = 0 <=> emits = <<>>)
<1>1. IsFiniteSet(subs) /\ IsFiniteSet(timers) /\ IsFiniteSet(calls)
  BY FS_Subset DEF Assumptions, ClientsAssumption, TypesInv
<1>2. ASSUME NEW S, IsFiniteSet(S) PROVE Cardinality(S) \in Nat /\ (Cardinality(S) = 0 <=> S = {})
  BY <1>2, FS_CardinalityType, FS_EmptySet
<1>3. Len(emits) \in Nat /\ (Len(emits) = 0 <=> emits = <<>>)
  BY DEF TypesInv
<1> QED
  BY <1>1, <1>2, <1>3

(* A monitor that is gone is used by nobody. *)
LEMMA GoneUnused ==
  ASSUME Assumptions, MonitorInv, refs = 0
  PROVE  subs = {} /\ timers = {} /\ calls = {} /\ emits = <<>>
  BY Sizes DEF MonitorInv, CountInv, RefsExact

(* The daemon takes a message; the others are behind it. *)
TakenUp ==
  /\ open /\ up # <<>> /\ up' = Tail(up)
  /\ UNCHANGED <<emits, backend, now, open, bad>>

(* What the message says is true, and the rest is behind it. *)
LEMMA TakenUpFacts ==
  ASSUME MonitorInv, TakenUp
  PROVE  /\ TypesInv /\ CountInv /\ QueuesInv /\ MessagesInv /\ FilesInv /\ SeenInv
         /\ up' \in Seq(UpMsg) /\ down \in Seq(DownMsg)
         /\ Head(up) \in UpMsg /\ Head(up) \in In(up) /\ In(up') \subseteq In(up)
         /\ Head(up).c \in Clients /\ file[Head(up).c] \in FileRec /\ UpTrue(Head(up))
         /\ Ordered(up') /\ \A b \in In(up') : Compatible(Head(up), b)
<1>1. /\ TypesInv /\ CountInv /\ QueuesInv /\ MessagesInv /\ FilesInv /\ SeenInv
      /\ up \in Seq(UpMsg) /\ down \in Seq(DownMsg)
  BY DEF MonitorInv, TypesInv
<1>2. /\ up' \in Seq(UpMsg) /\ Head(up) \in UpMsg /\ In(up) = {Head(up)} \cup In(up')
      /\ Ordered(up') /\ \A b \in In(up') : Compatible(Head(up), b)
  BY <1>1, Take DEF TakenUp, QueuesInv
<1>3. Head(up) \in In(up) /\ In(up') \subseteq In(up)
  BY <1>2
<1>4. Head(up).c \in Clients
  BY <1>2 DEF UpMsg
<1>5. file[Head(up).c] \in FileRec /\ UpTrue(Head(up))
  BY <1>1, <1>3, <1>4, Typed DEF MessagesInv
<1> QED
  BY <1>1, <1>2, <1>3, <1>4, <1>5

(* An answer of the handshake takes the place of its question. *)
LEMMA AnswerQueued ==
  ASSUME MonitorInv, TakenUp, NEW m \in DownMsg, m.c = Head(up).c,
         Head(up).m \in {"Create", "Subscribe"}, m.m \in {"Created", "Failed", "Subscribed"},
         down' = Append(down, m)
  PROVE  QueuesInv' /\ down' \in Seq(DownMsg) /\ In(down') = In(down) \cup {m}
<1>0. /\ QueuesInv /\ TypesInv /\ down \in Seq(DownMsg)
      /\ Head(up) \in In(up) /\ In(up') \subseteq In(up) /\ emits' = emits
      /\ Ordered(up') /\ \A b \in In(up') : Compatible(Head(up), b)
  BY TakenUpFacts DEF TakenUp
<1>1. /\ down' \in Seq(DownMsg) /\ In(down') = In(down) \cup {m}
      /\ Ordered(down) /\ (\A a \in In(down) : Compatible(a, m)) => Ordered(down')
  BY <1>0, Put
<1>2. ASSUME NEW a \in In(up') PROVE Compatible(a, m)
  <2>1. Compatible(Head(up), a)
    BY <1>0
  <2> QED
    BY <2>1 DEF Compatible, Handshake
<1>3. ASSUME NEW a \in In(down) PROVE Compatible(a, m)
  <2>1. Compatible(Head(up), a)
    BY <1>0 DEF QueuesInv, Ahead
  <2> QED
    BY <2>1 DEF Compatible, Handshake
<1>4. ASSUME NEW b \in In(emits) PROVE Compatible(m, b)
  <2>1. b.m = "Changed"
    BY <1>0, Typed
  <2> QED
    BY <2>1 DEF Compatible, Handshake
<1>5. QueuesInv'
  BY <1>0, <1>1, <1>2, <1>3, <1>4 DEF QueuesInv, Ahead
<1> QED
  BY <1>1, <1>5

(* CreateMonitor is refused. *)
LEMMA RefuseInv ==
  ASSUME MonitorInv, TakenUp, NEW c \in Clients,
         Head(up).m = "Create", Head(up).c = c,
         down' = Append(down, Msg("Failed", c, 0)),
         UNCHANGED <<gen, refs, active, timers, subs, calls, file>>
  PROVE  MonitorInv'
<1> DEFINE m == Msg("Failed", c, 0)
<1>0. /\ TypesInv /\ CountInv /\ QueuesInv /\ MessagesInv /\ FilesInv /\ SeenInv
      /\ up' \in Seq(UpMsg) /\ In(up') \subseteq In(up)
      /\ UpTrue(Head(up)) /\ open /\ UNCHANGED <<emits, backend, now, open, bad>>
  BY TakenUpFacts DEF TakenUp
<1>1. m \in DownMsg /\ m.m = "Failed" /\ m.c = c /\ down' = Append(down, m)
  BY DEF DownMsg, Msg
<1> HIDE DEF m
<1>2. QueuesInv' /\ down' \in Seq(DownMsg) /\ In(down') = In(down) \cup {m}
  BY <1>1, AnswerQueued
<1>3. TypesInv'
  BY <1>0, <1>2 DEF TypesInv
<1>4. CountInv'
  BY <1>0 DEF CountInv, RefsExact, ActivityExact, NoUseAfterFree
<1>5. MessagesInv'
  <2>1. DownTrue(m)'
    BY <1>0, <1>1 DEF UpTrue, DownTrue
  <2> QED
    BY <1>0, <1>2, <2>1 DEF MessagesInv, UpTrue, DownTrue, EmitTrue, Listening, After, In
<1>6. FilesInv'
  BY <1>0 DEF FilesInv, FileTrue
<1>7. SeenInv'
  <2>1. \A b \in Clients : Seen(b)' = Seen(b)
    BY <1>0, <1>1, SeenKept
  <2> QED
    BY <1>0, <2>1, SeenInvKept
<1> QED
  BY <1>2, <1>3, <1>4, <1>5, <1>6, <1>7 DEF MonitorInv

(* A monitor is found or made, and kept until the client has subscribed. *)
LEMMA CreateReplyInv ==
  ASSUME Assumptions, MonitorInv, TakenUp, NEW c \in Clients, backend,
         refs > 0 \/ gen < MaxGens,
         Head(up).m = "Create", Head(up).c = c, CreateReply(c), UNCHANGED <<subs, calls, file>>
  PROVE  MonitorInv'
<1> DEFINE m == Msg("Created", c, gen')
<1>0. /\ TypesInv /\ CountInv /\ QueuesInv /\ MessagesInv /\ FilesInv /\ SeenInv
      /\ up' \in Seq(UpMsg) /\ In(up') \subseteq In(up)
      /\ UpTrue(Head(up)) /\ open /\ UNCHANGED <<emits, backend, now, open, bad>>
      /\ \A b \in In(up') : Compatible(Head(up), b)
      /\ Head(up) \in In(up) /\ gen \in 0 .. MaxGens /\ MaxGens \in Nat /\ refs \in Nat
  BY TakenUpFacts DEF TakenUp, TypesInv, Assumptions, BoundsAssumption
<1>1. /\ gen' = gen \/ (gen' = gen + 1 /\ timers = {})
      /\ gen' \in 0 .. MaxGens /\ refs' = refs + 1 /\ timers' = timers \cup {c}
      /\ active' = TRUE
  <2>1. CASE refs = 0
    BY <1>0, <2>1, GoneUnused DEF CreateReply
  <2>2. CASE refs # 0
    <3>1. backend /\ refs > 0
      BY <1>0, <2>2
    <3>2. active = TRUE
      BY <1>0, <3>1 DEF CountInv, ActivityExact
    <3> QED
      BY <1>0, <2>2, <3>2 DEF CreateReply
  <2> QED
    BY <2>1, <2>2
<1>2. m \in DownMsg /\ m.m = "Created" /\ m.c = c /\ m.n = gen' /\ down' = Append(down, m)
  BY <1>1 DEF DownMsg, Msg, CreateReply
<1> HIDE DEF m
<1>3. QueuesInv' /\ down' \in Seq(DownMsg) /\ In(down') = In(down) \cup {m}
  BY <1>2, AnswerQueued
<1>s. file[c].st = "creating" /\ c \notin timers
  BY <1>0 DEF UpTrue
<1>4. TypesInv'
  BY <1>0, <1>1, <1>3 DEF TypesInv, CreateReply
<1>5. CountInv'
  <2>1. Cardinality(timers') = Cardinality(timers) + 1
    BY <1>0, <1>1, <1>s, Sizes, FS_AddElement
  <2>2. refs' = Cardinality(subs') + Cardinality(timers') + Len(emits') + Cardinality(calls')
    BY <1>0, <1>1, <2>1, Sizes DEF CountInv, RefsExact
  <2>3. backend' = backend /\ refs' > 0
    BY <1>0, <1>1
  <2>4. ActivityExact'
    BY <1>1, <2>3 DEF ActivityExact
  <2>5. ~bad'
    BY <1>0 DEF CountInv, NoUseAfterFree
  <2> QED
    BY <2>2, <2>4, <2>5 DEF CountInv, RefsExact, NoUseAfterFree
<1>o. OnlyOf(c)
  BY <1>0, <1>1 DEF OnlyOf
<1>6. MessagesInv'
  <2>1. ASSUME NEW x \in In(up'), x.c = c PROVE UpTrue(x)'
    <3>1. Compatible(Head(up), x) /\ UpTrue(x)
      BY <1>0 DEF MessagesInv
    <3>2. x.m \notin {"Create", "Subscribe"}
      BY <2>1, <3>1 DEF Compatible, Handshake
    <3> QED
      BY <1>0, <3>1, <3>2 DEF UpTrue, Listening
  <2>2. ASSUME NEW x \in In(down'), x.c = c PROVE DownTrue(x)'
    <3>1. CASE x = m
      BY <1>0, <1>1, <1>2, <1>s, <3>1 DEF DownTrue
    <3>2. CASE x \in In(down)
      <4>1. Compatible(Head(up), x) /\ DownTrue(x)
        BY <1>0, <3>2 DEF MessagesInv, QueuesInv, Ahead
      <4>2. x.m \notin {"Created", "Failed", "Subscribed"}
        BY <2>2, <4>1 DEF Compatible, Handshake
      <4> QED
        BY <1>0, <4>1, <4>2 DEF DownTrue, Listening, After
    <3> QED
      BY <1>3, <3>1, <3>2
  <2>3. \A x \in In(emits') : x.c = c => EmitTrue(x)'
    BY <1>0 DEF MessagesInv, EmitTrue, Listening, After
  <2> QED
    BY <1>0, <1>2, <1>3, <1>o, <2>1, <2>2, <2>3, OthersMessages
<1>7. FilesInv'
  <2>1. FileTrue(c, file[c]) /\ file[c].gen \in Nat
    BY <1>0, Typed DEF FilesInv, FileRec
  <2>2. FileTrue(c, file[c])'
    BY <1>0, <1>1, <1>s, <2>1 DEF FileTrue
  <2> QED
    BY <1>0, <1>o, <2>2, OthersFiles
<1>8. SeenInv'
  <2>1. \A b \in Clients : Seen(b)' = Seen(b)
    BY <1>0, <1>2, SeenKept
  <2> QED
    BY <1>0, <2>1, SeenInvKept
<1> QED
  BY <1>3, <1>4, <1>5, <1>6, <1>7, <1>8 DEF MonitorInv

(* A client subscribes, or comes too late. *)
LEMMA SubscribeInv ==
  ASSUME Assumptions, MonitorInv, TakenUp, NEW c \in Clients, NEW g,
         Head(up).m = "Subscribe", Head(up).c = c, HandleSubscribe(c, g)
  PROVE  MonitorInv'
<1> DEFINE m == Msg("Subscribed", c, 0)
           r == IF file[c].asked = "early" THEN [file[c] EXCEPT !.asked = "yes", !.listed = now]
                ELSE file[c]
<1>0. /\ TypesInv /\ CountInv /\ QueuesInv /\ MessagesInv /\ FilesInv /\ SeenInv
      /\ up' \in Seq(UpMsg) /\ In(up') \subseteq In(up)
      /\ UpTrue(Head(up)) /\ open /\ UNCHANGED <<emits, backend, now, open, bad>>
      /\ \A b \in In(up') : Compatible(Head(up), b)
      /\ Head(up) \in In(up) /\ refs \in Nat /\ file[c] \in FileRec /\ now \in 0 .. MaxEvents + 1
  BY TakenUpFacts DEF TakenUp, TypesInv, Assumptions, BoundsAssumption
<1>1. /\ UNCHANGED <<gen, active, timers, calls>>
      /\ \/ subs' = subs \cup {c} /\ refs' = refs + 1 /\ refs > 0
         \/ subs' = subs /\ refs' = refs
  <2>1. CASE g = gen /\ refs > 0
    BY <2>1 DEF HandleSubscribe
  <2>2. CASE ~(g = gen /\ refs > 0)
    BY <2>2 DEF HandleSubscribe
  <2> QED
    BY <2>1, <2>2
<1>2. m \in DownMsg /\ m.m = "Subscribed" /\ m.c = c /\ down' = Append(down, m)
  BY DEF DownMsg, Msg, HandleSubscribe
<1>r. /\ r \in FileRec /\ r.st = file[c].st /\ r.gen = file[c].gen /\ r.got = file[c].got
      /\ r.listed = file[c].listed \/ r.listed = now
      /\ r.proxy = file[c].proxy /\ r.cancelled = file[c].cancelled
      /\ file' = [file EXCEPT ![c] = r]
  <2>1. CASE file[c].asked = "early"
    <3>1. r = [file[c] EXCEPT !.asked = "yes", !.listed = now]
      BY <2>1
    <3>2. file' = [file EXCEPT ![c].asked = "yes", ![c].listed = now]
      BY <2>1 DEF HandleSubscribe
    <3> HIDE DEF r
    <3>3. now \in Nat
      BY <1>0
    <3>4. file' = [file EXCEPT ![c] = r]
      BY <1>0, <3>1, <3>2 DEF TypesInv
    <3> QED
      BY <1>0, <3>1, <3>3, <3>4 DEF FileRec
  <2>2. CASE file[c].asked # "early"
    <3>1. r = file[c]
      BY <2>2
    <3>2. file' = file
      BY <2>2 DEF HandleSubscribe
    <3> HIDE DEF r
    <3>3. file' = [file EXCEPT ![c] = r]
      BY <1>0, <3>1, <3>2 DEF TypesInv
    <3> QED
      BY <1>0, <3>1, <3>3
  <2> QED
    BY <2>1, <2>2
<1> HIDE DEF m, r
<1>f. /\ file' \in [Clients -> FileRec] /\ file'[c] = r
      /\ \A b \in Clients : b # c => file'[b] = file[b]
  BY <1>0, <1>r, FileSet
<1>3. QueuesInv' /\ down' \in Seq(DownMsg) /\ In(down') = In(down) \cup {m}
  BY <1>2, AnswerQueued
<1>s. file[c].st = "subscribing" /\ c \notin subs /\ file[c].got = <<>>
  BY <1>0 DEF UpTrue
<1>4. TypesInv'
  BY <1>0, <1>1, <1>3, <1>f DEF TypesInv
<1>5. CountInv'
  <2>1. CASE subs' = subs \cup {c} /\ refs' = refs + 1 /\ refs > 0
    <3>1. Cardinality(subs') = Cardinality(subs) + 1
      BY <1>0, <2>1, <1>s, Sizes, FS_AddElement
    <3>2. refs' = Cardinality(subs') + Cardinality(timers') + Len(emits') + Cardinality(calls')
      BY <1>0, <1>1, <2>1, <3>1, Sizes DEF CountInv, RefsExact
    <3> QED
      BY <1>0, <1>1, <2>1, <3>2 DEF CountInv, RefsExact, ActivityExact, NoUseAfterFree
  <2>2. CASE subs' = subs /\ refs' = refs
    BY <1>0, <1>1, <2>2 DEF CountInv, RefsExact, ActivityExact, NoUseAfterFree
  <2> QED
    BY <1>1, <2>1, <2>2
<1>o. OnlyOf(c)
  BY <1>0, <1>1, <1>f DEF OnlyOf
<1>6. MessagesInv'
  <2>1. ASSUME NEW x \in In(up'), x.c = c PROVE UpTrue(x)'
    <3>1. Compatible(Head(up), x) /\ UpTrue(x)
      BY <1>0 DEF MessagesInv
    <3>2. x.m \notin {"Create", "Subscribe"}
      BY <2>1, <3>1 DEF Compatible, Handshake
    <3> QED
      BY <1>0, <1>1, <1>f, <1>r, <2>1, <3>1, <3>2 DEF UpTrue, Listening
  <2>2. ASSUME NEW x \in In(down'), x.c = c PROVE DownTrue(x)'
    <3>1. CASE x = m
      BY <1>0, <1>1, <1>2, <1>f, <1>r, <1>s, <3>1 DEF DownTrue
    <3>2. CASE x \in In(down)
      BY <1>0, <1>1, <1>f, <1>r, <2>2, <3>2 DEF MessagesInv, DownTrue, Listening, After
    <3> QED
      BY <1>3, <3>1, <3>2
  <2>3. \A x \in In(emits') : x.c = c => EmitTrue(x)'
    BY <1>0, <1>1, <1>f, <1>r DEF MessagesInv, EmitTrue, Listening, After
  <2> QED
    BY <1>0, <1>2, <1>3, <1>o, <2>1, <2>2, <2>3, OthersMessages
<1>7. FilesInv'
  <2>1. FileTrue(c, file[c])
    BY <1>0 DEF FilesInv
  <2>2. FileTrue(c, file[c])'
    BY <1>0, <1>1, <1>f, <1>r, <1>s, <2>1 DEF FileTrue
  <2> QED
    BY <1>0, <1>o, <2>2, OthersFiles
<1>8. SeenInv'
  <2>1. \A b \in Clients : Seen(b)' = Seen(b) /\ file'[b].cancelled = file[b].cancelled
    BY <1>0, <1>1, <1>2, <1>f, <1>r, SeenKept
  <2>2. Seen(c) = {}
    <3>1. Told(c) = {}
      BY <1>s DEF Told
    <3>2. \A x \in In(down) \cup In(emits) : ~(x.m = "Changed" /\ x.c = c)
      BY <1>0 DEF QueuesInv, Ahead, Compatible
    <3>3. UnderWay(c) = {}
      BY <3>2 DEF UnderWay
    <3> QED
      BY <3>1, <3>3 DEF Seen
  <2> QED
    BY <1>0, <1>1, <2>1, <2>2 DEF SeenInv
<1> QED
  BY <1>3, <1>4, <1>5, <1>6, <1>7, <1>8 DEF MonitorInv

(* References that are dropped leave the activity exact. *)
LEMMA UnrefActive ==
  ASSUME ActivityExact, refs \in Nat, NEW n \in Nat, Unref(n), backend' = backend
  PROVE  ActivityExact'
<1>1. (refs > 0 /\ refs > n) <=> refs' > 0
  BY DEF Unref
<1>2. active' = (active /\ refs > n)
  BY DEF Unref
<1> QED
  BY <1>1, <1>2 DEF ActivityExact

(* A cancelled client unsubscribes. *)
LEMMA UnsubscribeInv ==
  ASSUME Assumptions, MonitorInv, TakenUp, NEW c \in Clients, NEW g,
         Head(up).m = "Unsubscribe", Head(up).c = c, HandleUnsubscribe(c, g)
  PROVE  MonitorInv'
<1>0. /\ TypesInv /\ CountInv /\ QueuesInv /\ MessagesInv /\ FilesInv /\ SeenInv
      /\ up' \in Seq(UpMsg) /\ In(up') \subseteq In(up) /\ Ordered(up')
      /\ UpTrue(Head(up)) /\ open /\ UNCHANGED <<emits, backend, now, open, bad>>
      /\ Head(up) \in In(up) /\ refs \in Nat
  BY TakenUpFacts DEF TakenUp, TypesInv
<1>1. /\ UNCHANGED <<gen, timers, calls, down, file>>
      /\ \/ Unsubscribe({c})
         \/ UNCHANGED <<subs, refs, active>>
  BY DEF HandleUnsubscribe
<1>s. file[c].cancelled
  BY <1>0 DEF UpTrue
<1>2. subs' \subseteq subs /\ subs \subseteq subs' \cup {c}
  BY <1>1 DEF Unsubscribe
<1>3. CountInv' /\ refs' \in Nat
  <2>1. CASE Unsubscribe({c}) /\ c \in subs
    <3>1. subs \cap {c} = {c} /\ Cardinality({c}) = 1 /\ subs' = subs \ {c}
      BY <2>1, FS_Singleton DEF Unsubscribe
    <3>2. Unref(1)
      BY <2>1, <3>1 DEF Unsubscribe
    <3>3. Cardinality(subs') = Cardinality(subs) - 1 /\ Cardinality(subs) # 0
      BY <1>0, <2>1, <3>1, Sizes, FS_RemoveElement
    <3>4. RefsExact' /\ refs' \in Nat
      <4>1. /\ refs = Cardinality(subs) + Cardinality(timers) + Len(emits) + Cardinality(calls)
            /\ refs' = refs - 1 /\ timers' = timers /\ emits' = emits /\ calls' = calls
        BY <1>0, <1>1, <3>2 DEF CountInv, RefsExact, Unref
      <4>2. /\ Cardinality(subs') \in Nat /\ Cardinality(timers) \in Nat
            /\ Len(emits) \in Nat /\ Cardinality(calls) \in Nat
        BY <1>0, <3>3, Sizes
      <4>3. /\ refs' = Cardinality(subs') + Cardinality(timers) + Len(emits) + Cardinality(calls)
            /\ refs' \in Nat
        BY <1>0, <3>3, <4>1, <4>2, Sizes
      <4> QED
        BY <4>1, <4>3 DEF RefsExact
    <3>5. ActivityExact'
      BY <1>0, <3>2, UnrefActive DEF CountInv
    <3> QED
      BY <1>0, <3>4, <3>5 DEF CountInv, NoUseAfterFree
  <2>2. CASE Unsubscribe({c}) /\ c \notin subs
    <3>1. subs \cap {c} = {} /\ Cardinality({}) = 0 /\ subs' = subs
      BY <2>2, FS_EmptySet DEF Unsubscribe
    <3>2. Unref(0)
      BY <2>2, <3>1 DEF Unsubscribe
    <3>3. refs' = refs
      BY <1>0, <3>2 DEF Unref
    <3>4. ActivityExact'
      BY <1>0, <3>2, UnrefActive DEF CountInv
    <3> QED
      BY <1>0, <1>1, <3>1, <3>3, <3>4 DEF CountInv, RefsExact, NoUseAfterFree
  <2>3. CASE UNCHANGED <<subs, refs, active>>
    BY <1>0, <1>1, <2>3 DEF CountInv, RefsExact, ActivityExact, NoUseAfterFree
  <2> QED
    BY <1>1, <2>1, <2>2, <2>3
<1>4. TypesInv'
  <2>1. subs' \subseteq Clients /\ active' \in BOOLEAN
    BY <1>0, <1>2, <1>3 DEF TypesInv, CountInv, ActivityExact
  <2> QED
    BY <1>0, <1>1, <1>3, <2>1 DEF TypesInv
<1>5. QueuesInv'
  BY <1>0, <1>1 DEF QueuesInv, Ahead
<1>o. OnlyOf(c)
  BY <1>0, <1>1, <1>2 DEF OnlyOf
<1>6. MessagesInv'
  <2>1. ASSUME NEW x \in In(up'), x.c = c PROVE UpTrue(x)'
    BY <1>0, <1>1, <1>2, <2>1 DEF MessagesInv, UpTrue, Listening
  <2>2. ASSUME NEW x \in In(down'), x.c = c PROVE DownTrue(x)'
    BY <1>0, <1>1, <2>2 DEF MessagesInv, DownTrue, Listening, After
  <2>3. ASSUME NEW x \in In(emits'), x.c = c PROVE EmitTrue(x)'
    BY <1>0, <1>1, <2>3 DEF MessagesInv, EmitTrue, Listening, After
  <2> QED
    BY <1>0, <1>1, <1>o, <2>1, <2>2, <2>3, OthersMessages
<1>7. FilesInv'
  <2> SUFFICES ASSUME NEW b \in Clients PROVE FileTrue(b, file[b])'
    BY DEF FilesInv
  <2>1. FileTrue(b, file[b]) /\ file' = file /\ gen' = gen /\ timers' = timers /\ now' = now
    BY <1>0, <1>1 DEF FilesInv
  <2> QED
    BY <1>2, <2>1 DEF FileTrue
<1>8. SeenInv'
  <2>1. \A b \in Clients : Seen(b)' = Seen(b)
    BY <1>0, <1>1, SeenKept
  <2>2. \A b \in Clients : ~file[b].cancelled => (b \in subs => b \in subs')
    BY <1>2, <1>s
  <2> QED
    BY <1>0, <1>1, <2>1, <2>2 DEF SeenInv
<1> QED
  BY <1>3, <1>4, <1>5, <1>6, <1>7, <1>8 DEF MonitorInv

(* A Changed call ends. *)
LEMMA ChangedDoneInv ==
  ASSUME Assumptions, MonitorInv, TakenUp, NEW c \in Clients, NEW n \in Nat,
         Head(up).m = "ChangedDone", Head(up).c = c, Head(up).n = n, ChangedCb(c, n)
  PROVE  MonitorInv'
<1>0. /\ TypesInv /\ CountInv /\ QueuesInv /\ MessagesInv /\ FilesInv /\ SeenInv
      /\ up' \in Seq(UpMsg) /\ In(up') \subseteq In(up) /\ Ordered(up')
      /\ UpTrue(Head(up)) /\ open /\ UNCHANGED <<emits, backend, now, open, bad>>
      /\ \A b \in In(up') : Compatible(Head(up), b)
      /\ Head(up) \in In(up) /\ refs \in Nat
  BY TakenUpFacts DEF TakenUp, TypesInv
<1>1. /\ UNCHANGED <<gen, subs, timers, down, file>>
      /\ calls' = calls \ {<<c, n>>} /\ Unref(1) /\ <<c, n>> \in calls
  BY <1>0 DEF ChangedCb, UpTrue
<1>2. IsFiniteSet(calls') /\ Cardinality(calls') = Cardinality(calls) - 1 /\ Cardinality(calls) # 0
  BY <1>0, <1>1, Sizes, FS_RemoveElement
<1>3. CountInv' /\ refs' \in Nat
  <2>1. RefsExact' /\ refs' \in Nat
    <3>1. /\ refs = Cardinality(subs) + Cardinality(timers) + Len(emits) + Cardinality(calls)
          /\ refs' = refs - 1 /\ timers' = timers /\ emits' = emits /\ subs' = subs
      BY <1>0, <1>1 DEF CountInv, RefsExact, Unref
    <3>2. /\ Cardinality(subs) \in Nat /\ Cardinality(timers) \in Nat
          /\ Len(emits) \in Nat /\ Cardinality(calls') \in Nat
      BY <1>0, <1>2, Sizes
    <3>3. /\ refs' = Cardinality(subs) + Cardinality(timers) + Len(emits) + Cardinality(calls')
          /\ refs' \in Nat
      BY <1>0, <1>2, <3>1, <3>2, Sizes
    <3> QED
      BY <3>1, <3>3 DEF RefsExact
  <2>2. ActivityExact'
    BY <1>0, <1>1, UnrefActive DEF CountInv
  <2> QED
    BY <1>0, <2>1, <2>2 DEF CountInv, NoUseAfterFree
<1>4. TypesInv'
  <2>1. calls' \subseteq Clients \X (1 .. now) /\ active' \in BOOLEAN
    BY <1>0, <1>1, <1>3 DEF TypesInv, CountInv, ActivityExact
  <2> QED
    BY <1>0, <1>1, <1>2, <1>3, <2>1 DEF TypesInv
<1>5. QueuesInv'
  BY <1>0, <1>1 DEF QueuesInv, Ahead
<1>o. OnlyOf(c)
  BY <1>0, <1>1 DEF OnlyOf
<1>6. MessagesInv'
  <2>1. ASSUME NEW x \in In(up'), x.c = c PROVE UpTrue(x)'
    <3>1. Compatible(Head(up), x) /\ UpTrue(x)
      BY <1>0 DEF MessagesInv
    <3>2. x.m = "ChangedDone" => x.n # n
      BY <2>1, <3>1 DEF Compatible
    <3> QED
      BY <1>0, <1>1, <3>1, <3>2 DEF UpTrue, Listening
  <2>2. ASSUME NEW x \in In(down'), x.c = c PROVE DownTrue(x)'
    <3>1. Compatible(Head(up), x) /\ DownTrue(x)
      BY <1>0, <1>1, <2>2 DEF MessagesInv, QueuesInv, Ahead
    <3>2. x.m = "Changed" => x.n # n
      BY <2>2, <3>1 DEF Compatible
    <3> QED
      BY <1>0, <1>1, <3>1, <3>2 DEF DownTrue, Listening, After
  <2>3. \A x \in In(emits') : x.c = c => EmitTrue(x)'
    BY <1>0, <1>1 DEF MessagesInv, EmitTrue, Listening, After
  <2> QED
    BY <1>0, <1>1, <1>o, <2>1, <2>2, <2>3, OthersMessages
<1>7. FilesInv'
  BY <1>0, <1>1 DEF FilesInv, FileTrue
<1>8. SeenInv'
  <2>1. \A b \in Clients : Seen(b)' = Seen(b)
    BY <1>0, <1>1, SeenKept
  <2> QED
    BY <1>0, <1>1, <2>1, SeenInvKept
<1> QED
  BY <1>3, <1>4, <1>5, <1>6, <1>7, <1>8 DEF MonitorInv

(* The directory is listed. *)
LEMMA ListedInv ==
  ASSUME Assumptions, MonitorInv, TakenUp, NEW c \in Clients,
         Head(up).m = "List", Head(up).c = c, file' = [file EXCEPT ![c].listed = now],
         UNCHANGED <<gen, refs, active, timers, subs, calls, down>>
  PROVE  MonitorInv'
<1> DEFINE r == [file[c] EXCEPT !.listed = now]
<1>0. /\ TypesInv /\ CountInv /\ QueuesInv /\ MessagesInv /\ FilesInv /\ SeenInv
      /\ up' \in Seq(UpMsg) /\ In(up') \subseteq In(up) /\ Ordered(up')
      /\ UpTrue(Head(up)) /\ open /\ UNCHANGED <<emits, backend, now, open, bad>>
      /\ \A b \in In(up') : Compatible(Head(up), b)
      /\ Head(up) \in In(up) /\ file[c] \in FileRec
  BY TakenUpFacts DEF TakenUp
<1>n. now \in Nat /\ now \in 0 .. MaxEvents + 1
  BY <1>0 DEF TypesInv, Assumptions, BoundsAssumption
<1>r. /\ r \in FileRec /\ r.st = file[c].st /\ r.gen = file[c].gen /\ r.got = file[c].got
      /\ r.listed = now /\ r.proxy = file[c].proxy
      /\ r.cancelled = file[c].cancelled /\ file' = [file EXCEPT ![c] = r]
  BY <1>0, <1>n DEF FileRec
<1>s. Listening(c)
  BY <1>0 DEF UpTrue
<1> HIDE DEF r
<1>2. /\ file' \in [Clients -> FileRec] /\ file'[c] = r
      /\ \A b \in Clients : b # c => file'[b] = file[b]
  BY <1>0, <1>r, FileSet
<1>3. CountInv'
  BY <1>0 DEF CountInv, RefsExact, ActivityExact, NoUseAfterFree
<1>4. TypesInv'
  BY <1>0, <1>2 DEF TypesInv
<1>5. QueuesInv'
  BY <1>0 DEF QueuesInv, Ahead
<1>o. OnlyOf(c)
  BY <1>0, <1>2 DEF OnlyOf
<1>6. MessagesInv'
  <2>1. ASSUME NEW x \in In(up'), x.c = c PROVE UpTrue(x)'
    <3>1. Compatible(Head(up), x) /\ UpTrue(x)
      BY <1>0 DEF MessagesInv
    <3>2. x.m # "Subscribe"
      BY <2>1, <3>1 DEF Compatible
    <3> QED
      BY <1>0, <1>2, <1>r, <2>1, <3>1, <3>2 DEF UpTrue, Listening
  <2>2. ASSUME NEW x \in In(down'), x.c = c PROVE DownTrue(x)'
    BY <1>0, <1>2, <1>r, <2>2 DEF MessagesInv, DownTrue, Listening, After
  <2>3. ASSUME NEW x \in In(emits'), x.c = c PROVE EmitTrue(x)'
    BY <1>0, <1>2, <1>r, <2>3 DEF MessagesInv, EmitTrue, Listening, After
  <2> QED
    BY <1>0, <1>o, <2>1, <2>2, <2>3, OthersMessages
<1>7. FilesInv'
  <2>1. FileTrue(c, file[c]) /\ file[c].st \notin {"none", "creating", "deaf"}
    BY <1>0, <1>s DEF FilesInv, Listening
  <2>2. FileTrue(c, file[c])'
    BY <1>0, <1>n, <1>2, <1>r, <2>1 DEF FileTrue
  <2> QED
    BY <1>0, <1>o, <2>2, OthersFiles
<1>8. SeenInv'
  <2>1. \A b \in Clients : Seen(b)' = Seen(b) /\ file'[b].cancelled = file[b].cancelled
    BY <1>0, <1>2, <1>r, SeenKept
  <2> QED
    BY <1>0, <2>1, SeenInvKept
<1> QED
  BY <1>3, <1>4, <1>5, <1>6, <1>7, <1>8 DEF MonitorInv

(* Every message to the daemon. *)
LEMMA DaemonReceivesInv ==
  ASSUME Assumptions, MonitorInv, DaemonReceives
  PROVE  MonitorInv'
<1>1. TakenUp
  BY DEF DaemonReceives, TakenUp
<1>2. PICK c \in Clients, n \in Nat : Head(up).c = c /\ Head(up).n = n
  BY <1>1, TakenUpFacts DEF UpMsg
<1>3. CASE Head(up).m = "Create" /\ CreateMonitor(c)
  <2>1. CASE backend /\ (refs > 0 \/ gen < MaxGens)
    BY <1>1, <1>2, <1>3, <2>1, CreateReplyInv DEF CreateMonitor
  <2>2. CASE ~(backend /\ (refs > 0 \/ gen < MaxGens))
    BY <1>1, <1>2, <1>3, <2>2, RefuseInv DEF CreateMonitor
  <2> QED
    BY <2>1, <2>2
<1>4. CASE Head(up).m = "Subscribe" /\ HandleSubscribe(c, n)
  BY <1>1, <1>2, <1>4, SubscribeInv
<1>5. CASE Head(up).m = "Unsubscribe" /\ HandleUnsubscribe(c, n)
  BY <1>1, <1>2, <1>5, UnsubscribeInv
<1>6. CASE Head(up).m = "ChangedDone" /\ ChangedCb(c, n)
  BY <1>1, <1>2, <1>6, ChangedDoneInv
<1>7. CASE /\ Head(up).m = "List" /\ file' = [file EXCEPT ![c].listed = now]
           /\ UNCHANGED <<gen, refs, active, timers, subs, calls, down>>
  BY <1>1, <1>2, <1>7, ListedInv
<1> QED
  BY <1>2, <1>3, <1>4, <1>5, <1>6, <1>7 DEF DaemonReceives


(* The monitor of c is not kept for it any longer. *)
LEMMA TimeoutInv ==
  ASSUME Assumptions, MonitorInv, NEW c \in Clients, UnrefMonitorTimeout(c)
  PROVE  MonitorInv'
<1>0. /\ TypesInv /\ CountInv /\ QueuesInv /\ MessagesInv /\ FilesInv /\ SeenInv
      /\ refs \in Nat
  BY DEF MonitorInv, TypesInv
<1>1. /\ UNCHANGED <<gen, subs, emits, calls, backend, now, open, up, down, file, bad>>
      /\ c \in timers /\ timers' = timers \ {c} /\ Unref(1) /\ (Prompt => ~Expected(c))
  BY DEF UnrefMonitorTimeout
<1>2. IsFiniteSet(timers') /\ Cardinality(timers') = Cardinality(timers) - 1 /\ Cardinality(timers) # 0
  BY <1>0, <1>1, Sizes, FS_RemoveElement
<1>3. CountInv' /\ refs' \in Nat
  <2>1. RefsExact' /\ refs' \in Nat
    <3>1. /\ refs = Cardinality(subs) + Cardinality(timers) + Len(emits) + Cardinality(calls)
          /\ refs' = refs - 1 /\ calls' = calls /\ emits' = emits /\ subs' = subs
      BY <1>0, <1>1 DEF CountInv, RefsExact, Unref
    <3>2. /\ Cardinality(subs) \in Nat /\ Cardinality(calls) \in Nat
          /\ Len(emits) \in Nat /\ Cardinality(timers') \in Nat
      BY <1>0, <1>2, Sizes
    <3>3. /\ refs' = Cardinality(subs) + Cardinality(timers') + Len(emits) + Cardinality(calls)
          /\ refs' \in Nat
      BY <1>0, <1>2, <3>1, <3>2, Sizes
    <3> QED
      BY <3>1, <3>3 DEF RefsExact
  <2>2. ActivityExact'
    BY <1>0, <1>1, UnrefActive DEF CountInv
  <2> QED
    BY <1>0, <1>1, <2>1, <2>2 DEF CountInv, NoUseAfterFree
<1>4. TypesInv'
  <2>1. timers' \subseteq Clients /\ active' \in BOOLEAN
    BY <1>0, <1>1, <1>3 DEF TypesInv, CountInv, ActivityExact
  <2> QED
    BY <1>0, <1>1, <1>3, <2>1 DEF TypesInv
<1>5. QueuesInv'
  BY <1>0, <1>1 DEF QueuesInv, Ahead
<1>o. OnlyOf(c)
  BY <1>1 DEF OnlyOf
<1>n. open \/ (In(up) = {} /\ In(down) = {})
  BY <1>0, Typed DEF TypesInv
<1>6. MessagesInv'
  <2>1. ASSUME NEW x \in In(up'), x.c = c PROVE UpTrue(x)'
    <3>1. UpTrue(x) /\ x \in In(up) /\ open
      BY <1>0, <1>1, <1>n DEF MessagesInv
    <3>2. Prompt => x.m # "Subscribe"
      BY <1>1, <2>1, <3>1 DEF Expected
    <3> QED
      BY <1>1, <2>1, <3>1, <3>2 DEF UpTrue, Listening
  <2>2. ASSUME NEW x \in In(down'), x.c = c PROVE DownTrue(x)'
    <3>1. DownTrue(x) /\ x \in In(down) /\ open
      BY <1>0, <1>1, <1>n DEF MessagesInv
    <3>2. Prompt => x.m # "Created"
      BY <1>1, <2>2, <3>1 DEF Expected
    <3> QED
      BY <1>1, <2>2, <3>1, <3>2 DEF DownTrue, Listening, After
  <2>3. \A x \in In(emits') : x.c = c => EmitTrue(x)'
    BY <1>0, <1>1 DEF MessagesInv, EmitTrue, Listening, After
  <2> QED
    BY <1>0, <1>1, <1>o, <2>1, <2>2, <2>3, OthersMessages
<1>7. FilesInv'
  BY <1>0, <1>1 DEF FilesInv, FileTrue
<1>8. SeenInv'
  <2>1. \A b \in Clients : Seen(b)' = Seen(b)
    BY <1>0, <1>1, SeenKept
  <2> QED
    BY <1>0, <1>1, <2>1, SeenInvKept
<1> QED
  BY <1>3, <1>4, <1>5, <1>6, <1>7, <1>8 DEF MonitorInv

(* The backend is gone, and with it every subscription. *)
LEMMA BackendDiedInv ==
  ASSUME Assumptions, MonitorInv, BackendDied
  PROVE  MonitorInv'
<1>0. /\ TypesInv /\ CountInv /\ QueuesInv /\ MessagesInv /\ FilesInv /\ SeenInv
      /\ refs \in Nat
  BY DEF MonitorInv, TypesInv
<1>1. /\ UNCHANGED <<gen, timers, emits, calls, now, open, up, down, file, bad>>
      /\ backend' = FALSE /\ ~backend' /\ active' = FALSE /\ ~active'
      /\ subs' = {} /\ refs' = refs - Cardinality(subs) /\ Cardinality(subs') = 0
  BY FS_EmptySet DEF BackendDied
<1>2. CountInv' /\ refs' \in Nat
  <2>1. refs = Cardinality(subs) + Cardinality(timers) + Len(emits) + Cardinality(calls)
    BY <1>0 DEF CountInv, RefsExact
  <2>2. /\ refs' = Cardinality(subs') + Cardinality(timers) + Len(emits) + Cardinality(calls)
        /\ refs' \in Nat
    BY <1>0, <1>1, <2>1, Sizes
  <2> QED
    BY <1>0, <1>1, <2>2 DEF CountInv, RefsExact, ActivityExact, NoUseAfterFree
<1>3. TypesInv'
  BY <1>0, <1>1, <1>2 DEF TypesInv
<1>4. QueuesInv'
  BY <1>0, <1>1 DEF QueuesInv, Ahead
<1>5. MessagesInv'
  <2>1. \A x \in In(up') : UpTrue(x)'
    BY <1>0, <1>1 DEF MessagesInv, UpTrue, Listening
  <2>2. \A x \in In(down') : DownTrue(x)'
    BY <1>0, <1>1 DEF MessagesInv, DownTrue, Listening, After
  <2>3. \A x \in In(emits') : EmitTrue(x)'
    BY <1>0, <1>1 DEF MessagesInv, EmitTrue, Listening, After
  <2> QED
    BY <1>1, <2>1, <2>2, <2>3 DEF MessagesInv, In
<1>6. FilesInv'
  BY <1>0, <1>1 DEF FilesInv, FileTrue
<1>7. SeenInv'
  <2>1. \A b \in Clients : Seen(b)' = Seen(b)
    BY <1>0, <1>1, SeenKept
  <2> QED
    BY <1>0, <1>1, <2>1 DEF SeenInv
<1> QED
  BY <1>2, <1>3, <1>4, <1>5, <1>6, <1>7 DEF MonitorInv

(* The client is gone: nothing is under way to it or from it. *)
LEMMA ConnectionClosedInv ==
  ASSUME Assumptions, MonitorInv, ConnectionClosed
  PROVE  MonitorInv'
<1>0. /\ TypesInv /\ CountInv /\ QueuesInv /\ MessagesInv /\ FilesInv /\ SeenInv
      /\ refs \in Nat
  BY DEF MonitorInv, TypesInv
<1>1. /\ UNCHANGED <<gen, timers, emits, backend, now, file, bad>>
      /\ ~open' /\ open' = FALSE /\ up' = <<>> /\ down' = <<>> /\ subs' = {} /\ calls' = {}
      /\ Unref(Cardinality(subs) + Cardinality(calls))
      /\ Cardinality(subs') = 0 /\ Cardinality(calls') = 0 /\ IsFiniteSet(calls')
  BY FS_EmptySet DEF ConnectionClosed
<1>2. CountInv' /\ refs' \in Nat
  <2>1. refs = Cardinality(subs) + Cardinality(timers) + Len(emits) + Cardinality(calls)
    BY <1>0 DEF CountInv, RefsExact
  <2>2. /\ refs' = Cardinality(subs') + Cardinality(timers) + Len(emits) + Cardinality(calls')
        /\ refs' \in Nat
    <3>1. refs' = refs - (Cardinality(subs) + Cardinality(calls))
      BY <1>1 DEF Unref
    <3>2. /\ Cardinality(subs) \in Nat /\ Cardinality(calls) \in Nat
          /\ Cardinality(timers) \in Nat /\ Len(emits) \in Nat
      BY <1>0, Sizes
    <3>3. refs' = Cardinality(timers) + Len(emits) /\ refs' \in Nat
      BY <2>1, <3>1, <3>2
    <3> QED
      BY <1>1, <3>2, <3>3
  <2>3. ActivityExact'
    <3>1. Cardinality(subs) + Cardinality(calls) \in Nat
      BY <1>0, Sizes
    <3> QED
      BY <1>0, <1>1, <3>1, UnrefActive DEF CountInv
  <2> QED
    BY <1>0, <1>1, <2>2, <2>3 DEF CountInv, RefsExact, NoUseAfterFree
<1>3. TypesInv'
  <2>1. active' \in BOOLEAN
    BY <1>0, <1>1, <1>2 DEF TypesInv, CountInv, ActivityExact
  <2>2. up' \in Seq(UpMsg) /\ down' \in Seq(DownMsg) /\ calls' \subseteq Clients \X (1 .. now)
    BY <1>1
  <2>3. UNCHANGED <<gen, timers, emits, backend, now, file>> /\ open' = FALSE
    BY <1>1
  <2> QED
    BY <1>0, <1>1, <1>2, <2>1, <2>2, <2>3 DEF TypesInv
<1>q. In(up') = {} /\ In(down') = {} /\ DOMAIN up' = {} /\ DOMAIN down' = {}
  BY <1>1 DEF In
<1>4. QueuesInv'
  <2>1. Ordered(emits') /\ Ordered(up') /\ Ordered(down')
    BY <1>0, <1>1, <1>q DEF QueuesInv, Ordered
  <2> QED
    BY <1>q, <2>1 DEF QueuesInv, Ahead
<1>5. MessagesInv'
  <2>1. \A x \in In(emits') : EmitTrue(x)'
    BY <1>0, <1>1 DEF MessagesInv, EmitTrue, Listening, After
  <2> QED
    BY <1>1, <1>q, <2>1 DEF MessagesInv, In
<1>6. FilesInv'
  BY <1>0, <1>1 DEF FilesInv, FileTrue
<1>7. SeenInv'
  BY <1>1 DEF SeenInv
<1> QED
  BY <1>2, <1>3, <1>4, <1>5, <1>6, <1>7 DEF MonitorInv

(* The proxy is made and the event is sent, or there is nobody to send to. *)
LEMMA GotProxyInv ==
  ASSUME Assumptions, MonitorInv, GotProxyCb
  PROVE  MonitorInv'
<1> DEFINE e == Head(emits)
<1>0. /\ TypesInv /\ CountInv /\ QueuesInv /\ MessagesInv /\ FilesInv /\ SeenInv
      /\ refs \in Nat /\ emits \in Seq(Emission) /\ down \in Seq(DownMsg) /\ up \in Seq(UpMsg)
  BY DEF MonitorInv, TypesInv
<1>1. /\ UNCHANGED <<gen, subs, timers, backend, now, open, up, file>>
      /\ emits # <<>> /\ emits' = Tail(emits)
      /\ \/ open /\ down' = Append(down, e) /\ calls' = calls \cup {<<e.c, e.n>>}
            /\ UNCHANGED <<refs, active>>
         \/ ~open /\ Unref(1) /\ UNCHANGED <<down, calls>>
      /\ bad' = (bad \/ refs = 0)
  BY DEF GotProxyCb
<1>2. /\ emits' \in Seq(Emission) /\ Len(emits') = Len(emits) - 1 /\ Len(emits) \in Nat \ {0}
      /\ e \in Emission /\ In(emits) = {e} \cup In(emits') /\ Ordered(emits')
      /\ \A b \in In(emits') : Compatible(e, b)
  BY <1>0, <1>1, Take DEF QueuesInv
<1>3. /\ e.c \in Clients /\ e.n \in Nat /\ e.m = "Changed" /\ e \in DownMsg /\ e \in In(emits)
      /\ EmitTrue(e)
  BY <1>0, <1>2 DEF Emission, DownMsg, MessagesInv
<1> HIDE DEF e
<1>4. refs = Cardinality(subs) + Cardinality(timers) + Len(emits) + Cardinality(calls)
  BY <1>0 DEF CountInv, RefsExact
<1>b. ~bad' /\ refs > 0
  <2>1. refs > 0
    BY <1>0, <1>2, <1>4, Sizes
  <2>2. ~bad /\ ~(refs = 0)
    BY <1>0, <2>1 DEF CountInv, NoUseAfterFree
  <2> QED
    BY <1>1, <2>1, <2>2
<1>5. CASE open
  <2>1. /\ down' = Append(down, e) /\ calls' = calls \cup {<<e.c, e.n>>}
        /\ UNCHANGED <<refs, active>>
    BY <1>1, <1>5
  <2>2. /\ down' \in Seq(DownMsg) /\ In(down') = In(down) \cup {e}
        /\ Ordered(down) /\ (\A a \in In(down) : Compatible(a, e)) => Ordered(down')
    BY <1>0, <1>3, <2>1, Put
  <2>3. QueuesInv'
    <3>1. Ordered(down') /\ Ordered(up) /\ Ahead(up, emits) /\ Ahead(up, down) /\ Ahead(down, emits)
      BY <1>0, <1>3, <2>2 DEF QueuesInv, Ahead
    <3>2. Ahead(up, emits') /\ Ahead(up, down') /\ Ahead(down', emits')
      BY <1>2, <1>3, <2>2, <3>1 DEF Ahead
    <3> QED
      BY <1>1, <1>2, <3>1, <3>2 DEF QueuesInv
  <2>4. /\ calls' \subseteq Clients \X (1 .. now) /\ IsFiniteSet(calls')
        /\ Cardinality(calls') = Cardinality(calls) + 1
    <3>1. <<e.c, e.n>> \in Clients \X (1 .. now) /\ <<e.c, e.n>> \notin calls
      BY <1>3 DEF EmitTrue
    <3> QED
      BY <1>0, <2>1, <3>1, Sizes, FS_AddElement DEF TypesInv
  <2>5. TypesInv'
    BY <1>0, <1>1, <1>2, <1>5, <2>1, <2>2, <2>4 DEF TypesInv
  <2>6. CountInv'
    <3>1. refs' = Cardinality(subs') + Cardinality(timers') + Len(emits') + Cardinality(calls')
      BY <1>0, <1>1, <1>2, <1>4, <2>1, <2>4, Sizes
    <3> QED
      BY <1>0, <1>1, <1>b, <2>1, <3>1 DEF CountInv, RefsExact, ActivityExact, NoUseAfterFree
  <2>o. OnlyOf(e.c)
    BY <1>1, <2>1 DEF OnlyOf
  <2>7. MessagesInv'
    <3>1. ASSUME NEW x \in In(up'), x.c = e.c PROVE UpTrue(x)'
      BY <1>0, <1>1, <2>1, <3>1 DEF MessagesInv, UpTrue, Listening
    <3>2. ASSUME NEW x \in In(down'), x.c = e.c PROVE DownTrue(x)'
      <4>1. CASE x = e
        BY <1>1, <1>3, <2>1, <4>1 DEF DownTrue, EmitTrue, Listening, After
      <4>2. CASE x \in In(down)
        BY <1>0, <1>1, <2>1, <4>2 DEF MessagesInv, DownTrue, Listening, After
      <4> QED
        BY <2>2, <4>1, <4>2
    <3>3. ASSUME NEW x \in In(emits'), x.c = e.c PROVE EmitTrue(x)'
      <4>1. x \in In(emits) /\ x.m = "Changed" /\ x.n \in Nat /\ EmitTrue(x) /\ Compatible(e, x)
        BY <1>0, <1>2, Typed DEF MessagesInv, Emission
      <4>2. e.n < x.n
        BY <1>3, <3>3, <4>1 DEF Compatible
      <4>3. <<x.c, x.n>> \notin calls'
        BY <1>3, <2>1, <4>1, <4>2 DEF EmitTrue
      <4> QED
        BY <1>1, <4>1, <4>3 DEF EmitTrue, Listening, After
    <3> QED
      BY <1>0, <1>1, <1>2, <1>3, <2>2, <2>o, <3>1, <3>2, <3>3, OthersMessages
  <2>8. FilesInv'
    BY <1>0, <1>1 DEF FilesInv, FileTrue
  <2>9. SeenInv'
    <3>1. In(down') \cup In(emits') = In(down) \cup In(emits)
      BY <1>2, <2>2
    <3>2. ASSUME NEW b \in Clients PROVE Seen(b)' = Seen(b)
      <4>1. UnderWay(b)' = UnderWay(b)
        BY <3>1 DEF UnderWay, In
      <4> QED
        BY <1>1, <4>1 DEF Seen, Told
    <3> QED
      BY <1>0, <1>1, <3>2, SeenInvKept
  <2> QED
    BY <2>3, <2>5, <2>6, <2>7, <2>8, <2>9 DEF MonitorInv
<1>6. CASE ~open
  <2>1. Unref(1) /\ UNCHANGED <<down, calls>>
    BY <1>1, <1>6
  <2>2. CountInv' /\ refs' \in Nat
    <3>1. /\ refs' = Cardinality(subs') + Cardinality(timers') + Len(emits') + Cardinality(calls')
          /\ refs' \in Nat
      <4>1. /\ refs' = refs - 1 /\ subs' = subs /\ timers' = timers /\ calls' = calls
            /\ Len(emits') = Len(emits) - 1 /\ Len(emits) \in Nat \ {0}
        BY <1>1, <1>2, <2>1 DEF Unref
      <4>2. /\ Cardinality(subs) \in Nat /\ Cardinality(calls) \in Nat
            /\ Cardinality(timers) \in Nat
        BY <1>0, Sizes
      <4>3. /\ refs' = Cardinality(subs) + Cardinality(timers) + Len(emits') + Cardinality(calls)
            /\ refs' \in Nat
        BY <1>4, <4>1, <4>2
      <4> QED
        BY <4>1, <4>3
    <3>2. ActivityExact'
      BY <1>0, <1>1, <2>1, UnrefActive DEF CountInv
    <3> QED
      BY <1>b, <3>1, <3>2 DEF CountInv, RefsExact, NoUseAfterFree
  <2>3. TypesInv'
    <3>1. active' \in BOOLEAN
      BY <1>0, <1>1, <2>2 DEF TypesInv, CountInv, ActivityExact
    <3> QED
      BY <1>0, <1>1, <1>2, <2>1, <2>2, <3>1 DEF TypesInv
  <2>4. QueuesInv'
    BY <1>0, <1>1, <1>2, <2>1 DEF QueuesInv, Ahead
  <2>5. MessagesInv'
    <3>1. \A x \in In(up') : UpTrue(x)'
      BY <1>0, <1>1, <2>1 DEF MessagesInv, UpTrue, Listening
    <3>2. \A x \in In(down') : DownTrue(x)'
      BY <1>0, <1>1, <2>1 DEF MessagesInv, DownTrue, Listening, After
    <3>3. \A x \in In(emits') : EmitTrue(x)'
      BY <1>0, <1>1, <1>2, <2>1 DEF MessagesInv, EmitTrue, Listening, After
    <3> QED
      BY <3>1, <3>2, <3>3 DEF MessagesInv, In
  <2>6. FilesInv'
    BY <1>0, <1>1 DEF FilesInv, FileTrue
  <2>7. SeenInv'
    BY <1>1, <1>6 DEF SeenInv
  <2> QED
    BY <2>2, <2>3, <2>4, <2>5, <2>6, <2>7 DEF MonitorInv
<1> QED
  BY <1>0, <1>5, <1>6 DEF TypesInv

(* Two queues one behind the other. *)
LEMMA Join ==
  ASSUME NEW S, NEW q \in Seq(S), NEW r \in Seq(S)
  PROVE  /\ q \o r \in Seq(S) /\ Len(q \o r) = Len(q) + Len(r)
         /\ In(q \o r) = In(q) \cup In(r)
         /\ Ordered(q) /\ Ordered(r) /\ Ahead(q, r) => Ordered(q \o r)
<1> DEFINE t == q \o r
           n == Len(q)
           m == Len(r)
<1>1. /\ t \in Seq(S) /\ n \in Nat /\ m \in Nat /\ Len(t) = n + m
      /\ DOMAIN t = 1 .. n + m /\ DOMAIN q = 1 .. n /\ DOMAIN r = 1 .. m
  OBVIOUS
<1>2. \A i \in DOMAIN q : i \in DOMAIN t /\ t[i] = q[i]
  BY <1>1
<1>3. \A i \in DOMAIN r : n + i \in DOMAIN t /\ t[n + i] = r[i]
  BY <1>1
<1>4. \A i \in DOMAIN t : i \in DOMAIN q \/ (i - n \in DOMAIN r /\ t[i] = r[i - n])
  BY <1>1
<1>5. \A i, j \in DOMAIN t : i < j =>
        \/ i \in DOMAIN q /\ j \in DOMAIN q
        \/ i \in DOMAIN q /\ j - n \in DOMAIN r
        \/ i - n \in DOMAIN r /\ j - n \in DOMAIN r /\ i - n < j - n /\ i \notin DOMAIN q
  BY <1>1
<1>6. \A j \in DOMAIN t : j - n \in DOMAIN r => t[j] = r[j - n]
  BY <1>1
<1> HIDE DEF t, n, m
<1>7. In(t) = In(q) \cup In(r)
  <2>1. ASSUME NEW x \in In(t) PROVE x \in In(q) \cup In(r)
    BY <1>2, <1>4 DEF In
  <2>2. ASSUME NEW x \in In(q) \cup In(r) PROVE x \in In(t)
    BY <1>2, <1>3 DEF In
  <2> QED
    BY <2>1, <2>2
<1>8. ASSUME Ordered(q), Ordered(r), Ahead(q, r) PROVE Ordered(t)
  <2> SUFFICES ASSUME NEW i \in DOMAIN t, NEW j \in DOMAIN t, i < j
               PROVE  Compatible(t[i], t[j])
    BY DEF Ordered
  <2>1. CASE i \in DOMAIN q /\ j \in DOMAIN q
    BY <1>2, <1>8, <2>1 DEF Ordered
  <2>2. CASE i \in DOMAIN q /\ j - n \in DOMAIN r
    BY <1>2, <1>6, <1>8, <2>2 DEF Ahead, In
  <2>3. CASE i - n \in DOMAIN r /\ j - n \in DOMAIN r /\ i - n < j - n
    BY <1>6, <1>8, <2>3 DEF Ordered
  <2> QED
    BY <1>5, <2>1, <2>2, <2>3
<1> QED
  BY <1>1, <1>7, <1>8 DEF t, n, m

(* One event for every subscriber, in some order. *)
LEMMA EventsMade ==
  ASSUME Assumptions, TypesInv, NEW s \in Orders(subs), NEW n \in Nat,
         NEW new, new = [i \in DOMAIN s |-> Msg("Changed", s[i], n)]
  PROVE  /\ new \in Seq(Emission) /\ Len(new) = Cardinality(subs)
         /\ In(new) = {Msg("Changed", c, n) : c \in subs} /\ Ordered(new)
<1> DEFINE k == Cardinality(subs)
<1>1. /\ k \in Nat /\ s \in [1 .. k -> subs] /\ DOMAIN s = 1 .. k /\ subs \subseteq Clients
      /\ \A i, j \in DOMAIN s : i # j => s[i] # s[j]
      /\ \A x \in subs : \E i \in DOMAIN s : s[i] = x
  BY Sizes DEF Orders, TypesInv
<1> HIDE DEF k
<1>2. \A c \in subs : Msg("Changed", c, n) \in Emission
  BY <1>1 DEF Emission, Msg
<1>3. new \in [1 .. k -> Emission]
  BY <1>1, <1>2
<1>4. new \in Seq(Emission) /\ Len(new) = k /\ DOMAIN new = DOMAIN s
  BY <1>1, <1>3
<1>5. In(new) = {Msg("Changed", c, n) : c \in subs}
  <2>1. \A x : x \in In(new) <=> \E i \in DOMAIN s : x = Msg("Changed", s[i], n)
    BY <1>4 DEF In
  <2> QED
    BY <1>1, <2>1
<1>6. Ordered(new)
  <2>1. \A i \in DOMAIN s : new[i].c = s[i]
    BY DEF Msg
  <2> QED
    BY <1>1, <1>4, <2>1 DEF Ordered, Compatible
<1> QED
  BY <1>4, <1>5, <1>6 DEF k

(* Everything seen has happened. *)
LEMMA SeenPast ==
  ASSUME MonitorInv, NEW c \in Clients
  PROVE  Seen(c) \subseteq 1 .. now
<1>1. Told(c) \subseteq 1 .. now
  BY DEF MonitorInv, FilesInv, FileTrue, Told
<1>2. \A m \in In(down) : m.m = "Changed" => m.n \in 1 .. now
  BY DEF MonitorInv, MessagesInv, DownTrue, TypesInv
<1>3. \A m \in In(emits) : m.n \in 1 .. now
  BY DEF MonitorInv, MessagesInv, EmitTrue
<1> QED
  BY <1>1, <1>2, <1>3 DEF Seen, UnderWay

(* An event for every subscriber is put behind the events under way. *)
LEMMA EmitsMade ==
  ASSUME Assumptions, MonitorInv, EmitEvent
  PROVE  \E new \in Seq(Emission) :
           /\ Len(new) = Cardinality(subs) /\ Ordered(new)
           /\ In(new) = {Msg("Changed", c, now + 1) : c \in subs}
           /\ emits' = emits \o new /\ refs' = refs + Cardinality(subs)
<1>a. /\ TypesInv /\ refs \in Nat /\ now \in Nat /\ emits \in Seq(Emission)
  BY DEF MonitorInv, TypesInv, Assumptions, BoundsAssumption
<1>b. now' = now + 1
  BY DEF EmitEvent
<1>1. CASE refs = 0
  <2>1. subs = {} /\ Cardinality(subs) = 0 /\ emits = <<>> /\ emits' = <<>> /\ refs' = refs
    BY <1>b, <1>1, GoneUnused, FS_EmptySet DEF EmitEvent
  <2>2. <<>> \in Seq(Emission) /\ Len(<<>>) = 0 /\ Ordered(<<>>) /\ In(<<>>) = {}
    BY DEF Ordered, In
  <2>3. emits' = emits \o <<>> /\ refs' = refs + 0
    BY <1>a, <2>1
  <2> QED
    BY <2>1, <2>2, <2>3
<1>2. CASE refs # 0
  <2> PICK s \in Orders(subs) :
        emits' = emits \o [i \in DOMAIN s |-> Msg("Changed", s[i], now + 1)]
    BY <1>2 DEF EmitEvent
  <2> DEFINE new == [i \in DOMAIN s |-> Msg("Changed", s[i], now + 1)]
  <2>0. now + 1 \in Nat /\ new = [i \in DOMAIN s |-> Msg("Changed", s[i], now + 1)]
    BY <1>a
  <2>3. emits' = emits \o new
    OBVIOUS
  <2> HIDE DEF new
  <2>1. /\ new \in Seq(Emission) /\ Len(new) = Cardinality(subs)
        /\ In(new) = {Msg("Changed", c, now + 1) : c \in subs} /\ Ordered(new)
    BY <1>a, <2>0, EventsMade
  <2>2. emits' = emits \o new /\ refs' = refs + Cardinality(subs)
    BY <1>2, <2>3 DEF EmitEvent
  <2> QED
    BY <2>1, <2>2
<1> QED
  BY <1>1, <1>2

(* The event joins what its subscribers see. *)
LEMMA EventSeen ==
  ASSUME Assumptions, MonitorInv, EmitEvent, NEW c
  PROVE  Seen(c)' = Seen(c) \cup IF c \in subs THEN {now + 1} ELSE {}
<1>b. UNCHANGED <<subs, down, file>> /\ emits \in Seq(Emission)
  BY DEF EmitEvent, MonitorInv, TypesInv
<1>c. PICK new \in Seq(Emission) :
        In(new) = {Msg("Changed", x, now + 1) : x \in subs} /\ emits' = emits \o new
  BY EmitsMade
<1>d. In(emits') = In(emits) \cup In(new)
  BY <1>b, <1>c, Join
<1>e. \A x \in In(new) : x.m = "Changed" /\ x.c \in subs /\ x.n = now + 1
  BY <1>c DEF Msg
<1>1. UnderWay(c)' = UnderWay(c) \cup {x.n : x \in {y \in In(new) : y.c = c}}
  <2>1. /\ UnderWay(c)' =
             {x.n : x \in {y \in In(down) \cup In(emits') : y.m = "Changed" /\ y.c = c}}
    BY <1>b DEF UnderWay, In
  <2>2. /\ UnderWay(c) =
             {x.n : x \in {y \in In(down) \cup In(emits) : y.m = "Changed" /\ y.c = c}}
    BY DEF UnderWay
  <2> QED
    BY <1>d, <1>e, <2>1, <2>2
<1>2. {x.n : x \in {y \in In(new) : y.c = c}} = IF c \in subs THEN {now + 1} ELSE {}
  <2>1. Msg("Changed", c, now + 1).c = c /\ Msg("Changed", c, now + 1).n = now + 1 /\ (c \in subs => Msg("Changed", c, now + 1) \in In(new))
    BY <1>c DEF Msg
  <2> QED
    BY <1>e, <2>1
<1>3. Seen(c)' = Seen(c) \cup IF c \in subs THEN {now + 1} ELSE {}
  BY <1>b, <1>1, <1>2 DEF Seen, Told
<1> QED
  BY <1>3

(* The directory changes and every subscriber is to be told. *)
LEMMA EmitEventInv ==
  ASSUME Assumptions, MonitorInv, EmitEvent
  PROVE  MonitorInv'
<1>0. /\ TypesInv /\ CountInv /\ QueuesInv /\ MessagesInv /\ FilesInv /\ SeenInv
      /\ refs \in Nat /\ now \in Nat /\ emits \in Seq(Emission) /\ subs \subseteq Clients
  BY DEF MonitorInv, TypesInv, Assumptions, BoundsAssumption
<1>1. /\ UNCHANGED <<gen, subs, timers, calls, backend, active, open, up, down, file, bad>>
      /\ backend /\ now < MaxEvents /\ now' = now + 1
  BY DEF EmitEvent
<1>2. PICK new \in Seq(Emission) :
        /\ Len(new) = Cardinality(subs) /\ Ordered(new)
        /\ In(new) = {Msg("Changed", c, now + 1) : c \in subs}
        /\ emits' = emits \o new /\ refs' = refs + Cardinality(subs)
  BY EmitsMade
<1>3. /\ emits' \in Seq(Emission) /\ Len(emits') = Len(emits) + Cardinality(subs)
      /\ In(emits') = In(emits) \cup In(new)
      /\ Ordered(emits) /\ Ahead(emits, new) => Ordered(emits')
  <2>1. /\ emits \o new \in Seq(Emission) /\ Len(emits \o new) = Len(emits) + Len(new)
        /\ In(emits \o new) = In(emits) \cup In(new)
        /\ Ordered(emits) /\ Ordered(new) /\ Ahead(emits, new) => Ordered(emits \o new)
    <3>1. emits \in Seq(Emission)
      BY <1>0
    <3> QED
      BY <3>1, Join
  <2> QED
    BY <1>2, <2>1
<1>p. \A k \in 1 .. now : k < now + 1 /\ k # now + 1
  BY <1>0
<1>e. \A x \in In(new) : x.m = "Changed" /\ x.c \in subs /\ x.n = now + 1
  BY <1>2 DEF Msg
<1>4. QueuesInv'
  <2>1. ASSUME NEW a \in In(emits) PROVE a.m = "Changed" /\ a.n < now + 1
    <3>1. a.m = "Changed" /\ a.n \in 1 .. now
      BY <1>0, Typed DEF MessagesInv, EmitTrue
    <3> QED
      BY <1>p, <3>1
  <2>2. Ahead(emits, new)
    BY <1>e, <2>1 DEF Ahead, Compatible, Handshake
  <2>3. ASSUME NEW a \in In(down), a.m = "Changed" PROVE a.n < now + 1
    <3>1. <<a.c, a.n>> \in calls /\ calls \subseteq Clients \X (1 .. now)
      BY <1>0, <2>3 DEF MessagesInv, DownTrue, TypesInv
    <3>2. a.n \in 1 .. now
      BY <3>1
    <3> QED
      BY <1>p, <3>2
  <2>4. Ahead(down, new)
    BY <1>0, <1>e, <2>3, Typed DEF Ahead, Compatible, Handshake, DownMsg
  <2>5. ASSUME NEW a \in In(up), a.m = "ChangedDone" PROVE a.n # now + 1
    <3>1. <<a.c, a.n>> \in calls /\ calls \subseteq Clients \X (1 .. now)
      BY <1>0, <2>5 DEF MessagesInv, UpTrue, TypesInv
    <3>2. a.n \in 1 .. now
      BY <3>1
    <3> QED
      BY <1>p, <3>2
  <2>6. ASSUME NEW a \in In(up), NEW b \in In(new) PROVE Compatible(a, b)
    <3>1. a.m = "Subscribe" => a.c # b.c
      BY <1>0, <1>e DEF MessagesInv, UpTrue
    <3>2. a.m # "Changed"
      BY <1>0, Typed
    <3>3. a.m = "ChangedDone" => a.n # b.n
      BY <1>0, <1>e, <2>5
    <3>4. b.m = "Changed"
      BY <1>e
    <3> QED
      BY <3>1, <3>2, <3>3, <3>4 DEF Compatible, Handshake
  <2> QED
    BY <1>0, <1>1, <1>3, <2>2, <2>4, <2>6 DEF QueuesInv, Ahead
<1>5. CountInv' /\ refs' \in Nat
  <2>1. refs = Cardinality(subs) + Cardinality(timers) + Len(emits) + Cardinality(calls)
    BY <1>0 DEF CountInv, RefsExact
  <2>2. /\ refs' = Cardinality(subs) + Cardinality(timers) + Len(emits') + Cardinality(calls)
        /\ refs' \in Nat /\ (refs' > 0 <=> refs > 0)
    <3>1. /\ refs' = refs + Cardinality(subs) /\ Len(emits') = Len(emits) + Cardinality(subs)
          /\ (refs = 0 => Cardinality(subs) = 0)
      BY <1>0, <1>2, <1>3, GoneUnused, FS_EmptySet
    <3>2. /\ Cardinality(subs) \in Nat /\ Cardinality(calls) \in Nat
          /\ Cardinality(timers) \in Nat /\ Len(emits) \in Nat
      BY <1>0, Sizes
    <3>3. refs' = Cardinality(subs) + Cardinality(timers) + Len(emits') + Cardinality(calls)
      BY <2>1, <3>1, <3>2
    <3>4. refs' \in Nat /\ (refs > 0 => refs' > 0)
      BY <1>0, <3>1, <3>2
    <3>5. refs = 0 => refs' = 0
      BY <3>1
    <3>6. refs' > 0 => refs > 0
      BY <1>0, <3>4, <3>5
    <3> QED
      BY <3>3, <3>4, <3>6
  <2>3. active = (backend /\ refs > 0)
    BY <1>0 DEF CountInv, ActivityExact
  <2>4. ActivityExact'
    BY <1>1, <2>2, <2>3 DEF ActivityExact
  <2> QED
    BY <1>0, <1>1, <2>2, <2>4 DEF CountInv, RefsExact, NoUseAfterFree
<1>6. TypesInv'
  <2>1. now' \in 0 .. MaxEvents /\ calls \subseteq Clients \X (1 .. now')
    BY <1>0, <1>1 DEF TypesInv, Assumptions, BoundsAssumption
  <2> QED
    BY <1>0, <1>1, <1>3, <1>5, <2>1 DEF TypesInv
<1>7. MessagesInv'
  <2>1. \A x \in In(up') : UpTrue(x)'
    BY <1>0, <1>1 DEF MessagesInv, UpTrue, Listening
  <2>2. \A x \in In(down') : DownTrue(x)'
    BY <1>0, <1>1 DEF MessagesInv, DownTrue, Listening, After
  <2>3. ASSUME NEW x \in In(emits) PROVE EmitTrue(x)'
    <3>1. EmitTrue(x)
      BY <1>0 DEF MessagesInv
    <3> QED
      BY <1>0, <1>1, <3>1 DEF EmitTrue, Listening, After
  <2>4. ASSUME NEW x \in In(new) PROVE EmitTrue(x)'
    <3>1. x.c \in subs /\ x.n = now + 1 /\ x.c \in Clients
      BY <1>0, <1>e
    <3>2. Listening(x.c)
      BY <1>0, <3>1, Typed DEF FilesInv, FileTrue, FileRec, Listening
    <3>3. <<x.c, x.n>> \notin calls
      BY <1>0, <3>1 DEF TypesInv
    <3>4. After(x.n, x.c)
      BY <1>0, <3>1 DEF FilesInv, FileTrue, After
    <3> QED
      BY <1>0, <1>1, <3>1, <3>2, <3>3, <3>4 DEF EmitTrue, Listening, After
  <2> QED
    BY <1>3, <2>1, <2>2, <2>3, <2>4 DEF MessagesInv, In
<1>8. FilesInv'
  <2> SUFFICES ASSUME NEW c \in Clients PROVE FileTrue(c, file[c])'
    BY DEF FilesInv
  <2>1. FileTrue(c, file[c])
    BY <1>0 DEF FilesInv
  <2>2. \A i \in 1 .. Len(file[c].got) : file[c].got[i] \in 1 .. now'
    BY <1>0, <1>1, <2>1 DEF FileTrue
  <2> QED
    BY <1>1, <2>1, <2>2 DEF FileTrue
<1>9. SeenInv'
  <2> SUFFICES ASSUME NEW c \in Clients, open, ~file[c].cancelled
               PROVE  /\ \A a, b \in Seen(c)', n \in Nat : a <= n /\ n <= b => n \in Seen(c)'
                      /\ Seen(c)' # {} => c \in subs /\ now + 1 \in Seen(c)'
    BY <1>1 DEF SeenInv
  <2>3. Seen(c)' = Seen(c) \cup IF c \in subs THEN {now + 1} ELSE {}
    BY EventSeen
  <2>4. Seen(c) \subseteq 1 .. now
    BY SeenPast
  <2>5. /\ \A a, b \in Seen(c), n \in Nat : a <= n /\ n <= b => n \in Seen(c)
        /\ Seen(c) # {} => c \in subs /\ now \in Seen(c)
    BY <1>0, <1>1 DEF SeenInv
  <2>6. CASE c \in subs
    <3> SUFFICES ASSUME NEW a \in Seen(c)', NEW b \in Seen(c)', NEW n \in Nat, a <= n, n <= b
                 PROVE  n \in Seen(c)'
      BY <2>3, <2>6
    <3>1. (a \in Seen(c) \/ a = now + 1) /\ (b \in Seen(c) \/ b = now + 1)
      BY <2>3, <2>6
    <3>2. CASE n = now + 1
      BY <2>3, <2>6, <3>2
    <3>3. CASE n # now + 1
      <4>1. n <= now
        BY <1>0, <2>4, <3>1, <3>3
      <4>2. a \in Seen(c)
        BY <1>0, <3>1, <4>1
      <4>3. n \in Seen(c)
        BY <2>5, <4>1, <4>2
      <4> QED
        BY <2>3, <4>3
    <3> QED
      BY <3>2, <3>3
  <2>7. CASE c \notin subs
    BY <2>3, <2>5, <2>7
  <2> QED
    BY <2>6, <2>7
<1> QED
  BY <1>4, <1>5, <1>6, <1>7, <1>8, <1>9 DEF MonitorInv

-----------------------------------------------------------------------------
(* The invariant                                                           *)

(* Nothing is wrong before the first step. *)
LEMMA InitInv ==
  ASSUME Assumptions, Init
  PROVE  MonitorInv
<1>0. /\ MaxEvents \in Nat /\ MaxGens \in Nat
      /\ gen = 0 /\ refs = 0 /\ subs = {} /\ timers = {} /\ emits = <<>> /\ calls = {}
      /\ backend = TRUE /\ active = FALSE /\ now = 0 /\ open = TRUE
      /\ up = <<>> /\ down = <<>> /\ file = [c \in Clients |-> NoFile]
      /\ bad = FALSE
  BY DEF Init, Assumptions, BoundsAssumption
<1>1. NoFile \in FileRec
  BY <1>0 DEF NoFile, FileRec
<1>2. \A c \in Clients : file[c] = NoFile
  BY <1>0
<1>3. In(up) = {} /\ In(down) = {} /\ In(emits) = {}
  BY <1>0 DEF In
<1>4. TypesInv
  <2>1. IsFiniteSet(calls)
    BY <1>0, FS_EmptySet
  <2>2. file \in [Clients -> FileRec]
    BY <1>0, <1>1
  <2>4. backend \in BOOLEAN /\ active \in BOOLEAN /\ open \in BOOLEAN /\ (open <=> TRUE)
    BY <1>0
  <2>5. /\ gen \in 0 .. MaxGens /\ refs \in Nat /\ now \in 0 .. MaxEvents
        /\ subs \subseteq Clients /\ timers \subseteq Clients
        /\ calls \subseteq Clients \X (1 .. now)
    BY <1>0
  <2>3. emits \in Seq(Emission) /\ up \in Seq(UpMsg) /\ down \in Seq(DownMsg)
    BY <1>0
  <2> QED
    BY <2>1, <2>2, <2>3, <2>4, <2>5 DEF TypesInv
<1>5. CountInv
  <2>1. Cardinality({}) = 0 /\ Len(<<>>) = 0
    BY FS_EmptySet
  <2>2. RefsExact /\ ~bad
    BY <1>0, <2>1 DEF RefsExact
  <2>3. ActivityExact
    <3>1. ~(refs > 0)
      BY <1>0
    <3>2. (backend /\ refs > 0) = FALSE
      BY <3>1
    <3> QED
      BY <1>0, <3>2 DEF ActivityExact
  <2> QED
    BY <2>2, <2>3 DEF CountInv, NoUseAfterFree
<1>6. QueuesInv
  BY <1>0, <1>3 DEF QueuesInv, Ordered, Ahead
<1>7. MessagesInv
  BY <1>3 DEF MessagesInv
<1>8. FilesInv
  BY <1>0, <1>2 DEF FilesInv, FileTrue, NoFile
<1>9. SeenInv
  <2>1. \A c \in Clients : Seen(c) = {}
    BY <1>2, <1>3 DEF Seen, Told, UnderWay, NoFile
  <2> QED
    BY <2>1 DEF SeenInv
<1> QED
  BY <1>4, <1>5, <1>6, <1>7, <1>8, <1>9 DEF MonitorInv

(* Every step keeps it so. *)
LEMMA Inductive ==
  ASSUME Assumptions, MonitorInv, [Next]_vars
  PROVE  MonitorInv'
<1>1. ASSUME NEW c \in Clients, MonitorDir(c) PROVE MonitorInv'
  BY <1>1, MonitorDirInv
<1>2. ASSUME NEW c \in Clients, ListDir(c) PROVE MonitorInv'
  BY <1>2, ListDirInv
<1>2e. ASSUME NEW c \in Clients, ListElsewhere(c) PROVE MonitorInv'
  BY <1>2e, ListElsewhereInv
<1>3. ASSUME NEW c \in Clients, Cancel(c) PROVE MonitorInv'
  BY <1>3, CancelInv
<1>4. CASE ClientReceives
  BY <1>4, ClientReceivesInv
<1>5. CASE DaemonReceives
  BY <1>5, DaemonReceivesInv
<1>6. ASSUME NEW c \in Clients, UnrefMonitorTimeout(c) PROVE MonitorInv'
  BY <1>6, TimeoutInv
<1>7. CASE EmitEvent
  BY <1>7, EmitEventInv
<1>8. CASE GotProxyCb
  BY <1>8, GotProxyInv
<1>9. CASE BackendDied
  BY <1>9, BackendDiedInv
<1>10. CASE ConnectionClosed
  BY <1>10, ConnectionClosedInv
<1>11. CASE UNCHANGED vars
  <2>0. UNCHANGED <<gen, refs, subs, timers, emits, calls, backend, active, now, open,
                    up, down, file, bad>>
    BY <1>11 DEF vars
  <2>1. TypesInv' /\ CountInv'
    BY <2>0 DEF MonitorInv, TypesInv, CountInv, RefsExact, ActivityExact, NoUseAfterFree
  <2>2. QueuesInv' /\ FilesInv'
    BY <2>0 DEF MonitorInv, QueuesInv, Ordered, Ahead, In, FilesInv, FileTrue
  <2>3. MessagesInv'
    <3>1. \A x \in In(up') : UpTrue(x)'
      BY <2>0 DEF MonitorInv, MessagesInv, UpTrue, Listening
    <3>2. \A x \in In(down') : DownTrue(x)'
      BY <2>0 DEF MonitorInv, MessagesInv, DownTrue, Listening, After
    <3>3. \A x \in In(emits') : EmitTrue(x)'
      BY <2>0 DEF MonitorInv, MessagesInv, EmitTrue, Listening, After
    <3> QED
      BY <3>1, <3>2, <3>3 DEF MessagesInv, In
  <2>4. SeenInv'
    <3>1. \A b \in Clients : Seen(b)' = Seen(b)
      BY <2>0, SeenKept DEF MonitorInv
    <3> QED
      BY <2>0, <3>1, SeenInvKept DEF MonitorInv
  <2> QED
    BY <2>1, <2>2, <2>3, <2>4 DEF MonitorInv
<1> QED
  BY <1>1, <1>2, <1>2e, <1>3, <1>4, <1>5, <1>6, <1>7, <1>8, <1>9, <1>10, <1>11 DEF Next

-----------------------------------------------------------------------------
(* With prompt clients                                                     *)

(* What is to be told after a listing is seen. *)
LEMMA ListedSeen ==
  ASSUME TypesInv
  PROVE  ListedThenTold <=>
           \A c \in Clients : open /\ backend /\ ~file[c].cancelled =>
             \A n \in file[c].listed + 1 .. now : n \in Seen(c)
<1> SUFFICES ASSUME NEW c \in Clients
             PROVE  \A n : n \in Seen(c) <=>
                      n \in UnderWay(c) \/ \E i \in DOMAIN file[c].got : file[c].got[i] = n
  BY DEF ListedThenTold
<1>1. file[c].got \in Seq(Nat)
  BY Typed DEF FileRec
<1>2. DOMAIN file[c].got = 1 .. Len(file[c].got)
  BY <1>1
<1> QED
  BY <1>2 DEF Seen, Told

(* Steps that leave a client its subscription and what it sees *)
Kept(b) ==
  /\ (Listening(b)' => Listening(b) \/ ToSubscribe(b)')
  /\ (b \in subs => b \in subs')
  /\ (ToSubscribe(b) => b \in subs' \/ ToSubscribe(b)')
  /\ Seen(b)' = Seen(b)
  /\ file'[b].listed = file[b].listed \/ file'[b].listed = now

(* leave the promises true. *)
LEMMA PromisesKept ==
  ASSUME PromptInv, MonitorInv', now' = now,
         \A b \in Clients : open' /\ backend' /\ ~file'[b].cancelled =>
           open /\ backend /\ ~file[b].cancelled /\ Kept(b)
  PROVE  PromptInv'
<1>0. TypesInv /\ TypesInv' /\ now \in Nat /\ SubscribedInv
  BY DEF PromptInv, MonitorInv, TypesInv
<1>1. SubscribedInv'
  <2> SUFFICES ASSUME NEW b \in Clients, open', backend', ~file'[b].cancelled, Listening(b)'
               PROVE  b \in subs' \/ ToSubscribe(b)'
    BY DEF SubscribedInv, Listening
  <2>1. open /\ backend /\ ~file[b].cancelled /\ Kept(b)
    OBVIOUS
  <2> QED
    BY <1>0, <2>1 DEF SubscribedInv, Kept
<1>2. ASSUME NEW b \in Clients, open', backend', ~file'[b].cancelled,
             NEW n \in file'[b].listed + 1 .. now
      PROVE  n \in Seen(b)'
  <2>1. open /\ backend /\ ~file[b].cancelled /\ Kept(b)
    BY <1>2
  <2>2. file'[b].listed = file[b].listed
    BY <1>0, <1>2, <2>1 DEF Kept
  <2>3. n \in Seen(b)
    BY <1>0, <1>2, <2>1, <2>2, ListedSeen DEF PromptInv
  <2> QED
    BY <2>1, <2>3 DEF Kept
<1>3. \A b \in Clients : open' /\ backend' /\ ~file'[b].cancelled =>
        \A n \in file'[b].listed + 1 .. now' : n \in Seen(b)'
  BY <1>2
<1>4. ListedThenTold'
  <2>1. ASSUME NEW c \in Clients, NEW n
        PROVE  n \in Seen(c)' <=>
                 n \in UnderWay(c)' \/ \E i \in DOMAIN file'[c].got : file'[c].got[i] = n
    <3>1. file'[c].got \in Seq(Nat)
      BY <1>0 DEF TypesInv, FileRec
    <3>2. DOMAIN file'[c].got = 1 .. Len(file'[c].got)
      BY <3>1
    <3> QED
      BY <3>2 DEF Seen, Told
  <2> QED
    BY <1>3, <2>1 DEF ListedThenTold
<1> QED
  BY <1>1, <1>4 DEF PromptInv

(* A message that is added to a queue leaves what is to come there. *)
LEMMA StillToCome ==
  ASSUME TypesInv, NEW b, up' = up \/ \E m \in UpMsg : up' = Append(up, m)
  PROVE  ToSubscribe(b) => ToSubscribe(b)'
<1>1. up \in Seq(UpMsg)
  BY DEF TypesInv
<1>2. In(up) \subseteq In(up')
  <2>1. CASE \E m \in UpMsg : up' = Append(up, m)
    <3> PICK m \in UpMsg : up' = Append(up, m)
      BY <2>1
    <3>1. In(up') = In(up) \cup {m}
      BY <1>1, Put
    <3> QED
      BY <3>1
  <2> QED
    BY <2>1
<1>3. ToSubscribe(b)' <=> \E m \in In(up') : m.m = "Subscribe" /\ m.c = b
  BY DEF ToSubscribe, In
<1> QED
  BY <1>2, <1>3 DEF ToSubscribe

(* The calls of the client. *)
LEMMA CallsPrompt ==
  ASSUME PromptInv, MonitorInv', NEW c \in Clients, MonitorDir(c) \/ ListDir(c) \/ ListElsewhere(c) \/ Cancel(c)
  PROVE  PromptInv'
<1>0. TypesInv /\ file \in [Clients -> FileRec] /\ file[c] \in FileRec
  BY DEF PromptInv, MonitorInv, TypesInv
<1>1. UNCHANGED <<gen, subs, emits, backend, now, open, down>>
  BY DEF MonitorDir, ListDir, ListElsewhere, Cancel
<1>2. up' = up \/ \E m \in UpMsg : up' = Append(up, m)
  <2>1. \A m : Msg(m, c, file[c].gen).m = m
    BY DEF Msg
  <2>2. \A m \in {"Create", "List", "Unsubscribe"} : Msg(m, c, file[c].gen) \in UpMsg
    BY <1>0 DEF Msg, UpMsg, FileRec
  <2> QED
    BY <2>2 DEF MonitorDir, ListDir, ListElsewhere, Cancel, Send
<1>3. ASSUME NEW b \in Clients
      PROVE  /\ file'[b].got = file[b].got
             /\ file'[b].listed = file[b].listed \/ file'[b].listed = now
             /\ (Listening(b)' => Listening(b))
             /\ (file[b].cancelled => file'[b].cancelled)
  <2>1. CASE MonitorDir(c)
    BY <1>0, <2>1 DEF MonitorDir, Listening, FileRec
  <2>2. CASE ListDir(c)
    BY <1>0, <2>2 DEF ListDir, Listening, FileRec
  <2>2e. CASE ListElsewhere(c)
    BY <1>0, <2>2e DEF ListElsewhere, Listening, FileRec
  <2>3. CASE Cancel(c)
    <3>1. file' = [file EXCEPT ![c].cancelled = TRUE]
      BY <2>3 DEF Cancel
    <3>2. b # c => file'[b] = file[b]
      BY <1>0, <3>1
    <3>3. /\ file'[c].got = file[c].got /\ file'[c].listed = file[c].listed
          /\ file'[c].st = file[c].st /\ file'[c].cancelled = TRUE
      BY <1>0, <3>1 DEF FileRec
    <3> QED
      BY <3>2, <3>3 DEF Listening
  <2> QED
    BY <2>1, <2>2, <2>2e, <2>3
<1>4. ASSUME NEW b \in Clients, ~file'[b].cancelled PROVE ~file[b].cancelled /\ Kept(b)
  <2>1. Seen(b)' = Seen(b)
    BY <1>0, <1>1, <1>3, SeenKept
  <2> QED
    BY <1>0, <1>1, <1>2, <1>3, <1>4, <2>1, StillToCome DEF Kept
<1> QED
  BY <1>1, <1>4, PromisesKept

(* The messages to the client. *)
LEMMA ClientReceivesPrompt ==
  ASSUME PromptInv, MonitorInv', ClientReceives
  PROVE  PromptInv'
<1>0. MonitorInv /\ TypesInv /\ file \in [Clients -> FileRec] /\ TakenDown
  BY DEF PromptInv, MonitorInv, TypesInv, ClientReceives, TakenDown
<1>1. UNCHANGED <<gen, subs, emits, backend, now, open>> /\ open /\ down # <<>> /\ down' = Tail(down)
  BY DEF ClientReceives
<1>2. PICK c \in Clients, n \in Nat :
        Head(down).c = c /\ Head(down).n = n /\ Head(down) \in DownMsg /\ DownTrue(Head(down))
  BY <1>0, TakenDownFacts DEF DownMsg
<1>3. /\ \A b \in Clients : b # c => file'[b] = file[b]
      /\ file'[c].cancelled = file[c].cancelled /\ file'[c].listed = file[c].listed
      /\ (Listening(c)' => Listening(c) \/ ToSubscribe(c)')
      /\ up' = up \/ \E m \in UpMsg : up' = Append(up, m)
      /\ ~file[c].cancelled => Seen(c)' = Seen(c)
  <2>0. file[c] \in FileRec /\ up \in Seq(UpMsg)
    BY <1>0 DEF TypesInv
  <2>1. CASE Head(down).m = "Created" /\ \E ok \in BOOLEAN : New(c, n, ok)
    <3> PICK ok \in BOOLEAN : New(c, n, ok)
      BY <2>1
    <3>1. /\ \A b \in Clients : b # c => file'[b] = file[b]
          /\ file'[c].got = file[c].got
          /\ file'[c].cancelled = file[c].cancelled /\ file'[c].listed = file[c].listed
      BY <1>0, <2>0 DEF New, FileRec
    <3>2. Seen(c)' = Seen(c)
      BY <1>0, <1>1, <2>1, <3>1, SeenKept
    <3>3. CASE ok
      <4>1. Msg("Subscribe", c, n) \in UpMsg /\ up' = Append(up, Msg("Subscribe", c, n))
        BY <3>3 DEF New, Msg, UpMsg
      <4>2. Msg("Subscribe", c, n) \in In(up')
        BY <2>0, <4>1, Put
      <4>3. ToSubscribe(c)'
        BY <4>2 DEF ToSubscribe, In, Msg
      <4> QED
        BY <3>1, <3>2, <4>1, <4>3
    <3>4. CASE ~ok
      <4>1. up' = up /\ file'[c].st = "deaf"
        BY <1>0, <2>0, <3>4 DEF New, FileRec
      <4> QED
        BY <3>1, <3>2, <4>1 DEF Listening
    <3> QED
      BY <3>3, <3>4
  <2>2. CASE Head(down).m = "Failed" /\ file' = [file EXCEPT ![c].st = "deaf"] /\ up' = up
    <3>1. /\ \A b \in Clients : b # c => file'[b] = file[b]
          /\ file'[c].got = file[c].got /\ file'[c].st = "deaf"
          /\ file'[c].cancelled = file[c].cancelled /\ file'[c].listed = file[c].listed
      BY <1>0, <2>0, <2>2 DEF FileRec
    <3>2. Seen(c)' = Seen(c)
      BY <1>0, <1>1, <2>2, <3>1, SeenKept
    <3> QED
      BY <2>2, <3>1, <3>2 DEF Listening
  <2>3. CASE Head(down).m = "Subscribed" /\ SubscribeCb(c)
    <3>1. /\ \A b \in Clients : b # c => file'[b] = file[b]
          /\ file'[c].got = file[c].got
          /\ file'[c].cancelled = file[c].cancelled /\ file'[c].listed = file[c].listed
      BY <1>0, <2>0, <2>3 DEF SubscribeCb, FileRec
    <3>2. Seen(c)' = Seen(c)
      BY <1>0, <1>1, <2>3, <3>1, SeenKept
    <3>3. Listening(c)
      BY <1>2, <2>3 DEF DownTrue, Listening
    <3>4. Msg("Unsubscribe", c, file[c].gen) \in UpMsg
      BY <2>0 DEF Msg, UpMsg, FileRec
    <3>5. up' = up \/ up' = Append(up, Msg("Unsubscribe", c, file[c].gen))
      BY <2>3 DEF SubscribeCb, Send
    <3> QED
      BY <3>1, <3>2, <3>3, <3>4, <3>5
  <2>4. CASE Head(down).m = "Changed" /\ HandleChanged(c, n)
    <3>1. /\ \A b \in Clients : b # c => file'[b] = file[b]
          /\ file'[c].st = file[c].st
          /\ file'[c].got = IF file[c].cancelled THEN file[c].got ELSE Append(file[c].got, n)
          /\ file'[c].cancelled = file[c].cancelled /\ file'[c].listed = file[c].listed
      BY <1>0, <2>0, <2>4 DEF HandleChanged, FileRec
    <3>2. ~file[c].cancelled => Seen(c)' = Seen(c)
      BY <1>0, <1>1, <1>2, <2>4, <3>1, ToldNext
    <3>3. Msg("ChangedDone", c, n) \in UpMsg /\ up' = Append(up, Msg("ChangedDone", c, n))
      BY <2>4 DEF HandleChanged, Msg, UpMsg
    <3> QED
      BY <3>1, <3>2, <3>3 DEF Listening
  <2> QED
    BY <1>2, <2>1, <2>2, <2>3, <2>4 DEF ClientReceives
<1>4. ASSUME NEW b \in Clients, ~file'[b].cancelled PROVE ~file[b].cancelled /\ Kept(b)
  <2>1. ~file[b].cancelled /\ file'[b].listed = file[b].listed
    BY <1>3, <1>4
  <2>2. Seen(b)' = Seen(b)
    <3>1. b # c => Seen(b)' = Seen(b)
      BY <1>0, <1>1, <1>2, <1>3, SeenKept
    <3> QED
      BY <1>3, <2>1, <3>1
  <2>3. Listening(b)' => Listening(b) \/ ToSubscribe(b)'
    BY <1>3 DEF Listening
  <2> QED
    BY <1>0, <1>1, <1>3, <2>1, <2>2, <2>3, StillToCome DEF Kept
<1> QED
  BY <1>1, <1>4, PromisesKept

(* The messages to the daemon: a prompt Subscribe finds its monitor. *)
LEMMA DaemonReceivesPrompt ==
  ASSUME PromptClients, PromptInv, MonitorInv', DaemonReceives
  PROVE  PromptInv'
<1>0. /\ Assumptions /\ Prompt /\ MonitorInv /\ TypesInv /\ CountInv
      /\ file \in [Clients -> FileRec] /\ TakenUp /\ refs \in Nat
  BY DEF PromptClients, PromptInv, MonitorInv, TypesInv, DaemonReceives, TakenUp
<1>1. UNCHANGED <<emits, backend, now, open>> /\ open /\ up # <<>> /\ up' = Tail(up)
  BY DEF DaemonReceives
<1>2. PICK c \in Clients, n \in Nat :
        Head(up).c = c /\ Head(up).n = n /\ Head(up) \in UpMsg /\ UpTrue(Head(up))
  BY <1>0, TakenUpFacts DEF UpMsg
<1>t. ASSUME NEW b, ToSubscribe(b), Head(up).m # "Subscribe" \/ b # c PROVE ToSubscribe(b)'
  <2>1. In(up) = {Head(up)} \cup In(Tail(up))
    BY <1>0, <1>1, Take DEF TypesInv
  <2>2. PICK m \in In(up) : m.m = "Subscribe" /\ m.c = b
    BY <1>t DEF ToSubscribe
  <2>3. m \in In(up')
    BY <1>1, <1>2, <1>t, <2>1, <2>2
  <2> QED
    BY <2>2, <2>3 DEF ToSubscribe, In
<1>3. /\ \A b \in Clients :
           /\ file'[b].cancelled = file[b].cancelled /\ file'[b].got = file[b].got
           /\ file'[b].st = file[b].st
           /\ file'[b].listed = file[b].listed \/ file'[b].listed = now
           /\ (b \in subs /\ ~file[b].cancelled => b \in subs')
           /\ (ToSubscribe(b) => b \in subs' \/ ToSubscribe(b)')
      /\ down' = down \/ \E m \in DownMsg : m.m # "Changed" /\ down' = Append(down, m)
  <2>1. CASE Head(up).m = "Create" /\ CreateMonitor(c)
    <3>1. file' = file /\ subs' = subs
      BY <2>1 DEF CreateMonitor
    <3>2. \E m \in DownMsg : m.m # "Changed" /\ down' = Append(down, m)
      <4>1. gen' \in Nat
        BY DEF MonitorInv, TypesInv
      <4>2. /\ Msg("Created", c, gen') \in DownMsg /\ Msg("Created", c, gen').m # "Changed"
            /\ Msg("Failed", c, 0) \in DownMsg /\ Msg("Failed", c, 0).m # "Changed"
        BY <4>1 DEF Msg, DownMsg
      <4>3. down' = Append(down, Msg("Created", c, gen')) \/ down' = Append(down, Msg("Failed", c, 0))
        BY <2>1 DEF CreateMonitor, CreateReply
      <4> QED
        BY <4>2, <4>3
    <3>3. \A b : ToSubscribe(b) => ToSubscribe(b)'
      BY <1>t, <2>1
    <3> QED
      BY <3>1, <3>2, <3>3
  <2>2. CASE Head(up).m = "Subscribe" /\ HandleSubscribe(c, n)
    <3>1. n = gen /\ refs > 0
      <4>1. c \in timers /\ n = gen
        BY <1>0, <1>2, <2>2 DEF UpTrue
      <4>2. refs # 0
        BY <1>0, <4>1, GoneUnused
      <4> QED
        BY <1>0, <4>1, <4>2
    <3>2. /\ subs' = subs \cup {c}
          /\ \A b \in Clients :
               /\ file'[b].cancelled = file[b].cancelled /\ file'[b].got = file[b].got
               /\ file'[b].st = file[b].st
               /\ file'[b].listed = file[b].listed \/ file'[b].listed = now
      BY <1>0, <2>2, <3>1 DEF HandleSubscribe, FileRec
    <3>3. \E m \in DownMsg : m.m # "Changed" /\ down' = Append(down, m)
      BY <2>2 DEF HandleSubscribe, Msg, DownMsg
    <3>4. \A b : ToSubscribe(b) => b = c \/ ToSubscribe(b)'
      BY <1>t
    <3> QED
      BY <3>2, <3>3, <3>4
  <2>3. CASE Head(up).m = "Unsubscribe" /\ HandleUnsubscribe(c, n)
    <3>1. file' = file /\ down' = down /\ (subs' = subs \/ subs' = subs \ {c})
      BY <2>3 DEF HandleUnsubscribe, Unsubscribe
    <3>2. file[c].cancelled
      BY <1>2, <2>3 DEF UpTrue
    <3>3. \A b : ToSubscribe(b) => ToSubscribe(b)'
      BY <1>t, <2>3
    <3> QED
      BY <3>1, <3>2, <3>3
  <2>4. CASE Head(up).m = "ChangedDone" /\ ChangedCb(c, n)
    <3>1. file' = file /\ down' = down /\ subs' = subs
      BY <2>4 DEF ChangedCb
    <3>3. \A b : ToSubscribe(b) => ToSubscribe(b)'
      BY <1>t, <2>4
    <3> QED
      BY <3>1, <3>3
  <2>5. CASE /\ Head(up).m = "List" /\ file' = [file EXCEPT ![c].listed = now]
             /\ UNCHANGED <<gen, refs, active, timers, subs, calls, down>>
    <3>1. \A b \in Clients :
            /\ file'[b].cancelled = file[b].cancelled /\ file'[b].got = file[b].got
            /\ file'[b].st = file[b].st
            /\ file'[b].listed = file[b].listed \/ file'[b].listed = now
      BY <1>0, <2>5 DEF FileRec
    <3>3. \A b : ToSubscribe(b) => ToSubscribe(b)'
      BY <1>t, <2>5
    <3> QED
      BY <2>5, <3>1, <3>3
  <2> QED
    BY <1>2, <2>1, <2>2, <2>3, <2>4, <2>5 DEF DaemonReceives
<1>4. ASSUME NEW b \in Clients, ~file'[b].cancelled PROVE ~file[b].cancelled /\ Kept(b)
  <2>1. ~file[b].cancelled
    BY <1>3, <1>4
  <2>2. Seen(b)' = Seen(b)
    BY <1>0, <1>1, <1>3, SeenKept
  <2>3. Listening(b)' => Listening(b)
    BY <1>3 DEF Listening
  <2> QED
    BY <1>3, <2>1, <2>2, <2>3 DEF Kept
<1> QED
  BY <1>1, <1>4, PromisesKept

(* A change that is listed nowhere is told to every client that listens. *)
LEMMA EmitEventPrompt ==
  ASSUME PromptClients, PromptInv, MonitorInv', EmitEvent
  PROVE  PromptInv'
<1>0. /\ Assumptions /\ MonitorInv /\ TypesInv /\ TypesInv' /\ FilesInv /\ MessagesInv
      /\ SubscribedInv /\ ListedThenTold /\ now \in Nat /\ MaxEvents \in Nat
  BY DEF PromptClients, PromptInv, MonitorInv, TypesInv, Assumptions, BoundsAssumption
<1>1. /\ UNCHANGED <<subs, open, up, down, file, backend>>
      /\ now < MaxEvents /\ now' = now + 1
  BY DEF EmitEvent
<1>2. SubscribedInv'
  BY <1>0, <1>1 DEF SubscribedInv, Listening, ToSubscribe, In
<1>3. ASSUME NEW c \in Clients, open, backend, ~file[c].cancelled,
             NEW n \in file[c].listed + 1 .. now + 1
      PROVE  n \in Seen(c)'
  <2>1. Seen(c)' = Seen(c) \cup IF c \in subs THEN {now + 1} ELSE {}
    BY <1>0, EventSeen
  <2>2. file[c] \in FileRec /\ file[c].listed \in Nat
    BY <1>0, Typed DEF FileRec
  <2>3. CASE n = now + 1
    <3>1. file[c].listed # MaxEvents + 1
      BY <1>0, <1>1, <1>3, <2>2, <2>3
    <3>2. Listening(c)
      BY <1>0, <2>2, <3>1 DEF FilesInv, FileTrue, FileRec, Listening
    <3>3. ~ToSubscribe(c)
      BY <1>0, <3>1 DEF ToSubscribe, MessagesInv, UpTrue
    <3>4. c \in subs
      BY <1>0, <1>3, <3>2, <3>3 DEF SubscribedInv
    <3> QED
      BY <2>1, <2>3, <3>4
  <2>4. CASE n # now + 1
    <3>1. n \in file[c].listed + 1 .. now
      BY <1>0, <2>2, <2>4
    <3>2. n \in Seen(c)
      BY <1>0, <1>3, <3>1, ListedSeen
    <3> QED
      BY <2>1, <3>2
  <2> QED
    BY <2>3, <2>4
<1>4. ListedThenTold'
  <2>1. ASSUME NEW c \in Clients, NEW n
        PROVE  n \in Seen(c)' <=>
                 n \in UnderWay(c)' \/ \E i \in DOMAIN file'[c].got : file'[c].got[i] = n
    <3>1. file'[c].got \in Seq(Nat)
      BY <1>0 DEF TypesInv, FileRec
    <3>2. DOMAIN file'[c].got = 1 .. Len(file'[c].got)
      BY <3>1
    <3> QED
      BY <3>2 DEF Seen, Told
  <2>2. \A c \in Clients : open' /\ backend' /\ ~file'[c].cancelled =>
          \A n \in file'[c].listed + 1 .. now' : n \in Seen(c)'
    BY <1>1, <1>3
  <2> QED
    BY <2>1, <2>2 DEF ListedThenTold
<1> QED
  BY <1>2, <1>4 DEF PromptInv

(* The rest of what the daemon does *)
LEMMA DaemonPrompt ==
  ASSUME PromptInv, MonitorInv',
         (\E c \in Clients : UnrefMonitorTimeout(c)) \/ GotProxyCb \/ BackendDied
           \/ ConnectionClosed
  PROVE  PromptInv'
<1>0. TypesInv
  BY DEF PromptInv, MonitorInv
<1>1. now' = now
  BY DEF UnrefMonitorTimeout, GotProxyCb, BackendDied, ConnectionClosed
<1>2. ASSUME NEW c \in Clients, UnrefMonitorTimeout(c), NEW b \in Clients
      PROVE  Kept(b) /\ UNCHANGED <<open, backend, file>>
  <2>1. UNCHANGED <<subs, emits, backend, now, open, up, down, file>>
    BY <1>2 DEF UnrefMonitorTimeout
  <2>2. Seen(b)' = Seen(b)
    BY <1>0, <2>1, SeenKept
  <2> QED
    BY <2>1, <2>2 DEF Kept, Listening, ToSubscribe, In
<1>3. ASSUME GotProxyCb, open', NEW b \in Clients
      PROVE  Kept(b) /\ UNCHANGED <<open, backend, file>>
  <2>1. /\ UNCHANGED <<subs, backend, now, open, up, file>>
        /\ open /\ emits # <<>> /\ emits' = Tail(emits) /\ down' = Append(down, Head(emits))
    BY <1>3 DEF GotProxyCb
  <2>2. In(emits) = {Head(emits)} \cup In(emits') /\ Head(emits) \in Emission
    BY <1>0, <2>1, Take DEF TypesInv
  <2>3. Head(emits) \in DownMsg
    BY <2>2 DEF Emission, DownMsg
  <2>4. In(down') = In(down) \cup {Head(emits)}
    BY <1>0, <2>1, <2>3, Put DEF TypesInv
  <2>5. In(down') \cup In(emits') = In(down) \cup In(emits)
    BY <2>2, <2>4
  <2>6. UnderWay(b)' = UnderWay(b)
    BY <2>5 DEF UnderWay, In
  <2> QED
    BY <2>1, <2>6 DEF Kept, Seen, Told, Listening, ToSubscribe, In
<1>4. BackendDied => ~backend'
  BY DEF BackendDied
<1>5. ConnectionClosed => ~open'
  BY DEF ConnectionClosed
<1>6. ASSUME NEW b \in Clients, open', backend', ~file'[b].cancelled
      PROVE  open /\ backend /\ ~file[b].cancelled /\ Kept(b)
  BY <1>2, <1>3, <1>4, <1>5, <1>6
<1> QED
  BY <1>1, <1>6, PromisesKept

(* Every step keeps the promises to prompt clients. *)
LEMMA PromptInductive ==
  ASSUME PromptClients, PromptInv, [Next]_vars
  PROVE  PromptInv'
<1>1. MonitorInv'
  BY Inductive DEF PromptClients, PromptInv
<1>2. CASE \E c \in Clients : MonitorDir(c) \/ ListDir(c) \/ ListElsewhere(c) \/ Cancel(c)
  BY <1>1, <1>2, CallsPrompt
<1>3. CASE ClientReceives
  BY <1>1, <1>3, ClientReceivesPrompt
<1>4. CASE DaemonReceives
  BY <1>1, <1>4, DaemonReceivesPrompt
<1>5. CASE EmitEvent
  BY <1>1, <1>5, EmitEventPrompt
<1>6. CASE (\E c \in Clients : UnrefMonitorTimeout(c)) \/ GotProxyCb \/ BackendDied
             \/ ConnectionClosed
  BY <1>1, <1>6, DaemonPrompt
<1>7. CASE UNCHANGED vars
  <2>1. UNCHANGED <<subs, emits, backend, now, open, up, down, file>>
    BY <1>7 DEF vars
  <2>2. ASSUME NEW b \in Clients PROVE Kept(b)
    <3>1. Seen(b)' = Seen(b)
      BY <2>1, SeenKept DEF PromptInv, MonitorInv
    <3> QED
      BY <2>1, <3>1 DEF Kept, Listening, ToSubscribe, In
  <2> QED
    BY <1>1, <2>1, <2>2, PromisesKept
<1> QED
  BY <1>2, <1>3, <1>4, <1>5, <1>6, <1>7 DEF Next

(* The promises hold before the first step. *)
LEMMA PromptInit ==
  ASSUME PromptClients, Init
  PROVE  PromptInv
<1>1. MonitorInv /\ MaxEvents \in Nat
  BY InitInv DEF PromptClients, Assumptions, BoundsAssumption
<1>2. \A c \in Clients : file[c] = NoFile
  BY DEF Init
<1>3. SubscribedInv
  BY <1>2 DEF SubscribedInv, Listening, NoFile
<1>4. ListedThenTold
  <2>1. \A c \in Clients : file[c].listed = MaxEvents + 1 /\ now = 0
    BY <1>2 DEF NoFile, Init
  <2>2. MaxEvents + 1 + 1 .. 0 = {}
    BY <1>1
  <2> QED
    BY <2>1, <2>2 DEF ListedThenTold
<1> QED
  BY <1>1, <1>3, <1>4 DEF PromptInv

-----------------------------------------------------------------------------
(* Theorems                                                                *)

(* The messages under way, the events and what each client was told agree  *)
(* with each other in every state.                                         *)
THEOREM MonitorInvariant == Assumptions => (Spec => []MonitorInv)
<1> SUFFICES ASSUME Assumptions PROVE Spec => []MonitorInv
  OBVIOUS
<1>1. Init => MonitorInv
  BY InitInv
<1>2. MonitorInv /\ [Next]_vars => MonitorInv'
  BY Inductive
<1> QED
  BY <1>1, <1>2, PTL DEF Spec

(* Every variable has its type: daemon/gvfsmonitor.c's references are      *)
(* never dropped below none.                                               *)
THEOREM MonitorTypes == Assumptions => (Spec => []TypeOK)
<1> SUFFICES ASSUME Assumptions PROVE Spec => []TypeOK
  OBVIOUS
<1>1. MonitorInv /\ bad \in BOOLEAN => TypeOK
  <2> SUFFICES ASSUME MonitorInv, bad \in BOOLEAN PROVE TypeOK
    OBVIOUS
  <2>0. TypesInv /\ CountInv /\ FilesInv /\ MaxEvents \in Nat /\ MaxGens \in Nat
    BY DEF MonitorInv, Assumptions, BoundsAssumption
  <2>1. calls \subseteq Clients \X (1 .. MaxEvents)
    BY <2>0 DEF TypesInv
  <2>3. ASSUME NEW c \in Clients
        PROVE  /\ file[c].st \in {"none", "creating", "subscribing", "ready", "deaf"}
               /\ file[c].gen \in 0 .. MaxGens
               /\ file[c].listed \in 0 .. MaxEvents + 1
    <3>1. file[c] \in FileRec /\ FileTrue(c, file[c]) /\ gen \in 0 .. MaxGens
      BY <2>0, Typed DEF FilesInv, TypesInv
    <3>2. file[c].gen \in Nat /\ file[c].gen <= gen /\ file[c].listed \in 0 .. MaxEvents + 1
      BY <3>1 DEF FileTrue, FileRec
    <3> QED
      BY <2>0, <3>1, <3>2 DEF FileRec
  <2> QED
    BY <2>0, <2>1, <2>3 DEF TypesInv, TypeOK
<1>2. Init => bad \in BOOLEAN
  BY DEF Init
<1>3. bad \in BOOLEAN /\ [Next]_vars => (bad \in BOOLEAN)'
  BY DEF Next, vars, MonitorDir, ListDir, ListElsewhere, Cancel, ClientReceives, DaemonReceives,
         UnrefMonitorTimeout, EmitEvent, GotProxyCb, BackendDied, ConnectionClosed
<1> QED
  BY <1>1, <1>2, <1>3, MonitorInvariant, PTL DEF Spec

(* g_object_ref and g_object_unref of daemon/gvfsmonitor.c balance: each   *)
(* subscriber, timer and event under way holds one reference.              *)
THEOREM ReferencesCounted == Assumptions => (Spec => []RefsExact)
<1> SUFFICES ASSUME Assumptions PROVE Spec => []RefsExact
  OBVIOUS
<1>1. MonitorInv => RefsExact
  BY DEF MonitorInv, CountInv
<1> QED
  BY <1>1, MonitorInvariant, PTL

(* got_proxy_cb never finds its monitor finalized.                         *)
THEOREM NeverUsedFreed == Assumptions => (Spec => []NoUseAfterFree)
<1> SUFFICES ASSUME Assumptions PROVE Spec => []NoUseAfterFree
  OBVIOUS
<1>1. MonitorInv => NoUseAfterFree
  BY DEF MonitorInv, CountInv
<1> QED
  BY <1>1, MonitorInvariant, PTL

(* g_vfs_monitor_finalize gives back the activity g_vfs_monitor_new took,  *)
(* as long as the backend is there to count it.                            *)
THEOREM ActivityCounted == Assumptions => (Spec => []ActivityExact)
<1> SUFFICES ASSUME Assumptions PROVE Spec => []ActivityExact
  OBVIOUS
<1>1. MonitorInv => ActivityExact
  BY DEF MonitorInv, CountInv
<1> QED
  BY <1>1, MonitorInvariant, PTL

(* handle_changed tells every change once and in order, without a gap,     *)
(* however the proxies, the calls and the subscriptions interleave.        *)
THEOREM EventsOrdered == Assumptions => (Spec => []EventsInOrder)
<1> SUFFICES ASSUME Assumptions PROVE Spec => []EventsInOrder
  OBVIOUS
<1>1. MonitorInv => EventsInOrder
  BY DEF MonitorInv, FilesInv, FileTrue, EventsInOrder
<1> QED
  BY <1>1, MonitorInvariant, PTL

(* The promises to prompt clients hold in every state.                     *)
LEMMA PromptInvariant == PromptClients => (Spec => []PromptInv)
<1> SUFFICES ASSUME PromptClients PROVE Spec => []PromptInv
  OBVIOUS
<1>1. Init => PromptInv
  BY PromptInit
<1>2. PromptInv /\ [Next]_vars => PromptInv'
  BY PromptInductive
<1> QED
  BY <1>1, <1>2, PTL DEF Spec

(* "any i/o we do to the mount such as listing a directory will happen     *)
(* after the mount receives the subscribe message": no change after the    *)
(* listing is missed by a prompt client.                                   *)
THEOREM ListingsTold == PromptClients => (Spec => []ListedThenTold)
<1> SUFFICES ASSUME PromptClients PROVE Spec => []ListedThenTold
  OBVIOUS
<1>1. PromptInv => ListedThenTold
  BY DEF PromptInv
<1> QED
  BY <1>1, PromptInvariant, PTL

(* A client that subscribed in time and was given its proxy by             *)
(* subscribe_cb is a subscriber of the monitor until it cancels.           *)
THEOREM ProxiesSubscribed == PromptClients => (Spec => []ProxyMeansSubscribed)
<1> SUFFICES ASSUME PromptClients PROVE Spec => []ProxyMeansSubscribed
  OBVIOUS
<1>1. PromptInv => ProxyMeansSubscribed
  <2> SUFFICES ASSUME PromptInv, NEW c \in Clients, file[c].proxy, ~file[c].cancelled,
                      open, backend
               PROVE  c \in subs
    BY DEF ProxyMeansSubscribed
  <2>1. file[c].st = "ready"
    BY DEF PromptInv, MonitorInv, FilesInv, FileTrue
  <2>2. ~ToSubscribe(c)
    BY <2>1 DEF PromptInv, MonitorInv, MessagesInv, UpTrue, ToSubscribe
  <2> QED
    BY <2>1, <2>2 DEF PromptInv, SubscribedInv, Listening
<1> QED
  BY <1>1, PromptInvariant, PTL

(* The monitor of daemon/gvfsmonitor.c lives as long as a subscriber, a    *)
(* timer or an event needs it, is activity of its backend that long, and   *)
(* is not touched after.                                                   *)
THEOREM MonitorsCounted == Assumptions => (Spec => []CountInv)
<1> SUFFICES ASSUME Assumptions PROVE Spec => []CountInv
  OBVIOUS
<1>1. MonitorInv => CountInv
  BY DEF MonitorInv
<1> QED
  BY <1>1, MonitorInvariant, PTL

(* What changes after the listing reaches every prompt monitor of          *)
(* client/gdaemonfilemonitor.c, in order and once.                         *)
THEOREM ChangesReach == PromptClients => (Spec => []ChangesReachMonitors)
<1> SUFFICES ASSUME PromptClients PROVE Spec => []ChangesReachMonitors
  OBVIOUS
<1>1. ListedThenTold /\ EventsInOrder /\ ProxyMeansSubscribed => ChangesReachMonitors
  BY DEF ChangesReachMonitors
<1>2. Spec => []EventsInOrder
  BY EventsOrdered DEF PromptClients
<1> QED
  BY <1>1, <1>2, ListingsTold, ProxiesSubscribed, PTL

===============================================================================
