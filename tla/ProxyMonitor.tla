---------------------------- MODULE ProxyMonitor ----------------------------
(***************************************************************************)
(* The remote volume monitor: a daemon that owns a volume monitor tells    *)
(* its drives, volumes and mounts over the bus                             *)
(* (monitor/proxy/gvfsproxyvolumemonitordaemon.c), and in every client a   *)
(* proxy keeps tables of them (gproxyvolumemonitor.c) and emits signals    *)
(* from idle callbacks.  A volume with an activation root has a shadow     *)
(* mount while some other monitor has a mount at that root                 *)
(* (gproxyvolume.c, gproxyshadowmount.c).                                  *)
(*                                                                         *)
(* One drive, one volume and one mount per life of the daemon; an id is    *)
(* the object's address there, <<kind, life>>.  The bus delivers in order. *)
(***************************************************************************)
EXTENDS Naturals, Sequences, FiniteSets, TLC, SequencesExt

CONSTANTS Roots,      \* the activation roots a volume may have, "" is none
          MaxChanges, \* bound on the changes of the daemon's objects
          MaxForeign, \* bound on mounts and unmounts seen by other monitors
          MaxLives,   \* bound on the lives of the daemon
          Replaces    \* may a new daemon take the name from a running one?

Bounds == MaxChanges \in Nat /\ MaxForeign \in Nat /\ MaxLives \in Nat \ {0} /\ Replaces \in BOOLEAN

Kinds == {"drive", "volume", "mount"}

VARIABLES life,    \* the daemon that owns the name, 0 when there is none
          lives,   \* daemons started so far
          remote,  \* the daemon's objects: kind -> "" or the record told of it
          bus,     \* signals on their way to the client
          tbl,     \* the client's tables: kind -> function from ids to object numbers
          objs,    \* the client's objects, by number
          idle,    \* the client's idle callbacks
          told,    \* the objects the application was told of and not told to be gone
          foreign, \* the roots at which other monitors have a mount
          shadowed,\* root -> how many shadow mounts hide the real mount there
          changes, foreigns

vars == <<life, lives, remote, bus, tbl, objs, idle, told, foreign, shadowed, changes, foreigns>>

NoThing == [on |-> FALSE, uri |-> "", ref |-> <<"", 0>>]
NoRef == <<"", 0>>
IdOf(k) == <<k, life>>
\* drive_to_dbus: a drive names its volume
DriveToDBus == [on |-> TRUE, uri |-> "", ref |-> IF remote["volume"].on THEN IdOf("volume") ELSE NoRef]
\* volume_to_dbus: the activation root, and the mount the volume has at this moment
VolumeToDBus(uri, mounted) == [on |-> TRUE, uri |-> uri, ref |-> IF mounted THEN IdOf("mount") ELSE NoRef]
\* mount_to_dbus: a mount names its volume
MountToDBus == [on |-> TRUE, uri |-> "", ref |-> IF remote["volume"].on THEN IdOf("volume") ELSE NoRef]

Signal(event, k, rec) == [event |-> event, id |-> IdOf(k), rec |-> rec]
OwnerSignal(owner) == [event |-> "owner", id |-> <<"", owner>>, rec |-> NoThing]

(***************************************************************************)
(* The daemon                                                              *)
(***************************************************************************)
Client == <<tbl, objs, idle, told, foreign, shadowed, foreigns>>
Changes(new, sigs) ==
  /\ life # 0 /\ changes < MaxChanges /\ changes' = changes + 1
  /\ remote' = new /\ bus' = bus \o sigs
  /\ UNCHANGED <<life, lives, Client>>
\* a drive appears or goes
RemoteDrive ==
  IF remote["drive"].on
  THEN Changes([remote EXCEPT !["drive"] = NoThing], <<Signal("removed", "drive", remote["drive"])>>)
  ELSE Changes([remote EXCEPT !["drive"] = DriveToDBus], <<Signal("added", "drive", DriveToDBus)>>)
\* a volume appears with some activation root, changes it, or goes
RemoteVolume ==
  \E uri \in Roots \cup {""} :
    LET rec == VolumeToDBus(uri, remote["mount"].on)
    IN \/ /\ ~remote["volume"].on
          /\ Changes([remote EXCEPT !["volume"] = rec], <<Signal("added", "volume", rec)>>)
       \/ /\ remote["volume"].on /\ uri # remote["volume"].uri
          /\ Changes([remote EXCEPT !["volume"] = rec], <<Signal("changed", "volume", rec)>>)
       \/ /\ remote["volume"].on /\ uri = ""
          /\ Changes([remote EXCEPT !["volume"] = NoThing], <<Signal("removed", "volume", remote["volume"])>>)
\* the volume is mounted or unmounted, and changes with that
RemoteMount ==
  LET on == remote["mount"].on
      m == IF on THEN NoThing ELSE MountToDBus
      v == VolumeToDBus(remote["volume"].uri, ~on)
      now == IF on THEN <<Signal("notice", "mount", remote["mount"]), Signal("removed", "mount", remote["mount"])>>
             ELSE <<Signal("added", "mount", m)>>
  IN IF remote["volume"].on
     THEN Changes([remote EXCEPT !["mount"] = m, !["volume"] = v], now \o <<Signal("changed", "volume", v)>>)
     ELSE Changes([remote EXCEPT !["mount"] = m], now)

Nothing == [k \in Kinds |-> NoThing]
\* the daemon goes: it lost its name or died
DaemonGoes ==
  /\ life # 0 /\ lives < MaxLives
  /\ life' = 0 /\ remote' = Nothing /\ bus' = Append(bus, OwnerSignal(0))
  /\ UNCHANGED <<lives, changes, Client>>
\* a daemon starts; while another one runs it replaces it (G_BUS_NAME_OWNER_FLAGS_REPLACE),
\* and the other one leaves its main loop (on_name_lost)
DaemonStarts ==
  /\ lives < MaxLives /\ (life = 0 \/ Replaces)
  /\ lives' = lives + 1 /\ life' = lives + 1
  /\ remote' = [Nothing EXCEPT !["drive"] = [on |-> TRUE, uri |-> "", ref |-> NoRef]]
  /\ bus' = Append(bus, OwnerSignal(lives + 1))
  /\ UNCHANGED <<changes, Client>>

(***************************************************************************)
(* The client: objects and idle callbacks                                  *)
(***************************************************************************)
Emit(event, n) == [what |-> event, n |-> n]
\* g_proxy_drive_new and _update, and the same of mounts: nothing more is kept here
NewPlain(k, id, rec) == [k |-> k, id |-> id, uri |-> rec.uri, ref |-> rec.ref, shadow |-> 0, root |-> "", conn |-> FALSE]
\* g_proxy_volume_new and _update: the shadow mount is looked at in idle
NewVolume(id, rec) == NewPlain("volume", id, rec)
UpdateIdle(k, n) == IF k = "volume" THEN <<Emit("shadow", n)>> ELSE <<>>
\* the client's state as one record, so that the handlers can be put one after the other
Cl == [tbl |-> tbl, objs |-> objs, idle |-> idle, shadowed |-> shadowed]
Becomes(c) == tbl' = c.tbl /\ objs' = c.objs /\ idle' = c.idle /\ shadowed' = c.shadowed

\* a new object in the table
Insert(c, k, id, rec, signals) ==
  LET n == Len(c.objs) + 1
      o == IF k = "volume" THEN NewVolume(id, rec) ELSE NewPlain(k, id, rec)
  IN [c EXCEPT !.objs = Append(@, o), !.tbl[k] = (id :> n) @@ @,
               !.idle = @ \o UpdateIdle(k, n) \o IF signals THEN <<Emit("added", n)>> ELSE <<>>]
\* added: an id that is known is left alone
OnAdded(c, k, id, rec) == IF id \in DOMAIN c.tbl[k] THEN c ELSE Insert(c, k, id, rec, TRUE)
\* changed: the record is replaced; a shadow mount changes with its volume
OnChanged(c, k, id, rec) ==
  IF id \notin DOMAIN c.tbl[k] THEN c
  ELSE LET n == c.tbl[k][id] s == c.objs[n].shadow
       IN [c EXCEPT !.objs[n].uri = rec.uri, !.objs[n].ref = rec.ref,
                    !.idle = @ \o UpdateIdle(k, n) \o <<Emit("changed", n)>>
                             \o IF s # 0 THEN <<Emit("changed", s)>> ELSE <<>>]

\* removed: the object leaves the table, is signalled and disposed in idle
OnRemoved(c, k, id) ==
  IF id \notin DOMAIN c.tbl[k] THEN c
  ELSE LET n == c.tbl[k][id]
       IN [c EXCEPT !.tbl[k] = [i \in DOMAIN @ \ {id} |-> @[i]],
                    !.idle = @ \o <<Emit("removed", n), Emit("dispose", n)>>]
\* the eject and stop buttons and pre-unmount only tell
OnNotice(c, k, id) == IF id \notin DOMAIN c.tbl[k] THEN c ELSE [c EXCEPT !.idle = Append(@, Emit("notice", c.tbl[k][id]))]

Handle(c, s) ==
  LET k == s.id[1]
  IN CASE s.event = "added" -> OnAdded(c, k, s.id, s.rec)
       [] s.event = "changed" -> OnChanged(c, k, s.id, s.rec)
       [] s.event = "removed" -> OnRemoved(c, k, s.id)
       [] s.event = "notice" -> OnNotice(c, k, s.id)
\* the handlers of the drives', the volumes' and the mounts' signals
Arrives(kind) ==
  /\ bus # <<>> /\ Head(bus).id[1] = kind
  /\ bus' = Tail(bus)
  /\ Becomes(Handle(Cl, Head(bus)))
  /\ UNCHANGED <<life, lives, remote, told, foreign, changes, foreigns>>
DriveSignal == Arrives("drive")
VolumeSignal == Arrives("volume")
MountSignal == Arrives("mount")

\* handle_list: the objects of the daemon's monitor
Listed == {k \in Kinds : remote[k].on}
\* seed_monitor: what List returns now.  An id that is in the table already gets
\* a new object.
Seeded(c, signals) ==
  FoldLeft(LAMBDA a, k : IF k \in Listed THEN Insert(a, k, IdOf(k), remote[k], signals) ELSE a,
           c, <<"drive", "volume", "mount">>)
InTable(c) == UNION {{c.tbl[k][i] : i \in DOMAIN c.tbl[k]} : k \in Kinds}
InOrder(S) == SetToSortSeq(S, <)

\* name_owner_appeared: the table is filled from the owner, which may be gone again (List
\* fails then), and everything in it is signalled
Appeared(c, owner) ==
  LET s == IF owner = life THEN Seeded(c, FALSE) ELSE c
  IN [s EXCEPT !.idle = @ \o [i \in DOMAIN InOrder(InTable(s)) |-> Emit("added", InOrder(InTable(s))[i])]]
Vanished_KeepsMounts(c) ==
  LET ids(k) == SetToSeq({<<k, i>> : i \in DOMAIN c.tbl[k]})
  IN FoldLeft(LAMBDA a, x : OnRemoved(a, x[1], x[2]), c, ids("volume") \o ids("drive"))
\* name_owner_vanished: everything goes, the mounts first
Vanished(c) ==
  LET ids(k) == SetToSeq({<<k, i>> : i \in DOMAIN c.tbl[k]})
  IN FoldLeft(LAMBDA a, x : OnRemoved(a, x[1], x[2]), c, ids("mount") \o ids("volume") \o ids("drive"))
\* name_owner_changed
OwnerChanged ==
  /\ bus # <<>> /\ Head(bus).event = "owner"
  /\ bus' = Tail(bus)
  /\ Becomes(IF Head(bus).id[2] = 0 THEN Vanished(Cl) ELSE Appeared(Cl, Head(bus).id[2]))
  /\ UNCHANGED <<life, lives, remote, told, foreign, changes, foreigns>>

(***************************************************************************)
(* Shadow mounts                                                           *)
(***************************************************************************)
\* g_proxy_shadow_mount_remove: the real mount is shown again
DropShadow(c, n) ==
  LET o == c.objs[n]
  IN IF o.shadow = 0 THEN c
     ELSE [c EXCEPT !.idle = Append(@, Emit("removed", o.shadow)), !.shadowed[o.root] = @ - 1,
                    !.objs[n].shadow = 0, !.objs[n].root = ""]
\* g_proxy_shadow_mount_new: the real mount is hidden
NewShadow(c, n) ==
  LET s == Len(c.objs) + 1 root == c.objs[n].uri
      o == [NewPlain("shadow", <<"shadow", s>>, NoThing) EXCEPT !.ref = c.objs[n].id]
  IN [c EXCEPT !.objs = Append([@ EXCEPT ![n].shadow = s, ![n].root = root], o),
               !.shadowed[root] = @ + 1, !.idle = Append(@, Emit("added", s))]

\* update_shadow_mount: without an activation root nothing is done; else the volume
\* listens to the union monitor from now on
UpdateShadow(c, n, mounted) ==
  LET o == c.objs[n]
      conn == [c EXCEPT !.objs[n].conn = TRUE]
  IN IF o.uri = "" THEN c
     ELSE IF o.uri \notin mounted THEN DropShadow(conn, n)
     ELSE IF o.shadow = 0 THEN NewShadow(conn, n)
     ELSE IF o.root # o.uri THEN NewShadow(DropShadow(conn, n), n) ELSE conn

\* union_monitor_mount_added, _removed: every connected volume looks again
UnionChanged(c, mounted) ==
  FoldLeft(LAMBDA a, n : IF c.objs[n].conn THEN UpdateShadow(a, n, mounted) ELSE a, c, [n \in DOMAIN c.objs |-> n])
ForeignMount ==
  /\ foreigns < MaxForeign /\ foreigns' = foreigns + 1
  /\ \E r \in Roots :
       LET now == IF r \in foreign THEN foreign \ {r} ELSE foreign \cup {r}
       IN foreign' = now /\ Becomes(UnionChanged(Cl, now))
  /\ UNCHANGED <<life, lives, remote, bus, told, changes>>

\* g_proxy_volume_dispose
Dispose(c, n) == [DropShadow(c, n) EXCEPT !.objs[n].conn = FALSE]

\* an idle callback: signal_emit_in_idle_do, dispose_in_idle_do, update_shadow_mount_in_idle_do
IdleStep ==
  /\ idle # <<>>
  /\ LET e == Head(idle)
         c == [Cl EXCEPT !.idle = Tail(@)]
     IN /\ Becomes(CASE e.what = "dispose" -> Dispose(c, e.n)
                     [] e.what = "shadow" -> UpdateShadow(c, e.n, foreign)
                     [] OTHER -> c)
        /\ told' = CASE e.what = "added" -> told \cup {e.n}
                     [] e.what = "removed" -> told \ {e.n}
                     [] OTHER -> told
  /\ UNCHANGED <<life, lives, remote, bus, foreign, changes, foreigns>>

\* g_proxy_volume_monitor_constructor: the application lists what is there by itself
Init ==
  /\ life = 1 /\ lives = 1
  /\ remote = [Nothing EXCEPT !["drive"] = [on |-> TRUE, uri |-> "", ref |-> NoRef]]
  /\ bus = <<>> /\ foreign = {} /\ changes = 0 /\ foreigns = 0
  /\ objs = <<NewPlain("drive", <<"drive", 1>>, remote["drive"])>> /\ idle = <<>>
  /\ tbl = [[k \in Kinds |-> <<>>] EXCEPT !["drive"] = (<<"drive", 1>> :> 1)]
  /\ shadowed = [r \in Roots |-> 0]
  /\ told = {1}

Next ==
  \/ RemoteDrive \/ RemoteVolume \/ RemoteMount
  \/ DaemonGoes \/ DaemonStarts
  \/ DriveSignal \/ VolumeSignal \/ MountSignal \/ OwnerChanged
  \/ ForeignMount \/ IdleStep

Spec == Init /\ [][Next]_vars

(***************************************************************************)
(* Properties                                                              *)
(***************************************************************************)
\* Tables lead to objects of their kind and the bounds are kept.
TypeOK ==
  /\ \A k \in Kinds : \A i \in DOMAIN tbl[k] : objs[tbl[k][i]].k = k /\ objs[tbl[k][i]].id = i
  /\ told \subseteq DOMAIN objs
  /\ \A i \in DOMAIN idle : idle[i].n \in DOMAIN objs
  /\ \A r \in Roots : shadowed[r] \in Nat
  /\ changes \in 0 .. MaxChanges /\ foreigns \in 0 .. MaxForeign /\ lives \in 1 .. MaxLives

\* get_mounts, get_volumes and get_connected_drives: the tables and the shadow mounts
Shown == InTable(Cl) \cup ({objs[tbl["volume"][i]].shadow : i \in DOMAIN tbl["volume"]} \ {0})

\* Signals tell the application exactly what the lists would show, once they are all out:
\* objects that come and go in any order with their daemon and with foreign mounts.
SignalsTellAll == idle = <<>> => told = Shown

\* No object is announced twice, and none changes or goes without having been announced.
AnnouncedOnce ==
  idle # <<>> => /\ Head(idle).what = "added" => Head(idle).n \notin told
                 /\ Head(idle).what \in {"removed", "changed", "notice"} => Head(idle).n \in told

\* A real mount is hidden by exactly the shadow mounts that stand for it.
ShadowsCounted == \A r \in Roots : shadowed[r] = Cardinality({n \in DOMAIN objs : objs[n].shadow # 0 /\ objs[n].root = r})

\* When everything is delivered a volume has a shadow mount just when its activation
\* root is mounted by somebody, and at that root (update_shadow_mount).
Quiet == bus = <<>> /\ idle = <<>>

\* The same for volumes whose activation root never goes away.
ShadowAtRoot ==
  Quiet => \A i \in DOMAIN tbl["volume"] : LET o == objs[tbl["volume"][i]]
           IN o.uri # "" => o.root = IF o.uri \in foreign THEN o.uri ELSE ""

\* When everything is delivered the tables are the daemon's objects, with what it last
\* said of them, whatever was lost between two owners of the name and a List.
ViewTrue ==
  Quiet => \A k \in Kinds :
     /\ DOMAIN tbl[k] = IF remote[k].on THEN {IdOf(k)} ELSE {}
     /\ \A i \in DOMAIN tbl[k] : k = "volume" => objs[tbl[k][i]].uri = remote[k].uri /\ objs[tbl[k][i]].ref = remote[k].ref

=============================================================================
