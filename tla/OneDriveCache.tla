--------------------------- MODULE OneDriveCache ---------------------------
(***************************************************************************)
(* The OneDrive backend (daemon/gvfsbackendonedrive.c): its operations,    *)
(* the cache of items and names they work on, and the directory monitors   *)
(* they tell.  An item is cached under its full id (drive and item id) in  *)
(* "items", and under <<full id, folder>> and <<name, folder>> in          *)
(* "dir_items"; a folder whose listing was fetched has a time stamp.       *)
(*                                                                         *)
(* Every operation holds the backend's mutex and is one step.  Listings    *)
(* and changes may fail.  A key of a path is a full id <<drive, id>> or a  *)
(* name <<"name", n>>; an item without a drive has the drive "".           *)
(***************************************************************************)
EXTENDS Naturals, Sequences, FiniteSets, TLC, SequencesExt

CONSTANTS Drive,    \* the drive id the server gives, "" when it gives none
          Names,    \* the names given by the user
          NewIds,   \* ids for new items
          Start,    \* the items in the cloud at first, a function from ids to records
          Path,     \* the paths used
          Ops,      \* the operations exercised
          MaxSteps, \* bound on the operations and the expiries
          Others,   \* bound on the changes made by other clients
          Faults    \* bound on the operations whose calls fail

Bounds == /\ MaxSteps \in Nat /\ Others \in Nat /\ Faults \in Nat
          /\ {"root", "home", "shared"} \cap (DOMAIN Start \cup NewIds) = {}

VARIABLES cloud,    \* id -> [parent, name, dir, ver]
          c,        \* the cache: [items, dir, stamps]
          handle,   \* the file open for writing: [item, path] or none
          monitors, \* the paths of the monitored folders
          told,     \* the events of the last operation
          last,     \* the last answer
          steps, others, faults

vars == <<cloud, c, handle, monitors, told, last, steps, others, faults>>

NameKey(n) == <<"name", n>>
\* get_full_item_id: the folders made by the backend have no drive
Full(id) == IF id \in {"root", "shared"} THEN <<"", id>> ELSE <<Drive, id>>
Plain(id) == <<"", id>>

Entry(parent, name, dir, ver) == [parent |-> parent, name |-> name, dir |-> dir, ver |-> ver]
\* A MsgDriveItem; age is "none" for items without a time stamp, which never expire.
Item(id, e, age) == [id |-> id, name |-> e.name, dir |-> e.dir, ver |-> e.ver, age |-> age]
Nil == Item("", Entry("", "", FALSE, 0), "none")
Root == Item("root", Entry("", "root", TRUE, 0), "none")
HomeItem == Item("home", Entry("root", "Files", TRUE, 0), "none")
SharedDir == Item("shared", Entry("root", "Shared", TRUE, 0), "none")
Fixed == {Root.id, HomeItem.id, SharedDir.id}
NoHandle == [item |-> Nil, path |-> <<>>]

Minus(f, K) == [x \in DOMAIN f \ K |-> f[x]]
Lookup(f, k) == IF k \in DOMAIN f THEN f[k] ELSE Nil
IsShared(o) == o.id \in DOMAIN cloud /\ cloud[o.id].parent = "shared"

\* insert_item and insert_custom_item: what had the id or the name before is forgotten
InsertItem(cc, pid, o) ==
  [cc EXCEPT !.items = (Full(o.id) :> o) @@ @,
             !.dir = (<<Full(o.id), Full(pid)>> :> o) @@ (<<NameKey(o.name), Full(pid)>> :> o) @@ @]

\* mount: the drive's root and the folder of the shared items are entered for good
Mounted == InsertItem(InsertItem([items |-> <<>>, dir |-> <<>>, stamps |-> {}], "root", HomeItem), "root", SharedDir)

\* remove_item: the parent's part of the keys is its id without the drive
RemoveItem(cc, pid, o) ==
  [cc EXCEPT !.items = Minus(@, {Full(o.id)}),
             !.stamps = @ \ ({Plain(pid)} \cup IF IsShared(o) THEN {Full("shared")} ELSE {}),
             !.dir = Minus(@, {<<Full(o.id), Plain(pid)>>, <<NameKey(o.name), Plain(pid)>>})]

\* remove_dir: every cached item that has a place in the folder
RemoveDir(cc, pid) ==
  LET here == {k \in DOMAIN cc.items : <<k, Full(pid)>> \in DOMAIN cc.dir}
  IN FoldSet(LAMBDA k, a : RemoveItem(a, pid, cc.items[k]), [cc EXCEPT !.stamps = @ \ {Full(pid)}], here)

InFolder(pid) == {i \in DOMAIN cloud : cloud[i].parent = pid}

\* rebuild_dir and rebuild_shared_with_me_dir: a failure of the shared items' listing is
\* not looked at, the folder is empty then
RebuildDir(cc, pid, net) ==
  LET there == IF net THEN InFolder(pid) ELSE {}
      age == IF pid = "shared" THEN "none" ELSE "fresh"
      bare == [RemoveDir(cc, pid) EXCEPT !.stamps = @ \cup {Full(pid)}]
  IN IF net \/ pid = "shared"
     THEN [c |-> FoldSet(LAMBDA i, a : InsertItem(a, pid, Item(i, cloud[i], age)), bare, there), err |-> ""]
     ELSE [c |-> cc, err |-> "Net"]

IsListed(cc, pid) == pid = "root" \/ Full(pid) \in cc.stamps

\* resolve_child, with is_item_valid: the items shared with me are looked up by id once
\* their listing was fetched
Found(cc, o) == [c |-> cc, o |-> o, err |-> IF o = Nil THEN "NotFound" ELSE ""]
Fetched(r, pid, key) ==
  IF r.err # "" THEN [c |-> r.c, o |-> Nil, err |-> r.err]
  ELSE Found(r.c, IF pid = "shared" THEN Lookup(r.c.items, key) ELSE Lookup(r.c.dir, <<key, Full(pid)>>))
ResolveChild(cc, pid, key, net) ==
  LET o == Lookup(cc.dir, <<key, Full(pid)>>)
  IN IF \/ o = Nil /\ ~IsListed(cc, pid)
        \/ o # Nil /\ o.age = "old"
     THEN Fetched(RebuildDir(cc, pid, net), pid, key) ELSE Found(cc, o)

\* resolve and resolve_dir, component by component; path collects the names (out_path)
Stepped(a, r) == [c |-> r.c, o |-> r.o, err |-> r.err, path |-> Append(a.path, r.o.name)]
Resolve(path, net) ==
  FoldLeft(LAMBDA a, key :
             IF a.err # "" THEN a
             ELSE IF ~a.o.dir THEN [a EXCEPT !.err = "NotDirectory"]
             ELSE Stepped(a, ResolveChild(a.c, a.o.id, key, net)),
           [c |-> c, o |-> Root, err |-> "", path |-> <<>>], path)
IsDirElse(r) == IF r.err = "" /\ ~r.o.dir THEN [r EXCEPT !.err = "NotDirectory"] ELSE r
ResolveDir(path, net) == IsDirElse(Resolve(Front(path), net))

\* the monitors that emit_event_internal tells of a change of the item at path
Emit(event, path) == {<<m, event, path>> : m \in {x \in monitors : x = path \/ x = Front(path)}}

Answer(op, err, pid, key, o) ==
  last' = [op |-> op, err |-> err, pid |-> pid, key |-> key, id |-> o.id, ver |-> o.ver]
Ends(op, err, pid, key, o, ok) ==
  /\ Answer(op, err, pid, key, o)
  /\ steps < MaxSteps /\ steps' = steps + 1
  /\ faults' = faults + IF ok THEN 0 ELSE 1
  /\ faults' <= Faults
Keeps == UNCHANGED <<cloud, handle, monitors, others>>
Quiet == told' = {}

\* query_info and open_for_read; a directory cannot be read
QueryInfo(path, net) ==
  \E r \in {Resolve(path, net)}, p \in {ResolveDir(path, net)} :
     /\ c' = r.c /\ Quiet /\ Keeps
     /\ Ends("query", r.err, p.o.id, Last(path), r.o, net)
OpenForRead(path, net, call) ==
  \E r \in {Resolve(path, net)} :
  LET err == IF r.err # "" THEN r.err ELSE IF r.o.dir THEN "IsDirectory" ELSE IF call THEN "" ELSE "Net"
  IN /\ c' = r.c /\ Quiet /\ Keeps
     /\ Ends("read", err, "", Last(path), r.o, net /\ call)

\* create_dir_monitor
CreateDirMonitor(path, net) ==
  \E r \in {Resolve(path, net)} :
  LET err == IF r.err # "" THEN r.err ELSE IF ~r.o.dir THEN "NotDirectory" ELSE ""
  IN /\ c' = r.c /\ Quiet
     /\ monitors' = IF err = "" THEN monitors \cup {r.path} ELSE monitors
     /\ UNCHANGED <<cloud, handle, others>>
     /\ Ends("monitor", err, "", Last(path), r.o, net)

\* enumerate: the items that the folder's keys lead to; among the shared, all that are shared
ListedIn(cc, pid) ==
  {cc.items[k].id : k \in {x \in DOMAIN cc.items : IF pid = "shared" THEN IsShared(cc.items[x])
                                                   ELSE <<x, Full(pid)>> \in DOMAIN cc.dir}}
Enumerate(path, net) ==
  \E r \in {Resolve(path, net)} :
  LET b == IF r.err # "" THEN [c |-> r.c, err |-> r.err]
           ELSE IF ~r.o.dir THEN [c |-> r.c, err |-> "NotDirectory"]
           ELSE IF IsListed(r.c, r.o.id) THEN [c |-> r.c, err |-> ""] ELSE RebuildDir(r.c, r.o.id, net)
  IN /\ c' = b.c /\ Quiet /\ Keeps
     /\ Ends("enumerate", b.err, "", <<"", "">>, r.o, net)

\* delete: a folder must have no key in its (fetched) listing; the item is forgotten
\* before the server is asked
Delete(path, net, call) ==
  \E r \in {Resolve(path, net)}, p \in {ResolveDir(path, net)} :
  LET asks == r.err = "" /\ r.o.dir /\ p.o.id # "shared"
      b == IF asks /\ ~IsListed(r.c, r.o.id) THEN RebuildDir(r.c, r.o.id, net) ELSE [c |-> r.c, err |-> ""]
      err == IF r.err # "" THEN r.err
             ELSE IF b.err # "" THEN b.err
             ELSE IF asks /\ \E k \in DOMAIN b.c.dir : k[2] = Full(r.o.id) THEN "NotEmpty"
             ELSE IF r.o.id \in Fixed THEN "NotSupported"
             ELSE IF call /\ r.o.id \in DOMAIN cloud THEN "" ELSE "Call"
  IN /\ c' = IF err \in {"", "Call"} THEN RemoveItem(b.c, p.o.id, r.o) ELSE b.c
     /\ cloud' = IF err = "" THEN Minus(cloud, {r.o.id}) ELSE cloud
     /\ told' = IF err = "" THEN Emit("deleted", r.path) ELSE {}
     /\ UNCHANGED <<handle, monitors, others>>
     /\ Ends("delete", err, p.o.id, Last(path), r.o, net /\ call)

Taken(pid, n) == \E i \in InFolder(pid) : cloud[i].name = n
FreeIds == NewIds \ DOMAIN cloud
\* the server adds an item; it refuses a name that is taken
Added(pid, n, dir, id) == (id :> Entry(pid, n, dir, 0)) @@ cloud

\* make_directory
MakeDirectory(path, n, net, call) ==
  \E p \in {ResolveDir(path, net)} : \E r \in {ResolveChild(p.c, p.o.id, NameKey(n), net)} :
  LET err == IF p.err # "" THEN p.err ELSE IF p.o.id = "shared" THEN "NotSupported"
             ELSE IF r.o # Nil THEN "Exists" ELSE IF call /\ p.o.id # "root" /\ ~Taken(p.o.id, n) THEN "" ELSE "Call"
  IN \E id \in FreeIds :
       /\ cloud' = IF err = "" THEN Added(p.o.id, n, TRUE, id) ELSE cloud
       /\ c' = IF err = "" THEN InsertItem(r.c, p.o.id, Item(id, cloud'[id], "fresh"))
               ELSE IF err \in {"Exists", "Call"} THEN r.c ELSE p.c
       /\ told' = IF err = "" THEN Emit("created", Append(p.path, n)) ELSE {}
       /\ UNCHANGED <<handle, monitors, others>>
       /\ Ends("mkdir", err, p.o.id, NameKey(n), Nil, net /\ call)

\* create and replace: an existing file is created anew never, replaced by an update of
\* itself; a new one is there before its upload begins, which may fail (start)
WriteRefused_NeverExists(p, o, over) ==
  IF p.err # "" THEN p.err
  ELSE IF p.o.id \in {"root", "shared"} THEN "NotSupported"
  ELSE IF o # Nil /\ o.dir THEN "IsDirectory" ELSE ""
\* what create (over = FALSE) and replace refuse
WriteRefused(p, o, over) ==
  IF p.err # "" THEN p.err
  ELSE IF p.o.id \in {"root", "shared"} THEN "NotSupported"
  ELSE IF o # Nil /\ ~over THEN "Exists"
  ELSE IF o # Nil /\ o.dir THEN "IsDirectory" ELSE ""
OpenForWrite(path, n, over, net, call, start) ==
  \E p \in {ResolveDir(path, net)} : \E r \in {ResolveChild(p.c, p.o.id, NameKey(n), net)} :
  LET err == IF WriteRefused(p, r.o, over) # "" THEN WriteRefused(p, r.o, over)
             ELSE IF r.o = Nil /\ (~call \/ Taken(p.o.id, n)) THEN "Call"
             ELSE IF start THEN "" ELSE "Upload"
      looked == IF p.err # "" \/ err = "NotSupported" THEN p.c ELSE r.c
      made == r.o = Nil /\ err \in {"", "Upload"}
  IN /\ handle = NoHandle
     /\ \E id \in FreeIds :
          LET o == IF made THEN Item(id, cloud'[id], "fresh") ELSE r.o
              at == Append(p.path, o.name)
          IN /\ cloud' = IF made THEN Added(p.o.id, n, FALSE, id) ELSE cloud
             /\ c' = IF made THEN InsertItem(looked, p.o.id, o) ELSE looked
             /\ told' = IF made THEN Emit("created", at) ELSE {}
             /\ handle' = IF err = "" THEN [item |-> o, path |-> at] ELSE handle
             /\ UNCHANGED <<monitors, others>>
             /\ Ends(IF over THEN "replace" ELSE "create", err, p.o.id, NameKey(n), Nil, net /\ call /\ start)

\* write: the bytes go into the stream of the handle, the monitors are told
Write ==
  /\ handle # NoHandle
  /\ told' = Emit("changed", handle.path)
  /\ UNCHANGED <<cloud, c, handle, monitors, others>>
  /\ Ends("write", "", "", <<"", "">>, handle.item, TRUE)

\* close_write: the upload is finished, then the folder of the path is looked up by name
CloseWrite(net, call) ==
  /\ handle # NoHandle
  /\ \E p \in {ResolveDir([i \in DOMAIN handle.path |-> NameKey(handle.path[i])], net)} :
     LET o == handle.item
         ok == call /\ o.id \in DOMAIN cloud
         err == IF ~ok THEN "Call" ELSE p.err
     IN
     /\ cloud' = IF ok THEN [cloud EXCEPT ![o.id].ver = @ + 1] ELSE cloud
     /\ c' = IF ~ok THEN c ELSE IF p.err # "" THEN p.c
             ELSE InsertItem(RemoveItem(p.c, p.o.id, o), p.o.id, Item(o.id, cloud'[o.id], "fresh"))
     /\ told' = IF err = "" THEN Emit("done", handle.path) ELSE {}
     /\ handle' = NoHandle /\ UNCHANGED <<monitors, others>>
     /\ Ends("close", err, "", <<"", "">>, o, net /\ call)

\* set_display_name: forgotten, renamed, and inserted as the server returns it
SetDisplayName(path, n, net, call) ==
  \E r \in {Resolve(path, net)}, p \in {ResolveDir(path, net)} :
  LET err == IF r.err # "" THEN r.err ELSE IF r.o.id \in Fixed THEN "NotSupported"
             ELSE IF call /\ r.o.id \in DOMAIN cloud /\ ~Taken(cloud[r.o.id].parent, n) THEN "" ELSE "Call"
      gone == RemoveItem(r.c, p.o.id, r.o)
  IN /\ cloud' = IF err = "" THEN [cloud EXCEPT ![r.o.id].name = n] ELSE cloud
     /\ c' = IF err = "" THEN InsertItem(gone, p.o.id, Item(r.o.id, cloud'[r.o.id], "fresh"))
             ELSE IF err = "Call" THEN gone ELSE r.c
     /\ told' = IF err = "" THEN Emit("renamed", r.path) ELSE {}
     /\ UNCHANGED <<handle, monitors, others>>
     /\ Ends("rename", err, p.o.id, Last(path), r.o, net /\ call)

\* REBUILD_ENTRIES_TIMEOUT passes: what is stamped has to be fetched again
Aged(o) == [o EXCEPT !.age = IF @ = "fresh" THEN "old" ELSE @]
Expire ==
  /\ steps < MaxSteps /\ steps' = steps + 1
  /\ c' = [items |-> [k \in DOMAIN c.items |-> Aged(c.items[k])],
           dir |-> [k \in DOMAIN c.dir |-> Aged(c.dir[k])], stamps |-> {}]
  /\ last' = [last EXCEPT !.op = "expire"] /\ Quiet
  /\ UNCHANGED <<cloud, handle, monitors, others, faults>>

\* another client changes a file
OtherClient ==
  /\ others < Others /\ others' = others + 1
  /\ \E i \in DOMAIN cloud :
       cloud' \in {Minus(cloud, {i}), [cloud EXCEPT ![i].ver = @ + 1]}
                  \cup {[cloud EXCEPT ![i].name = n] : n \in {x \in Names : ~Taken(cloud[i].parent, x)}}
  /\ last' = [last EXCEPT !.op = "other"] /\ Quiet
  /\ UNCHANGED <<c, handle, monitors, steps, faults>>

Init ==
  /\ cloud = Start /\ c = Mounted /\ handle = NoHandle /\ monitors = {} /\ told = {}
  /\ last = [op |-> "", err |-> "", pid |-> "", key |-> <<"", "">>, id |-> "", ver |-> 0]
  /\ steps = 0 /\ others = 0 /\ faults = 0

Next ==
  \/ Expire
  \/ OtherClient
  \/ \E path \in Path, net \in BOOLEAN : "query" \in Ops /\ QueryInfo(path, net)
  \/ \E path \in Path, net, call \in BOOLEAN : "read" \in Ops /\ OpenForRead(path, net, call)
  \/ \E path \in Path, net \in BOOLEAN : "monitor" \in Ops /\ CreateDirMonitor(path, net)
  \/ \E path \in Path, net \in BOOLEAN : "enumerate" \in Ops /\ Enumerate(path, net)
  \/ \E path \in Path, net, call \in BOOLEAN : "delete" \in Ops /\ Delete(path, net, call)
  \/ \E path \in Path, n \in Names, net, call \in BOOLEAN : "mkdir" \in Ops /\ MakeDirectory(path, n, net, call)
  \/ \E path \in Path, n \in Names, over, net, call, start \in BOOLEAN : "write" \in Ops /\ OpenForWrite(path, n, over, net, call, start)
  \/ "write" \in Ops /\ Write
  \/ \E net, call \in BOOLEAN : "write" \in Ops /\ CloseWrite(net, call)
  \/ \E path \in Path, n \in Names, net, call \in BOOLEAN : "rename" \in Ops /\ SetDisplayName(path, n, net, call)

Spec == Init /\ [][Next]_vars

(***************************************************************************)
(* Properties                                                              *)
(***************************************************************************)
\* The counters keep their bounds and every cached item has an id the cloud once gave.
TypeOK ==
  /\ DOMAIN cloud \subseteq DOMAIN Start \cup NewIds
  /\ \A k \in DOMAIN c.items : c.items[k].id \in DOMAIN Start \cup NewIds \cup Fixed
  /\ c.stamps \subseteq {Full(i) : i \in DOMAIN Start \cup NewIds \cup Fixed}
  /\ steps \in 0 .. MaxSteps /\ others \in 0 .. Others /\ faults \in 0 .. Faults

Alone == others = 0
\* does the item have this place in the cloud?
Matches(id, pid, key) ==
  \/ id \in Fixed
  \/ id \in DOMAIN cloud /\ cloud[id].parent = pid /\ key \in {Full(id), NameKey(cloud[id].name)}

\* What a query finds is there: remove_item must take an item's names away when it is
\* deleted or renamed (no other clients).
FoundIsThere == Alone /\ last.op = "query" /\ last.err = "" => Matches(last.id, last.pid, last.key)

\* A query says "No such file or directory" only of what is not there, whatever failed
\* before: a failed delete or rename takes the item from the cache but not from the cloud.
NotFoundTrue ==
  Alone /\ last.op = "query" /\ last.err = "NotFound" =>
    \A i \in DOMAIN cloud : ~(cloud[i].parent = last.pid /\ last.key \in {Full(i), NameKey(cloud[i].name)})

\* An enumeration lists exactly the items of the folder (no other clients).
ListingExact ==
  Alone /\ last.op = "enumerate" /\ last.err = "" /\ last.id \in DOMAIN cloud \cup {"home", "shared"} =>
    ListedIn(c, last.id) = InFolder(last.id)

\* What a query reports of a file is its present version: a closed upload is in the cache.
InfoFresh == Alone /\ last.op = "query" /\ last.err = "" /\ last.id \in DOMAIN cloud => last.ver = cloud[last.id].ver

\* A folder of the drive is deleted only when it is empty.
EmptyOnly ==
  \A i \in DOMAIN cloud \ DOMAIN cloud' : others' = others => InFolder(i) = {}

\* Creating a file never opens one that was there: the handle is of a new item.
CreatedIsNew ==
  last'.op = "create" /\ handle' # handle => handle'.item.id \notin DOMAIN cloud

\* A monitored folder is told of every change that this backend makes in it.
ChangesTold ==
  others' = others /\ DOMAIN cloud' # DOMAIN cloud =>
       \A m \in monitors : (\A i \in (DOMAIN cloud \ DOMAIN cloud') \cup (DOMAIN cloud' \ DOMAIN cloud) :
          LET e == IF i \in DOMAIN cloud THEN cloud[i] ELSE cloud'[i]
          IN e.parent = "home" /\ m = <<"Files">> =>
               \E t \in told' : t[1] = m /\ t[3] = <<"Files", e.name>>)
=============================================================================
