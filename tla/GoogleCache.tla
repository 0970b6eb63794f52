---------------------------- MODULE GoogleCache ----------------------------
(***************************************************************************)
(* The Google Drive backend (daemon/gvfsbackendgoogle.c): its operations   *)
(* and the cache they work on.  A file of the drive has an id, a title     *)
(* that need not be unique, and any number of parent folders; the backend  *)
(* maps <<name, folder>> to entries where the name is the id, the title or *)
(* the id of the file it was copied from (the "volatile" name), and must   *)
(* settle who gets a name that two files claim.                            *)
(*                                                                         *)
(* Ids, titles and basenames are numbers: a title may equal an id, and the *)
(* order of ids (g_strcmp0) is the order of the numbers.  Every operation  *)
(* runs under the backend's mutex and is one step.  Other clients change   *)
(* the drive between the steps; listings and changes may fail.             *)
(* Not modelled: the "Shared with me" and "Shared drives" folders.         *)
(***************************************************************************)
EXTENDS Naturals, Sequences, FiniteSets, TLC, SequencesExt

CONSTANTS Names,    \* the titles given, a set of numbers above Home
          Path,     \* the paths used, below My Drive
          MaxId,    \* ids are Home .. MaxId
          Start,    \* the files on the drive at first: a function from ids to files
          Ops,      \* the operations exercised
          MaxSteps, \* bound on the operations and on the changes of others
          Others,   \* bound on the changes made by other clients
          Faults,   \* bound on the operations whose calls to the server fail
          OnePage   \* does a folder fit into one page of a listing?

Sizes == /\ MaxId \in Nat /\ MaxSteps \in Nat /\ Others \in Nat /\ Faults \in Nat /\ OnePage \in BOOLEAN
         /\ Names \subseteq Nat \ {0, 1}

Home == 1

VARIABLES srv,    \* the files of the drive
          c,      \* the cache: entries, dir_entries, dir_timestamps, dir_collisions
          handle, \* the file open for writing: [doc, stream], doc.id = 0 when none is
          last,   \* what the last operation answered
          steps, others, faults

vars == <<srv, c, handle, last, steps, others, faults>>

\* A file of the drive: src and par are the GVfsSourceID and GVfsParentID properties (0: none).
File(title, parents, isdir, mine, src, par) ==
  [title |-> title, parents |-> parents, isdir |-> isdir, mine |-> mine, src |-> src, par |-> par]

\* A GDataEntry: what the server said of the file, a serial that tells objects of the
\* same file apart, and whether its timestamp is younger than REBUILD_ENTRIES_TIMEOUT.
Object(id, f, n, fresh) ==
  [id |-> id, title |-> f.title, parents |-> f.parents, isdir |-> f.isdir, mine |-> f.mine,
   src |-> f.src, par |-> f.par, n |-> n, fresh |-> fresh]
NoFile == File(0, {}, FALSE, FALSE, 0, 0)
Nil == Object(0, NoFile, 0, TRUE)
HomeObject == Object(Home, File(Home, {}, TRUE, TRUE, 0, 0), 0, TRUE)

Fn(x) == DOMAIN x
Without(f, k) == [x \in DOMAIN f \ {k} |-> f[x]]
HolderOf(cc, k) == IF k \in Fn(cc.dir) THEN cc.dir[k] ELSE Nil
Ascending(S) == SetToSortSeq(S, <)
Collides(cc, e) == \E i \in DOMAIN cc.coll : cc.coll[i] = e
AddCollision(cc, e) == IF Collides(cc, e) THEN cc ELSE [cc EXCEPT !.coll = <<e>> \o @]
DropCollision(cc, e) == [cc EXCEPT !.coll = RemoveFirst(@, e)]
Put(cc, k, e) == [cc EXCEPT !.dir = (k :> e) @@ @]
\* remove the key unless another file holds it (get_volatile_entry_id)
DropOwn(cc, k, e) ==
  IF HolderOf(cc, k).id = e.id THEN [cc EXCEPT !.dir = Without(@, k)] ELSE cc

Objects(cc, h) == {cc.entries[i] : i \in Fn(cc.entries)} \cup {cc.dir[k] : k \in Fn(cc.dir)}
                  \cup ToSet(cc.coll) \cup {h.doc}
\* a new object for what the server answers about a file
NewObject(cc, id, f) ==
  LET used == {o.n : o \in {x \in Objects(cc, handle) : x.id = id}}
  IN Object(id, f, CHOOSE n \in 0 .. Cardinality(used) : n \notin used, TRUE)

(***************************************************************************)
(* The cache                                                               *)
(***************************************************************************)
\* the id under the parent: the real id always gets its name
InsertReal(cc, e, p) ==
  LET k == <<e.id, p>>
      old == HolderOf(cc, k)
  IN Put(IF old.id \notin {0, e.id} THEN AddCollision(cc, old) ELSE cc, k, e)

\* does e lose its title under p: to a file of that id, or to one with a smaller id
LosesTitle(cc, e, p) ==
  LET old == HolderOf(cc, <<e.title, p>>)
  IN old.id # 0 /\ (old.id = e.title \/ old.id < e.id)

InsertTitle(cc, e, p, wins, track) ==
  LET k == <<e.title, p>>
      old == HolderOf(cc, k)
  IN IF wins THEN Put(IF old.id # 0 /\ track THEN AddCollision(cc, old) ELSE cc, k, e)
     ELSE IF track THEN AddCollision(cc, e) ELSE cc

\* The volatile name.  The list is searched for the entry, and the old holder is added.
InsertVolatile(cc, e, p, track) ==
  LET k == <<e.src, p>>
      old == HolderOf(cc, k)
  IN IF old.id = 0 THEN Put(cc, k, e)
     ELSE IF ~track THEN cc
     ELSE IF old.id = e.src THEN AddCollision(cc, e)
     ELSE Put(IF Collides(cc, e) THEN cc ELSE [cc EXCEPT !.coll = <<old>> \o @], k, e)

\* insert_title is decided once for all: a title lost under one parent is not put under the next.
Inserted(acc, named, wins, e, p, track) ==
  LET vol  == e.src # 0 /\ e.par = p
      held == acc.held \/ (vol /\ HolderOf(named, <<e.src, p>>).id # 0)
  IN [c    |-> IF vol THEN InsertVolatile(named, e, p, track) ELSE named,
      wins |-> wins, held |-> held, all |-> acc.all /\ wins /\ ~(e.src # 0 /\ held)]
InsertNames(acc, real, wins, e, p, track) ==
  Inserted(acc, InsertTitle(real, e, p, wins, track), wins, e, p, track)
InsertParent(acc, e, p, track) ==
  LET real == InsertReal(acc.c, e, p)
  IN InsertNames(acc, real, acc.wins /\ ~LosesTitle(real, e, p), e, p, track)

InsertEntryFull(cc, e, track) ==
  FoldLeft(LAMBDA acc, p : InsertParent(acc, e, p, track),
           [c |-> [cc EXCEPT !.entries = (e.id :> e) @@ @], wins |-> TRUE, held |-> FALSE, all |-> TRUE],
           Ascending(e.parents))

InsertEntry(cc, e) == InsertEntryFull(cc, e, TRUE).c

\* Walk the collisions and put back one that gets all its names.  The walk frees the
\* link it stands on, whose next pointer was just cleared: it does not get further.
Retried(r, e) == [done |-> r.all, c |-> IF r.all THEN DropCollision(r.c, e) ELSE r.c]
RestoreCollisions(cc) ==
  FoldLeft(LAMBDA acc, e : IF acc.done THEN acc ELSE Retried(InsertEntryFull(acc.c, e, FALSE), e),
           [done |-> FALSE, c |-> cc], cc.coll).c

\* the names of the entry in the folder, without those other files hold
DropNames(cc, e, p) ==
  LET untitled == DropOwn([cc EXCEPT !.dir = Without(@, <<e.id, p>>)], <<e.title, p>>, e)
  IN DropCollision(IF e.src # 0 /\ e.par = p THEN DropOwn(untitled, <<e.src, p>>, e) ELSE untitled, e)

Freed(cc, restore) == IF restore THEN RestoreCollisions(cc) ELSE cc

RemoveParent_KeepsStamp(cc, e, p, restore) == Freed(DropNames(cc, e, p), restore)

\* The folder's listing is no longer complete, and others may take the names over.
RemoveParent(cc, e, p, restore) == Freed(DropNames([cc EXCEPT !.stamps = @ \ {p}], e, p), restore)

RemoveEntryFull(cc, e, restore) ==
  FoldLeft(LAMBDA acc, p : RemoveParent(acc, e, p, restore),
           [cc EXCEPT !.entries = Without(@, e.id)], Ascending(e.parents))

RemoveEntry(cc, e) == RemoveEntryFull(cc, e, TRUE)

\* forget what is cached of a folder: each entry with its id under the folder goes, everywhere
RemoveDir(cc, p) ==
  LET listed == {i \in Fn(cc.entries) : HolderOf(cc, <<i, p>>).id = i}
      gone == FoldLeft(LAMBDA acc, i : RemoveEntryFull(acc, cc.entries[i], FALSE),
                       [cc EXCEPT !.stamps = @ \ {p}], Ascending(listed))
  IN RestoreCollisions(gone)

\* Fetch the folder again; `net' says how the server's pages arrive: all, none, or the
\* first only, which leaves the folder marked as known.
RebuildDir(cc, p, net) ==
  LET ids == Ascending({i \in Fn(srv) : p \in srv[i].parents})
      got == IF net = "all" THEN ids ELSE SubSeq(ids, 1, IF Len(ids) = 0 THEN 0 ELSE 1)
      new == [RemoveDir(cc, p) EXCEPT !.stamps = @ \cup {p}]
  IN IF net = "none" THEN cc
     ELSE FoldLeft(LAMBDA acc, i : InsertEntry(acc, NewObject(acc, i, srv[i])), new, got)

Answer(cc, e, err) == [c |-> cc, e |-> e, err |-> err]

\* is_entry_valid and is_dir_listing_valid: must the folder be fetched to answer?
Asks(cc, p, name) ==
  LET hit == HolderOf(cc, <<name, p>>) IN IF hit.id = 0 THEN p \notin cc.stamps ELSE ~hit.fresh

Found(cc, e) == Answer(cc, e, IF e.id = 0 THEN "NotFound" ELSE "")
FoundIn(cc, p, name) == Found(cc, HolderOf(cc, <<name, p>>))
Fetched(new, p, name, net) == IF net = "all" THEN FoundIn(new, p, name) ELSE Answer(new, Nil, "Server")

ResolveChild(cc, p, name, net) ==
  IF Asks(cc, p, name) THEN Fetched(RebuildDir(cc, p, net), p, name, net) ELSE FoundIn(cc, p, name)

ResolveIn(r, name, net) ==
  IF r.err # "" THEN r
  ELSE IF ~r.e.isdir THEN Answer(r.c, Nil, "NotDirectory")
  ELSE ResolveChild(r.c, r.e.id, name, net)

Resolve(cc, path, net) ==
  FoldLeft(LAMBDA r, name : ResolveIn(r, name, net), Answer(cc, HomeObject, ""), path)

IsDirElse(r) == IF r.err = "" /\ ~r.e.isdir THEN Answer(r.c, Nil, "NotDirectory") ELSE r
ResolveDir(cc, path, net) == IsDirElse(Resolve(cc, Front(path), net))

CountWithTitle(cc, title, p) ==
  Cardinality({i \in Fn(cc.entries) \cup {k[1] : k \in Fn(cc.dir)} :
                 LET h == HolderOf(cc, <<i, p>>) IN h.id = i /\ h.title = title})

(***************************************************************************)
(* The operations.  `net' is how the listings they need arrive, `call' how *)
(* far the changes they ask the server for get: both, none or the first.   *)
(***************************************************************************)
Told(op, err, id, p, name, over) ==
  [op |-> op, err |-> err, id |-> id, p |-> p, name |-> name, over |-> over]

Ends(op, cc, files, told) ==
  /\ op \in Ops /\ last.err # "Crash" /\ steps < MaxSteps /\ steps' = steps + 1
  /\ srv' = files /\ c' = cc /\ last' = told
  /\ UNCHANGED others

Fails(op, cc, err) == Ends(op, cc, srv, Told(op, err, 0, 0, 0, FALSE)) /\ UNCHANGED handle

\* every way the server may behave while faults are left
Trouble(net, call) ==
  /\ faults' = faults + (IF net = "all" /\ call = "done" THEN 0 ELSE 1)
  /\ faults' <= Faults

NewId == CHOOSE i \in Home + 1 .. MaxId + 1 : i \notin Fn(srv) /\ \A j \in Fn(srv) : j < i
CanAdd == NewId <= MaxId
Add(f) == (NewId :> f) @@ srv

\* what is left of the drive when the entry is taken out of the folder, or is deleted
Unlinked(files, e, p) ==
  IF e.id \notin Fn(files) THEN files
  ELSE IF Cardinality(e.parents) > 1 \/ ~e.mine
       THEN [files EXCEPT ![e.id].parents = @ \ {p}]
       ELSE Without(files, e.id)

QueryInfo(path, net) ==
  \E r \in {Resolve(c, path, net)}, d \in {ResolveDir(c, path, net)} :
     /\ Ends("query", r.c, srv,
             Told("query", r.err, r.e.id, d.e.id, Last(path), d.err = "" /\ Asks(d.c, d.e.id, Last(path))))
     /\ Trouble(net, "done") /\ UNCHANGED handle

Enumerate(path, net) ==
  \E r \in {Resolve(c, path, net)} :
  LET l == IF r.e.id \in r.c.stamps THEN r.c ELSE RebuildDir(r.c, r.e.id, net)
      err == IF r.err # "" THEN r.err ELSE IF ~r.e.isdir THEN "NotDirectory"
             ELSE IF r.e.id \notin r.c.stamps /\ net # "all" THEN "Server" ELSE ""
  IN /\ Ends("enumerate", IF r.err # "" \/ ~r.e.isdir THEN r.c ELSE l, srv,
              Told("enumerate", err, r.e.id, r.e.id, 0, FALSE))
     /\ Trouble(net, "done") /\ UNCHANGED handle

\* the children an enumeration reports
Listed(cc, p) == {i \in Fn(cc.entries) : <<i, p>> \in Fn(cc.dir)}

Created(op, cc, f, net, call) ==
  /\ Trouble(net, call)
  /\ IF call # "done" THEN Fails(op, cc, "Server")
     ELSE /\ CanAdd
          /\ LET e == NewObject(cc, NewId, f)
             IN /\ Ends(op, InsertEntry(cc, e), Add(f), Told(op, "", NewId, 0, 0, FALSE))
                /\ handle' = IF op = "create" THEN [doc |-> e, stream |-> FALSE] ELSE handle

MakeDirectory(path, net, call) ==
  \E d \in {ResolveDir(c, path, net)} : \E x \in {ResolveChild(d.c, d.e.id, Last(path), net)} :
  LET b == Last(path)
  IN IF d.err # "" THEN Fails("mkdir", d.c, d.err) /\ Trouble(net, call)
     ELSE IF x.e.id # 0 THEN Fails("mkdir", x.c, "Exists") /\ Trouble(net, call)
     ELSE Created("mkdir", x.c,
                  IF b \in Fn(x.c.entries) THEN File(x.c.entries[b].title, {d.e.id}, TRUE, TRUE, b, d.e.id)
                  ELSE File(b, {d.e.id}, TRUE, TRUE, 0, 0), net, call)

\* create, and replace: one file is open at a time
OpenForWrite(path, over, net, call) ==
  \E d \in {ResolveDir(c, path, net)} : \E x \in {ResolveChild(d.c, d.e.id, Last(path), net)} :
     /\ handle.doc.id = 0
     /\ IF d.err # "" THEN Fails("create", d.c, d.err) /\ Trouble(net, call)
        ELSE IF x.e.id # 0 /\ ~over THEN Fails("create", x.c, "Exists") /\ Trouble(net, call)
        ELSE IF x.e.id # 0 /\ x.e.isdir THEN Fails("create", x.c, "IsDirectory") /\ Trouble(net, call)
        ELSE IF x.e.id # 0
        THEN /\ Trouble(net, "done") /\ handle' = [doc |-> x.e, stream |-> TRUE]
             /\ Ends("create", x.c, srv, Told("create", "", x.e.id, d.e.id, Last(path), TRUE))
        ELSE Created("create", x.c, File(Last(path), {d.e.id}, FALSE, TRUE, 0, 0), net, call)

\* the first write opens the upload
Write ==
  /\ handle.doc.id # 0 /\ ~handle.stream
  /\ handle' = [handle EXCEPT !.stream = TRUE]
  /\ UNCHANGED <<srv, c, last, steps, others, faults>>

NoHandle == [doc |-> Nil, stream |-> FALSE]

\* a file never written has no upload to finish, and the close fails
CloseWrite(call) ==
  LET id == handle.doc.id
      ok == call = "done" /\ handle.stream /\ id \in Fn(srv)
  IN /\ id # 0 /\ handle' = NoHandle /\ Trouble("all", call)
     /\ Ends("create", IF ok THEN InsertEntry(RemoveEntry(c, handle.doc), NewObject(c, id, srv[id])) ELSE c,
             srv, Told("close", IF ok THEN "" ELSE "Server", id, 0, 0, FALSE))

\* the open file's object is the one that is changed
Touch(e, title, parents) ==
  handle' = IF handle.doc = e THEN [handle EXCEPT !.doc.title = title, !.doc.parents = parents] ELSE handle

SetDisplayName(path, title, net, call) ==
  \E r \in {Resolve(c, path, net)} :
  LET gone == RemoveEntry(r.c, r.e)
      new == IF r.e.id \in Fn(srv) THEN [srv EXCEPT ![r.e.id].title = title] ELSE srv
  IN IF r.err # "" THEN Fails("rename", r.c, r.err) /\ Trouble(net, call)
     ELSE /\ Trouble(net, call) /\ Touch(r.e, title, r.e.parents)
          /\ IF call # "done" \/ r.e.id \notin Fn(srv)
             THEN Ends("rename", gone, srv, Told("rename", "Server", 0, 0, 0, FALSE))
             ELSE Ends("rename", InsertEntry(gone, NewObject(gone, r.e.id, new[r.e.id])), new,
                       Told("rename", "", r.e.id, 0, title, FALSE))

Checked(cc, err, will, ex) == [c |-> cc, err |-> err, will |-> will, ex |-> ex]

\* is the destination of a copy taken, and is its holder to be overwritten?
Existing(x, s, p, name, over) ==
  LET n == CountWithTitle(x.c, name, p)
      e == x.e
  IN IF e.id = 0 THEN Checked(x.c, "", FALSE, e)
     ELSE IF ~over THEN Checked(x.c, IF n > 0 \/ e.id = name THEN "Exists" ELSE "", FALSE, e)
     ELSE IF n > 1 \/ e.id = s.id THEN Checked(x.c, "Failed", FALSE, e)
     ELSE Checked(x.c, "", name \in {e.id, e.title}, e)
ExistingEntry(cc, s, p, name, over, net) == Existing(ResolveChild(cc, p, name, net), s, p, name, over)

\* a move refuses folders too, and the id of a file beside the source
ToMove(k, from, p, name, over) ==
  IF over /\ k.err = "" /\ k.ex.id # 0 /\ (k.ex.isdir \/ (k.ex.id = name /\ from = p))
  THEN [k EXCEPT !.err = "Failed"] ELSE k
ExistingToMove(cc, s, from, p, name, over, net) ==
  ToMove(ExistingEntry(cc, s, p, name, over, net), from, p, name, over)

\* Named by the source's own id, the file keeps its title, so the title must be free too.
TitleToo(k, x, s, p, name, over) ==
  LET n == CountWithTitle(x.c, s.title, p)
  IN IF k.err # "" \/ name # s.id THEN k
     ELSE IF x.e.id = 0 THEN [k EXCEPT !.c = x.c, !.ex = Nil]
     ELSE IF ~over THEN Checked(x.c, IF n > 0 THEN "Exists" ELSE "", k.will, x.e)
     ELSE IF n > 1 \/ x.e.isdir THEN Checked(x.c, "Failed", FALSE, x.e)
     ELSE Checked(x.c, "", n = 1, x.e)
SameTitle(k, s, p, name, over, net) == TitleToo(k, ResolveChild(k.c, p, s.title, net), s, p, name, over)

\* source, its folder and the destination's resolved, and the destination looked at
FirstError(s, f, d, k) == IF s.err # "" THEN s ELSE IF f.err # "" THEN f ELSE IF d.err # "" THEN d ELSE k
Prepared(s, f, d, k) ==
  LET first == FirstError(s, f, d, k)
  IN [s |-> s.e, from |-> f.e.id, to |-> d.e.id, k |-> k, err |-> first.err, c |-> first.c]

\* The holder the overwrite was decided for is forgotten when the title is free, and what
\* is removed then is no entry at all: the daemon dies.
Crashes(q) == q.k.will /\ q.k.ex.id = 0

\* Is the destination's name kept for the file that arrives?
TitleFor(q, s, name) ==
  IF name = s.id \/ (q.k.will /\ q.k.ex.id = name) THEN s.title ELSE name

Copy(src, dst, over, net, call) ==
  \E a \in {Resolve(c, src, net)} : \E from \in {ResolveDir(a.c, src, net)} : \E d \in {ResolveDir(from.c, dst, net)} :
  \E k \in {ExistingEntry(d.c, a.e, d.e.id, Last(dst), over, net)} :
  \E q \in {Prepared(a, from, d, SameTitle(k, a.e, d.e.id, Last(dst), over, net))} :
  \E s \in {Resolve(q.c, src, net)} :
  LET f == File(TitleFor(q, s.e, Last(dst)), {q.to}, FALSE, TRUE,
                IF q.from = q.to THEN 0 ELSE s.e.id, IF q.from = q.to THEN 0 ELSE q.to)
      in == InsertEntry(s.c, NewObject(s.c, NewId, f))
      out == IF q.k.will THEN RemoveEntry(in, q.k.ex) ELSE in
  IN IF q.err # "" THEN Fails("copy", q.c, q.err) /\ Trouble(net, call)
     ELSE IF s.err # "" \/ s.e.isdir THEN Fails("copy", s.c, "Recurse") /\ Trouble(net, call)
     ELSE IF call = "none" \/ s.e.id \notin Fn(srv) THEN Fails("copy", s.c, "Server") /\ Trouble(net, "none")
     ELSE IF Crashes(q) THEN CanAdd /\ Fails("copy", in, "Crash") /\ Trouble(net, call)
     ELSE /\ CanAdd /\ Trouble(net, call) /\ UNCHANGED handle
          /\ Ends("copy", out, IF q.k.will /\ call = "done" THEN Unlinked(Add(f), q.k.ex, q.to) ELSE Add(f),
                  Told("copy", IF q.k.will /\ call # "done" THEN "Server" ELSE "", NewId, q.to, Last(dst), over))

\* The source leaves the cache before the server is asked; the overwritten file goes after.
Move(src, dst, over, net, call) ==
  \E a \in {Resolve(c, src, net)} : \E from \in {ResolveDir(a.c, src, net)} : \E d \in {ResolveDir(from.c, dst, net)} :
  \E k \in {ExistingToMove(d.c, a.e, from.e.id, d.e.id, Last(dst), over, net)} :
  \E q \in {Prepared(a, from, d, SameTitle(k, a.e, d.e.id, Last(dst), over, net))} :
  LET s == q.s
      gone == RemoveEntry(q.c, s)
      f == [srv[s.id] EXCEPT !.title = TitleFor(q, s, Last(dst)), !.parents = (s.parents \ {q.from}) \cup {q.to}]
      moved == (s.id :> f) @@ srv
      out == IF q.k.will THEN RemoveEntry(gone, q.k.ex) ELSE gone
  IN IF q.err # "" THEN Fails("move", q.c, q.err) /\ Trouble(net, call)
     ELSE IF q.from \notin s.parents THEN Fails("move", gone, "Failed") /\ Trouble(net, call)
     ELSE IF call = "none" \/ s.id \notin Fn(srv) THEN Fails("move", gone, "Server") /\ Trouble(net, "none")
     ELSE IF Crashes(q) THEN Fails("move", gone, "Crash") /\ Trouble(net, call)
     ELSE /\ Trouble(net, call) /\ Touch(s, f.title, f.parents)
          /\ IF q.k.will /\ call # "done"
             THEN Ends("move", out, moved, Told("move", "Server", 0, 0, 0, over))
             ELSE Ends("move", InsertEntry(out, NewObject(out, s.id, f)),
                       IF q.k.will THEN Unlinked(moved, q.k.ex, q.to) ELSE moved,
                       Told("move", "", s.id, q.to, Last(dst), over))

Delete(path, net, call) ==
  \E r \in {Resolve(c, path, net)} : \E d \in {ResolveDir(r.c, path, net)} :
  \E l \in {IF r.e.isdir /\ r.e.id \notin d.c.stamps THEN RebuildDir(d.c, r.e.id, net) ELSE d.c} :
  LET full == r.e.isdir /\ \E k \in Fn(l.dir) : k[2] = r.e.id
      gone == RemoveEntry(l, r.e)
      left == Unlinked(srv, r.e, d.e.id)
  IN IF r.err # "" THEN Fails("delete", r.c, r.err) /\ Trouble(net, call)
     ELSE IF d.err # "" THEN Fails("delete", d.c, d.err) /\ Trouble(net, call)
     ELSE IF r.e.isdir /\ r.e.id \notin d.c.stamps /\ net # "all" THEN Fails("delete", l, "Server") /\ Trouble(net, call)
     ELSE IF full THEN Fails("delete", l, "NotEmpty") /\ Trouble(net, call)
     ELSE IF call # "done" \/ r.e.id \notin Fn(srv) THEN Fails("delete", gone, "Server") /\ Trouble(net, "none")
     ELSE /\ Trouble(net, call) /\ UNCHANGED handle
          /\ Ends("delete", IF Cardinality(r.e.parents) > 1 THEN InsertEntry(gone, NewObject(gone, r.e.id, left[r.e.id]))
                            ELSE gone,
                  left, Told("delete", "", r.e.id, d.e.id, Last(path), FALSE))

\* may the local file not be put over what holds the name?
PushRefused(e, n, name, title, over) ==
  e.id # 0 /\ IF over THEN e.isdir \/ title = e.id \/ n > 1 ELSE n > 0 \/ e.id \in {name, title}

\* upload a local file whose display name is `title'
Push(path, title, over, net, call) ==
  \E d \in {ResolveDir(c, path, net)} : \E x \in {ResolveChild(d.c, d.e.id, Last(path), net)} :
  LET n == CountWithTitle(x.c, Last(path), d.e.id)
      e == x.e
      out == IF e.id # 0 THEN RemoveEntry(x.c, e) ELSE x.c
      will == e.id # 0 /\ over /\ (n = 1 \/ Last(path) = e.id)
  IN IF d.err # "" THEN Fails("push", d.c, d.err) /\ Trouble(net, call)
     ELSE IF PushRefused(e, n, Last(path), title, over) THEN Fails("push", x.c, "Exists") /\ Trouble(net, call)
     ELSE IF ~will THEN Created("push", x.c, File(Last(path), {d.e.id}, FALSE, TRUE, 0, 0), net, call)
     ELSE IF call # "done" \/ e.id \notin Fn(srv) THEN Fails("push", x.c, "Server") /\ Trouble(net, "none")
     ELSE /\ Trouble(net, call) /\ UNCHANGED handle
          /\ Ends("push", InsertEntry(out, NewObject(out, e.id, srv[e.id])), srv,
                  Told("push", "", e.id, d.e.id, Last(path), TRUE))

(***************************************************************************)
(* Time and other clients                                                  *)
(***************************************************************************)
\* REBUILD_ENTRIES_TIMEOUT passes: nothing cached is young enough any more
Stale(o) == [o EXCEPT !.fresh = (o.id = Home)]
Expire ==
  /\ steps < MaxSteps /\ \E o \in Objects(c, handle) : o.id # 0 /\ o.fresh
  /\ c' = [entries |-> [i \in Fn(c.entries) |-> Stale(c.entries[i])], dir |-> [k \in Fn(c.dir) |-> Stale(c.dir[k])],
           stamps |-> {}, coll |-> [i \in DOMAIN c.coll |-> Stale(c.coll[i])]]
  /\ handle' = [handle EXCEPT !.doc = IF @.id = 0 THEN @ ELSE Stale(@)]
  /\ UNCHANGED <<srv, last, steps, others, faults>>

OtherClient ==
  /\ others < Others /\ others' = others + 1 /\ steps < MaxSteps
  /\ \E i \in Fn(srv) :
       \/ srv' = Without(srv, i) /\ ~srv[i].isdir
       \/ \E p \in {Home} \cup {j \in Fn(srv) : srv[j].isdir} :
            ~srv[i].isdir /\ p \notin srv[i].parents /\ srv' = [srv EXCEPT ![i].parents = {p}]
       \/ \E t \in Names \ {srv[i].title} : srv' = [srv EXCEPT ![i].title = t]
  /\ last' = Told("none", "", 0, 0, 0, FALSE)
  /\ UNCHANGED <<c, handle, steps, faults>>

Nets == IF OnePage THEN {"all", "none"} ELSE {"all", "none", "some"}
Calls == {"done", "none", "first"}

Init ==
  /\ srv = Start /\ c = [entries |-> <<>>, dir |-> <<>>, stamps |-> {}, coll |-> <<>>]
  /\ handle = NoHandle /\ last = Told("none", "", 0, 0, 0, FALSE)
  /\ steps = 0 /\ others = 0 /\ faults = 0

Next ==
  \/ Expire
  \/ OtherClient
  \/ "create" \in Ops /\ Write
  \/ \E call \in Calls : "create" \in Ops /\ CloseWrite(call)
  \/ \E path \in Path, net \in Nets : "query" \in Ops /\ QueryInfo(path, net)
  \/ \E path \in Path \cup {<<>>}, net \in Nets : "enumerate" \in Ops /\ Enumerate(path, net)
  \/ \E path \in Path, net \in Nets, call \in Calls : "mkdir" \in Ops /\ MakeDirectory(path, net, call)
  \/ \E path \in Path, over \in BOOLEAN, net \in Nets, call \in Calls : "create" \in Ops /\ OpenForWrite(path, over, net, call)
  \/ \E path \in Path, t \in Names, net \in Nets, call \in Calls : "rename" \in Ops /\ SetDisplayName(path, t, net, call)
  \/ \E src, dst \in Path, over \in BOOLEAN, net \in Nets, call \in Calls : "copy" \in Ops /\ Copy(src, dst, over, net, call)
  \/ \E src, dst \in Path, over \in BOOLEAN, net \in Nets, call \in Calls : "move" \in Ops /\ Move(src, dst, over, net, call)
  \/ \E path \in Path, net \in Nets, call \in Calls : "delete" \in Ops /\ Delete(path, net, call)
  \/ \E path \in Path, t \in Names, over \in BOOLEAN, net \in Nets, call \in Calls : "push" \in Ops /\ Push(path, t, over, net, call)

Spec == Init /\ [][Next]_vars

(***************************************************************************)
(* Properties                                                              *)
(***************************************************************************)
\* At most two objects of one file are alive, and the counters keep their bounds.
TypeOK ==
  /\ Fn(srv) \subseteq Home + 1 .. MaxId
  /\ \A o \in Objects(c, handle) : o.id \in 0 .. MaxId /\ o.n \in 0 .. 1
  /\ Fn(c.dir) \subseteq Nat \X (1 .. MaxId)
  /\ steps \in 0 .. MaxSteps /\ others \in 0 .. Others /\ faults \in 0 .. Faults

\* "each entry's real ID must be in dir_entries hash table" (insert_entry_full): every
\* cached file is found under its id in each of its folders, whoever else claims the name.
RealIds == \A i \in Fn(c.entries) : \A p \in c.entries[i].parents : HolderOf(c, <<i, p>>).id = i

Matches(i, p, name) ==
  i \in Fn(srv) /\ p \in srv[i].parents /\ (name \in {i, srv[i].title} \/ (srv[i].par = p /\ srv[i].src = name))

\* Without other clients no name of the cache outlives its file, its title or its place:
\* every key leads to a file that is in the folder under that name (remove_entry_full).
NamesTrue == others = 0 => \A k \in Fn(c.dir) : Matches(c.dir[k].id, k[2], k[1])

\* "No such file or directory" is said only when the folder has no file of that id or title,
\* whatever was renamed, removed, copied over or failed before (resolve_child).
NotFoundTrue ==
  others = 0 /\ last.op = "query" /\ last.err = "NotFound" =>
    \A i \in Fn(srv) : last.p \in srv[i].parents => last.name \notin {i, srv[i].title}

InFolder(p) == {i \in Fn(srv) : p \in srv[i].parents}
\* an enumeration without an error reports every file of the folder
ListingComplete ==
  others = 0 /\ last.op = "enumerate" /\ last.err = "" => InFolder(last.id) \subseteq Listed(c, last.id)

\* A file leaves the drive only by a delete of it, or under an operation that was asked to
\* overwrite, from the folder it wrote to (g_vfs_backend_google_copy, _move, _push).
OnlyOverwritesAsked ==
  \A i \in Fn(srv) \ Fn(srv') : others' # others \/ (last'.op = "delete" /\ last'.id = i)
                                    \/ (last'.over /\ last'.p \in srv[i].parents)

\* A folder is deleted only when the drive has nothing in it, though the backend looks at
\* its cache (g_vfs_backend_google_delete).
EmptyOnly ==
  \A i \in Fn(srv) \ Fn(srv') : (others' = 0 /\ srv[i].isdir) => \A j \in Fn(srv) : i \notin srv[j].parents
=============================================================================
