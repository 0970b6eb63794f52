----------------------------- MODULE MetaStore -----------------------------
(***************************************************************************)
(* The files of the metadata store (metatree.c, metabuilder.c) and the     *)
(* daemon that writes them (meta-daemon.c).  A tree file and the journal   *)
(* that carries its tag are mapped by the writer and by readers in other   *)
(* processes.  When the journal is full, or the writeout timer fires, the  *)
(* writer replaces the pair by a new tree with an empty journal.           *)
(*                                                                         *)
(* Entries are counted, not kept: a tree holds the first base entries ever *)
(* written, its journal the next ones.  Every system call on the shared    *)
(* files is one action.                                                    *)
(***************************************************************************)
EXTENDS Naturals, TLAPS

CONSTANTS
  Readers,      \* processes that only read
  Writers,      \* metadata daemons; all but the first wait to replace one
  First,        \* the daemon that runs at first
  JournalSize,  \* entries that fit into a journal
  MaxEntries,   \* bound on entries written
  MaxTrees,     \* bound on tree files
  Faults        \* what may go wrong: subset of FaultKinds

FaultKinds == {"tmp", "journal", "rename", "crash"}

StoreAssumption ==
  /\ First \in Writers /\ Readers \cap Writers = {}
  /\ JournalSize \in Nat \ {0} /\ MaxEntries \in Nat /\ MaxTrees \in Nat \ {0}
  /\ Faults \subseteq FaultKinds

Trees == 1 .. MaxTrees
Procs == Readers \cup Writers

VARIABLES
  cur,     \* the tree the file name stands for
  used,    \* trees 1 .. used have been created
  base,    \* entries in a tree
  rotated, \* its rotated flag
  linked,  \* which journal file of the tag is in the directory (0: none)
  num,     \* num_entries of the journal files, by tag and file
  st,      \* what every process is at
  map,     \* the tree a process has mapped
  jfile,   \* the journal it has mapped (0: NULL)
  seen,    \* its last_entry_num
  new, old,\* the writer's new tree, and the one it has open as fd2
  pending, \* is an entry waiting for room?
  timer,   \* is the writeout timer running?
  owner,   \* who has the bus name
  total,   \* entries accepted so far
  since    \* entries accepted when a process began to refresh

fileVars == <<cur, used, base, rotated, linked, num>>
viewVars == <<st, map, jfile, seen>>
vars == <<fileVars, viewVars, new, old, pending, timer, owner, total, since>>

FlushStates == {"write", "create", "open_old", "rename", "mark", "unlink"}
States == {"off", "open", "journal", "check", "ready"} \cup FlushStates

(* The entries of the journal a process has mapped *)
Mapped(p) ==
  IF map[p] = 0 \/ jfile[p] = 0 THEN 0 ELSE num[<<map[p], jfile[p]>>]

(* Every variable has its type, and no mapping sees more entries than the  *)
(* journal it is of has.                                                   *)
TypeOK ==
  /\ cur \in 1 .. used /\ used \in Trees
  /\ base \in [Trees -> 0 .. MaxEntries] /\ rotated \in [Trees -> BOOLEAN]
  /\ linked \in [Trees -> 0 .. 2]
  /\ num \in [Trees \X (1 .. 2) -> 0 .. JournalSize]
  /\ st \in [Procs -> States]
  /\ map \in [Procs -> 0 .. used] /\ jfile \in [Procs -> 0 .. 2]
  /\ \A p \in Procs : seen[p] \in 0 .. Mapped(p)
  /\ new \in [Writers -> 0 .. used] /\ old \in [Writers -> 0 .. used]
  /\ pending \in [Writers -> BOOLEAN] /\ timer \in [Writers -> BOOLEAN]
  /\ owner \in Writers
  /\ total \in 0 .. MaxEntries /\ since \in [Procs -> 0 .. total]

Init ==
  /\ cur = 1 /\ used = 1
  /\ base = [t \in Trees |-> 0] /\ rotated = [t \in Trees |-> FALSE]
  /\ linked = [t \in Trees |-> IF t = 1 THEN 1 ELSE 0]
  /\ num = [x \in Trees \X (1 .. 2) |-> 0]
  /\ st = [p \in Procs |-> IF p \in Readers \cup {First} THEN "open" ELSE "off"]
  /\ map = [p \in Procs |-> 0] /\ jfile = [p \in Procs |-> 0]
  /\ seen = [p \in Procs |-> 0]
  /\ new = [w \in Writers |-> 0] /\ old = [w \in Writers |-> 0]
  /\ pending = [w \in Writers |-> FALSE] /\ timer = [w \in Writers |-> FALSE]
  /\ owner = First
  /\ total = 0 /\ since = [p \in Procs |-> 0]

Entries(p) == IF jfile[p] = 0 THEN 0 ELSE num[<<map[p], jfile[p]>>]
View(p) == base[map[p]] + seen[p]
Goto(p, s) == st' = [st EXCEPT ![p] = s]

-----------------------------------------------------------------------------
(* Opening and refreshing, by readers and writers alike.                   *)

(* meta_tree_init: the tree file is opened and mapped *)
OpenTree(p) ==
  /\ st[p] = "open"
  /\ map' = [map EXCEPT ![p] = cur]
  /\ Goto(p, "journal")
  /\ UNCHANGED <<fileVars, jfile, seen, new, old, pending, timer, owner, total, since>>

(* meta_journal_open: a writer creates a journal that is not there *)
OpenJournal(p) ==
  /\ st[p] = "journal"
  /\ LET t == map[p]
         make == linked[t] = 0 /\ p \in Writers
     IN /\ linked' = IF make THEN [linked EXCEPT ![t] = 2] ELSE linked
        /\ jfile' = [jfile EXCEPT ![p] = linked'[t]]
        /\ seen' = [seen EXCEPT ![p] =
             IF linked'[t] = 0 THEN 0 ELSE num[<<t, linked'[t]>>]]
  /\ Goto(p, "check")
  /\ UNCHANGED <<cur, used, base, rotated, num, map, new, old, pending, timer, owner, total, since>>

(* meta_tree_needs_rereading: the mapped tree is marked as rotated, and    *)
(* the name stands for another file                                        *)
NeedsRereading(p) == rotated[map[p]] /\ cur # map[p]

(* meta_tree_refresh_locked, meta_journal_validate_more *)
Check(p) ==
  /\ st[p] = "check"
  /\ IF NeedsRereading(p)
     THEN /\ Goto(p, "open")
          /\ map' = [map EXCEPT ![p] = 0] /\ jfile' = [jfile EXCEPT ![p] = 0]
          /\ seen' = [seen EXCEPT ![p] = 0]
          /\ UNCHANGED <<num, pending, total>>
     ELSE /\ Goto(p, "ready")
          /\ seen' = [seen EXCEPT ![p] = Entries(p)]
          /\ UNCHANGED <<map, jfile, num, pending, total>>
  /\ UNCHANGED <<cur, used, base, rotated, linked, new, old, timer, owner, since>>

(* meta_tree_refresh before a lookup *)
Refresh(p) ==
  /\ p \in Readers /\ st[p] = "ready"
  /\ Goto(p, "check")
  /\ since' = [since EXCEPT ![p] = total]
  /\ UNCHANGED <<fileVars, map, jfile, seen, new, old, pending, timer, owner, total>>

-----------------------------------------------------------------------------
(* The daemon.                                                             *)

(* meta_journal_add_entry: the entry is copied, then counted *)
AddEntry(w) ==
  /\ num' = [num EXCEPT ![<<map[w], jfile[w]>>] = seen[w] + 1]
  /\ seen' = [seen EXCEPT ![w] = @ + 1]
  /\ total' = total + 1

Full(w) == seen[w] = JournalSize

(* handle_set, handle_remove and meta_tree_set_string, _unset, _remove,    *)
(* _copy: add the entry, or flush first when the journal is full           *)
Set(w) ==
  /\ owner = w /\ st[w] = "ready" /\ ~pending[w]
  /\ total < MaxEntries
  /\ jfile[w] # 0
  /\ IF Full(w)
     THEN /\ Goto(w, "write")
          /\ pending' = [pending EXCEPT ![w] = TRUE]
          /\ UNCHANGED <<num, seen, total>>
     ELSE AddEntry(w) /\ UNCHANGED <<st, pending>>
  /\ timer' = [timer EXCEPT ![w] = TRUE]
  /\ UNCHANGED <<cur, used, base, rotated, linked, map, jfile, new, old, owner, since>>

(* The same, after the flush has made room *)
SetPending(w) ==
  /\ st[w] = "ready" /\ pending[w]
  /\ pending' = [pending EXCEPT ![w] = FALSE]
  /\ IF jfile[w] # 0 /\ ~Full(w) THEN AddEntry(w) ELSE UNCHANGED <<num, seen, total>>
  /\ UNCHANGED <<cur, used, base, rotated, linked, st, map, jfile, new, old, timer, owner, since>>

(* writeout_timeout, meta_tree_flush: a minute after the first change,     *)
(* when a daemon that was replaced has long done its last flush            *)
WriteoutTimeout(w) ==
  /\ timer[w] /\ st[w] = "ready" /\ ~pending[w] /\ owner = w
  /\ \A v \in Writers \ {w} : st[v] \notin FlushStates
  /\ timer' = [timer EXCEPT ![w] = FALSE]
  /\ Goto(w, "write")
  /\ UNCHANGED <<fileVars, map, jfile, seen, new, old, pending, owner, total, since>>

(* meta_tree_flush_locked: what copy_tree_to_builder and                   *)
(* apply_journal_to_builder put into the new tree                          *)
FlushContent(w) == View(w)

(* metadata_create_static, written to a temporary file *)
WriteTmp(w) ==
  /\ st[w] = "write"
  /\ used < MaxTrees
  /\ used' = used + 1
  /\ base' = [base EXCEPT ![used'] = FlushContent(w)]
  /\ new' = [new EXCEPT ![w] = used']
  /\ Goto(w, "create")
  /\ UNCHANGED <<cur, rotated, linked, num, map, jfile, seen, old, pending, timer, owner, total, since>>

CreateNewJournal(w) ==
  /\ st[w] = "create"
  /\ linked' = [linked EXCEPT ![new[w]] = 1]
  /\ Goto(w, "open_old")
  /\ UNCHANGED <<cur, used, base, rotated, num, map, jfile, seen, new, old, pending, timer, owner, total, since>>

OpenOld(w) ==
  /\ st[w] = "open_old"
  /\ old' = [old EXCEPT ![w] = cur]
  /\ Goto(w, "rename")
  /\ UNCHANGED <<fileVars, map, jfile, seen, new, pending, timer, owner, total, since>>

Rename(w) ==
  /\ st[w] = "rename"
  /\ cur' = new[w]
  /\ Goto(w, "mark")
  /\ UNCHANGED <<used, base, rotated, linked, num, map, jfile, seen, new, old, pending, timer, owner, total, since>>

MarkRotated_Forgotten(w) == rotated

(* The old file's flag is set through a mapping *)
MarkRotated(w) == [rotated EXCEPT ![old[w]] = TRUE]

Mark(w) ==
  /\ st[w] = "mark"
  /\ rotated' = MarkRotated(w)
  /\ Goto(w, "unlink")
  /\ UNCHANGED <<cur, used, base, linked, num, map, jfile, seen, new, old, pending, timer, owner, total, since>>

Unlink_NoReread(w) ==
  /\ st[w] = "unlink"
  /\ linked' = [linked EXCEPT ![old[w]] = 0]
  /\ Goto(w, "ready")
  /\ UNCHANGED <<cur, used, base, rotated, num, map, jfile, seen, new, old, pending, timer, owner, total, since>>

(* The old journal is deleted and the new pair opened; a daemon that was   *)
(* replaced has flushed for the last time.                                 *)
Unlink(w) ==
  /\ st[w] = "unlink"
  /\ linked' = [linked EXCEPT ![old[w]] = 0]
  /\ Goto(w, IF owner = w THEN "open" ELSE "off")
  /\ map' = [map EXCEPT ![w] = 0] /\ jfile' = [jfile EXCEPT ![w] = 0]
  /\ seen' = [seen EXCEPT ![w] = 0]
  /\ UNCHANGED <<cur, used, base, rotated, num, new, old, pending, timer, owner, total, since>>

(* meta_builder_write fails: the new tree is discarded, and the entry that *)
(* waited for room is refused                                              *)
FlushFails(w) ==
  /\ \/ st[w] = "write" /\ "tmp" \in Faults
     \/ st[w] = "create" /\ "journal" \in Faults
     \/ st[w] = "rename" /\ "rename" \in Faults
  /\ Goto(w, IF owner = w THEN "ready" ELSE "off")
  /\ pending' = [pending EXCEPT ![w] = FALSE]
  /\ UNCHANGED <<fileVars, map, jfile, seen, new, old, timer, owner, total, since>>

(* The daemon is killed; it is started again at the next request. *)
Crash(w) ==
  /\ "crash" \in Faults /\ owner = w
  /\ st[w] # "off"
  /\ Goto(w, "off")
  /\ map' = [map EXCEPT ![w] = 0] /\ jfile' = [jfile EXCEPT ![w] = 0]
  /\ seen' = [seen EXCEPT ![w] = 0]
  /\ pending' = [pending EXCEPT ![w] = FALSE]
  /\ timer' = [timer EXCEPT ![w] = FALSE]
  /\ UNCHANGED <<fileVars, new, old, owner, total, since>>

Start(w) ==
  /\ owner = w /\ st[w] = "off"
  /\ Goto(w, "open")
  /\ UNCHANGED <<fileVars, map, jfile, seen, new, old, pending, timer, owner, total, since>>

(* gvfsd-metadata --replace: w takes the name, and the old daemon writes   *)
(* out what it has when it learns of it (on_name_lost, flush_all)          *)
Replace(w) ==
  /\ owner # w /\ st[w] = "off" /\ w # First /\ st[owner] = "ready"
  /\ ~pending[owner]
  /\ st' = [st EXCEPT ![w] = "open",
                      ![owner] = IF timer[owner] THEN "write" ELSE "off"]
  /\ timer' = [timer EXCEPT ![owner] = FALSE]
  /\ owner' = w
  /\ UNCHANGED <<fileVars, map, jfile, seen, new, old, pending, total, since>>

-----------------------------------------------------------------------------
ViewStep(p) == OpenTree(p) \/ OpenJournal(p) \/ Check(p)
FlushStep(w) ==
  \/ WriteTmp(w) \/ CreateNewJournal(w) \/ OpenOld(w) \/ Rename(w) \/ Mark(w)
  \/ Unlink(w) \/ FlushFails(w)
Next ==
  \/ \E p \in Procs : ViewStep(p) \/ Refresh(p)
  \/ \E w \in Writers :
       \/ Set(w) \/ SetPending(w) \/ WriteoutTimeout(w) \/ FlushStep(w)
       \/ Crash(w) \/ Start(w) \/ Replace(w)

Spec == Init /\ [][Next]_vars

-----------------------------------------------------------------------------
(* What a process that opens the store now finds: nothing accepted is ever *)
(* missing, whatever step of a rotation the writer was at when it failed   *)
(* or was killed (metabuilder.c:1194).                                     *)
Durable ==
  base[cur] + (IF linked[cur] = 0 THEN 0 ELSE num[<<cur, linked[cur]>>]) = total

(* A lookup sees every entry that had been accepted when its refresh began *)
(* (metatree.c:493).                                                       *)
ReaderFresh ==
  \A p \in Readers : st[p] = "check" /\ st'[p] = "ready" =>
       base'[map'[p]] + seen'[p] >= since[p]

(* A writer that has opened the store appends to the journal other         *)
(* processes look at, not to one that was rotated away.                    *)
WriterOnCurrent ==
  \A w \in Writers : st[w] = "ready" /\ owner = w =>
    map[w] = cur /\ jfile[w] = linked[cur]

-----------------------------------------------------------------------------
(* Why nothing is lost, for stores of every size: what holds between any   *)
(* two system calls while one daemon at a time writes.  (A second daemon   *)
(* that takes the name over while the first still flushes is the case that *)
(* these invariants do not survive.)                                       *)
OneWriter == StoreAssumption /\ Writers = {First}

(* The daemon is never killed *)
Calm == OneWriter /\ "crash" \notin Faults

(* The steps of a flush up to the rename, when the new tree is private to  *)
(* the daemon, and all the steps at which it has the store open            *)
Building == {"create", "open_old", "rename"}
Opened == {"check", "ready", "write"} \cup Building

(* The pair in the directory is complete and not marked as replaced. *)
CurrentWhole ==
  /\ linked[cur] = 1 /\ ~rotated[cur]
  /\ base[cur] + num[<<cur, 1>>] = total

(* A journal that a tree will have starts empty. *)
TreesUnused ==
  \A t \in Trees : t > used => ~rotated[t] /\ num[<<t, 1>>] = 0

(* The daemon looks at that pair and has seen all of its journal. *)
WriterView ==
  /\ st[First] = "journal" => map[First] = cur
  /\ st[First] \in Opened =>
       map[First] = cur /\ jfile[First] = 1 /\ seen[First] = num[<<cur, 1>>]

(* The tree it writes has all that was accepted, and nobody uses it. *)
NewTree ==
  st[First] \in Building =>
    /\ new[First] \in 1 .. used /\ new[First] # cur
    /\ base[new[First]] = total /\ num[<<new[First], 1>>] = 0
    /\ ~rotated[new[First]]
    /\ \A p \in Procs : map[p] # new[First]

Rotation ==
  /\ st[First] \in {"open_old", "rename"} => linked[new[First]] = 1
  /\ st[First] = "rename" => old[First] = cur
  /\ st[First] \in {"mark", "unlink"} => old[First] # 0 /\ old[First] # cur

(* A process has a tree mapped once it opened the store, and has seen      *)
(* nothing before.                                                         *)
Closed ==
  \A p \in Procs : IF st[p] \in {"off", "open"} THEN seen[p] = 0 ELSE map[p] # 0

(* Room was made for the entry that waits. *)
PendingRoom == pending[First] => total < MaxEntries

StoreInv ==
  /\ TypeOK /\ seen \in [Procs -> Nat] /\ owner = First
  /\ \A t \in Trees : linked[t] \in {0, 1}
  /\ CurrentWhole /\ TreesUnused /\ WriterView /\ NewTree /\ Rotation
  /\ Closed /\ PendingRoom

(* The pair a reader looks at is the one in the directory, or is marked,   *)
(* or is about to be marked and still has everything.                      *)
Attached(p) ==
  /\ \/ map[p] = cur
     \/ rotated[map[p]]
     \/ /\ st[First] = "mark" /\ old[First] = map[p]
        /\ base[map[p]] + num[<<map[p], 1>>] = total
  /\ linked[map[p]] = 0 => rotated[map[p]] /\ map[p] # cur

ReaderView(p) ==
  /\ st[p] \in {"open", "journal", "check", "ready"}
  /\ st[p] # "open" => map[p] # 0
  /\ map[p] # 0 => Attached(p)
  /\ st[p] \in {"check", "ready"} =>
       /\ jfile[p] \in {0, 1}
       /\ jfile[p] = 0 => rotated[map[p]] /\ map[p] # cur

ReadersInv ==
  /\ \A p \in Readers : ReaderView(p)
  /\ st[First] = "unlink" => rotated[old[First]]

-----------------------------------------------------------------------------
(* The first state *)
LEMMA StoreInit ==
  ASSUME OneWriter, Init
  PROVE  StoreInv
<1>1. TypeOK
  BY DEF OneWriter, StoreAssumption, Init, TypeOK, Trees, Procs, States, Mapped
<1>2. CurrentWhole /\ TreesUnused /\ PendingRoom /\ Closed /\ seen \in [Procs -> Nat]
      /\ \A t \in Trees : linked[t] \in {0, 1}
  BY DEF OneWriter, StoreAssumption, Init, CurrentWhole, TreesUnused, PendingRoom, Closed, Trees, Procs
<1>3. WriterView /\ NewTree /\ Rotation
  BY DEF OneWriter, StoreAssumption, Init, WriterView, NewTree, Rotation, Opened, Building, Procs
<1> QED
  BY <1>1, <1>2, <1>3 DEF StoreInv, Init

(* A step that changes no file keeps what is said of the files. *)
LEMMA FilesKept ==
  ASSUME OneWriter, StoreInv, UNCHANGED <<fileVars, owner, total>>
  PROVE  /\ CurrentWhole' /\ TreesUnused' /\ (\A t \in Trees : linked[t] \in {0, 1})'
         /\ owner' = First
BY DEF StoreInv, CurrentWhole, TreesUnused, fileVars

(* A process maps the tree the name stands for. *)
LEMMA OpenTreeKeeps ==
  ASSUME OneWriter, StoreInv, NEW p \in Procs, OpenTree(p)
  PROVE  StoreInv'
<1> USE DEF OneWriter, StoreAssumption
<1>0. UNCHANGED <<fileVars, owner, total>>
  BY DEF OpenTree
<1>1. TypeOK'
  <2>1. ASSUME NEW q \in Procs PROVE seen'[q] \in 0 .. Mapped(q)'
    <3>1. seen[q] \in 0 .. Mapped(q) /\ seen' = seen /\ seen[p] = 0
      BY DEF StoreInv, TypeOK, OpenTree, Closed
    <3>2. Mapped(q)' = Mapped(q) \/ q = p
      BY DEF StoreInv, TypeOK, OpenTree, fileVars, Mapped
    <3>3. Mapped(p)' \in Nat
      <4>1. map'[p] = cur /\ jfile' = jfile /\ num' = num
        BY DEF StoreInv, TypeOK, OpenTree, fileVars
      <4>2. cur \in Trees /\ jfile[p] \in 0 .. 2
        BY DEF StoreInv, TypeOK, Trees
      <4>3. jfile[p] # 0 => num[<<cur, jfile[p]>>] \in Nat
        BY <4>2 DEF StoreInv, TypeOK
      <4> QED
        BY <4>1, <4>3 DEF Mapped
    <3> QED
      BY <3>1, <3>2, <3>3
  <2>2. map' \in [Procs -> 0 .. used] /\ st' \in [Procs -> States]
    BY DEF StoreInv, TypeOK, OpenTree, Goto, States
  <2> QED
    BY <2>1, <2>2 DEF StoreInv, TypeOK, OpenTree, fileVars
<1>2. WriterView' /\ Closed' /\ seen' \in [Procs -> Nat] /\ PendingRoom'
  BY DEF StoreInv, TypeOK, OpenTree, Goto, fileVars, WriterView, Closed, Opened, Building, PendingRoom, Procs
<1>3. NewTree' /\ Rotation'
  BY DEF StoreInv, TypeOK, OpenTree, Goto, fileVars, NewTree, Rotation, Building, Procs
<1> QED
  BY <1>0, <1>1, <1>2, <1>3, FilesKept DEF StoreInv

(* What is mapped is a journal of the store. *)
LEMMA MappedBound ==
  ASSUME OneWriter, TypeOK, NEW p \in Procs
  PROVE  Mapped(p) \in 0 .. JournalSize
BY DEF OneWriter, StoreAssumption, TypeOK, Mapped, Trees

(* A process whose mapping stays goes on seeing what it has seen. *)
LEMMA ViewKept ==
  ASSUME OneWriter, TypeOK, UNCHANGED <<num, map, jfile, seen>>
  PROVE  \A q \in Procs : seen'[q] \in 0 .. Mapped(q)'
BY DEF TypeOK, Mapped

(* A process that has opened the store has a tree of it mapped. *)
LEMMA MapIsTree ==
  ASSUME OneWriter, StoreInv, NEW p \in Procs, st[p] \notin {"off", "open"}
  PROVE  map[p] \in Trees /\ map[p] \in 1 .. used
<1>1. map[p] \in 0 .. used /\ map[p] # 0 /\ used \in Trees
  BY DEF StoreInv, TypeOK, Closed
<1> QED
  BY <1>1 DEF Trees, OneWriter, StoreAssumption

(* The daemon never finds the journal missing: every process that opens a  *)
(* journal takes the one that is in the directory.                         *)
LEMMA OpenJournalKeeps ==
  ASSUME OneWriter, StoreInv, NEW p \in Procs, OpenJournal(p)
  PROVE  StoreInv'
<1> USE DEF OneWriter, StoreAssumption
<1>0. /\ st[p] = "journal" /\ map[p] \in Trees
      /\ st' = [st EXCEPT ![p] = "check"]
      /\ UNCHANGED <<cur, used, base, rotated, num, map, new, old, pending, timer, owner, total, since>>
  BY MapIsTree DEF OpenJournal, Goto
<1>1. linked[map[p]] \in {0, 1} /\ ~(linked[map[p]] = 0 /\ p \in Writers)
  BY <1>0 DEF StoreInv, WriterView, CurrentWhole
<1>2. linked' = linked
  BY <1>1 DEF OpenJournal
<1>3. /\ jfile' = [jfile EXCEPT ![p] = linked[map[p]]]
      /\ seen' = [seen EXCEPT ![p] =
           IF linked[map[p]] = 0 THEN 0 ELSE num[<<map[p], linked[map[p]]>>]]
  BY <1>2 DEF OpenJournal
<1>4. \A j \in 1 .. 2 : num[<<map[p], j>>] \in Nat
  BY <1>0 DEF StoreInv, TypeOK, Trees
<1>5. TypeOK'
  <2>1. ASSUME NEW q \in Procs PROVE seen'[q] \in 0 .. Mapped(q)'
    <3>1. CASE q = p
      BY <3>1, <1>0, <1>1, <1>2, <1>3, <1>4 DEF StoreInv, TypeOK, Mapped, Trees
    <3>2. CASE q # p
      BY <3>2, <1>0, <1>3 DEF StoreInv, TypeOK, Mapped
    <3> QED
      BY <3>1, <3>2
  <2>2. jfile' \in [Procs -> 0 .. 2] /\ st' \in [Procs -> States]
    BY <1>0, <1>1, <1>3 DEF StoreInv, TypeOK, States
  <2> QED
    BY <2>1, <2>2, <1>0, <1>2 DEF StoreInv, TypeOK
<1>6. seen' \in [Procs -> Nat] /\ Closed' /\ PendingRoom'
  BY <1>0, <1>1, <1>3, <1>4 DEF StoreInv, TypeOK, Closed, PendingRoom, Procs
<1>7. WriterView'
  BY <1>0, <1>1, <1>3 DEF StoreInv, TypeOK, WriterView, CurrentWhole, Opened, Building, Procs
<1>8. NewTree' /\ Rotation'
  BY <1>0, <1>2 DEF StoreInv, TypeOK, NewTree, Rotation, Building, Procs
<1> QED
  BY <1>0, <1>2, <1>5, <1>6, <1>7, <1>8, FilesKept DEF StoreInv, fileVars

(* The daemon stays on the pair it has; a reader may go back to open. *)
LEMMA CheckKeeps ==
  ASSUME OneWriter, StoreInv, NEW p \in Procs, Check(p)
  PROVE  StoreInv'
<1> USE DEF OneWriter, StoreAssumption
<1>0. /\ st[p] = "check" /\ map[p] \in Trees
      /\ UNCHANGED <<fileVars, new, old, pending, timer, owner, total, since>>
  BY MapIsTree DEF Check, fileVars
<1>1. CASE NeedsRereading(p)
  <2>0. /\ st' = [st EXCEPT ![p] = "open"] /\ map' = [map EXCEPT ![p] = 0]
        /\ jfile' = [jfile EXCEPT ![p] = 0] /\ seen' = [seen EXCEPT ![p] = 0]
    BY <1>1 DEF Check, Goto
  <2>1. TypeOK'
    <3>1. ASSUME NEW q \in Procs PROVE seen'[q] \in 0 .. Mapped(q)'
      <4>1. CASE q = p
        BY <4>1, <2>0 DEF StoreInv, TypeOK, Mapped
      <4>2. CASE q # p
        BY <4>2, <1>0, <2>0 DEF StoreInv, TypeOK, Mapped, fileVars
      <4> QED
        BY <4>1, <4>2
    <3>2. st' \in [Procs -> States] /\ map' \in [Procs -> 0 .. used] /\ jfile' \in [Procs -> 0 .. 2]
      BY <2>0 DEF StoreInv, TypeOK, States, Trees
    <3> QED
      BY <3>1, <3>2, <1>0 DEF StoreInv, TypeOK, fileVars
  <2>2. seen' \in [Procs -> Nat] /\ Closed' /\ PendingRoom' /\ WriterView'
    BY <1>0, <2>0 DEF StoreInv, TypeOK, Closed, PendingRoom, WriterView, Opened, Building, Procs, fileVars
  <2>3. NewTree' /\ Rotation'
    BY <1>0, <2>0 DEF StoreInv, TypeOK, NewTree, Rotation, Building, Procs, fileVars
  <2> QED
    BY <1>0, <2>1, <2>2, <2>3, FilesKept DEF StoreInv
<1>2. CASE ~NeedsRereading(p)
  <2>0. /\ st' = [st EXCEPT ![p] = "ready"] /\ UNCHANGED <<map, jfile>>
        /\ seen' = [seen EXCEPT ![p] = Mapped(p)]
    BY <1>0, <1>2 DEF Check, Goto, Entries, Mapped, Trees
  <2>01. Mapped(p) \in Nat /\ \A q \in Procs : Mapped(q)' = Mapped(q)
    BY <1>0, <2>0, MappedBound DEF StoreInv, Mapped, fileVars
  <2>1. TypeOK'
    <3>1. ASSUME NEW q \in Procs PROVE seen'[q] \in 0 .. Mapped(q)'
      BY <2>0, <2>01 DEF StoreInv, TypeOK
    <3> QED
      BY <3>1, <1>0, <2>0 DEF StoreInv, TypeOK, States, fileVars
  <2>2. seen' \in [Procs -> Nat] /\ Closed' /\ PendingRoom'
    BY <1>0, <2>0, <2>01 DEF StoreInv, TypeOK, Closed, PendingRoom, Procs, fileVars
  <2>3. WriterView'
    BY <1>0, <2>0 DEF StoreInv, TypeOK, WriterView, Opened, Building, Procs, fileVars, Mapped
  <2>4. NewTree' /\ Rotation'
    BY <1>0, <2>0 DEF StoreInv, TypeOK, NewTree, Rotation, Building, Procs, fileVars
  <2> QED
    BY <1>0, <2>1, <2>2, <2>3, <2>4, FilesKept DEF StoreInv
<1> QED
  BY <1>1, <1>2

(* A step that moves one process on and leaves files and mappings alone    *)
(* keeps the part of the invariant that no phase of the flush is about.    *)
LEMMA PhaseKeeps ==
  ASSUME OneWriter, StoreInv, NEW p \in Procs, NEW s \in States,
         st' = [st EXCEPT ![p] = s],
         (s \in {"off", "open"}) <=> (st[p] \in {"off", "open"}),
         UNCHANGED <<fileVars, map, jfile, seen, owner, total>>
  PROVE  /\ st' \in [Procs -> States] /\ seen' \in [Procs -> Nat]
         /\ \A q \in Procs : seen'[q] \in 0 .. Mapped(q)'
         /\ Closed' /\ CurrentWhole' /\ TreesUnused' /\ owner' = First
         /\ (\A t \in Trees : linked[t] \in {0, 1})'
<1>1. st' \in [Procs -> States] /\ seen' \in [Procs -> Nat]
  BY DEF StoreInv, TypeOK
<1>2. Closed'
  BY DEF StoreInv, TypeOK, Closed
<1> QED
  BY <1>1, <1>2, FilesKept, ViewKept DEF StoreInv, fileVars

(* A lookup begins. *)
LEMMA RefreshKeeps ==
  ASSUME OneWriter, StoreInv, NEW p \in Procs, Refresh(p)
  PROVE  StoreInv'
<1> USE DEF OneWriter, StoreAssumption
<1>0. /\ st' = [st EXCEPT ![p] = "check"] /\ st[p] = "ready" /\ p # First
      /\ since' = [since EXCEPT ![p] = total]
      /\ UNCHANGED <<fileVars, map, jfile, seen, new, old, pending, timer, owner, total>>
  BY DEF Refresh, Goto
<1>1. /\ st' \in [Procs -> States] /\ seen' \in [Procs -> Nat]
      /\ \A q \in Procs : seen'[q] \in 0 .. Mapped(q)'
      /\ Closed' /\ CurrentWhole' /\ TreesUnused' /\ owner' = First
      /\ (\A t \in Trees : linked[t] \in {0, 1})'
  BY <1>0, PhaseKeeps DEF States
<1>2. since' \in [Procs -> 0 .. total]
  BY <1>0 DEF StoreInv, TypeOK
<1>3. TypeOK'
  BY <1>0, <1>1, <1>2 DEF StoreInv, TypeOK, fileVars
<1>4. WriterView' /\ NewTree' /\ Rotation' /\ PendingRoom'
  BY <1>0 DEF StoreInv, TypeOK, WriterView, NewTree, Rotation, PendingRoom, Procs, fileVars
<1> QED
  BY <1>1, <1>3, <1>4 DEF StoreInv

(* The writeout timer starts a flush. *)
LEMMA WriteoutTimeoutKeeps ==
  ASSUME OneWriter, StoreInv, WriteoutTimeout(First)
  PROVE  StoreInv'
<1> USE DEF OneWriter, StoreAssumption
<1>0. /\ st' = [st EXCEPT ![First] = "write"] /\ st[First] = "ready"
      /\ timer' = [timer EXCEPT ![First] = FALSE]
      /\ UNCHANGED <<fileVars, map, jfile, seen, new, old, pending, owner, total, since>>
  BY DEF WriteoutTimeout, Goto
<1>1. /\ st' \in [Procs -> States] /\ seen' \in [Procs -> Nat]
      /\ \A q \in Procs : seen'[q] \in 0 .. Mapped(q)'
      /\ Closed' /\ CurrentWhole' /\ TreesUnused' /\ owner' = First
      /\ (\A t \in Trees : linked[t] \in {0, 1})'
  BY <1>0, PhaseKeeps DEF States, FlushStates, Procs
<1>2. timer' \in [Writers -> BOOLEAN]
  BY <1>0 DEF StoreInv, TypeOK
<1>3. TypeOK'
  BY <1>0, <1>1, <1>2 DEF StoreInv, TypeOK, fileVars
<1>4. WriterView' /\ NewTree' /\ Rotation' /\ PendingRoom'
  BY <1>0 DEF StoreInv, TypeOK, WriterView, NewTree, Rotation, PendingRoom, Procs, fileVars, Opened, Building
<1> QED
  BY <1>1, <1>3, <1>4 DEF StoreInv

(* The daemon that was killed is started again. *)
LEMMA StartKeeps ==
  ASSUME OneWriter, StoreInv, Start(First)
  PROVE  StoreInv'
<1> USE DEF OneWriter, StoreAssumption
<1>0. /\ st' = [st EXCEPT ![First] = "open"] /\ st[First] = "off"
      /\ UNCHANGED <<fileVars, map, jfile, seen, new, old, pending, timer, owner, total, since>>
  BY DEF Start, Goto
<1>1. /\ st' \in [Procs -> States] /\ seen' \in [Procs -> Nat]
      /\ \A q \in Procs : seen'[q] \in 0 .. Mapped(q)'
      /\ Closed' /\ CurrentWhole' /\ TreesUnused' /\ owner' = First
      /\ (\A t \in Trees : linked[t] \in {0, 1})'
  BY <1>0, PhaseKeeps DEF States, Procs
<1>3. TypeOK'
  BY <1>0, <1>1 DEF StoreInv, TypeOK, fileVars
<1>4. WriterView' /\ NewTree' /\ Rotation' /\ PendingRoom'
  BY <1>0 DEF StoreInv, TypeOK, WriterView, NewTree, Rotation, PendingRoom, Procs, fileVars, Opened, Building
<1> QED
  BY <1>1, <1>3, <1>4 DEF StoreInv

(* The file that is replaced is opened, for its flag. *)
LEMMA OpenOldKeeps ==
  ASSUME OneWriter, StoreInv, OpenOld(First)
  PROVE  StoreInv'
<1> USE DEF OneWriter, StoreAssumption
<1>0. /\ st' = [st EXCEPT ![First] = "rename"] /\ st[First] = "open_old"
      /\ old' = [old EXCEPT ![First] = cur]
      /\ UNCHANGED <<fileVars, map, jfile, seen, new, pending, timer, owner, total, since>>
  BY DEF OpenOld, Goto
<1>1. /\ st' \in [Procs -> States] /\ seen' \in [Procs -> Nat]
      /\ \A q \in Procs : seen'[q] \in 0 .. Mapped(q)'
      /\ Closed' /\ CurrentWhole' /\ TreesUnused' /\ owner' = First
      /\ (\A t \in Trees : linked[t] \in {0, 1})'
  BY <1>0, PhaseKeeps DEF States, FlushStates, Procs
<1>2. old' \in [Writers -> 0 .. used]
  BY <1>0 DEF StoreInv, TypeOK, Trees
<1>3. TypeOK'
  BY <1>0, <1>1, <1>2 DEF StoreInv, TypeOK, fileVars
<1>4. WriterView' /\ NewTree' /\ Rotation' /\ PendingRoom'
  BY <1>0 DEF StoreInv, TypeOK, WriterView, NewTree, Rotation, PendingRoom, Procs, fileVars, Opened, Building
<1> QED
  BY <1>1, <1>3, <1>4 DEF StoreInv

(* A flush that fails leaves the store as it was. *)
LEMMA FlushFailsKeeps ==
  ASSUME OneWriter, StoreInv, FlushFails(First)
  PROVE  StoreInv'
<1> USE DEF OneWriter, StoreAssumption
<1>0. /\ st' = [st EXCEPT ![First] = "ready"] /\ st[First] \in {"write", "create", "rename"}
      /\ pending' = [pending EXCEPT ![First] = FALSE]
      /\ UNCHANGED <<fileVars, map, jfile, seen, new, old, timer, owner, total, since>>
  BY DEF FlushFails, Goto, StoreInv
<1>1. /\ st' \in [Procs -> States] /\ seen' \in [Procs -> Nat]
      /\ \A q \in Procs : seen'[q] \in 0 .. Mapped(q)'
      /\ Closed' /\ CurrentWhole' /\ TreesUnused' /\ owner' = First
      /\ (\A t \in Trees : linked[t] \in {0, 1})'
  BY <1>0, PhaseKeeps DEF States, FlushStates, Procs
<1>2. pending' \in [Writers -> BOOLEAN] /\ PendingRoom'
  BY <1>0 DEF StoreInv, TypeOK, PendingRoom
<1>3. TypeOK'
  BY <1>0, <1>1, <1>2 DEF StoreInv, TypeOK, fileVars
<1>4. WriterView' /\ NewTree' /\ Rotation'
  BY <1>0 DEF StoreInv, TypeOK, WriterView, NewTree, Rotation, Procs, fileVars, Opened, Building
<1> QED
  BY <1>1, <1>2, <1>3, <1>4 DEF StoreInv

(* An entry is appended to the journal in the directory, so the pair that  *)
(* is there goes on having everything.                                     *)
LEMMA AddEntryKeeps ==
  ASSUME OneWriter, StoreInv, st[First] = "ready", total < MaxEntries,
         ~Full(First), AddEntry(First),
         UNCHANGED <<cur, used, base, rotated, linked, map, jfile, owner, since>>
  PROVE  /\ num' \in [Trees \X (1 .. 2) -> 0 .. JournalSize]
         /\ total' \in 0 .. MaxEntries /\ since' \in [Procs -> 0 .. total']
         /\ seen' \in [Procs -> Nat]
         /\ \A q \in Procs : seen'[q] \in 0 .. Mapped(q)'
         /\ CurrentWhole' /\ TreesUnused' /\ owner' = First
         /\ (\A t \in Trees : linked[t] \in {0, 1})'
         /\ seen'[First] = num'[<<cur, 1>>]
         /\ \A q \in Procs : q # First => seen'[q] = seen[q]
<1> USE DEF OneWriter, StoreAssumption
<1>0. /\ map[First] = cur /\ jfile[First] = 1 /\ seen[First] = num[<<cur, 1>>]
      /\ cur \in Trees /\ cur \in 1 .. used /\ First \in Procs
  <2>1. map[First] = cur /\ jfile[First] = 1 /\ seen[First] = num[<<cur, 1>>] /\ First \in Procs
    BY DEF StoreInv, WriterView, Opened, Procs
  <2> QED
    BY <2>1 DEF StoreInv, TypeOK, Trees
<1>1. num[<<cur, 1>>] \in 0 .. JournalSize /\ num[<<cur, 1>>] # JournalSize
  BY <1>0 DEF StoreInv, TypeOK, Full
<1>2. /\ num' = [num EXCEPT ![<<cur, 1>>] = num[<<cur, 1>>] + 1]
      /\ seen' = [seen EXCEPT ![First] = num[<<cur, 1>>] + 1]
      /\ total' = total + 1
  BY <1>0 DEF AddEntry, StoreInv
<1>10. num[<<cur, 1>>] + 1 \in 0 .. JournalSize /\ num[<<cur, 1>>] + 1 \in Nat
  BY <1>1
<1>3. num' \in [Trees \X (1 .. 2) -> 0 .. JournalSize]
  BY <1>10, <1>2 DEF StoreInv, TypeOK
<1>4. total' \in 0 .. MaxEntries /\ since' \in [Procs -> 0 .. total'] /\ total \in Nat
  BY <1>2 DEF StoreInv, TypeOK
<1>5. num'[<<cur, 1>>] = num[<<cur, 1>>] + 1 /\ seen'[First] = num[<<cur, 1>>] + 1
  BY <1>0, <1>2 DEF StoreInv, TypeOK
<1>6. seen' \in [Procs -> Nat] /\ \A q \in Procs : q # First => seen'[q] = seen[q]
  BY <1>10, <1>2 DEF StoreInv
<1>7. ASSUME NEW q \in Procs PROVE seen'[q] \in 0 .. Mapped(q)'
  <2>1. CASE q = First
    BY <2>1, <1>0, <1>1, <1>5 DEF Mapped, StoreInv, Trees
  <2>2. CASE q # First
    <3>1. seen'[q] \in 0 .. Mapped(q)
      BY <2>2, <1>6 DEF StoreInv, TypeOK
    <3>2. Mapped(q) \in Nat /\ Mapped(q)' \in Nat /\ Mapped(q) <= Mapped(q)'
      <4>1. CASE map[q] = 0 \/ jfile[q] = 0
        BY <4>1 DEF Mapped
      <4>2. CASE map[q] # 0 /\ jfile[q] # 0 /\ <<map[q], jfile[q]>> = <<cur, 1>>
        BY <4>2, <1>1, <1>5 DEF Mapped
      <4>3. CASE map[q] # 0 /\ jfile[q] # 0 /\ <<map[q], jfile[q]>> # <<cur, 1>>
        <5>1. <<map[q], jfile[q]>> \in Trees \X (1 .. 2)
          BY <4>3 DEF StoreInv, TypeOK, Trees
        <5>2. num'[<<map[q], jfile[q]>>] = num[<<map[q], jfile[q]>>]
          BY <5>1, <4>3, <1>2 DEF StoreInv, TypeOK
        <5> QED
          BY <5>1, <5>2, <4>3 DEF Mapped, StoreInv, TypeOK
      <4> QED
        BY <4>1, <4>2, <4>3
    <3> QED
      BY <3>1, <3>2
  <2> QED
    BY <2>1, <2>2
<1>8. CurrentWhole'
  BY <1>0, <1>1, <1>2, <1>4, <1>5 DEF StoreInv, TypeOK, CurrentWhole
<1>9. TreesUnused'
  <2>1. cur \in 1 .. used /\ used \in Nat
    BY DEF StoreInv, TypeOK, Trees
  <2>2. ASSUME NEW t \in Trees, t > used
        PROVE  ~rotated[t] /\ num'[<<t, 1>>] = num[<<t, 1>>]
    <3>1. <<t, 1>> # <<cur, 1>> /\ <<t, 1>> \in Trees \X (1 .. 2)
      BY <2>1, <2>2 DEF Trees
    <3>2. num'[<<t, 1>>] = num[<<t, 1>>]
      BY <3>1, <1>2 DEF StoreInv, TypeOK
    <3> QED
      BY <3>2, <2>2 DEF StoreInv, TreesUnused
  <2> QED
    BY <2>2, <1>0 DEF StoreInv, TreesUnused
<1> QED
  BY <1>0, <1>3, <1>4, <1>5, <1>6, <1>7, <1>8, <1>9 DEF StoreInv

(* A request is written, or makes the daemon flush. *)
LEMMA SetKeeps ==
  ASSUME OneWriter, StoreInv, Set(First)
  PROVE  StoreInv'
<1> USE DEF OneWriter, StoreAssumption
<1>0. /\ st[First] = "ready" /\ total < MaxEntries /\ First \in Procs
      /\ timer' = [timer EXCEPT ![First] = TRUE]
      /\ UNCHANGED <<cur, used, base, rotated, linked, map, jfile, new, old, owner, since>>
  BY DEF Set, Procs
<1>1. timer' \in [Writers -> BOOLEAN]
  BY <1>0 DEF StoreInv, TypeOK
<1>2. CASE Full(First)
  <2>0. /\ st' = [st EXCEPT ![First] = "write"] /\ pending' = [pending EXCEPT ![First] = TRUE]
        /\ UNCHANGED <<num, seen, total>>
    BY <1>2 DEF Set, Goto
  <2>1. /\ st' \in [Procs -> States] /\ seen' \in [Procs -> Nat]
        /\ \A q \in Procs : seen'[q] \in 0 .. Mapped(q)'
        /\ Closed' /\ CurrentWhole' /\ TreesUnused' /\ owner' = First
        /\ (\A t \in Trees : linked[t] \in {0, 1})'
    BY <1>0, <2>0, PhaseKeeps DEF States, FlushStates, fileVars
  <2>2. pending' \in [Writers -> BOOLEAN] /\ PendingRoom'
    BY <1>0, <2>0 DEF StoreInv, TypeOK, PendingRoom
  <2>3. TypeOK'
    BY <1>0, <1>1, <2>0, <2>1, <2>2 DEF StoreInv, TypeOK
  <2>4. WriterView' /\ NewTree' /\ Rotation'
    BY <1>0, <2>0 DEF StoreInv, TypeOK, WriterView, NewTree, Rotation, Opened, Building
  <2> QED
    BY <2>1, <2>2, <2>3, <2>4 DEF StoreInv
<1>3. CASE ~Full(First)
  <2>0. AddEntry(First) /\ UNCHANGED <<st, pending>> /\ ~pending[First]
    BY <1>3 DEF Set
  <2>1. /\ num' \in [Trees \X (1 .. 2) -> 0 .. JournalSize]
        /\ total' \in 0 .. MaxEntries /\ since' \in [Procs -> 0 .. total']
        /\ seen' \in [Procs -> Nat]
        /\ \A q \in Procs : seen'[q] \in 0 .. Mapped(q)'
        /\ CurrentWhole' /\ TreesUnused' /\ owner' = First
        /\ (\A t \in Trees : linked[t] \in {0, 1})'
        /\ seen'[First] = num'[<<cur, 1>>]
        /\ \A q \in Procs : q # First => seen'[q] = seen[q]
    BY <1>0, <1>3, <2>0, AddEntryKeeps
  <2>3. TypeOK'
    BY <1>0, <1>1, <2>0, <2>1 DEF StoreInv, TypeOK
  <2>4. WriterView' /\ NewTree' /\ Rotation'
    BY <1>0, <2>0, <2>1 DEF StoreInv, TypeOK, WriterView, NewTree, Rotation, Opened, Building
  <2>5. Closed' /\ PendingRoom'
    BY <1>0, <2>0, <2>1 DEF StoreInv, Closed, PendingRoom
  <2> QED
    BY <2>1, <2>3, <2>4, <2>5 DEF StoreInv
<1> QED
  BY <1>2, <1>3

(* The entry that waited for room is written, or refused. *)
LEMMA SetPendingKeeps ==
  ASSUME OneWriter, StoreInv, SetPending(First)
  PROVE  StoreInv'
<1> USE DEF OneWriter, StoreAssumption
<1>0. /\ st[First] = "ready" /\ total < MaxEntries /\ First \in Procs
      /\ pending' = [pending EXCEPT ![First] = FALSE]
      /\ UNCHANGED <<cur, used, base, rotated, linked, st, map, jfile, new, old, timer, owner, since>>
  BY DEF SetPending, Procs, StoreInv, PendingRoom
<1>1. pending' \in [Writers -> BOOLEAN] /\ PendingRoom'
  BY <1>0 DEF StoreInv, TypeOK, PendingRoom
<1>2. CASE UNCHANGED <<num, seen, total>>
  <2>1. TypeOK'
    <3>1. \A q \in Procs : seen'[q] \in 0 .. Mapped(q)'
      BY <1>0, <1>2, ViewKept DEF StoreInv
    <3> QED
      BY <3>1, <1>0, <1>1, <1>2 DEF StoreInv, TypeOK
  <2>2. CurrentWhole' /\ TreesUnused' /\ owner' = First
        /\ (\A t \in Trees : linked[t] \in {0, 1})' /\ seen' \in [Procs -> Nat]
    BY <1>0, <1>2, FilesKept DEF StoreInv, fileVars
  <2>3. WriterView' /\ NewTree' /\ Rotation' /\ Closed'
    BY <1>0, <1>2 DEF StoreInv, WriterView, NewTree, Rotation, Closed
  <2> QED
    BY <1>1, <2>1, <2>2, <2>3 DEF StoreInv
<1>3. CASE ~Full(First) /\ AddEntry(First)
  <2>1. /\ num' \in [Trees \X (1 .. 2) -> 0 .. JournalSize]
        /\ total' \in 0 .. MaxEntries /\ since' \in [Procs -> 0 .. total']
        /\ seen' \in [Procs -> Nat]
        /\ \A q \in Procs : seen'[q] \in 0 .. Mapped(q)'
        /\ CurrentWhole' /\ TreesUnused' /\ owner' = First
        /\ (\A t \in Trees : linked[t] \in {0, 1})'
        /\ seen'[First] = num'[<<cur, 1>>]
        /\ \A q \in Procs : q # First => seen'[q] = seen[q]
    BY <1>0, <1>3, AddEntryKeeps
  <2>3. TypeOK'
    BY <1>0, <1>1, <2>1 DEF StoreInv, TypeOK
  <2>4. WriterView' /\ NewTree' /\ Rotation' /\ Closed'
    BY <1>0, <2>1 DEF StoreInv, TypeOK, WriterView, NewTree, Rotation, Closed, Opened, Building
  <2> QED
    BY <1>1, <2>1, <2>3, <2>4 DEF StoreInv
<1> QED
  BY <1>2, <1>3 DEF SetPending

(* The new tree is written with all that the daemon has seen. *)
LEMMA WriteTmpKeeps ==
  ASSUME OneWriter, StoreInv, WriteTmp(First)
  PROVE  StoreInv'
<1> USE DEF OneWriter, StoreAssumption
<1> DEFINE n == used + 1
<1>0. /\ st[First] = "write" /\ st' = [st EXCEPT ![First] = "create"] /\ used' = n
      /\ base' = [base EXCEPT ![n] = View(First)] /\ new' = [new EXCEPT ![First] = n]
      /\ used < MaxTrees
      /\ UNCHANGED <<cur, rotated, linked, num, map, jfile, seen, old, pending, timer, owner, total, since>>
  BY DEF WriteTmp, Goto, FlushContent
<1>1. /\ used \in Nat /\ n \in Trees /\ n \in Nat /\ cur \in 1 .. used /\ First \in Procs
      /\ \A p \in Procs : map[p] \in 0 .. used
  BY <1>0 DEF StoreInv, TypeOK, Trees, Procs
<1>2. View(First) = total /\ total \in 0 .. MaxEntries
  BY <1>0 DEF StoreInv, TypeOK, View, WriterView, CurrentWhole, Opened
<1>3. base' \in [Trees -> 0 .. MaxEntries] /\ base'[n] = total /\ base'[cur] = base[cur]
  <2>1. n # cur
    BY <1>1
  <2>2. cur \in Trees
    BY <1>1 DEF Trees, StoreInv, TypeOK
  <2> QED
    BY <2>1, <2>2, <1>0, <1>1, <1>2 DEF StoreInv, TypeOK
<1>4. /\ 0 .. used \subseteq 0 .. n /\ 1 .. used \subseteq 1 .. n /\ n \in 1 .. n
  BY <1>1
<1>5. TypeOK'
  <2>1. \A q \in Procs : seen'[q] \in 0 .. Mapped(q)'
    BY <1>0, ViewKept DEF StoreInv
  <2>2. new' \in [Writers -> 0 .. n] /\ old' \in [Writers -> 0 .. n] /\ map' \in [Procs -> 0 .. n]
    <3> HIDE DEF n
    <3>1. n \in 0 .. n
      BY <1>1
    <3> QED
      BY <3>1, <1>0, <1>4 DEF StoreInv, TypeOK
  <2>3. st' \in [Procs -> States] /\ cur' \in 1 .. used' /\ used' \in Trees
    BY <1>0, <1>1, <1>4 DEF StoreInv, TypeOK, States, FlushStates
  <2> HIDE DEF n
  <2> QED
    BY <2>1, <2>2, <2>3, <1>0, <1>3 DEF StoreInv, TypeOK
<1>6. WriterView' /\ Rotation' /\ PendingRoom' /\ Closed' /\ CurrentWhole'
  BY <1>0, <1>1, <1>3 DEF StoreInv, TypeOK, WriterView, Rotation, PendingRoom, Closed, CurrentWhole, Opened, Building
<1>7. TreesUnused'
  BY <1>0, <1>1 DEF StoreInv, TypeOK, TreesUnused, Trees
<1>8. NewTree'
  <2>1. new'[First] = n
    BY <1>0 DEF StoreInv, TypeOK
  <2>2. ~rotated[n] /\ num[<<n, 1>>] = 0
    BY <1>1 DEF StoreInv, TreesUnused
  <2>3. n # cur /\ \A p \in Procs : map[p] # n
    BY <1>1
  <2> HIDE DEF n
  <2> QED
    BY <2>1, <2>2, <2>3, <1>0, <1>3, <1>4 DEF NewTree
<1> QED
  BY <1>0, <1>5, <1>6, <1>7, <1>8 DEF StoreInv

(* The new tree gets its empty journal. *)
LEMMA CreateNewJournalKeeps ==
  ASSUME OneWriter, StoreInv, CreateNewJournal(First)
  PROVE  StoreInv'
<1> USE DEF OneWriter, StoreAssumption
<1>0. /\ st[First] = "create" /\ st' = [st EXCEPT ![First] = "open_old"]
      /\ linked' = [linked EXCEPT ![new[First]] = 1]
      /\ UNCHANGED <<cur, used, base, rotated, num, map, jfile, seen, new, old, pending, timer, owner, total, since>>
  BY DEF CreateNewJournal, Goto
<1>1. new[First] \in Trees /\ new[First] # cur /\ First \in Procs /\ cur \in Trees
  BY <1>0 DEF StoreInv, TypeOK, NewTree, Building, Trees, Procs
<1>2. /\ linked' \in [Trees -> 0 .. 2] /\ linked'[new[First]] = 1 /\ linked'[cur] = linked[cur]
      /\ (\A t \in Trees : linked[t] \in {0, 1})'
  BY <1>0, <1>1 DEF StoreInv, TypeOK
<1>3. TypeOK'
  <2>1. \A q \in Procs : seen'[q] \in 0 .. Mapped(q)'
    BY <1>0, ViewKept DEF StoreInv
  <2>2. st' \in [Procs -> States]
    BY <1>0 DEF StoreInv, TypeOK, States, FlushStates
  <2> QED
    BY <2>1, <2>2, <1>0, <1>2 DEF StoreInv, TypeOK
<1>4. WriterView' /\ NewTree' /\ Rotation'
  BY <1>0, <1>1, <1>2 DEF StoreInv, TypeOK, WriterView, NewTree, Rotation, Opened, Building
<1>5. CurrentWhole' /\ TreesUnused' /\ Closed' /\ PendingRoom'
  BY <1>0, <1>1, <1>2 DEF StoreInv, TypeOK, CurrentWhole, TreesUnused, Closed, PendingRoom
<1> QED
  BY <1>0, <1>2, <1>3, <1>4, <1>5 DEF StoreInv

(* The name passes to a pair that has all that was accepted. *)
LEMMA RenameKeeps ==
  ASSUME OneWriter, StoreInv, Rename(First)
  PROVE  StoreInv'
<1> USE DEF OneWriter, StoreAssumption
<1>0. /\ st[First] = "rename" /\ st' = [st EXCEPT ![First] = "mark"]
      /\ cur' = new[First]
      /\ UNCHANGED <<used, base, rotated, linked, num, map, jfile, seen, new, old, pending, timer, owner, total, since>>
  BY DEF Rename, Goto
<1>1. /\ new[First] \in 1 .. used /\ new[First] # cur /\ First \in Procs
      /\ base[new[First]] = total /\ num[<<new[First], 1>>] = 0 /\ ~rotated[new[First]]
      /\ linked[new[First]] = 1 /\ old[First] = cur /\ total \in Nat
  BY <1>0 DEF StoreInv, TypeOK, NewTree, Rotation, Building, Procs
<1>2. TypeOK'
  <2>1. \A q \in Procs : seen'[q] \in 0 .. Mapped(q)'
    BY <1>0, ViewKept DEF StoreInv
  <2>2. st' \in [Procs -> States]
    BY <1>0 DEF StoreInv, TypeOK, States, FlushStates
  <2> QED
    BY <2>1, <2>2, <1>0, <1>1 DEF StoreInv, TypeOK
<1>3. CurrentWhole' /\ TreesUnused' /\ Closed' /\ PendingRoom'
  BY <1>0, <1>1 DEF StoreInv, TypeOK, CurrentWhole, TreesUnused, Closed, PendingRoom
<1>4. old[First] # 0
  BY <1>1 DEF StoreInv, TypeOK, Trees
<1>5. WriterView' /\ NewTree' /\ Rotation'
  BY <1>0, <1>1, <1>4 DEF StoreInv, TypeOK, WriterView, NewTree, Rotation, Opened, Building
<1> QED
  BY <1>0, <1>2, <1>3, <1>5 DEF StoreInv

(* Only a pair that is no longer in the directory is marked. *)
LEMMA MarkKeeps ==
  ASSUME OneWriter, StoreInv, Mark(First)
  PROVE  StoreInv'
<1> USE DEF OneWriter, StoreAssumption
<1>0. /\ st[First] = "mark" /\ st' = [st EXCEPT ![First] = "unlink"]
      /\ rotated' = [rotated EXCEPT ![old[First]] = TRUE]
      /\ UNCHANGED <<cur, used, base, linked, num, map, jfile, seen, new, old, pending, timer, owner, total, since>>
  BY DEF Mark, MarkRotated, Goto
<1>1. old[First] # cur /\ old[First] \in 1 .. used /\ First \in Procs /\ used \in Nat
  BY <1>0 DEF StoreInv, TypeOK, Rotation, Procs, Trees
<1>2. rotated' \in [Trees -> BOOLEAN]
  BY <1>0 DEF StoreInv, TypeOK
<1>3. ~rotated'[cur] /\ \A t \in Trees : t > used => ~rotated'[t]
  <2>0. cur \in Trees
    BY DEF StoreInv, TypeOK, Trees
  <2>1. ~rotated[cur] /\ \A t \in Trees : t > used => ~rotated[t]
    BY DEF StoreInv, CurrentWhole, TreesUnused
  <2>2. \A t \in Trees : t > used => t # old[First]
    BY <1>1 DEF Trees
  <2> QED
    BY <2>0, <2>1, <2>2, <1>0, <1>1 DEF StoreInv, TypeOK
<1>4. TypeOK'
  <2>1. \A q \in Procs : seen'[q] \in 0 .. Mapped(q)'
    BY <1>0, ViewKept DEF StoreInv
  <2>2. st' \in [Procs -> States]
    BY <1>0 DEF StoreInv, TypeOK, States, FlushStates
  <2> QED
    BY <2>1, <2>2, <1>0, <1>2 DEF StoreInv, TypeOK
<1>5. CurrentWhole' /\ TreesUnused' /\ Closed' /\ PendingRoom'
  BY <1>0, <1>3 DEF StoreInv, TypeOK, CurrentWhole, TreesUnused, Closed, PendingRoom
<1>6. WriterView' /\ NewTree' /\ Rotation'
  BY <1>0, <1>1 DEF StoreInv, TypeOK, WriterView, NewTree, Rotation, Opened, Building
<1> QED
  BY <1>0, <1>4, <1>5, <1>6 DEF StoreInv

(* Only the journal of such a pair is deleted. *)
LEMMA UnlinkKeeps ==
  ASSUME OneWriter, StoreInv, Unlink(First)
  PROVE  StoreInv'
<1> USE DEF OneWriter, StoreAssumption
<1>0. /\ st[First] = "unlink" /\ st' = [st EXCEPT ![First] = "open"]
      /\ linked' = [linked EXCEPT ![old[First]] = 0]
      /\ map' = [map EXCEPT ![First] = 0] /\ jfile' = [jfile EXCEPT ![First] = 0]
      /\ seen' = [seen EXCEPT ![First] = 0]
      /\ UNCHANGED <<cur, used, base, rotated, num, new, old, pending, timer, owner, total, since>>
  BY DEF Unlink, Goto, StoreInv
<1>1. old[First] # cur /\ First \in Procs /\ cur \in Trees /\ used \in Nat
  BY <1>0 DEF StoreInv, TypeOK, Rotation, Procs, Trees
<1>2. /\ linked' \in [Trees -> 0 .. 2] /\ linked'[cur] = linked[cur]
      /\ (\A t \in Trees : linked[t] \in {0, 1})'
  <2>1. linked \in [Trees -> {0, 1}]
    BY DEF StoreInv, TypeOK
  <2>2. linked' \in [Trees -> {0, 1}] /\ linked'[cur] = linked[cur]
    BY <2>1, <1>0, <1>1
  <2> QED
    BY <2>2
<1>3. TypeOK'
  <2>1. ASSUME NEW q \in Procs PROVE seen'[q] \in 0 .. Mapped(q)'
    <3>1. CASE q = First
      BY <3>1, <1>0 DEF StoreInv, TypeOK, Mapped
    <3>2. CASE q # First
      BY <3>2, <1>0 DEF StoreInv, TypeOK, Mapped
    <3> QED
      BY <3>1, <3>2
  <2>2. st' \in [Procs -> States] /\ map' \in [Procs -> 0 .. used] /\ jfile' \in [Procs -> 0 .. 2]
    BY <1>0, <1>1 DEF StoreInv, TypeOK, States
  <2> QED
    BY <2>1, <2>2, <1>0, <1>2 DEF StoreInv, TypeOK
<1>4. CurrentWhole' /\ TreesUnused' /\ Closed' /\ PendingRoom' /\ seen' \in [Procs -> Nat]
  BY <1>0, <1>2 DEF StoreInv, TypeOK, CurrentWhole, TreesUnused, Closed, PendingRoom
<1>5. WriterView' /\ NewTree' /\ Rotation'
  BY <1>0, <1>1 DEF StoreInv, TypeOK, WriterView, NewTree, Rotation, Opened, Building
<1> QED
  BY <1>0, <1>2, <1>3, <1>4, <1>5 DEF StoreInv

(* The daemon is killed at any of its steps: the files stay. *)
LEMMA CrashKeeps ==
  ASSUME OneWriter, StoreInv, Crash(First)
  PROVE  StoreInv'
<1> USE DEF OneWriter, StoreAssumption
<1>0. /\ st' = [st EXCEPT ![First] = "off"]
      /\ map' = [map EXCEPT ![First] = 0] /\ jfile' = [jfile EXCEPT ![First] = 0]
      /\ seen' = [seen EXCEPT ![First] = 0]
      /\ pending' = [pending EXCEPT ![First] = FALSE] /\ timer' = [timer EXCEPT ![First] = FALSE]
      /\ UNCHANGED <<fileVars, new, old, owner, total, since>>
  BY DEF Crash, Goto
<1>1. First \in Procs /\ used \in Nat
  BY DEF StoreInv, TypeOK, Procs, Trees
<1>2. pending' \in [Writers -> BOOLEAN] /\ timer' \in [Writers -> BOOLEAN] /\ ~pending'[First]
  BY <1>0 DEF StoreInv, TypeOK
<1>3. TypeOK'
  <2>1. ASSUME NEW q \in Procs PROVE seen'[q] \in 0 .. Mapped(q)'
    <3>1. CASE q = First
      BY <3>1, <1>0 DEF StoreInv, TypeOK, Mapped
    <3>2. CASE q # First
      BY <3>2, <1>0 DEF StoreInv, TypeOK, Mapped, fileVars
    <3> QED
      BY <3>1, <3>2
  <2>2. st' \in [Procs -> States] /\ map' \in [Procs -> 0 .. used] /\ jfile' \in [Procs -> 0 .. 2]
    BY <1>0, <1>1 DEF StoreInv, TypeOK, States
  <2> QED
    BY <2>1, <2>2, <1>0, <1>2 DEF StoreInv, TypeOK, fileVars
<1>4. Closed' /\ PendingRoom' /\ seen' \in [Procs -> Nat]
  BY <1>0, <1>2 DEF StoreInv, TypeOK, Closed, PendingRoom
<1>5. WriterView' /\ NewTree' /\ Rotation'
  BY <1>0, <1>1 DEF StoreInv, TypeOK, WriterView, NewTree, Rotation, Opened, Building
<1> QED
  BY <1>0, <1>3, <1>4, <1>5, FilesKept DEF StoreInv

(* Every step keeps the invariant; nobody takes the name over. *)
LEMMA StoreStep ==
  ASSUME OneWriter, StoreInv, [Next]_vars
  PROVE  StoreInv'
<1>1. CASE UNCHANGED vars
  <2>1. UNCHANGED <<fileVars, viewVars, new, old, pending, timer, owner, total, since>>
    BY <1>1 DEF vars
  <2>2. TypeOK'
    <3>1. \A q \in Procs : seen'[q] \in 0 .. Mapped(q)'
      BY <2>1, ViewKept DEF StoreInv, fileVars, viewVars
    <3> QED
      BY <3>1, <2>1 DEF StoreInv, TypeOK, fileVars, viewVars
  <2>3. WriterView' /\ NewTree' /\ Rotation' /\ Closed' /\ PendingRoom'
    BY <2>1 DEF StoreInv, WriterView, NewTree, Rotation, Closed, PendingRoom, fileVars, viewVars
  <2> QED
    BY <2>1, <2>2, <2>3, FilesKept DEF StoreInv, viewVars
<1>2. ASSUME NEW p \in Procs, ViewStep(p) \/ Refresh(p) PROVE StoreInv'
  BY <1>2, OpenTreeKeeps, OpenJournalKeeps, CheckKeeps, RefreshKeeps DEF ViewStep
<1>3. ASSUME NEW w \in Writers, FlushStep(w) PROVE StoreInv'
  BY <1>3, WriteTmpKeeps, CreateNewJournalKeeps, OpenOldKeeps, RenameKeeps, MarkKeeps,
     UnlinkKeeps, FlushFailsKeeps DEF FlushStep, OneWriter
<1>4. ASSUME NEW w \in Writers,
             Set(w) \/ SetPending(w) \/ WriteoutTimeout(w) \/ Crash(w) \/ Start(w) \/ Replace(w)
      PROVE  StoreInv'
  BY <1>4, SetKeeps, SetPendingKeeps, WriteoutTimeoutKeeps, CrashKeeps, StartKeeps
     DEF OneWriter, Replace
<1> QED
  BY <1>1, <1>2, <1>3, <1>4 DEF Next

(* The invariant holds in every state, whatever the sizes and the faults:  *)
(* the daemon may fail or be killed at any of its system calls.            *)
THEOREM StoreInvariant == OneWriter => (Spec => []StoreInv)
<1> SUFFICES ASSUME OneWriter PROVE Spec => []StoreInv
  OBVIOUS
<1>1. Init => StoreInv
  BY StoreInit
<1>2. StoreInv /\ [Next]_vars => StoreInv'
  BY StoreStep
<1> QED
  BY <1>1, <1>2, PTL DEF Spec

(* Every variable keeps its type, and no process sees more of a journal    *)
(* than there is.                                                          *)
THEOREM StoreTypes == OneWriter => (Spec => []TypeOK)
<1> SUFFICES ASSUME OneWriter PROVE Spec => []TypeOK
  OBVIOUS
<1>1. StoreInv => TypeOK
  BY DEF StoreInv
<1> QED
  BY <1>1, StoreInvariant, PTL

(* What was accepted is in the pair that the directory holds, at every     *)
(* step of a rotation (meta_builder_write, metabuilder.c:1194).            *)
THEOREM NothingLost == OneWriter => (Spec => []Durable)
<1> SUFFICES ASSUME OneWriter PROVE Spec => []Durable
  OBVIOUS
<1>1. StoreInv => Durable
  BY DEF StoreInv, CurrentWhole, Durable
<1> QED
  BY <1>1, StoreInvariant, PTL

(* The daemon appends to the journal other processes look at.              *)
THEOREM AppendsSeen == OneWriter => (Spec => []WriterOnCurrent)
<1> SUFFICES ASSUME OneWriter PROVE Spec => []WriterOnCurrent
  OBVIOUS
<1>1. StoreInv => WriterOnCurrent
  BY DEF StoreInv, WriterView, CurrentWhole, WriterOnCurrent, OneWriter, Opened
<1> QED
  BY <1>1, StoreInvariant, PTL

(* A step of the daemon outside the exchange of the pairs does not touch   *)
(* what a reader looks at.                                                 *)
LEMMA DaemonElsewhere ==
  ASSUME Calm, StoreInv, ReadersInv,
         st[First] # "mark", st'[First] # "unlink", UNCHANGED <<cur, rotated>>,
         \A r \in Readers : st'[r] = st[r] /\ map'[r] = map[r] /\ jfile'[r] = jfile[r],
         \A t \in Trees : linked'[t] = 0 => linked[t] = 0
  PROVE  ReadersInv'
<1>1. ASSUME NEW r \in Readers PROVE ReaderView(r)'
  <2>1. ReaderView(r) /\ (map[r] # 0 => map[r] \in Trees)
    BY DEF ReadersInv, StoreInv, TypeOK, Trees, Calm, OneWriter, StoreAssumption, Procs
  <2>2. map[r] # 0 => Attached(r)'
    BY <2>1 DEF ReaderView, Attached
  <2> QED
    BY <2>1, <2>2 DEF ReaderView
<1> QED
  BY <1>1 DEF ReadersInv

(* A step of a reader changes no file. *)
LEMMA ReaderSteps ==
  ASSUME Calm, StoreInv, ReadersInv, NEW p \in Readers, ViewStep(p) \/ Refresh(p)
  PROVE  ReadersInv'
<1> USE DEF Calm, OneWriter, StoreAssumption
<1>0. /\ p \in Procs /\ p # First /\ First \in Procs /\ ReaderView(p)
      /\ UNCHANGED <<fileVars, old, total>>
      /\ \A q \in Procs : q # p => st'[q] = st[q] /\ map'[q] = map[q] /\ jfile'[q] = jfile[q]
  BY DEF ViewStep, OpenTree, OpenJournal, Check, Refresh, Goto, fileVars, Procs, StoreInv, TypeOK, ReadersInv
<1>1. ASSUME NEW r \in Readers, r # p PROVE ReaderView(r)'
  BY <1>0, <1>1 DEF ReadersInv, ReaderView, Attached, fileVars, Procs
<1>2. ReaderView(p)'
  <2>1. CASE OpenTree(p)
    <3>1. st'[p] = "journal" /\ map'[p] = cur /\ cur' = cur /\ linked'[cur] = 1
      BY <2>1, <1>0 DEF OpenTree, Goto, StoreInv, TypeOK, CurrentWhole, fileVars
    <3>2. Attached(p)' /\ map'[p] # 0
      <4>1. linked'[map'[p]] # 0 /\ map'[p] = cur'
        BY <3>1
      <4>2. cur # 0
        BY DEF StoreInv, TypeOK
      <4> QED
        BY <3>1, <4>1, <4>2 DEF Attached
    <3> QED
      BY <3>1, <3>2 DEF ReaderView
  <2>2. CASE OpenJournal(p)
    <3>1. st[p] = "journal" /\ st'[p] = "check" /\ map' = map /\ jfile'[p] = linked[map[p]]
      BY <2>2, <1>0 DEF OpenJournal, Goto, StoreInv, TypeOK, fileVars
    <3>2. map[p] # 0 /\ linked[map[p]] \in {0, 1} /\ Attached(p)
      BY <3>1, <1>0, MapIsTree DEF StoreInv, ReaderView
    <3> QED
      BY <3>1, <3>2, <1>0 DEF ReaderView, Attached, fileVars
  <2>3. CASE Check(p)
    <3>1. CASE NeedsRereading(p)
      <4>1. st'[p] = "open" /\ map'[p] = 0
        BY <2>3, <3>1, <1>0 DEF Check, Goto, StoreInv, TypeOK
      <4> QED
        BY <4>1 DEF ReaderView
    <3>2. CASE ~NeedsRereading(p)
      <4>1. st[p] = "check" /\ st'[p] = "ready" /\ map' = map /\ jfile' = jfile
        BY <2>3, <3>2, <1>0 DEF Check, Goto, StoreInv, TypeOK
      <4> QED
        BY <4>1, <1>0 DEF ReaderView, Attached, fileVars
    <3> QED
      BY <3>1, <3>2
  <2>4. CASE Refresh(p)
    <3>1. st[p] = "ready" /\ st'[p] = "check" /\ map' = map /\ jfile' = jfile
      BY <2>4, <1>0 DEF Refresh, Goto, StoreInv, TypeOK
    <3> QED
      BY <3>1, <1>0 DEF ReaderView, Attached, fileVars
  <2> QED
    BY <2>1, <2>2, <2>3, <2>4 DEF ViewStep
<1> QED
  BY <1>0, <1>1, <1>2 DEF ReadersInv, fileVars

(* After the rename a reader of the replaced pair is on one that will be   *)
(* marked next and has everything until then.                              *)
LEMMA RenameReaders ==
  ASSUME Calm, StoreInv, ReadersInv, Rename(First)
  PROVE  ReadersInv'
<1> USE DEF Calm, OneWriter, StoreAssumption
<1>0. /\ st[First] = "rename" /\ st' = [st EXCEPT ![First] = "mark"]
      /\ cur' = new[First] /\ First \in Procs
      /\ UNCHANGED <<used, base, rotated, linked, num, map, jfile, seen, new, old, pending, timer, owner, total, since>>
  BY DEF Rename, Goto, Procs
<1>1. /\ old[First] = cur /\ (\A q \in Procs : map[q] # new[First]) /\ linked[cur] = 1
      /\ base[cur] + num[<<cur, 1>>] = total /\ st'[First] = "mark"
      /\ \A r \in Readers : st'[r] = st[r] /\ r \in Procs
  BY <1>0 DEF StoreInv, TypeOK, Rotation, NewTree, CurrentWhole, Building, Procs
<1>2. ASSUME NEW r \in Readers PROVE ReaderView(r)'
  <2>1. ReaderView(r) /\ map[r] # new[First]
    BY <1>1 DEF ReadersInv
  <2>2. map[r] # 0 => Attached(r)'
    BY <1>0, <1>1, <2>1 DEF ReaderView, Attached
  <2> QED
    BY <1>0, <1>1, <2>1, <2>2 DEF ReaderView
<1> QED
  BY <1>1, <1>2 DEF ReadersInv

(* The mark tells such a reader to look again. *)
LEMMA MarkReaders ==
  ASSUME Calm, StoreInv, ReadersInv, Mark(First)
  PROVE  ReadersInv'
<1> USE DEF Calm, OneWriter, StoreAssumption
<1>0. /\ st[First] = "mark" /\ st' = [st EXCEPT ![First] = "unlink"]
      /\ rotated' = [rotated EXCEPT ![old[First]] = TRUE] /\ First \in Procs
      /\ UNCHANGED <<cur, used, base, linked, num, map, jfile, seen, new, old, pending, timer, owner, total, since>>
  BY DEF Mark, MarkRotated, Goto, Procs
<1>1. old[First] \in Trees
  BY <1>0 DEF StoreInv, TypeOK, Rotation, Trees
<1>2. /\ rotated'[old[First]] /\ \A t \in Trees : rotated[t] => rotated'[t]
      /\ \A r \in Readers : st'[r] = st[r] /\ r \in Procs
  BY <1>0, <1>1 DEF StoreInv, TypeOK, Procs
<1>3. ASSUME NEW r \in Readers PROVE ReaderView(r)'
  <2>1. ReaderView(r) /\ (map[r] # 0 => map[r] \in Trees)
    BY <1>2 DEF ReadersInv, StoreInv, TypeOK, Trees
  <2>2. map[r] # 0 => Attached(r)'
    BY <1>0, <1>2, <2>1 DEF ReaderView, Attached
  <2> QED
    BY <1>0, <1>2, <2>1, <2>2 DEF ReaderView
<1> QED
  BY <1>0, <1>2, <1>3 DEF ReadersInv

(* The journal that is deleted is one of a marked pair. *)
LEMMA UnlinkReaders ==
  ASSUME Calm, StoreInv, ReadersInv, Unlink(First)
  PROVE  ReadersInv'
<1> USE DEF Calm, OneWriter, StoreAssumption
<1>0. /\ st[First] = "unlink" /\ st' = [st EXCEPT ![First] = "open"]
      /\ linked' = [linked EXCEPT ![old[First]] = 0] /\ First \in Procs
      /\ map' = [map EXCEPT ![First] = 0] /\ jfile' = [jfile EXCEPT ![First] = 0]
      /\ UNCHANGED <<cur, used, base, rotated, num, new, old, pending, timer, owner, total, since>>
  BY DEF Unlink, Goto, StoreInv, Procs
<1>1. /\ rotated[old[First]] /\ old[First] # cur /\ st'[First] = "open"
      /\ \A t \in Trees : t # old[First] => linked'[t] = linked[t]
      /\ \A r \in Readers : st'[r] = st[r] /\ map'[r] = map[r] /\ jfile'[r] = jfile[r] /\ r \in Procs
  BY <1>0 DEF StoreInv, TypeOK, ReadersInv, Rotation, Procs
<1>2. ASSUME NEW r \in Readers PROVE ReaderView(r)'
  <2>1. ReaderView(r) /\ (map[r] # 0 => map[r] \in Trees)
    BY <1>1 DEF ReadersInv, StoreInv, TypeOK, Trees
  <2>2. map[r] # 0 => Attached(r)'
    BY <1>0, <1>1, <2>1 DEF ReaderView, Attached
  <2> QED
    BY <1>0, <1>1, <2>1, <2>2 DEF ReaderView
<1> QED
  BY <1>1, <1>2 DEF ReadersInv

(* Every step keeps what is said of the readers. *)
LEMMA ReadersStep ==
  ASSUME Calm, StoreInv, ReadersInv, [Next]_vars
  PROVE  ReadersInv'
<1> USE DEF Calm, OneWriter, StoreAssumption
<1>0. First \in Procs /\ (\A r \in Readers : r \in Procs /\ r # First)
      /\ Procs = Readers \cup {First}
  BY DEF Procs
<1>1. CASE UNCHANGED vars
  BY <1>1 DEF vars, fileVars, viewVars, ReadersInv, ReaderView, Attached
<1>2. ASSUME NEW p \in Procs, ViewStep(p) \/ Refresh(p) PROVE ReadersInv'
  <2>1. CASE p \in Readers
    BY <2>1, <1>2, ReaderSteps
  <2>2. CASE p = First
    <3>1. ~Refresh(p)
      BY <2>2 DEF Refresh
    <3>2. /\ st[p] # "mark" /\ st'[p] # "unlink" /\ UNCHANGED <<cur, rotated>>
          /\ \A r \in Readers : st'[r] = st[r] /\ map'[r] = map[r] /\ jfile'[r] = jfile[r]
      BY <1>0, <1>2, <2>2, <3>1
         DEF ViewStep, OpenTree, OpenJournal, Check, Goto, fileVars, StoreInv, TypeOK
    <3>3. \A t \in Trees : linked'[t] = 0 => linked[t] = 0
      BY <1>2, <3>1 DEF ViewStep, OpenTree, OpenJournal, Check, fileVars, StoreInv, TypeOK
    <3> QED
      BY <2>2, <3>2, <3>3, DaemonElsewhere
  <2> QED
    BY <1>0, <2>1, <2>2
<1>3. ASSUME FlushStep(First) PROVE ReadersInv'
  <2>1. CASE WriteTmp(First) \/ CreateNewJournal(First) \/ OpenOld(First) \/ FlushFails(First)
    <3>1. /\ st[First] # "mark" /\ st'[First] # "unlink" /\ UNCHANGED <<cur, rotated>>
          /\ \A r \in Readers : st'[r] = st[r] /\ map'[r] = map[r] /\ jfile'[r] = jfile[r]
      BY <1>0, <2>1 DEF WriteTmp, CreateNewJournal, OpenOld, FlushFails, Goto, fileVars, StoreInv, TypeOK
    <3>2. \A t \in Trees : linked'[t] = 0 => linked[t] = 0
      BY <2>1 DEF WriteTmp, CreateNewJournal, OpenOld, FlushFails, fileVars, StoreInv, TypeOK
    <3> QED
      BY <3>1, <3>2, DaemonElsewhere
  <2> QED
    BY <2>1, <1>3, RenameReaders, MarkReaders, UnlinkReaders DEF FlushStep
<1>4. ASSUME Set(First) \/ SetPending(First) \/ WriteoutTimeout(First) \/ Start(First)
      PROVE  ReadersInv'
  <2>1. /\ st[First] # "mark" /\ st'[First] # "unlink" /\ UNCHANGED <<cur, rotated, linked>>
        /\ \A r \in Readers : st'[r] = st[r] /\ map'[r] = map[r] /\ jfile'[r] = jfile[r]
    BY <1>0, <1>4 DEF Set, SetPending, WriteoutTimeout, Start, Goto, fileVars, StoreInv, TypeOK
  <2> QED
    BY <2>1, DaemonElsewhere
<1>5. ASSUME NEW w \in Writers, Crash(w) \/ Replace(w) PROVE FALSE
  BY <1>5 DEF Crash, Replace, StoreInv
<1> QED
  BY <1>1, <1>2, <1>3, <1>4, <1>5 DEF Next

(* While no daemon is killed, a lookup sees every entry that had been      *)
(* accepted when its refresh began: between the rename and the mark the    *)
(* pair it looks at is still complete, after the mark it looks again       *)
(* (meta_tree_refresh, metatree.c:493).                                    *)
THEOREM LookupsFresh == Calm => (Spec => [][ReaderFresh]_vars)
<1> SUFFICES ASSUME Calm PROVE Spec => [][ReaderFresh]_vars
  OBVIOUS
<1> USE DEF Calm
<1>1. Init => ReadersInv
  BY DEF Init, ReadersInv, ReaderView, Procs, OneWriter, StoreAssumption
<1>2. StoreInv /\ ReadersInv /\ [Next]_vars => ReadersInv'
  BY ReadersStep
<1>3. StoreInv /\ ReadersInv /\ [Next]_vars => [ReaderFresh]_vars
  <2> SUFFICES ASSUME StoreInv, ReadersInv, Next, NEW p \in Readers,
                      st[p] = "check", st'[p] = "ready"
               PROVE  base'[map'[p]] + seen'[p] >= since[p]
    BY DEF ReaderFresh
  <2> USE DEF OneWriter, StoreAssumption
  <2>0. p \in Procs /\ p # First /\ ReaderView(p)
    BY DEF Procs, ReadersInv
  <2>1. Check(p)
    <3>0. p \in DOMAIN st /\ First \in Procs
      BY <2>0 DEF StoreInv, TypeOK, Procs
    <3>1. ASSUME NEW q \in Procs, ViewStep(q) \/ Refresh(q) PROVE Check(p)
      <4>1. CASE q = p
        BY <4>1, <3>0, <3>1 DEF ViewStep, OpenTree, OpenJournal, Refresh
      <4>2. CASE q # p
        BY <4>2, <3>0, <3>1 DEF ViewStep, OpenTree, OpenJournal, Check, Refresh, Goto, StoreInv, TypeOK
      <4> QED
        BY <4>1, <4>2
    <3>2. ~FlushStep(First)
      BY <2>0, <3>0 DEF FlushStep, WriteTmp, CreateNewJournal, OpenOld, Rename, Mark, Unlink,
                  FlushFails, Goto
    <3>3. ~(Set(First) \/ SetPending(First) \/ WriteoutTimeout(First) \/ Crash(First) \/ Start(First))
      BY <2>0, <3>0 DEF Set, SetPending, WriteoutTimeout, Crash, Start, Goto
    <3>4. ~Replace(First)
      BY DEF Replace
    <3> QED
      BY <3>1, <3>2, <3>3, <3>4 DEF Next
  <2>2. ~NeedsRereading(p)
    BY <2>0, <2>1 DEF Check, Goto, StoreInv, TypeOK
  <2>3. /\ base' = base /\ map' = map /\ seen'[p] = Entries(p)
    BY <2>0, <2>1, <2>2 DEF Check, StoreInv, TypeOK
  <2>4. map[p] # 0 /\ map[p] \in Trees /\ Attached(p) /\ jfile[p] \in {0, 1}
    BY <2>0, MapIsTree DEF ReaderView
  <2>5. jfile[p] = 1
    BY <2>0, <2>2, <2>4 DEF ReaderView, NeedsRereading
  <2>6. base[map[p]] + num[<<map[p], 1>>] = total
    BY <2>2, <2>4 DEF Attached, NeedsRereading, StoreInv, CurrentWhole
  <2>7. total \in Nat /\ since[p] \in 0 .. total
    BY <2>0 DEF StoreInv, TypeOK
  <2> QED
    BY <2>3, <2>5, <2>6, <2>7 DEF Entries
<1> QED
  BY <1>1, <1>2, <1>3, StoreInvariant, PTL DEF Spec

=============================================================================
