---------------------------- MODULE MetaJournal ----------------------------
(***************************************************************************)
(* What the journal of the metadata store means.  A lookup walks the       *)
(* journal backwards and maps the path it is asked for through copies and  *)
(* removals until an entry or the tree answers (metatree.c).  A flush      *)
(* applies the same entries forwards to a builder (metabuilder.c).  The    *)
(* two must agree: a flush may change the files, never the metadata.       *)
(*                                                                         *)
(* A path is a sequence of names.  A tree is a function from a             *)
(* prefix-closed set of paths to the key values of each.                   *)
(***************************************************************************)
EXTENDS Naturals, Sequences, SequencesExt

CONSTANTS
  Names,      \* names of path elements
  Depth,      \* longest path
  Keys,
  Strings,    \* values of a string key
  Lists,      \* values of a stringv key
  MaxJournal, \* entries that fit into the journal
  MaxEntries  \* bound on the entries ever written

Unset == "unset"
JournalAssumption ==
  /\ Depth \in Nat \ {0} /\ MaxJournal \in Nat \ {0} /\ MaxEntries \in Nat
  /\ Strings \cap Lists = {} /\ Unset \notin Strings \cup Lists

Paths == UNION {[1 .. n -> Names] : n \in 0 .. Depth}
Values == Strings \cup Lists
NoKeys == [k \in Keys |-> Unset]

VARIABLES tree, journal, written
vars == <<tree, journal, written>>

-----------------------------------------------------------------------------
(* The builder (metabuilder.c).                                            *)

At(f, p, k) == IF p \in DOMAIN f THEN f[p][k] ELSE Unset
Restrict2(f, S) == [p \in S |-> f[p]]

(* meta_builder_lookup with create: the file and its missing parents *)
LookupCreate(f, p) ==
  [q \in DOMAIN f \cup {SubSeq(p, 1, n) : n \in 0 .. Len(p)} |->
     IF q \in DOMAIN f THEN f[q] ELSE NoKeys]

(* meta_builder_remove; of the root only the children can be removed *)
BuilderRemove(f, p) ==
  Restrict2(f, {q \in DOMAIN f : ~IsPrefix(p, q) \/ q = <<>>})

(* meta_builder_copy: the destination is removed, then the source, if it   *)
(* still exists, is copied as a whole                                      *)
BuilderCopy(f, src, p) ==
  LET g == BuilderRemove(f, p)
      h == LookupCreate(g, p)
      to(q) == p \o SubSeq(q, Len(src) + 1, Len(q))
      from == {q \in DOMAIN g : IsPrefix(src, q)}
      new == {to(q) : q \in from}
  IN IF src \notin DOMAIN g THEN g
     ELSE [q \in (DOMAIN h \ {r \in DOMAIN h : IsPrefix(p, r)}) \cup new |->
             IF q \in new THEN g[src \o SubSeq(q, Len(p) + 1, Len(q))] ELSE h[q]]

(* metafile_key_set_value, metafile_key_list_set, metafile_key_unset *)
BuilderKey(f, p, k, v) == [f EXCEPT ![p][k] = v]

(* One entry applied to the builder *)
ApplyEntry(f, e) ==
  CASE e.op = "set"    -> BuilderKey(LookupCreate(f, e.path), e.path, e.key, e.val)
    [] e.op = "unset"  -> IF e.path \in DOMAIN f
                          THEN BuilderKey(f, e.path, e.key, Unset) ELSE f
    [] e.op = "remove" -> BuilderRemove(f, e.path)
    [] e.op = "copy"   -> BuilderCopy(f, e.src, e.path)

(* apply_journal_to_builder, on the copy of the tree *)
ApplyJournalToBuilder(f, j) ==
  LET g[n \in 0 .. Len(j)] == IF n = 0 THEN f ELSE ApplyEntry(g[n - 1], j[n])
  IN g[Len(j)]

-----------------------------------------------------------------------------
(* Lookups (metatree.c): the journal backwards.                            *)

Done(v) == [done |-> TRUE, val |-> v, path |-> <<>>]
Go(p) == [done |-> FALSE, val |-> Unset, path |-> p]

(* journal_iter_key: does a key entry answer for the path and key? *)
JournalIterKey(e, p, k) ==
  IF e.path # p \/ e.key # k THEN Go(p)
  ELSE Done(IF e.op = "set" THEN e.val ELSE Unset)

(* journal_iter_path: a removed parent ends the walk, a copied one sends   *)
(* it to the source                                                        *)
JournalIterPath(e, p) ==
  IF ~IsPrefix(e.path, p) THEN Go(p)
  ELSE IF e.op = "remove" THEN Done(Unset)
  ELSE Go(e.src \o SubSeq(p, Len(e.path) + 1, Len(p)))

(* meta_journal_iterate, meta_journal_reverse_map_path_and_key *)
ReverseMap(j, p, k) ==
  LET walk[n \in 0 .. Len(j)] == \* after the last n entries
        IF n = 0 THEN Go(p)
        ELSE LET w == walk[n - 1]
                 e == j[Len(j) + 1 - n]
             IN IF w.done THEN w
                ELSE IF e.op \in {"set", "unset"} THEN JournalIterKey(e, w.path, k)
                ELSE JournalIterPath(e, w.path)
  IN walk[Len(j)]

(* meta_tree_lookup_string, meta_tree_lookup_stringv: the tree answers for *)
(* the path the walk ends at                                               *)
LookupKey(f, j, p, k) ==
  LET w == ReverseMap(j, p, k)
  IN IF w.done THEN w.val ELSE At(f, w.path, k)

(* meta_tree_enumerate_keys (enum_keys_iter_key, enum_keys_iter_path,      *)
(* enumerate_data): the latest key entry of each key on the mapped path,   *)
(* and the tree's keys that no entry was seen for.  A removal ends the     *)
(* walk for all keys at once.                                              *)
EnumKeys(f, j, p) ==
  LET start == [path |-> p, stop |-> FALSE, seen |-> [k \in Keys |-> <<>>]]
      walk[n \in 0 .. Len(j)] ==
        IF n = 0 THEN start
        ELSE LET w == walk[n - 1]
                 e == j[Len(j) + 1 - n]
             IN IF w.stop THEN w
                ELSE IF e.op \in {"set", "unset"}
                THEN IF e.path = w.path /\ w.seen[e.key] = <<>>
                     THEN [w EXCEPT !.seen[e.key] =
                             <<IF e.op = "set" THEN e.val ELSE Unset>>]
                     ELSE w
                ELSE IF ~IsPrefix(e.path, w.path) THEN w
                ELSE IF e.op = "remove" THEN [w EXCEPT !.stop = TRUE]
                ELSE [w EXCEPT !.path =
                        e.src \o SubSeq(w.path, Len(e.path) + 1, Len(w.path))]
      last == walk[Len(j)]
  IN [k \in Keys |-> IF last.seen[k] # <<>> THEN last.seen[k][1]
                     ELSE IF last.stop THEN Unset ELSE At(f, last.path, k)]

(* A child of the directory d on the way to the deeper path p *)
Below(p, d) == IsPrefix(d, p) /\ Len(p) > Len(d)
ChildOf(p, d) == p[Len(d) + 1]

(* enum_dir_iter_key, enum_dir_iter_path: the children that the journal    *)
(* creates and deletes, and the path whose children the tree is asked for  *)
EnumDirWalk(j, d) ==
  LET start == [path |-> d, stop |-> FALSE, exists |-> {}, deleted |-> {}]
      walk[n \in 0 .. Len(j)] ==
        IF n = 0 THEN start
        ELSE LET w == walk[n - 1]
                 e == j[Len(j) + 1 - n]
                 child == IF Below(e.path, w.path) THEN {ChildOf(e.path, w.path)} ELSE {}
                 direct == Len(e.path) = Len(w.path) + 1
                 v == IF e.op = "remove"
                      THEN [w EXCEPT !.deleted = @ \cup (IF direct THEN child ELSE {})]
                      ELSE [w EXCEPT !.exists = @ \cup (child \ w.deleted)]
             IN IF w.stop THEN w
                ELSE IF e.op \in {"set", "unset"} \/ ~IsPrefix(e.path, w.path) THEN v
                ELSE IF e.op = "remove" THEN [v EXCEPT !.stop = TRUE]
                ELSE [v EXCEPT !.path =
                        e.src \o SubSeq(w.path, Len(e.path) + 1, Len(w.path))]
  IN walk[Len(j)]

(* meta_tree_enumerate_dir, enumerate_dir *)
EnumDir(f, j, d) ==
  LET w == EnumDirWalk(j, d)
      inTree == IF w.stop THEN {}
                ELSE {ChildOf(p, w.path) : p \in {q \in DOMAIN f : Below(q, w.path)}}
  IN w.exists \cup (inTree \ w.deleted)

-----------------------------------------------------------------------------
(* The operations of the store.                                            *)

Add(e) ==
  /\ Len(journal) < MaxJournal /\ written < MaxEntries
  /\ written' = written + 1
  /\ journal' = Append(journal, e)
  /\ UNCHANGED tree

MetaTreeSet(p, k, v) == Add([op |-> "set", path |-> p, key |-> k, val |-> v])
MetaTreeUnset(p, k) == Add([op |-> "unset", path |-> p, key |-> k])
MetaTreeRemove(p) == Add([op |-> "remove", path |-> p])
MetaTreeCopy(p, q) == Add([op |-> "copy", path |-> q, src |-> p])

(* meta_tree_flush: a new tree with an empty journal *)
MetaTreeFlush ==
  /\ journal # <<>>
  /\ tree' = ApplyJournalToBuilder(tree, journal)
  /\ journal' = <<>>
  /\ UNCHANGED written

Init == tree = [p \in {<<>>} |-> NoKeys] /\ journal = <<>> /\ written = 0

(* The root of a volume is neither removed nor copied, and a file never    *)
(* moved into or over a directory it is in: file systems refuse both.      *)
Movable(p, q) == p # <<>> /\ q # <<>> /\ ~IsPrefix(p, q) /\ ~IsPrefix(q, p)

Next ==
  \/ \E p \in Paths, k \in Keys : MetaTreeUnset(p, k)
  \/ \E p \in Paths, k \in Keys, v \in Values : MetaTreeSet(p, k, v)
  \/ \E p \in Paths \ {<<>>} : MetaTreeRemove(p)
  \/ \E p, q \in Paths : Movable(p, q) /\ MetaTreeCopy(p, q)
  \/ MetaTreeFlush

Spec == Init /\ [][Next]_vars

-----------------------------------------------------------------------------
Flushed == ApplyJournalToBuilder(tree, journal)

(* The trees on disk and after a flush hold the root, and with every file  *)
(* its parents; the journal holds what fits.                               *)
TypeOK ==
  /\ \A f \in {tree, Flushed} :
       /\ <<>> \in DOMAIN f
       /\ \A p \in DOMAIN f : /\ p \in Seq(Names)
                             /\ p # <<>> => Front(p) \in DOMAIN f
                             /\ f[p] \in [Keys -> Values \cup {Unset}]
  /\ Len(journal) <= MaxJournal /\ written \in 0 .. MaxEntries

(* A flush changes no answer: what a lookup reads through the journal is   *)
(* what it reads from the tree the journal would be folded into            *)
(* (metatree.c:1452).                                                      *)
LookupMatchesFlush ==
  \A p \in Paths, k \in Keys : LookupKey(tree, journal, p, k) = At(Flushed, p, k)

(* The same of the list of a file's keys (metatree.c:2130).                *)
KeysMatchFlush ==
  \A p \in Paths : EnumKeys(tree, journal, p) = [k \in Keys |-> At(Flushed, p, k)]

(* Listing a directory through the journal misses no child (it may show    *)
(* one without metadata, for which an entry was written to no effect)      *)
(* (metatree.c:1886).                                                      *)
DirMissesNothing ==
  \A d \in Paths : \A p \in DOMAIN Flushed :
    Below(p, d) => ChildOf(p, d) \in EnumDir(tree, journal, d)
=============================================================================
