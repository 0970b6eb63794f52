----------------------------- MODULE AfpBrowse ------------------------------
(***************************************************************************)
(* The backend that shows the volumes of an AFP server                     *)
(* (daemon/gvfsbackendafpbrowse.c).  Every job asks the server for its     *)
(* volumes again and answers from the list that came last, so that several *)
(* jobs share one cache while their commands are under way.  Volumes come  *)
(* and go at the server, and are mounted and unmounted meanwhile.          *)
(***************************************************************************)
EXTENDS Naturals, Sequences, FiniteSets

CONSTANTS Jobs, Volumes, MaxChanges, MaxFaults
AfpBrowseAssumption == MaxChanges \in Nat /\ MaxFaults \in Nat /\ IsFiniteSet(Jobs) /\ IsFiniteSet(Volumes)

VARIABLES
    listed,    \* the server's volumes
    mounts,    \* the volumes the mount tracker knows as mounted
    cache,     \* afp_backend->volumes
    job,       \* each job: its kind, the name it is about, its state and answer
    wire,      \* FPGetSrvrParms commands, in the order sent
    replies,   \* replies on their way, in order: the volumes, or an error
    changes, faults,
    seen       \* ghost: for each job the lists the server has had since it began
vars == <<listed, mounts, cache, job, wire, replies, changes, faults, seen>>

Kinds == {"enumerate", "info", "mount"}
Root == "/"
NoJob == [kind |-> "none", name |-> Root, st |-> "new", ans |-> "none", infos |-> {}]
Init == /\ listed = Volumes /\ mounts = {} /\ cache = {} /\ job = [j \in Jobs |-> NoJob] /\ wire = <<>> /\ replies = <<>>
        /\ changes = 0 /\ faults = 0 /\ seen = [j \in Jobs |-> {}]

\* The server and the mount tracker change by themselves.
Change ==
    /\ changes < MaxChanges /\ changes' = changes + 1 /\ UNCHANGED <<cache, job, wire, replies, faults>>
    /\ \E v \in Volumes : \/ /\ listed' = IF v \in listed THEN listed \ {v} ELSE listed \cup {v}
                             /\ seen' = [j \in Jobs |-> IF job[j].st = "waits" THEN seen[j] \cup {listed'} ELSE seen[j]]
                             /\ UNCHANGED mounts
                          \/ /\ mounts' = IF v \in mounts THEN mounts \ {v} ELSE mounts \cup {v}
                             /\ UNCHANGED <<listed, seen>>

Answered(j, a, i) == job' = [job EXCEPT ![j].st = "done", ![j].ans = a, ![j].infos = i]
\* update_cache, g_vfs_afp_server_get_volumes
UpdateCache(j, k, n) ==
    /\ job' = [job EXCEPT ![j] = [NoJob EXCEPT !.kind = k, !.name = n, !.st = "waits"]]
    /\ wire' = Append(wire, j) /\ seen' = [seen EXCEPT ![j] = {listed}]
\* try_enumerate: only the root has children
TryEnumerate(j, n) ==
    /\ job[j].st = "new"
    /\ IF n # Root THEN Answered(j, "not found", {}) /\ UNCHANGED <<wire, seen>> ELSE UpdateCache(j, "enumerate", n)
    /\ UNCHANGED <<listed, mounts, cache, replies, changes, faults>>
\* try_query_info: the root is known without asking
TryQueryInfo(j, n) ==
    /\ job[j].st = "new"
    /\ IF n = Root THEN Answered(j, "ok", {}) /\ UNCHANGED <<wire, seen>> ELSE UpdateCache(j, "info", n)
    /\ UNCHANGED <<listed, mounts, cache, replies, changes, faults>>
\* try_mount_mountable
TryMountMountable(j, n) ==
    /\ job[j].st = "new"
    /\ IF n = Root THEN Answered(j, "not mountable", {}) /\ UNCHANGED <<wire, seen>> ELSE UpdateCache(j, "mount", n)
    /\ UNCHANGED <<listed, mounts, cache, replies, changes, faults>>

\* The server takes a command and replies with its volumes, or with an error.
Serve ==
    /\ wire # <<>> /\ wire' = Tail(wire)
    /\ \/ replies' = Append(replies, [j |-> Head(wire), ok |-> TRUE, vols |-> listed]) /\ UNCHANGED faults
       \/ /\ faults < MaxFaults /\ faults' = faults + 1
          /\ replies' = Append(replies, [j |-> Head(wire), ok |-> FALSE, vols |-> {}])
    /\ UNCHANGED <<listed, mounts, cache, job, changes, seen>>

\* fill_info: a volume that is mounted cannot be mounted
FillInfo(v, m) == [name |-> v, can |-> v \notin m]
\* find_volume
FindVolume(vols, n) == n \in vols
\* mount_mountable_cb, query_info_cb, enumerate_cache_updated_cb: they run as
\* soon as the cache is updated
JobAnswer(j, vols) ==
    CASE job[j].kind = "enumerate" -> Answered(j, "ok", {FillInfo(v, mounts) : v \in vols})
      [] job[j].kind = "info" -> IF FindVolume(vols, job[j].name) THEN Answered(j, "ok", {FillInfo(job[j].name, mounts)})
                                 ELSE Answered(j, "not found", {})
      [] job[j].kind = "mount" -> IF FindVolume(vols, job[j].name) THEN Answered(j, "ok", {}) ELSE Answered(j, "not found", {})
\* get_volumes_cb of the server and of the backend: an error leaves the cache
GetVolumesCb_ErrorForgets ==
    /\ replies # <<>> /\ replies' = Tail(replies)
    /\ IF ~Head(replies).ok THEN UNCHANGED <<job, cache>>
       ELSE /\ cache' = Head(replies).vols
            /\ JobAnswer(Head(replies).j, cache')
    /\ UNCHANGED <<listed, mounts, wire, changes, faults, seen>>

GetVolumesCb ==
    /\ replies # <<>> /\ replies' = Tail(replies)
    /\ IF ~Head(replies).ok THEN Answered(Head(replies).j, "failed", {}) /\ UNCHANGED cache
       ELSE /\ cache' = Head(replies).vols
            /\ JobAnswer(Head(replies).j, cache')
    /\ UNCHANGED <<listed, mounts, wire, changes, faults, seen>>

Next == \/ Change \/ Serve \/ GetVolumesCb
        \/ \E j \in Jobs, n \in Volumes \cup {Root} : TryEnumerate(j, n) \/ TryQueryInfo(j, n) \/ TryMountMountable(j, n)
Spec == Init /\ [][Next]_vars
-----------------------------------------------------------------------------
TypeOK == /\ listed \subseteq Volumes /\ mounts \subseteq Volumes /\ cache \subseteq Volumes
          /\ \A j \in Jobs : /\ job[j].kind \in Kinds \cup {"none"} /\ job[j].st \in {"new", "waits", "done"}
                             /\ job[j].ans \in {"none", "ok", "not found", "not mountable", "failed"}
                             /\ job[j].infos \subseteq [name : Volumes, can : BOOLEAN]

\* What a job reports was so at some moment while it was under way, whatever the
\* replies to other jobs did to the cache they share: a listing is a list the
\* server had, a volume found was listed, and one not found was not.
AnswersTrue ==
    \A j \in Jobs : job[j].st = "done" /\ job[j].kind # "none" =>
        CASE job[j].ans = "failed" -> TRUE
          [] job[j].kind = "enumerate" -> {i.name : i \in job[j].infos} \in seen[j]
          [] job[j].ans = "ok" -> \E l \in seen[j] : job[j].name \in l
          [] OTHER -> \E l \in seen[j] : job[j].name \notin l

\* Every job is owed exactly one reply: it waits while its command or the reply
\* is on the way, and no longer.
OneReplyEach ==
    \A j \in Jobs : Cardinality({i \in DOMAIN wire : wire[i] = j}) + Cardinality({i \in DOMAIN replies : replies[i].j = j})
                    = IF job[j].st = "waits" THEN 1 ELSE 0

\* What a listing says about mounting was true when it was made: between an
\* answer and the next change no volume is both mounted and offered.
OffersTrue == \A j \in Jobs : job'[j].st = "done" /\ job[j].st # "done" =>
                    \A i \in job'[j].infos : i.can <=> i.name \notin mounts
=============================================================================
